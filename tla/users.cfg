SPECIFICATION Spec
CONSTANTS
    user = user
    n = n
    Handlers = {h1, h2}
    Names = {user, n}
    Seeded <- MCSeeded
    MaxRequests = 3
    MaxFaults = 1
    None = None
SYMMETRY HandlerSymmetry
INVARIANTS TypeOK AnsweredKept DanglingExplained NoOrphan
PROPERTY NeverRevived

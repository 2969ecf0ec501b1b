SPECIFICATION Spec
CONSTANTS
    b1 = b1
    b2 = b2
    i1 = i1
    i2 = i2
    Browsers = {b1, b2}
    Sessions = {s1, s2, s3}
    Customers = {c1, c2}
    Registered = {c1}
    Wants <- MCWants
    NoItem = NoItem
    Undefined = Undefined
    Handlers = {h1, h2}
    MaxRequests = 4
    MaxFaults = 1
    None = None
SYMMETRY FrontEndSymmetry
INVARIANTS TypeOK CookieMeansCustomer OwnCart StrandedExplained

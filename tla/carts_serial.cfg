SPECIFICATION Spec
CONSTANTS
    Workers = {w1}
    Customers = {c, s}
    Sessions = {s}
    Items = {i, j}
    Quantities = {3}
    Ops = {"add", "remove", "update", "delete", "merge"}
    Serial = TRUE
    MaxRequests = 4
    MaxAborts = 1
    MaxLag = 0
    None = None
INVARIANTS TypeOK OneCart NoDanglingRef ItemsNotShared OneLinePerItem
PROPERTY PromiseKept

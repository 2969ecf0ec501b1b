SPECIFICATION Spec
CONSTANTS
    Workers = {w1}
    Customers = {c}
    Sessions = {}
    Items = {i}
    Quantities = {3}
    Ops = {"get", "getItem", "add", "remove", "update", "delete"}
    Serial = TRUE
    MaxRequests = 3
    MaxAborts = 0
    MaxLag = 1
    None = None
INVARIANT OneLinePerItem

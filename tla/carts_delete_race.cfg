SPECIFICATION Spec
CONSTANTS
    Workers = {w1, w2}
    Customers = {c}
    Sessions = {}
    Items = {i}
    Quantities = {3}
    Ops = {"get", "getItem", "add", "remove", "update", "delete"}
    Serial = FALSE
    MaxRequests = 3
    MaxAborts = 0
    MaxLag = 0
    None = None
PROPERTY DeleteLeavesNoCart

SPECIFICATION FairSpec
CONSTANTS
    Workers = {w1, w2}
    Customers = {c}
    Sessions = {}
    Items = {i}
    Quantities = {3}
    Ops = {"get", "getItem", "add", "remove", "delete"}
    Serial = FALSE
    MaxRequests = 3
    MaxAborts = 0
    MaxLag = 1
    None = None
INVARIANT CartBound
PROPERTY Answered

SPECIFICATION Spec
CONSTANTS
    Requests = {q1, q2}
    Browsers = {b1}
    Served <- MCServed
    MaxRequests = 2
INVARIANTS TypeOK HealthyStaysUp 
PROPERTY Answered

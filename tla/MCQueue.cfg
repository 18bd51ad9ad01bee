SPECIFICATION Spec
CONSTANTS
    Producers = {p1, p2}
    Workers = {w1}
    Jobs = {"a", "b"}
    Scopes <- AllOrOne
    Faults = {"crash", "timeout", "token", "suspend"}
    MaxFaults = 1
    MaxAttempts = 2
    MaxRequests = 2
INVARIANTS TypeOK Exclusive AttemptsAreCounted
PROPERTIES KeepsPromise JobsGetDone

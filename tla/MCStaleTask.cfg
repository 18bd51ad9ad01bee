SPECIFICATION Spec
CONSTANTS
    Callers = {c1}
    Workers = {w1}
    Branches = {"a", "b"}
    FirstBranch = "b"
    Waits <- TwoLanes
    Faults = {}
    MaxFaults = 0
    MaxOrders = 1
PROPERTIES CancelledIsFinal
CHECK_DEADLOCK FALSE

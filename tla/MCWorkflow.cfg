SPECIFICATION Spec
CONSTANTS
    Callers = {c1, c2}
    Workers = {w1}
    Branches = {"a", "b"}
    FirstBranch = "b"
    Waits <- TwoLanes
    Faults = {"crash", "rollback", "rejected", "branch_fails"}
    MaxFaults = 1
    MaxOrders = 1
INVARIANTS TypeOK WaitsHonoured JoinedOnce FailureStopsBranches AnsweredOnce NoLostWork
PROPERTIES CompletedIsFinal ComesToRest
CHECK_DEADLOCK FALSE

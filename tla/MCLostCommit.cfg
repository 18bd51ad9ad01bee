SPECIFICATION FairSpec
CONSTANTS
    Requests = {r1, r2}
    None = None
    Prepared = TRUE
    Switching = FALSE
    Faults = {"in_lock"}
    MaxFaults = 1
    MaxSessions = 1
PROPERTIES PurchaseIsProcessed

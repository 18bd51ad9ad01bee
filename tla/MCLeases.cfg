SPECIFICATION Spec
CONSTANTS
    Ops = {"cap", "over", "ref", "cxl"}
    Kind <- EveryKind
    Amount <- WholeAndExcess
    Workers = {w1, w2}
    Keys = {}
    Authorized = 2
    LeaseCovers = FALSE
    Failures = "lost_reply"
    ExactProvider = FALSE
    OutsideCapture = TRUE
    MaxAttempts = 3
SYMMETRY WorkerSymmetry
INVARIANT TypeOK
PROPERTY SucceededIsFinal

SPECIFICATION Spec
CONSTANTS
    Callers = {c1}
    Workers = {w1}
    Rounds = 2
    Activities <- PairThenPair
    MaxAttempts <- AlwaysOnce
    Faults = {}
    MaxFaults = 0
    MaxRepeats = 0
PROPERTIES ResumedWhenDone
CHECK_DEADLOCK FALSE

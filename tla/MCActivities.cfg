SPECIFICATION Spec
CONSTANTS
    Callers = {c1, c2}
    Workers = {w1, w2}
    Rounds = 2
    Activities <- TwoRounds
    MaxAttempts <- Policy
    Faults = {"fails", "crash", "park_fails", "resume_fails"}
    MaxFaults = 3
    MaxRepeats = 1
INVARIANTS TypeOK RoundsNotSkipped FirstRoundComplete NoLostWakeup
PROPERTIES NoRoundOverFailure ComesToRest
CHECK_DEADLOCK FALSE

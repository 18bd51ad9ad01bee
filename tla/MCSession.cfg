SPECIFICATION FairSpec
CONSTANTS
    Callers = {c1, c2}
    MaxFaults = 3
    MaxPrunes = 1
INVARIANTS TypeOK OneTransactionPerRow LastClaimWins SingleFlight
PROPERTIES EveryCallReturns KeepsPromise

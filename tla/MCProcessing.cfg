SPECIFICATION FairSpec
CONSTANTS
    Requests = {r1, r2}
    None = None
    Prepared = TRUE
    Switching = FALSE
    Faults = {"after_commit", "activation", "save", "mail", "mail_answer", "execution"}
    MaxFaults = 2
    MaxSessions = 1
INVARIANT RecordsAgree
PROPERTY PurchaseIsProcessed

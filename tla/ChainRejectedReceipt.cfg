CONSTANTS
    Task = {t1}
    SelfAssigned = {t1}
    Worker = {cron}
    Cron = cron
    NoTask = NoTask
    MaxRows = 3
    MaxHashes = 2
SPECIFICATION Spec
INVARIANTS
    RejectedReceiptCanRetry
CHECK_DEADLOCK FALSE

CONSTANTS
    Task = {t1}
    SelfAssigned = {}
    Worker = {cron}
    Cron = cron
    NoTask = NoTask
    MaxRows = 2
    MaxHashes = 2
SPECIFICATION FairSpec
PROPERTIES
    MinedReceiptShown
CHECK_DEADLOCK FALSE

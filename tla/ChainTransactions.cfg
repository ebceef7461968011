CONSTANTS
    Task = {t1}
    SelfAssigned = {t1}
    Worker = {cron, api}
    Cron = cron
    NoTask = NoTask
    MaxRows = 3
    MaxHashes = 2
SPECIFICATION CronSpec
INVARIANTS
    TypeOK
    OneLiveTransaction
    SingleEscrow
    DatabaseFollowsChain
    EventsMatchConfirmed
    AwaitingExplained
PROPERTIES
    FinalIsFinal
    TaskAdvances
    MinedIsRecorded
CHECK_DEADLOCK FALSE

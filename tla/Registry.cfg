SPECIFICATION Spec
CONSTANTS
    Account = {eve, carl}
    Contracts = {carl}
    NoAccount = NoAccount
    TaskHash = {th}
    PolicyHash = {ph}
    EvidenceHash = {eh}
    CommitHash = {ch}
    ReasonHash = {rh}
    NoHash = NoHash
    RewardMax = 1
    MaxTasks = 2
    MaxTime = 3
    MaxSigned = 1
    MaxForced = 1
INVARIANTS
    Solvency
    LockedRewardsExact
    CreditsExact
    RewardPaidOnce
    ReceiptAttested
PROPERTIES
    TerminalIsFinal
    ImplementsLedger
    CommitmentsImmutable
CHECK_DEADLOCK FALSE

SPECIFICATION MCOracleSpec
CONSTANTS
    WordSize = 1024
    A = A
    B = B
    C = C
    Foci = {"arithmetic", "updates", "slashing", "sources", "signers", "votes", "settings", "history", "fallbacks", "requests"}
    PriceArgs = {1, 2, 100}
    SampleLength = 4
    OracleAdmin = A
    Voters <- Accounts
    SourceIds = {"s1", "s2", "s3"}
    ManualName = "manual"
    OracleProperties = {1, 2}
    Answers = {100, 110}
    AIPrice = 105
    MinUpdateInterval = 2
    Quorum = 2
    VotingPeriod = 1
    HistoryLimit = 2
    SnapshotLimit = 2
    BatchLimit = 3
    BatchFailures = 1
    ShortWindow = 1
    LongWindow = 2
    FirstParams <- MCParams
    WeightArgs = {0, 3, 1023}
    ValueArgs = {0, 100, 115, 1130}
    PowerArgs = {0, 2}
    ParamArgs = {5}
    SlashArgs <- MCSlashArgs
    PenaltyArgs <- MCPenaltyArgs
    RetentionArgs = {1}
    MaxProposals = 2
    MaxQueries = 2
    MaxBlock = 3
    Landlords = {A}
    Tenants = {B}
    Manager = C
    PMAdmin = A
    CompliantAccounts = {A, B}
    Buildings = {1, 2}
    Amounts = {0, 5}
    FeeRates = {3000, 10001}
    Deposits = {0, 9}
    PeriodsPerYear = 2
    DepositCaps = {5000}
    MaxCases = 2
    FeeAdmin = A
    FeeUsers = {A, B}
    Validators = {B, C}
    CongestionWindow = 2
    FeeWindow = 1
    FirstFeeArgs <- MCFirstFeeArgs
    FeeConfigArgs <- MCFeeConfigArgs
    RateConfigArgs <- MCRateConfigArgs
    ShareArgs = {5000, 3333}
    BidArgs = {1, 2}
    DurationArgs = {1, 2}
    CollectArgs = {1, 7}
    MaxAuctions = 2
    MaxCollected = 8
INVARIANTS
    OracleSound
PROPERTIES
    SourcesChangeByRight
    OracleActsWhenDue
CHECK_DEADLOCK FALSE

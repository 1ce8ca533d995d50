SPECIFICATION MCSpec
CONSTANTS
    A = A
    B = B
    Foci = {"sanctions", "consents", "audit", "versions", "syncs", "exports", "reporting", "watchers", "documents", "notary", "rights", "metadata", "attachments", "requests", "reports", "analysts", "portfolios", "dashboard"}
    MaxBlock = 3
    SanctionsAdmin = A
    SanctionCallers = {A, B}
    SanctionProperties = {1, 2}
    Jurisdictions = {"X", "Y"}
    FirstEntityLimit = 1
    EntityLimits = {2}
    MaxEntities = 2
    MaxScreenings = 2
    GdprAdmin = A
    Subjects = {A, B}
    Purposes = {"KYC", "Research", "Surveys"}
    OtherPurposes = {"Research", "Surveys"}
    ConsentDurations = {0, 1}
    RetentionPeriods = {30}
    MaxConsents = 2
    MaxDataRequests = 1
    Actors = {A, B}
    EventTypes = {"Transfer", "Admin"}
    Details = {1, 2}
    MaxRecords = 3
    RegistryAdmin = A
    Publishers = {A, B}
    ContractNames = {"oracle", "bridge"}
    CodeHashes = {"h1"}
    MaxVersion = 3
    DatabaseAdmin = A
    Nodes = {A, B}
    DataTypes = {"Properties", "Escrows"}
    Checksums = {"c1", "c2"}
    MaxSyncs = 2
    MaxExports = 1
    MonitoringAdmin = A
    MonitorAccounts = {A, B}
    MonitoredOperations = {"Stake", "Bridge"}
    Cooldown = 2
    RingSize = 2
    MaxSubscribers = 2
    ThresholdArgs = {0, 10001}
    MaxCalls = 3
    MaxSnapshots = 3
    IpfsAdmin = A
    IpfsUsers = {A, B}
    Lots = {1, 2}
    Cids <- SomeCids
    ContentHashes = {"h1", "h2"}
    FileSizes = {1, 2, 3}
    MimeTypes = {"pdf", "png"}
    Descriptions <- SomeDescriptions
    FirstRules <- DefaultRules
    RuleSets <- TightRules
    MaxDocuments = 3
    MetadataAdmin = A
    Editors = {A, B}
    Estates = {1, 2}
    EstateTypes = {"Land", "Retail"}
    Digests = {"m1", "m2"}
    FirstLimits <- DefaultLimits
    LimitSets <- OtherLimits
    MaxEdits = 2
    PartyAdmin = A
    Parties = {A, B}
    FeeArgs = {10000, 10001}
    KycLevels = {1, 2}
    ValidDays = {0, 1}
    DayBlocks = 1
    PaymentTokens = {1}
    MaxServices = 2
    MaxPartyRequests = 2
    FirstAnalyst = A
    Analysts = {A, B}
    AnalystCooldown = 1
    AnalystExpiry = 0
    Metrics <- SomeMetrics
    Trends <- SomeTrends
    BatchSize = 1
    Volumes = {0, 1, 2}
    Assets = {1, 2}
    PropertyTypes = {"Land", "Retail"}
    Changes <- SomeChanges
    Positions <- SomePositions
    MaxTrends = 2
    MaxVolume = 5
    DashboardStakers = {A, B}
    StakeSizes = {1, 2}
    RewardSizes = {2, 3}
    DashboardPrecision = 4
    LockPeriod = 1
    MaxDashboardStake = 4
    MaxRewards = 5
INVARIANTS
    RecordBooksAgree
    DashboardSolvent
PROPERTIES
    RecordsAreFinal
CHECK_DEADLOCK FALSE

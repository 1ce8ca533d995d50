SPECIFICATION MCSpec
CONSTANTS
    A = A
    B = B
    C = C
    T = T
    R1 = R1
    R2 = R2
    Tokens = {T}
    Deployer = A
    LocalChain = 1
    BlockTime = 150
    DayMs = 300
    HourMs = 300
    RotationCooldown = 1
    RotationExpiry = 1
    AuditLogLimit = 2
    Timeouts = {0, 1}
    MaxBlock = 4
    MaxEmergency = 2
    SignatureArgs = {1, 2}
    Valuations = {0, 2}
    Amounts = {0, 2}
    BitmapSlots = 2
    MaxRequests = 3
    MaxTransactions = 4
    MaxTrades = 2
    Accounts <- MCAccounts
    Chains <- MCChains
    InitialConfig <- MCInitialConfig
    AdminConfigs <- MCAdminConfigs
    InitialSuspicious <- MCInitialSuspicious
    SuspiciousConfigs <- MCSuspiciousConfigs
    FlagArgs <- MCFlagArgs
    ReasonArgs <- MCReasonArgs
    Routes <- MCRoutes
    RelayerHashes <- MCRelayerHashes
    BatchArgs <- MCBatchArgs
    ChainInfoArgs <- MCChainInfoArgs
    InitialChainInfo <- MCInitialChainInfo
    Roots <- MCRoots
CHECK_DEADLOCK FALSE
INVARIANTS
    BridgeBooksAgree
    BitmapSound
    TrackerFollowsRequest
    LockedHasQuorum
    HistoryFollowsRoute
    OverallStatusDerived
    AuditTailMatchesFlags
PROPERTIES
    OnlyAdminLifts
    AdminRotatesByConsent
    FreezeTakesAQuorum

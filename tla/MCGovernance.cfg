SPECIFICATION MCSpec
CONSTANTS
    A = A
    B = B
    C = C
    ProxyAdmin = A
    Callers = {A, B}
    Implementations = {B, C}
    UpgradeDelayArgs = {0, 2}
    DefaultDelay = 1
    MaxBlock = 4
    ThresholdArgs = {0, 1, 2}
    TimelockBlocks = 1
    MinSigners = 2
    MaxSigners = 3
    MaxActive = 1
    RotationCooldown = 1
    RotationExpiry = 1
    MaxProposals = 2
    Accounts <- MCAccounts
    SignerArgs <- MCSignerArgs
INVARIANTS
    GovernanceBooksAgree
    ApprovalBacked
PROPERTIES
    VotesAndDecisionsAreFinal
    ChangesAreAnnounced
CHECK_DEADLOCK FALSE

SPECIFICATION MCSpec
CONSTANTS
    A = A
    B = B
    C = C
    R = R
    Foci = {"titles", "batches", "escrows", "badges", "links", "vetting", "verification", "checks", "taxes", "batchChecks", "tokens", "reporting", "reputation", "recovery", "deletion", "kyc"}
    Accounts <- MCAccounts
    Clients <- MCAccounts
    Persons <- MCPersons
    FirstAdmin = A
    RegistryAccount = R
    ComplianceOwner = A
    IdentityAdmin = A
    MinReputation = 500
    BreakerCooldown = 2
    ValuationArgs = {0, 5}
    DurationArgs <- MCDurationArgs
    ThresholdArgs = {0, 505}
    CooldownArgs = {0, 1}
    BadgeTypes = {"Premium"}
    MaxProperties = 2
    MaxEscrows = 2
    MaxReviews = 2
    Jurisdictions <- MCJurisdictions
    DefaultRules <- MCDefaultRules
    DefaultOperations <- MCDefaultOperations
    Validity = 2
    FirstScreeningTtl = 1
    RulesArgs <- MCRulesArgs
    ProofArgs <- MCProofArgs
    RiskScoreArgs = {10, 90}
    TtlArgs = {2}
    TaxArgs <- MCTaxArgs
    OperationArgs <- MCOperationArgs
    ComplianceTokens = {"t1", "t2"}
    MaxRequests = 3
    FirstChains = {"Ethereum"}
    Tiers = {1, 4}
    TierLimit <- MCTierLimit
    DeletionCooldown = 2
    ReputationArgs = {1500}
    IdentityValueArgs = {5}
    GuardianArgs <- MCGuardianArgs
    ChainIds = {"Ethereum", "Polkadot"}
    MaxTransactions = 1
    MaxKycRequests = 2
    MaxBlock = 4
INVARIANTS
    RegistriesSound
    StandingIsEarned
PROPERTIES
    TitlesMoveByRight
    IdentitiesMoveByRight
CHECK_DEADLOCK FALSE

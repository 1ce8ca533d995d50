SPECIFICATION MCSpec
CONSTANTS
    A = A
    B = B
    C = C
    WordSize = 4
    LendingAdmin = A
    RotationCooldown = 1
    RotationExpiry = 1
    Properties = {0, 1, 2}
    ValueArgs = {0, 10, 15}
    TermArgs = {1, 2}
    RateArgs = {0, 1, 2}
    MonthBlocks = 3
    ScheduleScale = 20
    InterestScale = 15
    MinScore = 600
    MaxLtv = 7500
    BaseScore = 500
    RepaymentBonus = 110
    MaxBonus = 300
    DefaultPenalty = 150
    MaxDefaultPenalty = 450
    LoanPenalty = 10
    MaxLoanPenalty = 100
    MaxLoans = 2
    MaxOffers = 2
    MaxRecords = 2
    MaxPools = 2
    MaxDeposits = 20
    MaxBlock = 4
    CampaignAdmin = A
    PaymentArgs = {0, 10, 15}
    ShareUnit = 5
    MaxCampaigns = 2
    MaxMilestones = 2
    MaxRaised = 30
    MaxInvestors = 3
    Creator = A
    Tokens = {1}
    FractionalCooldown = 1
    FractionalExpiry = 1
    AmountArgs = {1, 2, 4}
    DurationArgs = {2}
    MaxShares = 8
    MaxAuctions = 2
    InsuranceAdmin = A
    InsuranceCooldown = 1
    InsuranceExpiry = 1
    Houses = {1, 2}
    CoverageTypes = {"Fire", "Flood"}
    PremiumScale = 40000000
    Epoch = 10
    FirstClaimCooldown = 1
    FirstWindow = 2
    FirstFee = 200
    MaxFee = 1000
    MoneyArgs = {0, 10, 20}
    SpanArgs = {0, 2}
    Thresholds = {4}
    Readings = {3, 4, 12}
    ReadingSpan = 16
    Metrics = {"depth", "speed"}
    MaxRiskPools = 2
    MaxPolicies = 2
    MaxClaims = 2
    MaxTriggers = 2
    MaxCessions = 2
    MaxCapital = 40
    Insured <- MCAccounts
    TypeRate <- MCTypeRate
    TypeMultiplier <- MCTypeMultiplier
    ScoreArgs <- MCScoreArgs
    ExposureArgs <- MCExposureArgs
    BreakerArgs <- MCBreakerArgs
    TreatyArgs <- MCTreatyArgs
    PayoutArgs <- MCPayoutArgs
    Investors <- MCAccounts
    Holders <- MCAccounts
    RiskArgs <- MCRiskArgs
    Accounts <- MCAccounts
    RatioArgs <- MCRatioArgs
    ScheduleArgs <- MCScheduleArgs
INVARIANTS
    LoansAreOriginatedAndChargedOnce
    ShareBooksAgree
    PolicyBooksAgree
PROPERTIES
    TermsByConsent
    LiquidityNotDiluted
CHECK_DEADLOCK FALSE

SPECIFICATION MCSpec
CONSTANTS
    A = A
    B = B
    C = C
    StakingAdmin = A
    AmountArgs = {5, 10}
    LockArgs = {0, 1}
    RateArgs = {1, 2}
    PenaltyArgs = {2000, 5000, 6000}
    CommissionArgs = {0, 5000, 10001}
    InitialMinStake = 5
    InitialRate = 1
    InitialVotingPeriod = 1
    InitialQuorum = 5000
    InitialPenalty = 2000
    MaxPenalty = 5000
    RatePrecision = 5
    YearBlocks = 2
    Unit = 100
    RewardPrecision = 4
    MinValidatorStake = 8
    UnbondingPeriod = 1
    MaxActiveProposals = 1
    MaxPool = 20
    MaxParamProposals = 2
    MaxBlock = 3
    Stakers <- MCStakers
    VestingArgs <- MCVestingArgs
    TierBounds <- MCTierBounds
    ParamArgs <- MCParamArgs
INVARIANTS
    StakingBooksAgree
    DelegationsTracked
    RewardsWereFunded
CHECK_DEADLOCK FALSE

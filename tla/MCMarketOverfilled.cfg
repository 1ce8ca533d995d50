SPECIFICATION MCSpec
CONSTANTS
    A = A
    B = B
    C = C
    Land = Land
    Coin = Coin
    MaxBlock = 4
    Bips = 20
    RewardPrecision = 6
    FeeLimit = 4
    Traders <- MCAccounts
    DexAdmin = A
    DexTokens <- MCTokens
    Destinations = {1, 2}
    GovernanceSupply = 3
    EmissionRate = 0
    SwapRewardScale = 4
    FeeArgs = {0, 1, 5}
    DepositArgs = {0, 1, 2}
    OrderPriceArgs = {0, 15, 25}
    EmissionArgs = {0, 2, 5}
    DelayArgs = {0, 1, 2}
    VolumeArgs = {2}
    PrizeArgs = {5}
    MaxReserve = 18
    MaxGovSupply = 24
    MaxScore = 4
    MaxSwaps = 5
    MaxPairs = 1
    MaxOrders = 2
    MaxTrades = 2
    MaxFeeProposals = 1
    MaxContests = 2
    MaxAdminActions = 2
    Forecasters <- MCAccounts
    ForecastAdmin = A
    ForecastFee = 1000
    TargetArgs = {1, 2}
    StakeArgs = {1, 2}
    MaxForecasts = 2
    MaxPurse = 5
INVARIANTS
    OrdersFillWithinAmount
CHECK_DEADLOCK FALSE

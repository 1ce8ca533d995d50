---- MODULE Analytics ----
(***************************************************************************)
(* The analytics dashboard: metrics and trends the admin reports, sentiment *)
(* summed over all reports, portfolios with suggestions and a health score, *)
(* the rotation of the admin; and the staking dashboard's rewards, which    *)
(* are shared out by an accumulator per staked token.                       *)
(***************************************************************************)
EXTENDS BlockClock, SequencesExt, FiniteSetsExt

CONSTANTS
    FirstAnalyst, Analysts,                \* the first admin, and all callers
    AnalystCooldown, AnalystExpiry,        \* KEY_ROTATION_COOLDOWN_BLOCKS, KEY_ROTATION_EXPIRY_BLOCKS
    Metrics, Trends, BatchSize,            \* MAX_BATCH_SIZE
    Volumes, Assets, PropertyTypes, Changes, Positions, MaxTrends, MaxVolume,
    DashboardStakers, StakeSizes, RewardSizes, DashboardPrecision, LockPeriod,
    MaxDashboardStake, MaxRewards          \* bounds

VARIABLES
    analyst, analystRotation,
    currentMetrics, historicalTrends,      \* trend_count is the length
    sentiments, overallSentiment,
    portfolio, typeTrends, benchmarks,
    stakerRecords, dashboardStaked, dashboardStakers, rewardsDistributed, unclaimedRewards, rewardPerToken

marketVarsOfAnalytics == <<currentMetrics, historicalTrends, sentiments, overallSentiment>>
portfolioVars == <<portfolio, typeTrends, benchmarks>>
rotationVars == <<analyst, analystRotation>>
analyticsVars == <<rotationVars, marketVarsOfAnalytics, portfolioVars>>
dashboardVars == <<stakerRecords, dashboardStaked, dashboardStakers, rewardsDistributed, unclaimedRewards, rewardPerToken>>

ASSUME AnalyticsConstants ==
    /\ FirstAnalyst \in Analysts /\ BatchSize \in Nat /\ Volumes \subseteq Nat /\ Changes \subseteq Int
    /\ StakeSizes \cup RewardSizes \subseteq Nat /\ DashboardPrecision \in Nat \ {0} /\ LockPeriod \in Nat
    /\ IsFiniteSet(DashboardStakers)

AnalystRotation == INSTANCE AdminRotation WITH
    Accounts <- Analysts, RotationCooldown <- AnalystCooldown, RotationExpiry <- AnalystExpiry,
    admin <- analyst, rotation <- analystRotation

----
\* Metrics, trends and sentiment

BipsOfWhole == 10000
MarketTrend == [price : Int, volume : Int]
NoTrend == [price |-> 0, volume |-> 0]
Sentiment(bull, bear) ==
    [bull |-> bull, bear |-> bear, ratio |-> IF bull + bear = 0 THEN BipsOfWhole \div 2 ELSE (bull * BipsOfWhole) \div (bull + bear)]

AnalyticsInit ==
    /\ analyst = FirstAnalyst /\ analystRotation = {}
    /\ currentMetrics = [price |-> 0, volume |-> 0, listed |-> 0] /\ historicalTrends = << >>
    /\ sentiments = << >> /\ overallSentiment = Sentiment(0, 0)
    /\ portfolio = [a \in Analysts |-> << >>]
    /\ typeTrends = [t \in PropertyTypes |-> NoTrend] /\ benchmarks = [t \in PropertyTypes |-> 0]

\* A batch sets the metrics one after another; the last of them stays. A single update,
\* or a single trend, is a batch of one.
BatchUpdateMetrics(caller, updates) ==
    /\ caller = analyst /\ Len(updates) <= BatchSize
    /\ currentMetrics' = IF updates = << >> THEN currentMetrics ELSE updates[Len(updates)]
    /\ UNCHANGED <<rotationVars, portfolioVars, historicalTrends, sentiments, overallSentiment>>

BatchAddTrends(caller, trends) ==
    /\ caller = analyst /\ Len(trends) <= BatchSize
    /\ historicalTrends' = historicalTrends \o trends
    /\ UNCHANGED <<rotationVars, portfolioVars, currentMetrics, sentiments, overallSentiment>>

ReportedTrend == IF historicalTrends = << >> THEN NoTrend ELSE Last(historicalTrends)

\* Each report adds to the overall volumes, also one that replaces an earlier one of the
\* same property.
UpdateMarketSentiment(caller, property, bull, bear) ==
    /\ caller = analyst
    /\ sentiments' = [p \in DOMAIN sentiments \cup {property} |-> IF p = property THEN Sentiment(bull, bear) ELSE sentiments[p]]
    /\ LET total == Sentiment(overallSentiment.bull + bull, overallSentiment.bear + bear) IN
       overallSentiment' = IF total.bull + total.bear = 0 THEN [total EXCEPT !.ratio = overallSentiment.ratio] ELSE total
    /\ UNCHANGED <<rotationVars, portfolioVars, currentMetrics, historicalTrends>>

----
\* Portfolios: a position is a type of property and a value

SetPortfolioPositions(caller, owner, positions) ==
    /\ caller = analyst /\ portfolio' = [portfolio EXCEPT ![owner] = positions]
    /\ UNCHANGED <<rotationVars, marketVarsOfAnalytics, typeTrends, benchmarks>>

UpdatePropertyTypeTrend(caller, type, trend) ==
    /\ caller = analyst /\ typeTrends' = [typeTrends EXCEPT ![type] = trend]
    /\ UNCHANGED <<rotationVars, marketVarsOfAnalytics, portfolio, benchmarks>>

UpdateBenchmarkIndex(caller, type, change) ==
    /\ caller = analyst /\ benchmarks' = [benchmarks EXCEPT ![type] = change]
    /\ UNCHANGED <<rotationVars, marketVarsOfAnalytics, portfolio, typeTrends>>

\* Division of signed integers rounds towards zero.
Truncated(a, b) == IF a < 0 THEN -((-a) \div b) ELSE a \div b
Magnitude(a) == IF a < 0 THEN -a ELSE a
Between(low, a, high) == IF a < low THEN low ELSE IF a > high THEN high ELSE a

Worth(positions) == FoldFunction(+, 0, [i \in DOMAIN positions |-> positions[i].value])
ShareBips(positions, value) == (value * BipsOfWhole) \div Worth(positions)

TargetScore(type) ==
    LET t == typeTrends[type]
        trend == 100 + t.price * 2 + Truncated(t.volume, 5)
        gap == (t.price - benchmarks[type]) * 3 + Truncated(t.volume, 2)
    IN  Between(50, trend - gap, 150)

Advice(type, difference) ==
    CASE difference > 200 -> "reduce"
      [] difference < -200 -> "increase"
      [] OTHER -> IF Magnitude(typeTrends[type].price - benchmarks[type]) > 4 THEN "rebalance" ELSE "aligned"

\* One suggestion per position; the current share is the one of the first position of its
\* type.
RebalancingSuggestions(owner) ==
    LET positions == portfolio[owner]
        scores == [i \in DOMAIN positions |-> TargetScore(positions[i].type)]
        total == FoldFunction(+, 0, scores)
    IN  IF Worth(positions) = 0 THEN << >>
        ELSE [i \in DOMAIN positions |->
                 LET first == CHOOSE j \in 1..i : positions[j].type = positions[i].type
                                                  /\ \A k \in 1..(j - 1) : positions[k].type # positions[i].type
                     current == ShareBips(positions, positions[first].value)
                     target == (scores[i] * BipsOfWhole) \div total
                 IN  [type |-> positions[i].type, current |-> current, target |-> target,
                      advice |-> Advice(positions[i].type, current - target)]]

PortfolioHealthScore(owner) ==
    LET positions == portfolio[owner]
        types == {positions[i].type : i \in DOMAIN positions}
        trendOf(i) == typeTrends[positions[i].type].price
        trends == FoldFunction(+, 0, [i \in DOMAIN positions |-> trendOf(i)])
        lag(i) == Between(0, Magnitude(trendOf(i) - benchmarks[positions[i].type]) \div 2, 15)
        lags == FoldFunction(+, 0, [i \in DOMAIN positions |-> lag(i)])
        largest == Max({ShareBips(positions, positions[i].value) : i \in DOMAIN positions})
        spread == Between(0, Cardinality(types) * 10, 40)
        concentration == IF largest > 4000 THEN (largest - 4000) \div 100 ELSE 0
    IN  IF Worth(positions) = 0 THEN 0
        ELSE Between(0, 50 + spread - concentration + Between(-10, Truncated(trends, Cardinality(types)), 10) - lags, 100)

----
\* The staking dashboard

NoStaker == [balance |-> 0, paid |-> 0, pending |-> 0, since |-> 0]

DashboardInit ==
    /\ stakerRecords = [s \in DashboardStakers |-> NoStaker]
    /\ dashboardStaked = 0 /\ dashboardStakers = 0
    /\ rewardsDistributed = 0 /\ unclaimedRewards = 0 /\ rewardPerToken = 0

LessOrNone(a, b) == IF a > b THEN a - b ELSE 0

ComputeEarned(r) == (r.balance * LessOrNone(rewardPerToken, r.paid)) \div DashboardPrecision + r.pending
Settled(r) == [r EXCEPT !.pending = ComputeEarned(r), !.paid = rewardPerToken]

\* Mutant: rewards are settled on the balance after the stake.
RecordStake_SettledLate(staker, amount) ==
    LET r == stakerRecords[staker] IN
    /\ amount # 0
    /\ stakerRecords' = [stakerRecords EXCEPT ![staker] = [Settled([r EXCEPT !.balance = @ + amount]) EXCEPT !.since = block]]
    /\ dashboardStaked' = dashboardStaked + amount
    /\ dashboardStakers' = IF r.balance = 0 THEN dashboardStakers + 1 ELSE dashboardStakers
    /\ UNCHANGED <<rewardsDistributed, unclaimedRewards, rewardPerToken>>

RecordStake(staker, amount) ==
    LET r == stakerRecords[staker] IN
    /\ amount # 0
    /\ stakerRecords' = [stakerRecords EXCEPT ![staker] = [Settled(r) EXCEPT !.balance = @ + amount, !.since = block]]
    /\ dashboardStaked' = dashboardStaked + amount
    /\ dashboardStakers' = IF r.balance = 0 THEN dashboardStakers + 1 ELSE dashboardStakers
    /\ UNCHANGED <<rewardsDistributed, unclaimedRewards, rewardPerToken>>

RecordUnstake(staker, amount) ==
    LET r == stakerRecords[staker] IN
    /\ amount # 0 /\ amount <= r.balance
    /\ block >= r.since + LockPeriod
    /\ stakerRecords' = [stakerRecords EXCEPT ![staker] = [Settled(r) EXCEPT !.balance = @ - amount]]
    /\ dashboardStaked' = LessOrNone(dashboardStaked, amount)
    /\ dashboardStakers' = IF r.balance = amount THEN LessOrNone(dashboardStakers, 1) ELSE dashboardStakers
    /\ UNCHANGED <<rewardsDistributed, unclaimedRewards, rewardPerToken>>

ClaimDashboardRewards(staker) ==
    LET claimable == ComputeEarned(stakerRecords[staker]) IN
    /\ claimable # 0
    /\ stakerRecords' = [stakerRecords EXCEPT ![staker] = [Settled(@) EXCEPT !.pending = 0]]
    /\ unclaimedRewards' = LessOrNone(unclaimedRewards, claimable)
    /\ UNCHANGED <<dashboardStaked, dashboardStakers, rewardsDistributed, rewardPerToken>>

\* Without any stake the amount is discarded.
DistributeReward(amount) ==
    /\ amount # 0 /\ dashboardStaked # 0
    /\ rewardPerToken' = rewardPerToken + (amount * DashboardPrecision) \div dashboardStaked
    /\ rewardsDistributed' = rewardsDistributed + amount
    /\ unclaimedRewards' = unclaimedRewards + amount
    /\ UNCHANGED <<stakerRecords, dashboardStaked, dashboardStakers>>

----

ReportsNext ==
    \E caller \in Analysts :
        \/ \E m \in SeqOf(Metrics, 2) : BatchUpdateMetrics(caller, m)
        \/ \E t \in SeqOf(Trends, 2) : Len(historicalTrends) + Len(t) <= MaxTrends /\ BatchAddTrends(caller, t)
        \/ \E p \in Assets, bull \in Volumes, bear \in Volumes :
              overallSentiment.bull + overallSentiment.bear + bull + bear <= MaxVolume /\ UpdateMarketSentiment(caller, p, bull, bear)

AnalystsNext == AnalystRotation!RotationNext /\ UNCHANGED <<marketVarsOfAnalytics, portfolioVars>>

PortfolioNext ==
    \E caller \in Analysts :
        \/ \E owner \in Analysts, p \in SeqOf(Positions, 2) : SetPortfolioPositions(caller, owner, p)
        \/ \E t \in PropertyTypes, price \in Changes, volume \in Changes :
              UpdatePropertyTypeTrend(caller, t, [price |-> price, volume |-> volume])
        \/ \E t \in PropertyTypes, change \in Changes : UpdateBenchmarkIndex(caller, t, change)

DashboardNext ==
    \/ \E s \in DashboardStakers :
          \/ \E n \in StakeSizes : dashboardStaked + n <= MaxDashboardStake /\ RecordStake(s, n)
          \/ \E n \in StakeSizes : RecordUnstake(s, n)
          \/ ClaimDashboardRewards(s)
    \/ \E n \in RewardSizes : rewardsDistributed + n <= MaxRewards /\ DistributeReward(n)

\* The dashboard alone, among blocks that pass.
DashboardMoves ==
    \/ DashboardNext /\ UNCHANGED block
    \/ NextBlock /\ UNCHANGED dashboardVars

DashboardSpec == ChainInit /\ DashboardInit /\ [][DashboardMoves]_<<block, dashboardVars>>

----
\* Properties

\* The overall sentiment counts at least what the newest reports add up to, and its ratio is
\* the one of its volumes (update_market_sentiment); suggestions share out no more than the
\* whole, and nearly all of it (get_rebalancing_suggestions); no portfolio is scored beyond
\* 100 (get_portfolio_health_score).
AnalyticsBooksAgree ==
    /\ AnalystRotation!RotationTypeOK
    /\ LET summed(volume(_)) == MapThenSumSet(volume, DOMAIN sentiments) IN
          /\ summed(LAMBDA p : sentiments[p].bull) <= overallSentiment.bull
          /\ summed(LAMBDA p : sentiments[p].bear) <= overallSentiment.bear
    /\ overallSentiment = Sentiment(overallSentiment.bull, overallSentiment.bear)
    /\ ReportedTrend \in MarketTrend
    /\ \A a \in Analysts : LET s == RebalancingSuggestions(a) IN
          s # << >> =>
             LET targets == FoldFunction(+, 0, [i \in DOMAIN s |-> s[i].target]) IN
             /\ targets \in (BipsOfWhole - Len(s))..BipsOfWhole
             /\ Len(s) = 1 => s[1].advice \in {"rebalance", "aligned"}
    /\ \A a \in Analysts : PortfolioHealthScore(a) \in 0..100

\* Sums and counts are those of the records, and what was distributed and is not claimed
\* yet covers what all stakers have earned, whoever joins, leaves and claims in between
\* (record_stake, record_unstake, claim_rewards, distribute_reward).
DashboardSolvent ==
    LET balances == [s \in DashboardStakers |-> stakerRecords[s].balance]
        earned == [s \in DashboardStakers |-> ComputeEarned(stakerRecords[s])]
    IN  /\ dashboardStaked = SumFunctionOnSet(balances, DashboardStakers)
        /\ dashboardStakers = Cardinality({s \in DashboardStakers : stakerRecords[s].balance > 0})
        /\ SumFunctionOnSet(earned, DashboardStakers) <= unclaimedRewards
        /\ unclaimedRewards <= rewardsDistributed
====

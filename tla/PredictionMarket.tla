---- MODULE PredictionMarket ----
(***************************************************************************)
(* Pari-mutuel markets on the value of a property, resolved by the admin,  *)
(* or on a metric, resolved by the oracle or the admin                     *)
(* (contracts/prediction-market/src/lib.rs). The two kinds have mappings   *)
(* and counters of their own, and one purse. Time is the block's.          *)
(***************************************************************************)
EXTENDS BlockClock, Functions

CONSTANTS
    Forecasters,
    ForecastAdmin,
    ForecastFee,        \* fee_bips, per 10000
    TargetArgs,         \* target_value or threshold, and the values found
    StakeArgs,
    MaxForecasts,       \* bound: markets
    MaxPurse            \* bound: what they hold

ASSUME ForecastConstants ==
    /\ ForecastAdmin \in Forecasters
    /\ TargetArgs \cup StakeArgs \subseteq Nat
    /\ {ForecastFee, MaxForecasts, MaxPurse} \subseteq Nat
    /\ IsFiniteSet(Forecasters)

VARIABLES
    forecasts,          \* markets and oracle_markets
    forecastStakes,     \* stakes and oracle_stakes, by market and user
    reputation,         \* reputations
    forecastOracle,     \* oracle_address, {} or a singleton
    purse               \* the contract's balance

forecastVars == <<forecasts, forecastStakes, reputation, forecastOracle, purse>>

Directions == {"Long", "Short"}

Forecast ==
    [byOracle : BOOLEAN, target : Nat, end : Nat, total : [Directions -> Nat],
     winner : {{}} \cup {{d} : d \in Directions}]

ForecastStake == [amount : Nat, direction : Directions, claimed : BOOLEAN]

ForecastTypeOK ==
    /\ forecasts \in Seq(Forecast)
    /\ forecastStakes \in [DOMAIN forecasts -> [Forecasters -> ForecastStake]]
    /\ reputation \in [Forecasters -> [total : Nat, successful : Nat]]
    /\ forecastOracle \subseteq Forecasters /\ Cardinality(forecastOracle) <= 1
    /\ purse \in Nat

ForecastInit ==
    /\ forecasts = << >> /\ forecastStakes = << >>
    /\ reputation = [a \in Forecasters |-> [total |-> 0, successful |-> 0]]
    /\ forecastOracle = {}
    /\ purse = 0

\* A stake of nothing; its direction is the first one's that is staked.
NoForecastStake == [amount |-> 0, direction |-> "Long", claimed |-> FALSE]

SetForecastOracle(caller, oracle) ==
    /\ caller = ForecastAdmin
    /\ forecastOracle' = {oracle}
    /\ UNCHANGED <<block, forecasts, forecastStakes, reputation, purse>>

\* create_market, create_oracle_market
CreateForecast(caller, byOracle, target, end) ==
    /\ Len(forecasts) < MaxForecasts
    /\ caller = ForecastAdmin
    /\ forecasts' = Append(forecasts, [byOracle |-> byOracle, target |-> target, end |-> end,
                                       total |-> [d \in Directions |-> 0], winner |-> {}])
    /\ forecastStakes' = Append(forecastStakes, [a \in Forecasters |-> NoForecastStake])
    /\ UNCHANGED <<block, reputation, forecastOracle, purse>>

\* stake_prediction, stake_oracle_market
StakeForecast(caller, m, direction, amount) ==
    LET stake == forecastStakes[m][caller]
    IN  /\ amount > 0 /\ purse + amount <= MaxPurse
        /\ forecasts[m].winner = {}
        /\ block < forecasts[m].end
        /\ stake.amount > 0 => stake.direction = direction
        /\ forecastStakes' = [forecastStakes EXCEPT
               ![m][caller] = [amount |-> @.amount + amount, direction |-> direction, claimed |-> @.claimed]]
        /\ forecasts' = [forecasts EXCEPT ![m].total[direction] = @ + amount]
        /\ purse' = purse + amount
        /\ UNCHANGED <<block, reputation, forecastOracle>>

\* resolve_market, submit_oracle_data. The admin resolves a market of the oracle's
\* too, once an oracle is set.
ResolveForecast(caller, m, value) ==
    LET forecast == forecasts[m]
    IN  /\ IF forecast.byOracle THEN forecastOracle # {} /\ caller \in forecastOracle \cup {ForecastAdmin}
           ELSE caller = ForecastAdmin
        /\ forecast.winner = {}
        /\ block >= forecast.end
        /\ forecasts' = [forecasts EXCEPT
               ![m].winner = {IF value >= forecast.target THEN "Long" ELSE "Short"}]
        /\ UNCHANGED <<block, forecastStakes, reputation, forecastOracle, purse>>

\* Mutant: everybody's part of all that was staked on the losing side.
Winnings_WholePool(m, user) ==
    LET stake == forecastStakes[m][user]
        losing == forecasts[m].total[CHOOSE d \in Directions : d # stake.direction]
    IN  (stake.amount + losing) - ((stake.amount + losing) * ForecastFee) \div 10000

\* The stake and its part of the other side's, less the fee.
Winnings(m, user) ==
    LET stake == forecastStakes[m][user]
        winning == forecasts[m].total[stake.direction]
        losing == forecasts[m].total[CHOOSE d \in Directions : d # stake.direction]
        reward == stake.amount + (stake.amount * losing) \div winning
        fee == (reward * ForecastFee) \div 10000
    IN  IF fee > reward THEN 0 ELSE reward - fee

\* What claim_reward and claim_winnings ask for before they pay.
Claimable(m, user) ==
    LET stake == forecastStakes[m][user]
    IN  /\ stake.amount > 0 /\ ~stake.claimed
        /\ forecasts[m].winner = {stake.direction}

\* claim_reward, claim_winnings. A loser's claim is an Err, which reverts the loss
\* it has added to the reputation.
ClaimForecast(caller, m) ==
    /\ Claimable(m, caller)
    /\ purse >= Winnings(m, caller)
    /\ forecastStakes' = [forecastStakes EXCEPT ![m][caller].claimed = TRUE]
    /\ reputation' = [reputation EXCEPT ![caller] =
           [total |-> @.total + 1, successful |-> @.successful + 1]]
    /\ purse' = purse - Winnings(m, caller)
    /\ UNCHANGED <<block, forecasts, forecastOracle>>

ForecastNext ==
    \E a \in Forecasters :
        \/ \E b \in Forecasters : SetForecastOracle(a, b)
        \/ \E byOracle \in BOOLEAN, target \in TargetArgs, end \in 1..MaxBlock :
              CreateForecast(a, byOracle, target, end)
        \/ \E m \in DOMAIN forecasts :
              \/ \E direction \in Directions, amount \in StakeArgs : StakeForecast(a, m, direction, amount)
              \/ \E value \in TargetArgs : ResolveForecast(a, m, value)
              \/ ClaimForecast(a, m)

ForecastSpec ==
    /\ ChainInit /\ ForecastInit
    /\ [][ForecastNext \/ (NextBlock /\ UNCHANGED forecastVars)]_<<block, forecastVars>>

----
\* What a market still has to pay: all stakes while it is open, afterwards what its
\* winners have not claimed.
Due(m) ==
    IF forecasts[m].winner = {} THEN forecasts[m].total["Long"] + forecasts[m].total["Short"]
    ELSE SumFunctionOnSet([a \in Forecasters |-> IF Claimable(m, a) THEN Winnings(m, a) ELSE 0], Forecasters)

\* The purse covers all stakes of open markets and every winner's claim of the
\* resolved ones, after any rounding and in any order of claims (claim_reward,
\* claim_winnings), and the state has its types.
PurseCoversClaims ==
    ForecastTypeOK /\ purse >= SumFunctionOnSet([m \in DOMAIN forecasts |-> Due(m)], DOMAIN forecasts)
====

---- MODULE MCMarket ----
(***************************************************************************)
(* Model checking of Dex and PredictionMarket, aspect by aspect (focus):   *)
(* every step is a step of DexNext or ForecastNext.                        *)
(***************************************************************************)
EXTENDS Dex, PredictionMarket

CONSTANTS A, B, C, Land, Coin

VARIABLE focus

dexState == <<marketVars, positions, feeProposals, votesCast, contests, prizesClaimed, crossTrades,
              dexAdminVars>>
mcVars == <<block, dexState, forecastVars, focus>>

MCAccounts == {A, B, C}
MCTokens == {Land, Coin}

MCInit ==
    /\ ChainInit /\ DexInit /\ ForecastInit
    /\ focus \in {"liquidity", "rewards", "limits", "book", "stops", "trades", "contests", "proposals", "timelock", "forecasts"}

\* One pool of A's.
Pooled(fee, base, quote) == pairs = << >> /\ CreatePool(A, Land, Coin, fee, base, quote)
Swap(a, amount) == \E p \in pairIds, side \in Sides : SwapExact(a, p, side, amount)

\* Deposits, withdrawals and swaps of uneven amounts, without rewards.
LiquidityStep ==
    \/ \E fee \in FeeArgs : Pooled(fee, 3, 8)
    \/ \E p \in pairIds, base \in {1, 3} : DexAddLiquidity(B, p, base, 3)
    \/ \E p \in pairIds, a \in {A, B} : \E shares \in {1, positions[p][a].shares} : DexRemoveLiquidity(a, p, shares)
    \/ \E amount \in {1, 3} : Swap(C, amount)

\* Rewards of two providers under campaigns that come and go.
RewardStep ==
    \/ Pooled(0, 2, 2)
    \/ \E p \in pairIds : DexAddLiquidity(B, p, 1, 1)
    \/ \E p \in pairIds, a \in {A, B} :
          \/ DexRemoveLiquidity(a, p, 1)
          \/ ClaimLiquidityRewards(a, p)
    \/ \E rate \in EmissionArgs \ {0}, end \in {3, MaxBlock} :
          block < 3 /\ SetAtOnce(A, [NoSetting EXCEPT !.kind = "Mining", !.campaign = [rate |-> rate, start |-> 2, end |-> end]])
    \/ NextBlock /\ UNCHANGED dexState

\* Limit orders that swaps set off.
LimitStep ==
    \/ Pooled(0, 10, 10)
    \/ \E p \in pairIds, side \in Sides, price \in OrderPriceArgs \ {0} :
          PlaceOrder(B, p, side, "Limit", price, price, 2)
    \/ \E n \in DOMAIN orders : ExecuteOrder(C, n, 1)
    \/ \E p \in pairIds : SwapExact(C, p, "Sell", 6) \/ SwapExact(C, p, "Buy", 4)

\* Orders of both sides, matched, cancelled and matched again.
BookStep ==
    \/ Pooled(0, 4, 4)
    \/ \E p \in pairIds, a \in {B, C}, kind \in {"Limit", "Twap"}, price \in OrderPriceArgs, amount \in {1, 2} :
          PlaceOrder(a, p, IF a = B THEN "Buy" ELSE "Sell", kind, price, 0, amount)
    \/ \E maker, taker \in DOMAIN orders, amount \in {1, 2} : MatchOrders(maker, taker, amount)
    \/ \E a \in {A, B}, n \in DOMAIN orders : CancelOrder(a, n)
    \/ \E n \in DOMAIN orders : ExecuteOrder(A, n, 2)

StopStep ==
    \/ Pooled(0, 6, 6)
    \/ \E p \in pairIds, side \in Sides, kind \in {"StopLoss", "TakeProfit"}, trigger \in OrderPriceArgs :
          orders = << >> /\ PlaceOrder(B, p, side, kind, 20, trigger, 2)
    \/ \E n \in DOMAIN orders, amount \in {1, 2} : ExecuteOrder(C, n, amount)
    \/ Swap(C, 2)

CrossTradeStep ==
    \/ Pooled(0, 2, 2)
    \/ \E chain \in Destinations : SetAtOnce(A, [NoSetting EXCEPT !.kind = "Route", !.chain = chain])
    \/ TradeNext

\* A competition of the pair, which the admin changes as it runs.
ContestStep ==
    \/ Pooled(0, 4, 4)
    \/ contests = << >> /\ CreateTradingCompetition(A, 1, 7, 1, 2, 0)
    \/ \E p \in pairIds : SwapExact(B, p, "Buy", 2) \/ SwapExact(C, p, "Sell", 2)
    \/ \E a \in {B, C}, c \in DOMAIN contests : ClaimCompetitionReward(a, c)
    \/ block = 2 /\ \E c \in DOMAIN contests : \E contest \in Adjusted(contests[c]) : AdjustContest(A, c, contest)
    \/ block < 3 /\ NextBlock /\ UNCHANGED dexState

\* Votes weighed by balances that swaps raise.
ProposalStep ==
    \/ Pooled(1, 6, 6)
    \/ SetAtOnce(A, [NoSetting EXCEPT !.kind = "Mining", !.campaign = [rate |-> 2, start |-> 0, end |-> 1]])
    \/ Swap(B, 2)
    \/ ProposalNext
    \/ NextBlock /\ UNCHANGED dexState

TimelockSettings ==
    {s \in Settings : s.campaign \in {NoSetting.campaign, [rate |-> 2, start |-> 1, end |-> 3]}}

TimelockStep ==
    \/ \E setting \in TimelockSettings : SetAtOnce(A, setting) \/ ScheduleAdminAction(A, setting)
    \/ \E n \in DOMAIN adminActions : ExecuteAdminAction(A, n) \/ CancelAdminAction(A, n)
    \/ NextBlock /\ UNCHANGED dexState

\* A market of the admin's and one of the oracle's, with one purse.
ForecastStep ==
    \/ SetForecastOracle(A, C)
    \/ CreateForecast(A, forecasts # << >>, 2, 2)
    \/ \E m \in DOMAIN forecasts, a \in Forecasters :
          \/ \E direction \in Directions, amount \in StakeArgs : StakeForecast(a, m, direction, amount)
          \/ \E value \in TargetArgs : ResolveForecast(a, m, value)
          \/ ClaimForecast(a, m)

DexStep ==
    \/ focus = "liquidity" /\ LiquidityStep
    \/ focus = "rewards" /\ RewardStep
    \/ focus = "limits" /\ LimitStep
    \/ focus = "book" /\ BookStep
    \/ focus = "stops" /\ StopStep
    \/ focus = "trades" /\ CrossTradeStep
    \/ focus = "contests" /\ ContestStep
    \/ focus = "proposals" /\ ProposalStep
    \/ focus = "timelock" /\ TimelockStep

MCNext ==
    /\ UNCHANGED focus
    /\ \/ DexStep /\ UNCHANGED forecastVars
       \/ focus = "forecasts" /\ ForecastStep /\ UNCHANGED dexState
       \/ focus = "forecasts" /\ NextBlock /\ UNCHANGED <<dexState, forecastVars>>

MCSpec == MCInit /\ [][MCNext]_mcVars

----
\* Properties

\* No more is swapped for an order than its amount (execute_order_core).
OrdersFillWithinAmount == \A n \in DOMAIN orders : orders[n].traded <= orders[n].amount
====

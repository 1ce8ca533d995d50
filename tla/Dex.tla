---- MODULE Dex ----
(***************************************************************************)
(* The exchange: constant-product pools, orders, cross-chain trades,       *)
(* liquidity mining, competitions, fee proposals and a timelock of the     *)
(* admin (contracts/dex/src/lib.rs).                                       *)
(*                                                                         *)
(* A swap ends by filling limit orders that its new price makes            *)
(* executable, and each of these fills is a swap itself: the recursion of  *)
(* the code is the recursion of AfterSwap. No tokens are moved.            *)
(*                                                                         *)
(* Orders that fill at once (Market, ImmediateOrCancel, FillOrKill) call   *)
(* execute_order inside place_order's reentrancy guard and are always      *)
(* refused, so that no such order exists. Averages, highs, lows, volumes   *)
(* and volatility are written and read by getters only, and left out, like *)
(* minimal outputs, which only refuse swaps.                               *)
(***************************************************************************)
EXTENDS BlockClock, SequencesExt, FiniteSetsExt

CONSTANTS
    Bips,               \* BIPS_DENOMINATOR
    RewardPrecision,    \* REWARD_PRECISION
    FeeLimit,           \* fees are below this, 1000 in the code
    Traders,
    DexAdmin,           \* the deployer
    DexTokens,
    Destinations,       \* chains
    GovernanceSupply,   \* governance_supply, which the deployer gets
    EmissionRate,       \* emission_rate at deployment
    SwapRewardScale,    \* 1000 in the code
    FeeArgs, DepositArgs, OrderPriceArgs,
    EmissionArgs, DelayArgs, VolumeArgs, PrizeArgs,
    MaxReserve,         \* bound: reserves and shares of a pool
    MaxGovSupply,       \* bound: governance tokens
    MaxScore,           \* bound: a score
    MaxSwaps,           \* bound: swaps within one message, its gas
    MaxPairs, MaxOrders, MaxTrades, MaxFeeProposals, MaxContests, MaxAdminActions   \* bounds

ASSUME PoolConstants ==
    /\ Bips \in Nat \ {0}
    /\ RewardPrecision \in Nat \ {0}
    /\ FeeLimit \in 1..Bips

ASSUME DexConstants ==
    /\ DexAdmin \in Traders /\ IsFiniteSet(Traders)
    /\ Destinations # {}
    /\ SwapRewardScale \in Nat \ {0}
    /\ {GovernanceSupply, EmissionRate, MaxReserve, MaxGovSupply, MaxScore, MaxSwaps, MaxPairs, MaxOrders,
        MaxTrades, MaxFeeProposals, MaxContests, MaxAdminActions} \subseteq Nat
    /\ FeeArgs \cup DepositArgs \cup OrderPriceArgs \cup EmissionArgs \cup DelayArgs
           \cup VolumeArgs \cup PrizeArgs \subseteq Nat

----
(***************************************************************************)
(* The arithmetic of pools: what a swap takes out, what a deposit mints    *)
(* and a withdrawal returns, and the index by which liquidity is rewarded. *)
(* Amounts stay far below 2^128, so that saturating sums and products are  *)
(* plain ones.                                                             *)
(***************************************************************************)
Sides == {"Buy", "Sell"}

Smaller(a, b) == IF a < b THEN a ELSE b
Larger(a, b) == IF a < b THEN b ELSE a

\* a * b / c, 0 where c is 0 (checked_div).
Portion(a, b, c) == IF c = 0 THEN 0 ELSE (a * b) \div c

\* integer_sqrt, the iteration of the code.
IntegerSqrt(n) ==
    LET root[x \in 1..n] == LET y == (x + n \div x) \div 2 IN IF y < x THEN root[y] ELSE x
    IN  IF n <= 1 THEN n ELSE root[n \div 2]

\* weighted_average
WeightedAverage(a, b, weightA, weightB) == (a * weightA + b * weightB) \div (weightA + weightB)

\* The reserves a seller of base, or a buyer of it, pays into and takes from.
ReserveIn(pool, side) == IF side = "Sell" THEN pool.base ELSE pool.quote
ReserveOut(pool, side) == IF side = "Sell" THEN pool.quote ELSE pool.base

\* What is left of an input after the pool's fee.
AfterFee(pool, amountIn) == (amountIn * (Bips - pool.fee)) \div Bips

\* Mutant: the output of the curve before the input is added to it.
AmountOut_SpotPrice(pool, side, amountIn) ==
    (AfterFee(pool, amountIn) * ReserveOut(pool, side)) \div ReserveIn(pool, side)

AmountOut(pool, side, amountIn) ==
    (AfterFee(pool, amountIn) * ReserveOut(pool, side))
        \div (ReserveIn(pool, side) + AfterFee(pool, amountIn))

\* The pool after a swap: the whole input goes in, fee included.
PoolAfterSwap(pool, side, amountIn) ==
    LET out == AmountOut(pool, side, amountIn)
    IN  IF side = "Sell" THEN [pool EXCEPT !.base = @ + amountIn, !.quote = @ - out]
        ELSE [pool EXCEPT !.quote = @ + amountIn, !.base = @ - out]

\* The shares a deposit mints.
Minted(pool, base, quote) ==
    IF pool.shares = 0 THEN IntegerSqrt(base * quote)
    ELSE Smaller(Portion(base, pool.shares, pool.base), Portion(quote, pool.shares, pool.quote))

PoolAfterDeposit(pool, base, quote) ==
    [pool EXCEPT !.base = @ + base, !.quote = @ + quote, !.shares = @ + Minted(pool, base, quote)]

PoolAfterWithdrawal(pool, shares) ==
    [pool EXCEPT !.base = @ - Portion(shares, pool.base, pool.shares),
                 !.quote = @ - Portion(shares, pool.quote, pool.shares),
                 !.shares = @ - shares]

\* update_pool_price, 0 where there is no base.
PoolPrice(pool) == Portion(pool.quote, Bips, pool.base)

\* The rewards an index has brought a number of shares since it was zero.
Earned(shares, index) == (shares * index) \div RewardPrecision

----

VARIABLES
    pairs,              \* pools, with best quotes, last price and last_reward_block
    positions,          \* by pair and trader
    orders,
    govBalance,         \* governance_balances
    govSupply,          \* governance_config.total_supply
    mining,             \* liquidity_mining
    feeProposals,       \* governance_proposals
    votesCast,
    contests,           \* trading_competitions
    scores,             \* competition_scores, by contest and trader
    prizesClaimed,      \* competition_claimed
    routes,             \* the chains with a bridge quote
    crossTrades,        \* cross_chain_trades
    timelock,           \* admin_timelock_delay
    adminActions        \* pending_admin_actions

marketVars == <<pairs, orders, govBalance, govSupply, scores>>
dexAdminVars == <<routes, mining, timelock, adminActions>>
dexVars == <<block, marketVars, positions, feeProposals, votesCast, contests, prizesClaimed,
             crossTrades, dexAdminVars>>

pairIds == DOMAIN pairs

OrderKinds == {"Limit", "StopLoss", "TakeProfit", "Twap"}

Pair ==
    [tokens : SUBSET DexTokens, base : Nat, quote : Nat, shares : Nat, fee : 0..(FeeLimit - 1),
     index : Nat, rewarded : Nat, last : Nat, reference : Nat, bid : Nat, ask : Nat]

\* `traded` is what swaps have put in for an order, which the code does not keep.
Order ==
    [pair : Nat, trader : Traders, side : Sides, kind : OrderKinds, price : Nat, trigger : Nat,
     amount : Nat, remaining : Nat, traded : Nat, status : {"Open", "PartiallyFilled", "Filled", "Cancelled"}]

FeeProposal == [fee : SUBSET Nat, for : Nat, against : Nat, end : Nat, executed : BOOLEAN]

Contest ==
    [pair : Nat, prize : Nat, start : Nat, end : Nat, volume : Nat, active : BOOLEAN]

AdminAction ==
    [kind : {"Route", "Mining", "Delay"}, chain : Destinations, campaign : [rate : Nat, start : Nat, end : Nat],
     delay : Nat, from : Nat, status : {"Scheduled", "Executed", "Cancelled"}]

Position == [shares : Nat, debt : Nat, pending : Nat]

DexTypeOK ==
    /\ pairs \in Seq(Pair)
    /\ positions \in [pairIds -> [Traders -> Position]]
    /\ orders \in Seq(Order)
    /\ govBalance \in [Traders -> Nat] /\ govSupply \in Nat
    /\ mining \in [rate : Nat, start : Nat, end : Nat]
    /\ feeProposals \in Seq(FeeProposal)
    /\ votesCast \subseteq ((DOMAIN feeProposals) \X Traders)
    /\ contests \in Seq(Contest)
    /\ scores \in [DOMAIN contests -> [Traders -> Nat]]
    /\ prizesClaimed \subseteq ((DOMAIN contests) \X Traders)
    /\ routes \subseteq Destinations
    /\ crossTrades \in
           Seq([pair : pairIds, trader : Traders, status : {"Pending", "BridgeRequested", "Settled"}])
    /\ timelock \in Nat
    /\ adminActions \in Seq(AdminAction)

DexInit ==
    /\ pairs = << >> /\ positions = << >> /\ orders = << >>
    /\ govBalance = [a \in Traders |-> IF a = DexAdmin THEN GovernanceSupply ELSE 0]
    /\ govSupply = GovernanceSupply
    /\ mining = [rate |-> EmissionRate, start |-> 0, end |-> MaxBlock]
    /\ feeProposals = << >> /\ votesCast = {}
    /\ contests = << >> /\ scores = << >> /\ prizesClaimed = {}
    /\ routes = {} /\ crossTrades = << >>
    /\ timelock = 0 /\ adminActions = << >>

----
\* Prices and the book

\* accrue_rewards: what a block earned before the pool had shares is left for later.
Accrued(pair) ==
    LET from == Larger(pair.rewarded, mining.start)
        to == Smaller(block, mining.end)
        gain == IF to > from THEN Portion((to - from) * mining.rate, RewardPrecision, pair.shares) ELSE 0
    IN  IF pair.shares = 0 THEN pair
        ELSE [pair EXCEPT !.index = @ + gain, !.rewarded = block]

\* discover_price
Discovered(pair) ==
    LET mid == IF pair.bid > 0 /\ pair.ask > 0 THEN (pair.bid + pair.ask) \div 2 ELSE pair.last
    IN  WeightedAverage(pair.last, Larger(mid, pair.reference), 6, 4)

\* is_order_executable. A trigger that is not given is the price.
Executable(pair, order) ==
    LET below == order.side = (IF order.kind = "StopLoss" THEN "Sell" ELSE "Buy")
        level == IF order.kind = "Limit" THEN order.price ELSE order.trigger
    IN  \/ order.kind = "Twap"
        \/ below /\ Discovered(pair) <= level
        \/ ~below /\ Discovered(pair) >= level

Waiting(order) == order.status \in {"Open", "PartiallyFilled"}

\* An ask of price 0 makes the search begin anew after it.
Better(side, price, best) == IF side = "Buy" THEN price > best ELSE best = 0 \/ price < best

\* The best price of the pair's open orders of a side, 0 without any.
BestPrice(book, p, side) ==
    LET best[n \in 0..Len(book)] ==
            IF n = 0 THEN 0
            ELSE IF /\ book[n].pair = p /\ book[n].side = side /\ Waiting(book[n])
                    /\ Better(side, book[n].price, best[n - 1])
            THEN book[n].price ELSE best[n - 1]
    IN  best[Len(book)]

\* refresh_best_quotes: the reference price is computed from the quotes stored before.
Requoted(pair, p, book) ==
    [pair EXCEPT !.reference = IF pair.bid > 0 /\ pair.ask > 0 THEN (pair.bid + pair.ask) \div 2
                               ELSE pair.last,
                 !.bid = BestPrice(book, p, "Buy"),
                 !.ask = BestPrice(book, p, "Sell")]

----
\* Swaps and fills. A market is what they change: pairs, orders, governance
\* tokens and scores. Gas is the number of swaps a message can still pay for, negative
\* once it has run out, which reverts the message. Two limit orders that cross set
\* each other off without end.

Market == [pairs |-> pairs, orders |-> orders, balance |-> govBalance, supply |-> govSupply,
           scores |-> scores, gas |-> MaxSwaps]

\* The other early returns of swap: an empty pool, or nothing to take out.
CanSwap(market, p, side, amountIn) ==
    LET pair == market.pairs[p]
    IN  /\ amountIn > 0
        /\ 0 \notin {pair.base, pair.quote}
        /\ AmountOut(pair, side, amountIn) > 0

\* update_trade_competition_score
Scored(old, p, trader, volume) ==
    [c \in DOMAIN old |->
        IF /\ contests[c].active /\ block \in contests[c].start..contests[c].end
           /\ contests[c].pair \in {0, p} /\ volume >= contests[c].volume
        THEN [old[c] EXCEPT ![trader] = @ + volume] ELSE old[c]]

CanFill(market, n, requested) ==
    LET o == market.orders[n]
    IN  /\ market.gas >= 0
        /\ Waiting(o)
        /\ Executable(market.pairs[o.pair], o)
        /\ CanSwap(market, o.pair, o.side, Smaller(requested, o.remaining))

\* Mutant: the pair's quotes are not refreshed after the fill.
FilledBy_NoRefresh(market, n, amount, after) ==
    LET o == market.orders[n]
        filled == [o EXCEPT !.remaining = @ - amount,
                            !.traded = after.orders[n].traded + amount,
                            !.status = IF amount = o.remaining THEN "Filled" ELSE "PartiallyFilled"]
    IN  [after EXCEPT !.orders = [@ EXCEPT ![n] = filled]]

\* The end of execute_order_core, after its swap. The order is stored as it was read
\* before the swap, which may have filled the same order itself.
FilledBy(market, n, amount, after) ==
    LET o == market.orders[n]
        filled == [o EXCEPT !.remaining = @ - amount,
                            !.traded = after.orders[n].traded + amount,
                            !.status = IF amount = o.remaining THEN "Filled" ELSE "PartiallyFilled"]
        book == [after.orders EXCEPT ![n] = filled]
    IN  [after EXCEPT !.orders = book, !.pairs[o.pair] = Requoted(@, o.pair, book)]

\* The limit orders found executable.
ExecutableOrders(market, p) ==
    {n \in DOMAIN market.orders :
        LET o == market.orders[n]
        IN  o.pair = p /\ o.kind = "Limit" /\ Waiting(o) /\ Executable(market.pairs[p], o)}

\* A swap before it fills orders, for arguments that CanSwap.
Moved(market, p, side, amountIn, caller) ==
    LET pool == PoolAfterSwap(Accrued(market.pairs[p]), side, amountIn)
        pair == Requoted([pool EXCEPT !.last = PoolPrice(pool)], p, market.orders)
        reward == (amountIn * mining.rate) \div SwapRewardScale
        out == AmountOut(market.pairs[p], side, amountIn)
    IN  [market EXCEPT !.gas = @ - 1,
                       !.pairs[p] = pair,
                       !.balance[caller] = @ + reward,
                       !.supply = @ + reward,
                       !.scores = Scored(@, p, caller, out)]

Markets ==
    [pairs : Seq(Pair), orders : Seq(Order), balance : [Traders -> Nat], supply : Nat,
     scores : Seq([Traders -> Nat]), gas : Int]
Swaps == [market : Markets, pair : Nat, side : Sides, amount : Nat, caller : Traders]

SwapOf(market, p, side, amountIn, caller) ==
    [market |-> market, pair |-> p, side |-> side, amount |-> amountIn, caller |-> caller]

\* process_executable_limit_orders: of the orders found, one after the other, those are
\* filled that still can be when their turn comes; a fill that fails is skipped. What the
\* swap of a fill makes of a market is given.
FillAll(afterSwap, moved, p, caller) ==
    LET filled[n \in 0..Len(moved.orders)] ==
            IF n = 0 THEN moved
            ELSE LET m == filled[n - 1]
                     o == m.orders[n]
                 IN  IF n \in ExecutableOrders(moved, p) /\ CanFill(m, n, o.remaining)
                     THEN FilledBy(m, n, o.remaining, afterSwap[SwapOf(m, o.pair, o.side, o.remaining, caller)])
                     ELSE m
    IN  filled[Len(moved.orders)]

\* swap, with the fills it sets off, each of which is a swap of its own, one level
\* deeper. No level is deeper than the gas lasts.
AfterSwap[depth \in 0..MaxSwaps] ==
    [s \in Swaps |->
        IF 0 \in {depth, s.market.gas} THEN [s.market EXCEPT !.gas = -1]
        ELSE FillAll(AfterSwap[depth - 1], Moved(s.market, s.pair, s.side, s.amount, s.caller), s.pair, s.caller)]

Swapped(market, p, side, amountIn, caller) ==
    AfterSwap[MaxSwaps][SwapOf(market, p, side, amountIn, caller)]

\* execute_order_core
Filled(market, n, requested, caller) ==
    LET o == market.orders[n]
        amount == Smaller(requested, o.remaining)
    IN  FilledBy(market, n, amount, Swapped(market, o.pair, o.side, amount, caller))

SetMarket(market) ==
    /\ market.gas >= 0
    /\ \A p \in pairIds : market.pairs[p].base <= MaxReserve /\ market.pairs[p].quote <= MaxReserve
    /\ market.supply <= MaxGovSupply
    /\ \A c \in DOMAIN scores, a \in Traders : market.scores[c][a] <= MaxScore
    /\ pairs' = market.pairs
    /\ orders' = market.orders
    /\ govBalance' = market.balance
    /\ govSupply' = market.supply
    /\ scores' = market.scores

----
\* Pools and liquidity

CreatePool(caller, base, quote, fee, baseIn, quoteIn) ==
    /\ Len(pairs) < MaxPairs
    /\ base # quote /\ 0 \notin {baseIn, quoteIn} /\ fee < FeeLimit
    /\ \A p \in pairIds : pairs[p].tokens # {base, quote}
    /\ LET minted == IntegerSqrt(baseIn * quoteIn)
           price == Portion(quoteIn, Bips, baseIn)
       IN  /\ pairs' = Append(pairs,
                  [tokens |-> {base, quote}, base |-> baseIn, quote |-> quoteIn, shares |-> minted,
                   fee |-> fee, index |-> 0, rewarded |-> block, last |-> price,
                   reference |-> price, bid |-> 0, ask |-> 0])
           /\ positions' = Append(positions,
                  [a \in Traders |-> [shares |-> IF a = caller THEN minted ELSE 0, debt |-> 0, pending |-> 0]])
    /\ UNCHANGED <<block, orders, govBalance, govSupply, scores, feeProposals, votesCast, contests,
                   prizesClaimed, crossTrades, dexAdminVars>>

\* A position whose rewards up to now are set aside, with new shares.
Settled(position, index, shares) ==
    [shares |-> shares, debt |-> Earned(shares, index),
     pending |-> position.pending + Larger(0, Earned(position.shares, index) - position.debt)]

SetLiquidity(caller, p, pair, shares) ==
    /\ pairs' = [pairs EXCEPT ![p] = pair]
    /\ positions' = [positions EXCEPT ![p][caller] = Settled(@, pair.index, shares)]
    /\ UNCHANGED <<block, orders, govBalance, govSupply, scores, feeProposals, votesCast, contests,
                   prizesClaimed, crossTrades, dexAdminVars>>

DexAddLiquidity(caller, p, baseIn, quoteIn) ==
    /\ 0 \notin {baseIn, quoteIn}
    /\ pairs[p].base + baseIn <= MaxReserve /\ pairs[p].quote + quoteIn <= MaxReserve
    /\ LET pair == Accrued(pairs[p])
       IN  SetLiquidity(caller, p, PoolAfterDeposit(pair, baseIn, quoteIn),
                        positions[p][caller].shares + Minted(pair, baseIn, quoteIn))

DexRemoveLiquidity(caller, p, shares) ==
    /\ shares \in 1..positions[p][caller].shares
    /\ SetLiquidity(caller, p, PoolAfterWithdrawal(Accrued(pairs[p]), shares),
                    positions[p][caller].shares - shares)

ClaimLiquidityRewards(caller, p) ==
    LET pair == Accrued(pairs[p])
        settled == Settled(positions[p][caller], pair.index, positions[p][caller].shares)
    IN  /\ settled.pending > 0
        /\ govSupply + settled.pending <= MaxGovSupply
        /\ pairs' = [pairs EXCEPT ![p] = pair]
        /\ positions' = [positions EXCEPT ![p][caller] = [settled EXCEPT !.pending = 0]]
        /\ govBalance' = [govBalance EXCEPT ![caller] = @ + settled.pending]
        /\ govSupply' = govSupply + settled.pending
        /\ UNCHANGED <<block, orders, scores, feeProposals, votesCast, contests, prizesClaimed,
                       crossTrades, dexAdminVars>>

----
\* Swaps and orders

SwapExact(caller, p, side, amountIn) ==
    /\ CanSwap(Market, p, side, amountIn)
    /\ SetMarket(Swapped(Market, p, side, amountIn, caller))
    /\ UNCHANGED <<block, positions, feeProposals, votesCast, contests, prizesClaimed, crossTrades,
                   dexAdminVars>>

SetBook(p, book) ==
    /\ orders' = book
    /\ pairs' = [pairs EXCEPT ![p] = Requoted(@, p, book)]
    /\ UNCHANGED <<block, positions, govBalance, govSupply, scores, feeProposals, votesCast, contests,
                   prizesClaimed, crossTrades, dexAdminVars>>

PlaceOrder(caller, p, side, kind, price, trigger, amount) ==
    /\ Len(orders) < MaxOrders
    /\ amount > 0
    /\ kind # "Twap" => price > 0
    /\ SetBook(p, Append(orders,
           [pair |-> p, trader |-> caller, side |-> side, kind |-> kind, price |-> price,
            trigger |-> trigger, amount |-> amount, remaining |-> amount, traded |-> 0,
            status |-> "Open"]))

\* Anybody executes anybody's order, and gets the rewards of the swap.
ExecuteOrder(caller, n, requested) ==
    /\ CanFill(Market, n, requested)
    /\ SetMarket(Filled(Market, n, requested, caller))
    /\ UNCHANGED <<block, positions, feeProposals, votesCast, contests, prizesClaimed, crossTrades,
                   dexAdminVars>>

\* Anybody matches two orders, whatever their status and prices are.
MatchOrders(maker, taker, amount) ==
    LET p == orders[maker].pair
        fill == Smaller(amount, Smaller(orders[maker].remaining, orders[taker].remaining))
        price == IF orders[maker].price > 0 THEN orders[maker].price ELSE orders[taker].price
        after(o) == [o EXCEPT !.remaining = @ - fill,
                              !.status = IF fill = o.remaining THEN "Filled" ELSE "PartiallyFilled"]
        book == [orders EXCEPT ![maker] = after(@), ![taker] = after(@)]
    IN  /\ orders[taker].pair = p /\ orders[maker].side # orders[taker].side
        /\ fill > 0
        /\ orders' = book
        /\ pairs' = [pairs EXCEPT ![p] = Requoted([@ EXCEPT !.last = price], p, book)]
        /\ UNCHANGED <<block, positions, govBalance, govSupply, scores, feeProposals, votesCast,
                       contests, prizesClaimed, crossTrades, dexAdminVars>>

\* Of whatever status.
CancelOrder(caller, n) ==
    /\ caller \in {orders[n].trader, DexAdmin}
    /\ SetBook(orders[n].pair, [orders EXCEPT ![n].status = "Cancelled"])

----
\* Cross-chain trades

SetTrades(trades) ==
    /\ crossTrades' = trades
    /\ UNCHANGED <<block, marketVars, positions, feeProposals, votesCast, contests, prizesClaimed,
                   dexAdminVars>>

CreateCrossChainTrade(caller, p, chain) ==
    /\ Len(crossTrades) < MaxTrades
    /\ chain \in routes
    /\ SetTrades(Append(crossTrades, [pair |-> p, trader |-> caller, status |-> "Pending"]))

\* A settled trade is requested again.
AttachBridgeRequest(caller, t) ==
    /\ caller \in {crossTrades[t].trader, DexAdmin}
    /\ SetTrades([crossTrades EXCEPT ![t].status = "BridgeRequested"])

FinalizeCrossChainTrade(caller, t) ==
    /\ caller = DexAdmin
    /\ SetTrades([crossTrades EXCEPT ![t].status = "Settled"])
----
\* Competitions

UnchangedByContests ==
    UNCHANGED <<block, pairs, orders, positions, feeProposals, votesCast, crossTrades, dexAdminVars>>

\* 0 is a competition of all pairs.
CreateTradingCompetition(caller, pair, prize, start, end, volume) ==
    /\ Len(contests) < MaxContests
    /\ caller = DexAdmin
    /\ start < end /\ prize # 0
    /\ contests' = Append(contests, [pair |-> pair, prize |-> prize, start |-> start, end |-> end,
                                     volume |-> volume, active |-> TRUE])
    /\ scores' = Append(scores, [a \in Traders |-> 0])
    /\ UNCHANGED <<govBalance, govSupply, prizesClaimed>>
    /\ UnchangedByContests

\* What an admin makes of a competition at any time: deactivate_competition,
\* activate_competition, complete_competition, and the settings of volume and reward.
Adjusted(contest) ==
    {[contest EXCEPT !.active = FALSE], [contest EXCEPT !.active = TRUE],
     [contest EXCEPT !.active = FALSE, !.end = block]}
    \cup {[contest EXCEPT !.volume = volume] : volume \in VolumeArgs}
    \cup {[contest EXCEPT !.prize = prize] : prize \in PrizeArgs}

AdjustContest(caller, c, contest) ==
    /\ caller = DexAdmin
    /\ contests' = [contests EXCEPT ![c] = contest]
    /\ UNCHANGED <<govBalance, govSupply, scores, prizesClaimed>>
    /\ UnchangedByContests

\* claim_competition_reward: the caller's part of the prize by scores.
Prize(c, trader) ==
    Portion(contests[c].prize, scores[c][trader], SumFunctionOnSet(scores[c], Traders))

ClaimCompetitionReward(caller, c) ==
    /\ block > contests[c].end
    /\ <<c, caller>> \notin prizesClaimed
    /\ Prize(c, caller) > 0
    /\ govSupply + Prize(c, caller) <= MaxGovSupply
    /\ prizesClaimed' = prizesClaimed \cup {<<c, caller>>}
    /\ govBalance' = [govBalance EXCEPT ![caller] = @ + Prize(c, caller)]
    /\ govSupply' = govSupply + Prize(c, caller)
    /\ UNCHANGED <<contests, scores>>
    /\ UnchangedByContests

----
\* Fee proposals

UnchangedByProposals ==
    UNCHANGED <<block, orders, govBalance, govSupply, scores, positions, contests, prizesClaimed,
                crossTrades, dexAdminVars>>

\* A new emission rate may be proposed as well, which execution does not read.
CreateGovernanceProposal(caller, fee, duration) ==
    /\ Len(feeProposals) < MaxFeeProposals
    /\ govBalance[caller] > 0
    /\ feeProposals' = Append(feeProposals, [fee |-> fee, for |-> 0, against |-> 0,
                                             end |-> block + duration, executed |-> FALSE])
    /\ UNCHANGED <<pairs, votesCast>>
    /\ UnchangedByProposals

VoteOnProposal(caller, n, support) ==
    /\ <<n, caller>> \notin votesCast
    /\ block <= feeProposals[n].end /\ ~feeProposals[n].executed
    /\ feeProposals' = [feeProposals EXCEPT
           ![n].for = IF support THEN @ + govBalance[caller] ELSE @,
           ![n].against = IF support THEN @ ELSE @ + govBalance[caller]]
    /\ votesCast' = votesCast \cup {<<n, caller>>}
    /\ UNCHANGED pairs
    /\ UnchangedByProposals

\* Without a quorum. A passed fee that is too high is refused again and again.
ExecuteFeeProposal(n) ==
    LET proposal == feeProposals[n]
        passed == proposal.for > proposal.against
    IN  /\ block > proposal.end /\ ~proposal.executed
        /\ passed => \A fee \in proposal.fee : fee < FeeLimit
        /\ feeProposals' = [feeProposals EXCEPT ![n].executed = TRUE]
        /\ pairs' = [p \in pairIds |->
               IF passed /\ proposal.fee # {}
               THEN [pairs[p] EXCEPT !.fee = CHOOSE fee \in proposal.fee : TRUE] ELSE pairs[p]]
        /\ UNCHANGED votesCast
        /\ UnchangedByProposals

----
\* The admin's settings, at once or announced

UnchangedByAdmin ==
    UNCHANGED <<block, marketVars, positions, feeProposals, votesCast, contests, prizesClaimed,
                crossTrades>>

Campaigns == {c \in [rate : EmissionArgs \ {0}, start : 0..MaxBlock, end : 0..MaxBlock] : c.start < c.end}

NoSetting == [kind |-> "Delay", chain |-> CHOOSE chain \in Destinations : TRUE,
              campaign |-> [rate |-> 0, start |-> 0, end |-> 0], delay |-> 0]

Settings ==
    {[NoSetting EXCEPT !.kind = "Route", !.chain = chain] : chain \in Destinations}
    \cup {[NoSetting EXCEPT !.kind = "Mining", !.campaign = c] : c \in Campaigns}
    \cup {[NoSetting EXCEPT !.delay = delay] : delay \in DelayArgs}

\* apply_configure_bridge_route, apply_set_liquidity_mining, or the new delay. Pools
\* are not accrued first, so that a new rate holds for the blocks since their last one.
Apply(setting) ==
    /\ routes' = IF setting.kind = "Route" THEN routes \cup {setting.chain} ELSE routes
    /\ mining' = IF setting.kind = "Mining" THEN setting.campaign ELSE mining
    /\ timelock' = IF setting.kind = "Delay" THEN setting.delay ELSE timelock

\* configure_bridge_route, set_liquidity_mining_campaign, set_admin_timelock_delay
SetAtOnce(caller, setting) ==
    /\ caller = DexAdmin
    /\ timelock = 0
    /\ Apply(setting)
    /\ UNCHANGED adminActions
    /\ UnchangedByAdmin

\* schedule_admin_action_internal
ScheduleAdminAction(caller, setting) ==
    /\ Len(adminActions) < MaxAdminActions
    /\ caller = DexAdmin
    /\ adminActions' = Append(adminActions,
           [kind |-> setting.kind, chain |-> setting.chain, campaign |-> setting.campaign,
            delay |-> setting.delay, from |-> block + timelock, status |-> "Scheduled"])
    /\ UNCHANGED <<routes, mining, timelock>>
    /\ UnchangedByAdmin

\* Mutant: an action is left Scheduled by its execution.
ExecuteAdminAction_Again(caller, n) ==
    /\ caller = DexAdmin
    /\ adminActions[n].status = "Scheduled"
    /\ block >= adminActions[n].from
    /\ Apply(adminActions[n])
    /\ UNCHANGED adminActions
    /\ UnchangedByAdmin

ExecuteAdminAction(caller, n) ==
    /\ caller = DexAdmin
    /\ adminActions[n].status = "Scheduled"
    /\ block >= adminActions[n].from
    /\ Apply(adminActions[n])
    /\ adminActions' = [adminActions EXCEPT ![n].status = "Executed"]
    /\ UnchangedByAdmin

CancelAdminAction(caller, n) ==
    /\ caller = DexAdmin
    /\ adminActions[n].status = "Scheduled"
    /\ adminActions' = [adminActions EXCEPT ![n].status = "Cancelled"]
    /\ UNCHANGED <<routes, mining, timelock>>
    /\ UnchangedByAdmin

----
\* The next-state relation

PoolNext ==
    \E a \in Traders :
        \/ \E base, quote \in DexTokens, fee \in FeeArgs, baseIn, quoteIn \in DepositArgs :
              CreatePool(a, base, quote, fee, baseIn, quoteIn)
        \/ \E p \in pairIds, baseIn, quoteIn \in DepositArgs : DexAddLiquidity(a, p, baseIn, quoteIn)
        \/ \E p \in pairIds, shares \in 1..MaxReserve : DexRemoveLiquidity(a, p, shares)
        \/ \E p \in pairIds : ClaimLiquidityRewards(a, p)

OrderNext ==
    \E a \in Traders :
        \/ \E p \in pairIds, side \in Sides, amount \in DepositArgs : SwapExact(a, p, side, amount)
        \/ \E p \in pairIds, side \in Sides, kind \in OrderKinds, amount \in DepositArgs,
             price, trigger \in OrderPriceArgs : PlaceOrder(a, p, side, kind, price, trigger, amount)
        \/ \E n \in DOMAIN orders, amount \in DepositArgs : ExecuteOrder(a, n, amount)
        \/ \E n \in DOMAIN orders : CancelOrder(a, n)
        \/ \E maker, taker \in DOMAIN orders, amount \in DepositArgs : MatchOrders(maker, taker, amount)

TradeNext ==
    \E a \in Traders :
        \/ \E p \in pairIds, chain \in Destinations : CreateCrossChainTrade(a, p, chain)
        \/ \E t \in DOMAIN crossTrades : AttachBridgeRequest(a, t) \/ FinalizeCrossChainTrade(a, t)

ContestNext ==
    \E a \in Traders :
        \/ \E p \in {0} \cup pairIds, prize \in PrizeArgs, start, end \in 0..MaxBlock, volume \in VolumeArgs :
              CreateTradingCompetition(a, p, prize, start, end, volume)
        \/ \E c \in DOMAIN contests : ClaimCompetitionReward(a, c)
        \/ \E c \in DOMAIN contests : \E contest \in Adjusted(contests[c]) : AdjustContest(a, c, contest)

ProposalNext ==
    \/ \E a \in Traders :
          \/ \E fee \in {{}} \cup {{f} : f \in FeeArgs}, duration \in DelayArgs :
                CreateGovernanceProposal(a, fee, duration)
          \/ \E n \in DOMAIN feeProposals, support \in BOOLEAN : VoteOnProposal(a, n, support)
    \/ \E n \in DOMAIN feeProposals : ExecuteFeeProposal(n)

DexAdminNext ==
    \E a \in Traders :
        \/ \E setting \in Settings : SetAtOnce(a, setting) \/ ScheduleAdminAction(a, setting)
        \/ \E n \in DOMAIN adminActions : ExecuteAdminAction(a, n) \/ CancelAdminAction(a, n)

DexNext ==
    \/ PoolNext
    \/ OrderNext
    \/ TradeNext
    \/ ContestNext
    \/ ProposalNext
    \/ DexAdminNext
    \/ NextBlock /\ UNCHANGED <<marketVars, positions, feeProposals, votesCast, contests,
                                prizesClaimed, crossTrades, dexAdminVars>>

DexSpec == ChainInit /\ DexInit /\ [][DexNext]_dexVars

----
\* While a timelock is in force, each of the admin's settings comes from an action
\* that has waited, and no action is carried out twice (execute_admin_action).
TimelockHonoured ==
    [][timelock > 0 /\ <<routes, mining, timelock>>' # <<routes, mining, timelock>> =>
          \E n \in DOMAIN adminActions :
              /\ adminActions[n].status = "Scheduled" /\ block >= adminActions[n].from
              /\ adminActions' = [adminActions EXCEPT ![n].status = "Executed"]]_dexAdminVars

\* The books of the exchange agree after any nesting of swaps and fills. Every pool's
\* shares are its providers' (add_liquidity, remove_liquidity). No reward debt is more
\* than the index has brought, so that no subtraction of the code is cut off at 0 and
\* takes rewards away (claim_liquidity_rewards). The stored best quotes are those of
\* the orders still open (refresh_best_quotes).
DexBooksAgree ==
    \A p \in pairIds :
        /\ pairs[p].shares = SumFunctionOnSet([a \in Traders |-> positions[p][a].shares], Traders)
        /\ \A a \in Traders : positions[p][a].debt <= Earned(positions[p][a].shares, pairs[p].index)
        /\ pairs[p].bid = BestPrice(orders, p, "Buy") /\ pairs[p].ask = BestPrice(orders, p, "Sell")

\* Votes of a proposal never weigh more than all tokens, though balances grow while
\* it is voted on (vote_on_proposal), and all tokens are somebody's.
VotesWithinSupply ==
    /\ govSupply = SumFunctionOnSet(govBalance, Traders)
    /\ \A n \in DOMAIN feeProposals : feeProposals[n].for + feeProposals[n].against <= govSupply

\* Types, pools, quotes and votes of the exchange agree.
MarketBooksAgree == DexTypeOK /\ DexBooksAgree /\ VotesWithinSupply

\* What one share of a pool is worth never falls, by any deposit, withdrawal or
\* swap, nested or not, whatever is rounded: the product of the reserves grows at
\* least as the square of the shares (swap, add_liquidity, remove_liquidity).
ShareValueNeverFalls ==
    [][\A p \in pairIds :
          LET a == pairs[p]
              b == pairs'[p]
          IN  a.shares > 0 /\ b.shares > 0 =>
                  b.base * b.quote * a.shares * a.shares >= a.base * a.quote * b.shares * b.shares]_pairs
====

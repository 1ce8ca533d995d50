---- MODULE Oracle ----
(***************************************************************************)
(* The valuation oracle: sources with weights and reputations, how their   *)
(* prices are collected and aggregated, valuations with their history and  *)
(* trend, requests, fallback sources, and the three ways to change the     *)
(* sources: the admin, proposals of signers, and votes. A source's answer  *)
(* is chosen by the environment, 0 for none. Time is the block number.     *)
(*                                                                         *)
(* Left out, as no message reads them: price alerts, location adjustments, *)
(* market trends, comparables, cache lifetimes, the least stake and the    *)
(* request numbers' owners. No message gives a source a stake, so that all *)
(* stakes are 0 and the graduated slashing, which needs one, always fails; *)
(* the circuit breaker is set only by calls that fail. Only the admin of   *)
(* the constructor has the rights of one.                                  *)
(***************************************************************************)
EXTENDS BlockClock, U32, TLC, SequencesExt, FiniteSetsExt, Functions

----
\* Arithmetic on sequences of prices: outliers of the mean, the three ways to aggregate,
\* confidence, volatility, averages over a window and the statistics of a history.
\* Divisions round down as they do in the code.

AbsDiff(a, b) == IF a > b THEN a - b ELSE b - a
AtMost(a, bound) == Min({a, bound})
Total(s) == FoldLeft(LAMBDA sum, x : sum + x, 0, s)
Mean(s) == Total(s) \div Len(s)
Variance(s) == Total([i \in DOMAIN s |-> AbsDiff(s[i], Mean(s)) * AbsDiff(s[i], Mean(s))]) \div Len(s)

\* Newton's iteration for the root of n, from n down to where it stops falling.
Newton(n, x) == (x + n \div x) \div 2
Descent(n) ==
    LET from[x \in 1..n] == IF Newton(n, x) >= x THEN x ELSE from[Newton(n, x)]
    IN from
SquareRoot(n) == IF n = 0 THEN 0 ELSE Descent(n)[n]

\* The other root in the code starts one step later.
Sqrt(n) == IF n <= 1 THEN n ELSE Descent(n)[(n + 1) \div 2]

\* Which of the prices are no outliers, as a set of places.
Inliers(prices, threshold) ==
    IF Len(prices) < 3 THEN DOMAIN prices
    ELSE {i \in DOMAIN prices : AbsDiff(prices[i], Mean(prices)) <= threshold * SquareRoot(Variance(prices))}

WeightedMean(prices, weights, places) ==
    MapThenSumSet(LAMBDA i : prices[i] * weights[i], places) \div MapThenSumSet(LAMBDA i : weights[i], places)

Sorted(s) == SortSeq(s, <)
Median(s) ==
    LET sorted == Sorted(s)
        half == Len(s) \div 2
    IN IF Len(s) % 2 = 0 THEN (sorted[half] + sorted[half + 1]) \div 2 ELSE sorted[half + 1]
TrimmedMean(s, count) ==
    LET trim == AtMost(count, Len(s) \div 3)
    IN Mean(SubSeq(Sorted(s), trim + 1, Len(s) - trim))

\* Of prices with weights, the lowest at which half the weight is reached.
WeightedMedian(pairs) ==
    LET sorted == SortSeq(pairs, LAMBDA p, q : p[1] < q[1])
        Upto(i) == MapThenSumSet(LAMBDA j : sorted[j][2], 1..i)
        half == Upto(Len(sorted)) \div 2
    IN IF half = 0 THEN sorted[1][1]
       ELSE sorted[Min({i \in DOMAIN sorted : Upto(i) >= half})][1]
PercentTrimmedMean(s, percent) ==
    LET count == (Len(s) * percent) \div 100
    IN IF 2 * count >= Len(s) THEN Sorted(s)[Len(s) \div 2 + 1]
       ELSE Mean(SubSeq(Sorted(s), count + 1, Len(s) - count))

\* Five steps of the iteration, which for a large variance end above the root.
FiveSteps(n) == FoldLeft(LAMBDA x, i : IF x > 0 THEN Newton(n, x) ELSE x, n, <<1, 2, 3, 4, 5>>)
ConfidenceScore(prices) ==
    LET mean == Mean(prices)
        cv == IF mean > 0 THEN (FiveSteps(Variance(prices)) * 10000) \div mean ELSE 10000
    IN AtMost(25 * Len(prices), 75) + (IF cv <= 10000 THEN (10000 - cv) \div 400 ELSE 0)

PercentChange(old, new) == IF old = 0 THEN 0 ELSE (AbsDiff(new, old) * 100) \div old

\* Of a sequence of values; the order decides which of two is the base.
VolatilityIndex(values) ==
    LET bases == SelectSeq([i \in 1..(Len(values) - 1) |-> i], LAMBDA i : values[i] > 0)
    IN IF Len(values) < 2 \/ bases = <<>> THEN 0
       ELSE AtMost(Mean([k \in DOMAIN bases |->
                (AbsDiff(values[bases[k] + 1], values[bases[k]]) * 10000) \div values[bases[k]]]) \div 100, 100)

ExponentialMean(values, alpha) ==
    IF values = <<>> THEN 0
    ELSE FoldLeft(LAMBDA ema, v : (v * alpha + ema * (10000 - alpha)) \div 10000, values[1], Tail(values))
SimpleMean(values) == IF values = <<>> THEN 0 ELSE Mean(values)
TrendDirection(current, ema) ==
    CASE ema = 0 \/ AbsDiff(current, ema) <= (current * 100) \div 10000 -> "Stable"
      [] ema # 0 /\ AbsDiff(current, ema) > (current * 100) \div 10000 /\ current > ema -> "Up"
      [] OTHER -> "Down"

Quotient(a, n) == IF a >= 0 THEN a \div n ELSE -((-a) \div n)   \* towards zero, for a signed dividend
Statistics(values) ==
    [low |-> Min(Range(values)), high |-> Max(Range(values)), average |-> Mean(values),
     volatility |-> IF Mean(values) > 0 THEN AtMost((Sqrt(Variance(values)) * 100) \div Mean(values), 100) ELSE 0,
     trend |-> IF Len(values) > 1
               THEN Max({AtMost(Quotient(Last(values) - values[1], Len(values)), 100), -100}) ELSE 0]

----
(***************************************************************************)
(* Reference definitions, and what is promised of a nonempty sequence of   *)
(* positive prices, as the prices are that reach these functions.          *)
(***************************************************************************)
FloorRoot(n) == CHOOSE r \in 0..n : r * r <= n /\ n < (r + 1) * (r + 1)
Between(x, values) == Min(Range(values)) <= x /\ x <= Max(Range(values))

RootsAgree(n) == SquareRoot(n) = FloorRoot(n) /\ Sqrt(n) = FloorRoot(n)

\* At least one price is no outlier; the aggregate is between the prices that count,
\* whatever the weights; no more than 2 trimmed at each end of six; scores are percentages
\* (aggregate_prices, filter_outliers, calculate_confidence_score).
AggregationSound(prices, weights, threshold) ==
    LET inliers == Inliers(prices, threshold)
        kept == SetToSortSeq(inliers, <)
        values == [k \in DOMAIN kept |-> prices[kept[k]]]
    IN /\ RootsAgree(Variance(prices))
       /\ inliers # {}
       /\ (\E i \in inliers : weights[i] > 0) => Between(WeightedMean(prices, weights, inliers), values)
       /\ Between(Median(prices), prices)
       /\ \A count \in 0..3 : Between(TrimmedMean(prices, count), prices)
       /\ Between(WeightedMedian([i \in DOMAIN prices |-> <<prices[i], weights[i]>>]), prices)
       /\ \A percent \in {0, 20, 50} : Between(PercentTrimmedMean(prices, percent), prices)
       /\ ConfidenceScore(prices) \in 25..100

\* Averages of a history are within it, and its index and its volatility are percentages
\* (calculate_ema, calculate_volatility_index, get_history_statistics).
HistorySound(values) ==
    /\ \A alpha \in {0, 1000, 10000} : Between(ExponentialMean(values, alpha) + 1, Append(values, Max(Range(values)) + 1))
    /\ VolatilityIndex(values) \in 0..100
    /\ LET found == Statistics(values)
       IN found.low <= found.average /\ found.average <= found.high /\ found.volatility \in 0..100 /\ found.trend \in -100..100

----

CONSTANTS
    OracleAdmin, Voters,      \* accounts; the admin may be a signer
    SourceIds, ManualName,    \* the name under which a stored valuation is a price
    OracleProperties,
    Answers, AIPrice,         \* prices of sources, and of a source that is a model
    MinUpdateInterval, Quorum, VotingPeriod,
    HistoryLimit, SnapshotLimit, BatchLimit, BatchFailures,
    ShortWindow, LongWindow,  \* windows of a trend
    FirstParams,              \* minSources, maxStaleness, volatility, outliers
    WeightArgs, ValueArgs, PowerArgs, ParamArgs, SlashArgs, PenaltyArgs, RetentionArgs,
    MaxProposals, MaxQueries  \* bounds on proposals of a kind and on tries of a fallback source

VARIABLES
    sources, activeSources, batched, packed,
    reputations, missed, lastReport, lastUpdate,
    valuations, histories, trends,
    pending, requestCounter,
    params, autoSlash, penalties, emaAlpha, aiContract,
    signers, multisigThreshold, multisigProposals, sourceProposals,
    power, oracleVotes,
    fallbacks, fallbackOrder, fallbackAttempts,
    tracking, snapshots, sourceLog

sourceVars == <<sources, activeSources, batched, packed>>
conductVars == <<reputations, missed, lastReport, lastUpdate>>
valuationVars == <<valuations, histories, trends, snapshots, sourceLog>>
requestVars == <<pending, requestCounter>>
settingVars == <<params, autoSlash, penalties, emaAlpha, aiContract, tracking>>
signerVars == <<signers, multisigThreshold, multisigProposals, sourceProposals>>
voteVars == <<power, oracleVotes>>
fallbackVars == <<fallbacks, fallbackOrder, fallbackAttempts>>
oracleVars == <<sourceVars, conductVars, valuationVars, requestVars, settingVars, signerVars, voteVars, fallbackVars>>

ASSUME OracleConstants ==
    /\ OracleAdmin \in Voters /\ ManualName \notin SourceIds
    /\ \A v \in Answers \cup {AIPrice} : v \in Nat \ {0}
    /\ WeightArgs \subseteq Word /\ PowerArgs \subseteq Nat
    /\ MinUpdateInterval \in Nat /\ Quorum \in Nat /\ VotingPeriod \in Nat
    /\ HistoryLimit \in Nat \ {0} /\ SnapshotLimit \in Nat \ {0} /\ BatchLimit \in Nat /\ BatchFailures \in Nat \ {0}

Source == [type : {"Feed", "Manual", "AIModel"}, weight : Word, active : BOOLEAN]
MaxWeight == 100         \* of a source that is added; a vote gives any weight
FirstReputation == 500
MostReputation == 1000
LeastReputation == 200   \* below it a source is deactivated

Put(f, x, v) == [y \in DOMAIN f \cup {x} |-> IF y = x THEN v ELSE f[y]]
Get(f, x, default) == IF x \in DOMAIN f THEN f[x] ELSE default
Less(a, b) == IF a > b THEN a - b ELSE 0      \* saturating_sub
Reputation(s) == Get(reputations, s, FirstReputation)

OracleInit ==
    /\ sources = << >> /\ activeSources = << >> /\ batched = FALSE /\ packed = << >>
    /\ reputations = << >> /\ missed = << >> /\ lastReport = << >> /\ lastUpdate = << >>
    /\ valuations = << >> /\ histories = << >> /\ trends = << >>
    /\ pending = << >> /\ requestCounter = 0
    /\ params = FirstParams
    /\ autoSlash = [staleness |-> FALSE, staleAfter |-> FirstParams.maxStaleness, silence |-> FALSE, count |-> 3]
    /\ penalties = [minor |-> 50, moderate |-> 150]
    /\ emaAlpha = 1000 /\ aiContract = FALSE
    /\ signers = {} /\ multisigThreshold = 1 /\ multisigProposals = << >> /\ sourceProposals = << >>
    /\ power = << >> /\ oracleVotes = << >>
    /\ fallbacks = << >> /\ fallbackOrder = << >> /\ fallbackAttempts = 3
    /\ tracking = [enabled |-> FALSE, retention |-> 30] /\ snapshots = << >> /\ sourceLog = << >>

----
(***************************************************************************)
(* Sources. The packed weights are those of the active sources at the time *)
(* they were packed, two to a word.                                        *)
(***************************************************************************)
Packed(known, active) ==
    LET found == SelectSeq(active, LAMBDA s : s \in DOMAIN known)
        weights == [i \in DOMAIN found |-> known[found[i]].weight]
    IN IF Len(weights) % 2 = 1 THEN Append(weights, 0) ELSE weights

SetSources(known, active, repack) ==
    /\ sources' = known
    /\ activeSources' = active
    /\ packed' = IF repack /\ batched THEN Packed(known, active) ELSE packed
    /\ batched' = batched

\* An id that is listed stays listed, though its new record may be inactive.
Enlist(s, source, repack) ==
    SetSources(Put(sources, s, source),
               IF source.active /\ ~Contains(activeSources, s) THEN Append(activeSources, s) ELSE activeSources,
               repack)

Strike(s, repack) ==
    SetSources(Restrict(sources, DOMAIN sources \ {s}), SelectSeq(activeSources, LAMBDA t : t # s), repack)

Deactivate(S) ==
    SetSources([s \in DOMAIN sources |-> [sources[s] EXCEPT !.active = @ /\ s \notin S]],
               SelectSeq(activeSources, LAMBDA s : s \notin S \cap DOMAIN sources),
               S \cap DOMAIN sources # {})

AddOracleSource(caller, s, source) ==
    /\ caller = OracleAdmin
    /\ source.weight <= MaxWeight
    /\ Enlist(s, source, TRUE)
    /\ UNCHANGED <<block, conductVars, valuationVars, requestVars, settingVars, signerVars, voteVars, fallbackVars>>

\* The message of the registry interface packs nothing again.
RemoveSource(caller, s) ==
    /\ caller = OracleAdmin
    /\ Strike(s, FALSE)
    /\ UNCHANGED <<block, conductVars, valuationVars, requestVars, settingVars, signerVars, voteVars, fallbackVars>>

SetBatchAggregation(caller, enabled) ==
    /\ caller = OracleAdmin
    /\ batched' = enabled
    /\ packed' = IF enabled THEN Packed(sources, activeSources) ELSE packed
    /\ UNCHANGED <<block, sources, activeSources, conductVars, valuationVars, requestVars, settingVars, signerVars, voteVars, fallbackVars>>

UpdateSourceReputation(caller, s, success) ==
    LET next == IF success THEN AtMost(Reputation(s) + 10, MostReputation) ELSE Less(Reputation(s), 50) IN
    /\ caller = OracleAdmin
    /\ reputations' = Put(reputations, s, next)
    /\ Deactivate(IF next < LeastReputation THEN {s} ELSE {})
    /\ UNCHANGED <<block, missed, lastReport, lastUpdate, valuationVars, requestVars, settingVars, signerVars, voteVars, fallbackVars>>

\* Of a stake that is 0 nothing is taken.
SlashSource(caller, s) == UpdateSourceReputation(caller, s, FALSE)
----
(***************************************************************************)
(* Signers. Approvals are kept in the order they came; the threshold is    *)
(* the one of the moment of an approval.                                   *)
(***************************************************************************)
UnchangedBySigners == UNCHANGED <<block, conductVars, valuationVars, requestVars, settingVars, voteVars, fallbackVars>>

AddMultisigSigner(caller, a) ==
    /\ caller = OracleAdmin
    /\ signers' = signers \cup {a}
    /\ UNCHANGED <<multisigThreshold, multisigProposals, sourceProposals, sourceVars>> /\ UnchangedBySigners

RemoveMultisigSigner(caller, a) ==
    /\ caller = OracleAdmin
    /\ signers' = signers \ {a}
    /\ multisigThreshold' = AtMost(multisigThreshold, Cardinality(signers'))
    /\ UNCHANGED <<multisigProposals, sourceProposals, sourceVars>> /\ UnchangedBySigners

SetMultisigThreshold(caller, threshold) ==
    /\ caller = OracleAdmin
    /\ threshold \in 1..Cardinality(signers)
    /\ multisigThreshold' = threshold
    /\ UNCHANGED <<signers, multisigProposals, sourceProposals, sourceVars>> /\ UnchangedBySigners

MayApprove(caller, p) == caller \in signers /\ ~p.executed /\ ~Contains(p.approvals, caller)
Approved(p, caller) ==
    [p EXCEPT !.approvals = Append(@, caller), !.executed = Len(p.approvals) + 1 >= multisigThreshold]

\* The proposer's approval alone executes nothing, even at a threshold of 1.
ProposeMultisigAction(caller) ==
    /\ caller \in signers
    /\ Len(multisigProposals) < MaxProposals
    /\ multisigProposals' = Append(multisigProposals, [approvals |-> <<caller>>, executed |-> FALSE])
    /\ UNCHANGED <<signers, multisigThreshold, sourceProposals, sourceVars>> /\ UnchangedBySigners

ApproveMultisigProposal(caller, i) ==
    /\ MayApprove(caller, multisigProposals[i])
    /\ multisigProposals' = [multisigProposals EXCEPT ![i] = Approved(@, caller)]
    /\ UNCHANGED <<signers, multisigThreshold, sourceProposals, sourceVars>> /\ UnchangedBySigners

ExecuteSourceProposal(p) == IF p.action = "Add" THEN Enlist(p.id, p.source, TRUE) ELSE Strike(p.id, TRUE)

\* The proposer counts as one approval, a signer or not.
SubmitProposal(caller, action, s, source) ==
    LET p == [action |-> action, id |-> s, source |-> source, approvals |-> <<caller>>,
              executed |-> 1 >= multisigThreshold] IN
    /\ Len(sourceProposals) < MaxProposals
    /\ sourceProposals' = Append(sourceProposals, p)
    /\ IF p.executed THEN ExecuteSourceProposal(p) ELSE UNCHANGED sourceVars
    /\ UNCHANGED <<signers, multisigThreshold, multisigProposals>> /\ UnchangedBySigners

MayPropose(caller) == caller \in signers \cup {OracleAdmin}

\* Without signers it is done at once; an addition then packs nothing again.
ProposeAddOracleSource(caller, s, source) ==
    /\ MayPropose(caller)
    /\ source.weight <= MaxWeight
    /\ \/ signers = {} /\ Enlist(s, source, FALSE) /\ UNCHANGED signerVars /\ UnchangedBySigners
       \/ signers # {} /\ SubmitProposal(caller, "Add", s, source)

ProposeRemoveOracleSource(caller, s) ==
    /\ MayPropose(caller)
    /\ s \in DOMAIN sources
    /\ \/ signers = {} /\ Strike(s, TRUE) /\ UNCHANGED signerVars /\ UnchangedBySigners
       \/ signers # {} /\ SubmitProposal(caller, "Remove", s, [type |-> "Feed", weight |-> 0, active |-> FALSE])

\* Mutant: who has approved may approve again.
ApproveSourceProposal_Twice(caller, i) ==
    LET p == Approved(sourceProposals[i], caller) IN
    /\ caller \in signers /\ ~sourceProposals[i].executed
    /\ sourceProposals' = [sourceProposals EXCEPT ![i] = p]
    /\ IF p.executed THEN ExecuteSourceProposal(p) ELSE UNCHANGED sourceVars
    /\ UNCHANGED <<signers, multisigThreshold, multisigProposals>> /\ UnchangedBySigners

ApproveSourceProposal(caller, i) ==
    LET p == Approved(sourceProposals[i], caller) IN
    /\ MayApprove(caller, sourceProposals[i])
    /\ sourceProposals' = [sourceProposals EXCEPT ![i] = p]
    /\ IF p.executed THEN ExecuteSourceProposal(p) ELSE UNCHANGED sourceVars
    /\ UNCHANGED <<signers, multisigThreshold, multisigProposals>> /\ UnchangedBySigners

----
(***************************************************************************)
(* Votes. Who has voted is not recorded: an account may vote again.        *)
(***************************************************************************)
UnchangedByVotes == UNCHANGED <<block, conductVars, valuationVars, requestVars, signerVars, fallbackVars,
                                autoSlash, penalties, emaAlpha, aiContract, tracking>>
VotingPower(a) == Get(power, a, 0)

SetGovernanceVotingPower(caller, a, amount) ==
    /\ caller = OracleAdmin
    /\ power' = Put(power, a, amount)
    /\ UNCHANGED <<oracleVotes, params, sourceVars>> /\ UnchangedByVotes

\* An action sets a parameter, lists a source or strikes one.
ProposeGovernanceAction(caller, action) ==
    /\ VotingPower(caller) > 0
    /\ Len(oracleVotes) < MaxProposals
    /\ oracleVotes' = Append(oracleVotes,
           [action |-> action, for |-> 0, against |-> 0, until |-> block + VotingPeriod, executed |-> FALSE])
    /\ UNCHANGED <<power, params, sourceVars>> /\ UnchangedByVotes

VoteOnGovernanceProposal(caller, i, support) ==
    /\ VotingPower(caller) > 0
    /\ ~oracleVotes[i].executed /\ block < oracleVotes[i].until
    /\ oracleVotes' = IF support THEN [oracleVotes EXCEPT ![i].for = @ + VotingPower(caller)]
                      ELSE [oracleVotes EXCEPT ![i].against = @ + VotingPower(caller)]
    /\ UNCHANGED <<power, params, sourceVars>> /\ UnchangedByVotes

Carried(v) == block >= v.until /\ v.for + v.against >= Quorum /\ v.for > v.against

\* A source that is voted in gets a record of its own, over one it may have, with any
\* weight, and is not packed.
ExecuteGovernanceProposal(i) ==
    LET action == oracleVotes[i].action IN
    /\ ~oracleVotes[i].executed /\ Carried(oracleVotes[i])
    /\ \/ /\ action.kind \in DOMAIN params
          /\ params' = [params EXCEPT ![action.kind] = action.value]
          /\ UNCHANGED sourceVars
       \/ /\ action.kind = "AddSource"
          /\ Enlist(action.id, [type |-> "Feed", weight |-> action.value, active |-> TRUE], FALSE)
          /\ UNCHANGED params
       \/ action.kind = "RemoveSource" /\ Strike(action.id, TRUE) /\ UNCHANGED params
    /\ oracleVotes' = [oracleVotes EXCEPT ![i].executed = TRUE]
    /\ UNCHANGED power /\ UnchangedByVotes

----
(***************************************************************************)
(* Collecting prices. A source without an answer is stood in for by the    *)
(* last valuation of the property, if that is recent, under another name.  *)
(***************************************************************************)
ManualPrice(p) ==
    {v.value : v \in {w \in {Last(histories[q]) : q \in {p} \cap DOMAIN histories} : Less(block, w.at) <= params.maxStaleness}}

Throttled(s) == Get(lastUpdate, s, 0) > 0 /\ block - lastUpdate[s] < MinUpdateInterval

OwnPrice(s, answers) ==
    CASE sources[s].type = "Feed" -> {answers[s]} \ {0}
      [] sources[s].type = "AIModel" -> IF aiContract THEN {AIPrice} ELSE {}
      [] OTHER -> {}

Reply(s, p, answers) ==
    IF OwnPrice(s, answers) # {} THEN [by : {s}, name : {s}, price : OwnPrice(s, answers)]
    ELSE [by : {s}, name : {ManualName}, price : ManualPrice(p)]

CollectPrices(p, answers) ==
    LET replying == SelectSeq(activeSources,
            LAMBDA s : s \in DOMAIN sources /\ ~Throttled(s) /\ Reply(s, p, answers) # {})
    IN [i \in DOMAIN replying |-> CHOOSE r \in Reply(replying[i], p, answers) : TRUE]

\* The weight packed at the place of an active source, or its own.
PackedWeight(i) == IF i <= Len(packed) THEN packed[i] ELSE sources[activeSources[i]].weight
WeightOf(name) ==
    IF batched /\ Contains(activeSources, name)
    THEN PackedWeight(CHOOSE i \in DOMAIN activeSources : activeSources[i] = name)
    ELSE IF name \in DOMAIN sources THEN sources[name].weight ELSE 0

Prices(collected) == [i \in DOMAIN collected |-> collected[i].price]
Counted(collected) == Inliers(Prices(collected), params.outliers)
Weights(collected) == [i \in DOMAIN collected |-> WeightOf(collected[i].name)]

\* Enough prices, and weights for those that count: one by one, a name without a
\* record fails the whole aggregation. Their sum is a u32, and one that does not fit panics.
TotalWeight(collected) == MapThenSumSet(LAMBDA i : Weights(collected)[i], Counted(collected))
Aggregable(collected) ==
    /\ collected # << >> /\ Len(collected) >= params.minSources
    /\ batched \/ \A i \in Counted(collected) : collected[i].name \in DOMAIN sources
    /\ TotalWeight(collected) \in Word \ {0}
AggregatePrices(collected) == WeightedMean(Prices(collected), Weights(collected), Counted(collected))

Used(collected) == {collected[i].by : i \in DOMAIN collected}
Touched(collected) ==
    lastUpdate' = [s \in Used(collected) |-> block] @@ lastUpdate
----
(***************************************************************************)
(* Valuations. A change beyond the threshold fails the call, and with it   *)
(* the breaker the call would have set. What is compared are the low bits  *)
(* of the percentage: a change so large that it does not fit may pass.     *)
(***************************************************************************)
Latest(s, limit) == SubSeq(s, Less(Len(s), limit) + 1, Len(s))
Window(history, width) == SelectSeq(history, LAMBDA v : v.at >= Less(block, width))
ValuesOf(history) == [i \in DOMAIN history |-> history[i].value]

TrendOf(value, history) ==
    LET ema == ExponentialMean(ValuesOf(Window(history, ShortWindow)), emaAlpha) IN
    [current |-> value, ema |-> ema, short |-> SimpleMean(ValuesOf(Window(history, ShortWindow))),
     long |-> SimpleMean(ValuesOf(Window(history, LongWindow))), direction |-> TrendDirection(value, ema)]

\* With tracking on, what was valued and when, as far back as the retention.
Recorded(records, value) ==
    Latest(SelectSeq(Append(records, [value |-> value, at |-> block]), LAMBDA r : r.at >= Less(block, tracking.retention)), SnapshotLimit)

Stable(p, value) == p \in DOMAIN valuations => AsU32(PercentChange(valuations[p].value, value)) <= params.volatility

\* Mutant: the trend is that of the history before.
SetValuation_OldTrend(p, v) ==
    LET history == Latest(Append(Get(histories, p, << >>), v), HistoryLimit) IN
    /\ valuations' = Put(valuations, p, v)
    /\ histories' = Put(histories, p, history)
    /\ trends' = Put(trends, p, TrendOf(Get(valuations, p, v).value, Get(histories, p, history)))
    /\ snapshots' = IF tracking.enabled THEN Put(snapshots, p, Recorded(Get(snapshots, p, << >>), v.value)) ELSE snapshots
    /\ sourceLog' = IF tracking.enabled THEN Recorded(sourceLog, v.value) ELSE sourceLog

SetValuation(p, v) ==
    LET history == Latest(Append(Get(histories, p, << >>), v), HistoryLimit) IN
    /\ valuations' = Put(valuations, p, v)
    /\ histories' = Put(histories, p, history)
    /\ trends' = Put(trends, p, TrendOf(v.value, history))
    /\ snapshots' = IF tracking.enabled THEN Put(snapshots, p, Recorded(Get(snapshots, p, << >>), v.value)) ELSE snapshots
    /\ sourceLog' = IF tracking.enabled THEN Recorded(sourceLog, v.value) ELSE sourceLog

\* A request for the property stays pending.
UpdatePropertyValuation(caller, p, v) ==
    /\ caller = OracleAdmin
    /\ v.value # 0
    /\ Stable(p, v.value)
    /\ SetValuation(p, v)
    /\ UNCHANGED <<block, sourceVars, conductVars, requestVars, settingVars, signerVars, voteVars, fallbackVars>>

\* Mutant: a price does not end a silence.
MissedAfter_Always(gave, s) == Get(missed, s, 0) + 1

\* A source whose own price was not among those collected has missed an update,
\* asked or not.
MissedAfter(gave, s) == IF s \in gave THEN 0 ELSE Get(missed, s, 0) + 1

\* One penalty for each active source at most, staleness before silence.
UpdateValuationFromSources(caller, p, answers) ==
    LET collected == CollectPrices(p, answers)
        value == AggregatePrices(collected)
        gave == {collected[i].name : i \in DOMAIN collected} \cap Range(activeSources)
        reported == [s \in gave |-> block] @@ lastReport
        late == {s \in Range(activeSources) :
                    /\ autoSlash.staleness /\ Get(reported, s, 0) > 0
                    /\ block - reported[s] > autoSlash.staleAfter}
        silent == {s \in Range(activeSources) \ late : autoSlash.silence /\ MissedAfter(gave, s) >= autoSlash.count}
        punished == [s \in late \cup silent |-> Less(Reputation(s), IF s \in late THEN penalties.moderate ELSE penalties.minor)]
    IN
    /\ caller = OracleAdmin
    /\ Aggregable(collected)
    /\ Stable(p, value)
    /\ Touched(collected)
    /\ lastReport' = reported
    /\ missed' = [s \in Range(activeSources) |-> IF s \in silent THEN 0 ELSE MissedAfter(gave, s)] @@ missed
    /\ reputations' = punished @@ reputations
    /\ Deactivate({s \in late \cup silent : punished[s] < LeastReputation})
    /\ SetValuation(p, [value |-> value, at |-> block])
    /\ pending' = Restrict(pending, DOMAIN pending \ {p})
    /\ UNCHANGED <<block, requestCounter, settingVars, signerVars, voteVars, fallbackVars>>

\* Open to everyone. Prices that do not aggregate fail the call, so that the
\* fallback sources are tried only when there is no price at all. What they give
\* is the last valuation too.
QueryWithFallback(p, answers) ==
    LET collected == CollectPrices(p, answers)
        active == SelectSeq(fallbackOrder, LAMBDA f : fallbacks[f].active)
        tried == SubSeq(active, 1, AtMost(fallbackAttempts, Len(active)))
        Served(f) == [fallbacks[f] EXCEPT !.successes = @ + 1]
        Failed(f) == [fallbacks[f] EXCEPT !.failures = @ + 1]
    IN
    /\ \/ Aggregable(collected) /\ UNCHANGED fallbacks
       \/ collected = << >> /\ tried = << >> /\ UNCHANGED fallbacks
       \/ /\ collected = << >> /\ tried # << >> /\ ManualPrice(p) # {}
          /\ fallbacks' = [fallbacks EXCEPT ![tried[1]] = Served(tried[1])]
       \/ /\ collected = << >> /\ ManualPrice(p) = {}
          /\ fallbacks' = [f \in Range(tried) |-> Failed(f)] @@ fallbacks
    /\ \A f \in DOMAIN fallbacks' : fallbacks'[f].successes + fallbacks'[f].failures <= MaxQueries
    /\ Touched(collected)
    /\ UNCHANGED <<block, sourceVars, reputations, missed, lastReport, valuationVars, requestVars, settingVars,
                   signerVars, voteVars, fallbackOrder, fallbackAttempts>>

SetFallbacks(known, order) ==
    /\ fallbacks' = known /\ fallbackOrder' = order
    /\ UNCHANGED <<block, fallbackAttempts, sourceVars, conductVars, valuationVars, requestVars, settingVars, signerVars, voteVars>>

\* Sources of equal priority stay in the order they came.
AddFallbackSource(caller, f, priority, active) ==
    LET known == Put(fallbacks, f, [priority |-> priority, active |-> active, successes |-> 0, failures |-> 0])
        before == SelectSeq(fallbackOrder, LAMBDA g : known[g].priority <= priority)
    IN
    /\ caller = OracleAdmin /\ f \notin DOMAIN fallbacks
    /\ SetFallbacks(known, before \o <<f>> \o SubSeq(fallbackOrder, Len(before) + 1, Len(fallbackOrder)))

RemoveFallbackSource(caller, f) ==
    /\ caller = OracleAdmin /\ f \in DOMAIN fallbacks
    /\ SetFallbacks(Restrict(fallbacks, DOMAIN fallbacks \ {f}), SelectSeq(fallbackOrder, LAMBDA g : g # f))

SetFallbackConfig(caller, attempts) ==
    /\ caller = OracleAdmin
    /\ fallbackAttempts' = attempts
    /\ UNCHANGED <<block, fallbacks, fallbackOrder, sourceVars, conductVars, valuationVars, requestVars, settingVars, signerVars, voteVars>>

----
(***************************************************************************)
(* Requests, one by one or in a batch that stops after some failures, and  *)
(* settings.                                                               *)
(***************************************************************************)
Requestable(asked, p) == p \in DOMAIN asked => Less(block, asked[p]) >= params.maxStaleness

RequestPropertyValuation(p) ==
    /\ Requestable(pending, p)
    /\ pending' = Put(pending, p, block)
    /\ requestCounter' = requestCounter + 1
    /\ UNCHANGED <<block, sourceVars, conductVars, valuationVars, settingVars, signerVars, voteVars, fallbackVars>>

BatchRequestValuations(properties) ==
    LET Step(found, p) ==
            IF found.failures >= BatchFailures THEN found
            ELSE IF Requestable(found.asked, p)
                 THEN [found EXCEPT !.asked = Put(@, p, block), !.count = @ + 1]
                 ELSE [found EXCEPT !.failures = @ + 1]
        last == FoldLeft(Step, [asked |-> pending, count |-> requestCounter, failures |-> 0], properties)
    IN
    /\ Len(properties) <= BatchLimit
    /\ pending' = last.asked /\ requestCounter' = last.count
    /\ UNCHANGED <<block, sourceVars, conductVars, valuationVars, settingVars, signerVars, voteVars, fallbackVars>>

SettingsOnly == UNCHANGED <<block, sourceVars, conductVars, valuationVars, requestVars, signerVars, voteVars, fallbackVars>>

SetVolatilityThreshold(caller, percent) ==
    /\ caller = OracleAdmin /\ percent \in 1..100
    /\ params' = [params EXCEPT !.volatility = percent]
    /\ UNCHANGED <<autoSlash, penalties, emaAlpha, aiContract, tracking>> /\ SettingsOnly
SetAutoSlashConfig(caller, config) ==
    /\ caller = OracleAdmin /\ config.staleAfter # 0 /\ config.count # 0
    /\ autoSlash' = config
    /\ UNCHANGED <<params, penalties, emaAlpha, aiContract, tracking>> /\ SettingsOnly
SetSlashingConfig(caller, config) ==
    /\ caller = OracleAdmin
    /\ penalties' = config
    /\ UNCHANGED <<params, autoSlash, emaAlpha, aiContract, tracking>> /\ SettingsOnly
SetEmaAlpha(caller, alpha) ==
    /\ caller = OracleAdmin /\ alpha <= 10000
    /\ emaAlpha' = alpha
    /\ UNCHANGED <<params, autoSlash, penalties, aiContract, tracking>> /\ SettingsOnly
SetAiValuationContract(caller) ==
    /\ caller = OracleAdmin
    /\ aiContract' = TRUE
    /\ UNCHANGED <<params, autoSlash, penalties, emaAlpha, tracking>> /\ SettingsOnly
SetHistoryTrackingEnabled(caller, enabled) ==
    /\ caller = OracleAdmin
    /\ tracking' = [tracking EXCEPT !.enabled = enabled]
    /\ UNCHANGED <<params, autoSlash, penalties, emaAlpha, aiContract>> /\ SettingsOnly
\* RetentionArgs are the periods within the limits of the code.
SetHistoryRetention(caller, retention) ==
    /\ caller = OracleAdmin
    /\ tracking' = [tracking EXCEPT !.retention = retention]
    /\ UNCHANGED <<params, autoSlash, penalties, emaAlpha, aiContract>> /\ SettingsOnly

\* What is asked about a property.
HistoryBetween(p, from, to) == SelectSeq(Get(snapshots, p, << >>), LAMBDA r : from <= r.at /\ r.at <= to)
HistoryStatistics(p, lookback) ==
    LET found == SelectSeq(Get(snapshots, p, << >>), LAMBDA r : r.at >= Less(block, lookback))
    IN IF found = << >> THEN {} ELSE {Statistics(ValuesOf(found))}
HistoricalValuations(p, limit) == Reverse(Latest(Get(histories, p, << >>), limit))
Volatility(p) == VolatilityIndex(ValuesOf(HistoricalValuations(p, 30)))
IsAnomaly(p, value) ==
    /\ p \in DOMAIN valuations
    /\ PercentChange(valuations[p].value, value) > 20
    /\ Volatility(p) < 10
----
VoteActions ==
    [kind : {"minSources", "maxStaleness", "volatility"}, value : ParamArgs, id : {ManualName}]
        \cup [kind : {"AddSource", "RemoveSource"}, value : WeightArgs, id : SourceIds]
SourceArgs == [type : {"Feed", "Manual", "AIModel"}, weight : WeightArgs, active : BOOLEAN]
AnswersOf == [DOMAIN sources -> Answers \cup {0}]

SourcesNext ==
    \E caller \in Voters, s \in SourceIds :
        \/ \E source \in SourceArgs : AddOracleSource(caller, s, source)
        \/ RemoveSource(caller, s)
        \/ \E enabled \in BOOLEAN : SetBatchAggregation(caller, enabled)

ReputationsNext ==
    \E caller \in Voters, s \in SourceIds :
        \/ \E success \in BOOLEAN : UpdateSourceReputation(caller, s, success)
        \/ SlashSource(caller, s)

SignersNext ==
    \E caller \in Voters :
        \/ \E a \in Voters : AddMultisigSigner(caller, a) \/ RemoveMultisigSigner(caller, a)
        \/ \E threshold \in 1..Cardinality(Voters) : SetMultisigThreshold(caller, threshold)
        \/ ProposeMultisigAction(caller)
        \/ \E i \in DOMAIN multisigProposals : ApproveMultisigProposal(caller, i)
        \/ \E s \in SourceIds : ProposeRemoveOracleSource(caller, s)
        \/ \E s \in SourceIds, source \in SourceArgs : ProposeAddOracleSource(caller, s, source)
        \/ \E i \in DOMAIN sourceProposals : ApproveSourceProposal(caller, i)

VotesNext ==
    \/ \E caller, a \in Voters, amount \in PowerArgs : SetGovernanceVotingPower(caller, a, amount)
    \/ \E caller \in Voters, action \in VoteActions : ProposeGovernanceAction(caller, action)
    \/ \E caller \in Voters, i \in DOMAIN oracleVotes, support \in BOOLEAN : VoteOnGovernanceProposal(caller, i, support)
    \/ \E i \in DOMAIN oracleVotes : ExecuteGovernanceProposal(i)

ValuationsNext ==
    \E caller \in Voters, p \in OracleProperties :
        \/ \E value \in ValueArgs, at \in {1, block} : UpdatePropertyValuation(caller, p, [value |-> value, at |-> at])
        \/ \E answers \in AnswersOf : UpdateValuationFromSources(caller, p, answers)

FallbacksNext ==
    \/ \E p \in OracleProperties, answers \in AnswersOf : QueryWithFallback(p, answers)
    \/ \E caller \in Voters, f \in SourceIds :
          \/ \E priority \in 1..2, active \in BOOLEAN : AddFallbackSource(caller, f, priority, active)
          \/ RemoveFallbackSource(caller, f)
          \/ \E attempts \in 0..2 : SetFallbackConfig(caller, attempts)

RequestsNext ==
    \/ \E p \in OracleProperties : RequestPropertyValuation(p)
    \/ \E properties \in BoundedSeq(OracleProperties, 3) : BatchRequestValuations(properties)

SettingsNext ==
    \E caller \in Voters :
        \/ \E percent \in ParamArgs : SetVolatilityThreshold(caller, percent)
        \/ \E config \in SlashArgs : SetAutoSlashConfig(caller, config)
        \/ \E config \in PenaltyArgs : SetSlashingConfig(caller, config)
        \/ \E alpha \in {0, 5000} : SetEmaAlpha(caller, alpha)
        \/ SetAiValuationContract(caller)
        \/ \E enabled \in BOOLEAN : SetHistoryTrackingEnabled(caller, enabled)
        \/ \E retention \in RetentionArgs : SetHistoryRetention(caller, retention)

----
\* Properties

OracleTypeOK ==
    /\ \A s \in DOMAIN sources : s \in SourceIds /\ sources[s] \in Source
    /\ \A s \in DOMAIN reputations : reputations[s] \in 0..MostReputation
    /\ \A p \in DOMAIN valuations : valuations[p].value \in Nat \ {0}
    /\ signers \subseteq Voters
    /\ \A a \in DOMAIN power : a \in Voters /\ power[a] \in Nat

\* However sources come and go, the list of active sources names each once, those with
\* an active record, and none without a record; a threshold can be met by the signers
\* there are; the stored valuation, the last of its history and the current price of
\* its trend are one; fallback sources are tried by priority; what tracking has
\* recorded of a property is all of the past; an anomaly is not accepted while the
\* threshold is that of the start, unless its percentage is too large for a u32
\* (active_sources, remove_multisig_signer, update_property_valuation,
\* add_fallback_source, record_oracle_snapshot).
OracleBooksAgree ==
    /\ OracleTypeOK
    /\ IsInjective(activeSources)
    /\ {s \in DOMAIN sources : sources[s].active} \subseteq Range(activeSources)
    /\ Range(activeSources) \subseteq DOMAIN sources
    /\ multisigThreshold <= 1 \/ multisigThreshold <= Cardinality(signers)
    /\ DOMAIN trends = DOMAIN valuations /\ DOMAIN histories = DOMAIN valuations
    /\ \A p \in DOMAIN valuations : Last(histories[p]) = valuations[p] /\ trends[p].current = valuations[p].value
    /\ Range(fallbackOrder) = DOMAIN fallbacks
    /\ \A i, j \in DOMAIN fallbackOrder : i < j => fallbacks[fallbackOrder[i]].priority <= fallbacks[fallbackOrder[j]].priority
    /\ \A p \in DOMAIN snapshots : \A found \in HistoryStatistics(p, ShortWindow) :
          found.low <= found.average /\ found.average <= found.high
    /\ \A p \in DOMAIN histories : Volatility(p) \in 0..100
    /\ \A p \in DOMAIN snapshots : HistoryBetween(p, 1, block) = snapshots[p]
    /\ \A p \in DOMAIN valuations, value \in ValueArgs :
          params.volatility <= 20 /\ IsAnomaly(p, value) /\ Stable(p, value) => PercentChange(valuations[p].value, value) >= WordSize
====

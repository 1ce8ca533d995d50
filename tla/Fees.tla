---- MODULE Fees ----
(***************************************************************************)
(* The fee manager: a fee per operation that follows congestion, by one of *)
(* four strategies; the rate in basis points; what is collected and how it *)
(* is distributed to validators; and auctions of premium listings, whose   *)
(* highest bid is held in escrow. Time is the block number. Transfers to   *)
(* accounts succeed. Collected fees and rewards are numbers only: no money *)
(* comes in with a fee and none goes out with a claim.                     *)
(*                                                                         *)
(* Left out: the bids of each bidder and the reward records, which no      *)
(* message reads, and advice in words.                                     *)
(***************************************************************************)
EXTENDS BlockClock, U32, SequencesExt, FiniteSetsExt, Functions

CONSTANTS
    FeeAdmin, FeeUsers, Validators,   \* accounts; the admin is a user
    CongestionWindow, FeeWindow,      \* operations and blocks that congestion looks back on
    FirstFeeArgs,                     \* base, least and largest fee, as the constructor is given them
    FeeConfigArgs, RateConfigArgs, ShareArgs, BidArgs, DurationArgs, CollectArgs,
    MaxAuctions, MaxCollected         \* bounds

VARIABLES
    operationConfig, defaultConfig, recentOps, lastReset,
    auctions, feesHeld, treasury, totalCollected, totalDistributed,
    pendingRewards, validatorList, validatorShare, rateConfig

feeSettingVars == <<operationConfig, defaultConfig, rateConfig, validatorShare>>
congestionVars == <<recentOps, lastReset>>
fundVars == <<treasury, totalCollected, totalDistributed, pendingRewards>>
auctionVars == <<auctions, feesHeld>>
feeVars == <<feeSettingVars, congestionVars, fundVars, auctionVars, validatorList>>

Denominator == 10000
FeeOperations == {"RegisterProperty", "TransferProperty", "UpdateMetadata", "CreateEscrow",
                  "ReleaseEscrow", "PremiumListingBid", "IssueBadge", "OracleUpdate"}
FeeMethods == {"Fixed", "Dynamic", "Tiered", "Exponential"}
FeeConfig == [base : Nat, min : Nat, max : Nat, sensitivity : Nat, demand : Nat, method : FeeMethods]
RateConfig == [base : Word, multiplier : Word, max : Word]
Auction == [seller : FeeUsers, minBid : Nat, bid : Nat, bidder : FeeUsers \cup {"none"}, escrowed : Nat, end : Nat, settled : BOOLEAN]

ASSUME FeeConstants ==
    /\ FeeAdmin \in FeeUsers /\ CongestionWindow \in Nat \ {0} /\ FeeWindow \in Nat
    /\ FirstFeeArgs \subseteq [base : Nat, min : Nat, max : Nat] /\ 300 \in Word
    /\ FeeConfigArgs \subseteq FeeConfig /\ RateConfigArgs \subseteq RateConfig
    /\ ShareArgs \subseteq 0..Denominator /\ BidArgs \cup DurationArgs \cup CollectArgs \subseteq Nat
    /\ IsFiniteSet(Validators) /\ MaxAuctions \in Nat /\ MaxCollected \in Nat

\* The constructor does not ask whether the least fee is below the largest.
FirstConfig(first) ==
    [base |-> first.base, min |-> first.min, max |-> first.max, sensitivity |-> 80, demand |-> 500, method |-> "Dynamic"]

FeesInit ==
    /\ operationConfig = << >>
    /\ \E first \in FirstFeeArgs : defaultConfig = FirstConfig(first)
    /\ recentOps = 0 /\ lastReset = block
    /\ auctions = << >> /\ feesHeld = 0
    /\ treasury = 0 /\ totalCollected = 0 /\ totalDistributed = 0
    /\ pendingRewards = [v \in Validators |-> 0] /\ validatorList = {}
    /\ validatorShare = 5000
    /\ rateConfig = [base |-> 30, multiplier |-> 300, max |-> 200]

----
\* Congestion and what a fee is

Clamp(x, low, high) == IF x < low THEN low ELSE IF x > high THEN high ELSE x
Least(a, b) == IF a < b THEN a ELSE b

CongestionIndex ==
    IF block - lastReset > FeeWindow THEN 0 ELSE Least((recentOps * 100) \div CongestionWindow, 100)

DemandFactor == (defaultConfig.demand * CongestionIndex) \div 100
ConfigOf(operation) == IF operation \in DOMAIN operationConfig THEN operationConfig[operation] ELSE defaultConfig

\* What each strategy adds to a base of 10000 basis points.
TierMultiplier(operation) ==
    CASE operation = "RegisterProperty" -> 20000
      [] operation = "TransferProperty" -> 15000
      [] operation = "CreateEscrow" -> 12000
      [] operation = "PremiumListingBid" -> 25000
      [] OTHER -> 10000
DynamicMultiplier(config, index, demand) ==
    Denominator + (index * config.sensitivity * 200) \div 10000 + Least(demand, 5000)
ExponentialMultiplier(config, index) == Denominator + (index * index * config.sensitivity) \div 100

Multiplier(config, operation, index, demand) ==
    CASE config.method = "Fixed" -> Denominator
      [] config.method = "Dynamic" -> DynamicMultiplier(config, index, demand)
      [] config.method = "Tiered" -> TierMultiplier(operation)
      [] config.method = "Exponential" -> ExponentialMultiplier(config, index)

\* With its limits the wrong way round a configuration has no fee: clamp panics.
InOrder(config) == config.min <= config.max
FeeAt(config, operation, index, demand) ==
    Clamp((config.base * Multiplier(config, operation, index, demand)) \div Denominator, config.min, config.max)

CalculateFee(operation) == FeeAt(ConfigOf(operation), operation, CongestionIndex, DemandFactor)

\* The rate in basis points: the base, up to `multiplier` percent of it at full use. Of
\* one that is too large for a u32 the low bits are left before it is capped.
EffectiveRate(config, index) ==
    (config.base * (100 + (Least(index, 100) * (config.multiplier - 100)) \div 100)) \div 100
ComputeFeeRate(config, index) == Least(AsU32(EffectiveRate(config, index)), config.max)

FeeEstimate(operation) ==
    [fee |-> CalculateFee(operation), min |-> ConfigOf(operation).min, max |-> ConfigOf(operation).max,
     level |-> IF CongestionIndex < 33 THEN "low" ELSE IF CongestionIndex < 66 THEN "medium" ELSE "high"]

----
\* Settings

SetOperationConfig(caller, operation, config) ==
    /\ caller = FeeAdmin
    /\ InOrder(config) /\ config.base >= config.min
    /\ operationConfig' = [o \in DOMAIN operationConfig \cup {operation} |-> IF o = operation THEN config ELSE operationConfig[o]]
    /\ UNCHANGED <<defaultConfig, rateConfig, validatorShare, congestionVars, fundVars, auctionVars, validatorList>>

\* The base fee moves by a twentieth with congestion, within its limits.
UpdateFeeParams(caller) ==
    /\ caller = FeeAdmin
    /\ defaultConfig' = [defaultConfig EXCEPT !.base =
           IF CongestionIndex > 70 THEN Least((@ * 105) \div 100, defaultConfig.max)
           ELSE IF CongestionIndex < 30 THEN Max({(@ * 95) \div 100, defaultConfig.min})
           ELSE @]
    /\ UNCHANGED <<operationConfig, rateConfig, validatorShare, congestionVars, fundVars, auctionVars, validatorList>>

SetDynamicFeeConfig(caller, config) ==
    /\ caller = FeeAdmin
    /\ config.base <= config.max /\ config.multiplier >= 100
    /\ rateConfig' = config
    /\ UNCHANGED <<operationConfig, defaultConfig, validatorShare, congestionVars, fundVars, auctionVars, validatorList>>

SetDistributionRates(caller, forValidators, forTreasury) ==
    /\ caller = FeeAdmin
    /\ forValidators + forTreasury <= Denominator
    /\ validatorShare' = forValidators
    /\ UNCHANGED <<operationConfig, defaultConfig, rateConfig, congestionVars, fundVars, auctionVars, validatorList>>

\* The list of validators names each once; its order decides nothing.
AddValidator(caller, account) ==
    /\ caller = FeeAdmin /\ account \notin validatorList
    /\ validatorList' = validatorList \cup {account}
    /\ UNCHANGED <<feeSettingVars, congestionVars, fundVars, auctionVars>>

RemoveValidator(caller, account) ==
    /\ caller = FeeAdmin
    /\ validatorList' = validatorList \ {account}
    /\ UNCHANGED <<feeSettingVars, congestionVars, fundVars, auctionVars>>

----
\* Collecting and distributing

\* Anyone may report a fee; an operation after the window starts the count again.
RecordFeeCollected(amount) ==
    /\ IF block - lastReset > FeeWindow
       THEN lastReset' = block /\ recentOps' = 1
       ELSE recentOps' = Least(recentOps + 1, CongestionWindow) /\ UNCHANGED lastReset
    /\ treasury' = treasury + amount
    /\ totalCollected' = totalCollected + amount
    /\ UNCHANGED <<feeSettingVars, totalDistributed, pendingRewards, auctionVars, validatorList>>

\* Equal parts of the validators' share; everything else leaves the books.
PerValidator == ((validatorShare * treasury) \div Denominator) \div Cardinality(validatorList)

DistributeFees(caller) ==
    /\ caller = FeeAdmin /\ treasury > 0
    /\ LET part == IF validatorList = {} THEN 0 ELSE PerValidator IN
       /\ pendingRewards' = [v \in Validators |-> pendingRewards[v] + IF v \in validatorList THEN part ELSE 0]
       /\ totalDistributed' = totalDistributed + Cardinality(validatorList) * part
    /\ treasury' = 0
    /\ UNCHANGED <<feeSettingVars, congestionVars, totalCollected, auctionVars, validatorList>>

ClaimRewards(caller) ==
    /\ caller \in Validators /\ pendingRewards[caller] > 0
    /\ pendingRewards' = [pendingRewards EXCEPT ![caller] = 0]
    /\ UNCHANGED <<feeSettingVars, congestionVars, treasury, totalCollected, totalDistributed, auctionVars, validatorList>>
----
\* Auctions

CreatePremiumAuction(caller, minBid, duration) ==
    /\ InOrder(ConfigOf("PremiumListingBid"))
    /\ treasury' = treasury + CalculateFee("PremiumListingBid")
    /\ totalCollected' = totalCollected + CalculateFee("PremiumListingBid")
    /\ auctions' = Append(auctions, [seller |-> caller, minBid |-> minBid, bid |-> 0, bidder |-> "none",
                                     escrowed |-> 0, end |-> block + duration, settled |-> FALSE])
    /\ UNCHANGED <<feeSettingVars, congestionVars, totalDistributed, pendingRewards, feesHeld, validatorList>>

Biddable(id, amount) ==
    /\ id \in DOMAIN auctions
    /\ ~auctions[id].settled /\ block < auctions[id].end
    /\ amount >= auctions[id].minBid /\ amount > auctions[id].bid

\* The previous bidder is refunded in full and the excess returned to the bidder.
PlaceBid(caller, id, amount, attached) ==
    /\ Biddable(id, amount) /\ attached >= amount
    /\ feesHeld' = feesHeld + attached - auctions[id].escrowed - (attached - amount)
    /\ auctions' = [auctions EXCEPT ![id].bid = amount, ![id].bidder = caller, ![id].escrowed = amount]
    /\ UNCHANGED <<feeSettingVars, congestionVars, fundVars, validatorList>>

Settleable(id) == ~auctions[id].settled /\ block >= auctions[id].end /\ auctions[id].bidder # "none"

\* Mutant: an auction is settled only in the block in which it ends.
SettleAuction_OnTime(id) ==
    /\ id \in DOMAIN auctions /\ Settleable(id) /\ block = auctions[id].end
    /\ auctions' = [auctions EXCEPT ![id].settled = TRUE, ![id].escrowed = 0]
    /\ feesHeld' = feesHeld - auctions[id].escrowed
    /\ UNCHANGED <<feeSettingVars, congestionVars, fundVars, validatorList>>

\* By anyone; the escrow goes to the seller.
SettleAuction(id) ==
    /\ id \in DOMAIN auctions /\ Settleable(id)
    /\ auctions' = [auctions EXCEPT ![id].settled = TRUE, ![id].escrowed = 0]
    /\ feesHeld' = feesHeld - auctions[id].escrowed
    /\ UNCHANGED <<feeSettingVars, congestionVars, fundVars, validatorList>>

FeeReport ==
    [collected |-> totalCollected, distributed |-> totalDistributed, operations |-> recentOps, congestion |-> CongestionIndex,
     active |-> Cardinality({i \in DOMAIN auctions : ~auctions[i].settled /\ block < auctions[i].end})]

----
FeeSettingsNext ==
    \E caller \in FeeUsers :
        \/ \E operation \in {"PremiumListingBid", "IssueBadge"}, config \in FeeConfigArgs : SetOperationConfig(caller, operation, config)
        \/ UpdateFeeParams(caller)
        \/ \E config \in RateConfigArgs : SetDynamicFeeConfig(caller, config)
        \/ \E shares \in ShareArgs : SetDistributionRates(caller, shares, Denominator - shares)
        \/ \E v \in Validators : AddValidator(caller, v) \/ RemoveValidator(caller, v)

FundsNext ==
    \/ \E amount \in CollectArgs : totalCollected < MaxCollected /\ RecordFeeCollected(amount)
    \/ \E caller \in FeeUsers \cup Validators : DistributeFees(caller) \/ ClaimRewards(caller)

AuctionsNext ==
    \/ \E caller \in FeeUsers, minBid \in BidArgs, duration \in DurationArgs :
          Len(auctions) < MaxAuctions /\ block + duration <= MaxBlock /\ CreatePremiumAuction(caller, minBid, duration)
    \/ \E caller \in FeeUsers, id \in DOMAIN auctions, amount \in BidArgs, more \in {0, 1} : PlaceBid(caller, id, amount, amount + more)
    \/ \E id \in DOMAIN auctions : SettleAuction(id)

FeesNext == FeeSettingsNext \/ FundsNext \/ AuctionsNext

----
\* Properties

FeesTypeOK ==
    /\ auctions \in Seq(Auction) /\ defaultConfig \in FeeConfig /\ rateConfig \in RateConfig
    /\ feesHeld \in Nat /\ treasury \in Nat /\ validatorShare \in 0..Denominator
    /\ FeeReport.congestion \in 0..100 /\ FeeReport.active \in 0..MaxAuctions

Unsettled == {i \in DOMAIN auctions : ~auctions[i].settled}

\* The contract holds exactly the highest bids of the auctions that are not settled, and
\* never hands out more in rewards than was collected, whatever is in the treasury
\* (place_bid, settle_auction, distribute_fees, claim_rewards).
FeeBooksAgree ==
    /\ FeesTypeOK
    /\ feesHeld = SumFunctionOnSet([i \in DOMAIN auctions |-> auctions[i].bid], Unsettled)
    /\ \A i \in DOMAIN auctions : auctions[i].escrowed = IF auctions[i].settled THEN 0 ELSE auctions[i].bid
    /\ treasury + totalDistributed <= totalCollected
    /\ SumFunctionOnSet(pendingRewards, Validators) <= totalDistributed

\* Where the limits of its configuration are in order, as those set for an operation
\* always are, a fee stays within them and, but for them, never falls as congestion
\* grows. The rate never exceeds its cap, and falls short of its base only when a
\* multiplier without bound has made it too large for a u32 (FeeStrategy::calculate,
\* set_operation_config, compute_fee_rate).
FeesWithinLimits ==
    /\ \A o \in DOMAIN operationConfig : InOrder(operationConfig[o])
    /\ \A o \in FeeOperations : InOrder(ConfigOf(o)) =>
          /\ FeeEstimate(o).fee \in ConfigOf(o).min .. ConfigOf(o).max
          /\ \A i, j \in {0, 29, 50, 100} : i <= j => FeeAt(ConfigOf(o), o, i, DemandFactor) <= FeeAt(ConfigOf(o), o, j, DemandFactor)
    /\ LET rate == ComputeFeeRate(rateConfig, CongestionIndex) IN
       rate <= rateConfig.max /\ (rate >= rateConfig.base \/ EffectiveRate(rateConfig, CongestionIndex) >= WordSize)

\* Every auction with a bid is settled in the end, provided that blocks are produced and
\* somebody, as the seller who is paid by it, keeps trying to settle it (settle_auction).
BidsAreSettled == \A i \in 1..MaxAuctions : (i \in DOMAIN auctions /\ auctions[i].bidder # "none") ~> (i \in DOMAIN auctions /\ auctions[i].settled)
====

---- MODULE Bridge ----
(***************************************************************************)
(* The cross-chain bridge as a whole (contracts/bridge/src/lib.rs):        *)
(* validators and their signature bitmaps, bridge requests from initiation *)
(* over signing and execution hop by hop to recovery and rollback, the     *)
(* rate limits and heuristics in front of them, and the trade intents.     *)
(*                                                                         *)
(* A request's signatures are the set of the bits set in its bitmap. The   *)
(* list form of older storage (SignatureStorage::Legacy) is never written  *)
(* by this contract and is left out.                                       *)
(***************************************************************************)
EXTENDS BridgeTracking, SequencesExt

CONSTANTS
    Routes,             \* routes a multi-hop request may name
    SignatureArgs,      \* required_signatures an argument may name
    Valuations,         \* metadata.valuation of a request
    Amounts,            \* amount_in of a trade
    ChainInfoArgs,      \* chain information an admin may install
    InitialChainInfo,   \* the constructor's chain information
    BitmapSlots,        \* MAX_VALIDATOR_BITMAP_SLOTS
    DayMs, HourMs,      \* the lengths of the limits' windows
    MaxRequests,        \* bound: requests of a behaviour
    MaxTransactions,    \* bound: executions of a behaviour
    MaxTrades           \* bound: trades of a behaviour

ChainInfo == [active : BOOLEAN, dailyLimit : Nat]

ASSUME BridgeConstants ==
    /\ Routes \subseteq Seq(Chains)
    /\ SignatureArgs \subseteq Nat
    /\ Valuations \subseteq Nat
    /\ Amounts \subseteq Nat
    /\ ChainInfoArgs \subseteq ChainInfo
    /\ InitialChainInfo \in ChainInfo
    /\ BitmapSlots \in Nat
    /\ DayMs \in Nat \ {0}
    /\ HourMs \in Nat \ {0}
    /\ MaxRequests \in Nat
    /\ MaxTransactions \in Nat
    /\ MaxTrades \in Nat

VARIABLES
    validators,
    slots,          \* validator_slots: the account of every bit ever assigned
    bitPos,         \* validator_bit_positions, bits numbered from 1
    requests,       \* bridge_requests, by id; request_counter is its length
    history,        \* the transactions of bridge_history, in order of their ids
    chainInfo,      \* chain_info
    travelData,     \* the ids that have travel_rule_data
    travelLimit,    \* travel_rule_thresholds
    daily,          \* account_daily_requests and account_last_reset_day
    burst,          \* account_block_request_count and account_block_request_block
    failures,       \* failed_signatures_window_count and _start
    chainDaily,     \* chain_daily_volume and chain_last_reset_day
    accountDaily,   \* account_daily_volume and its last reset day
    chainHourly,    \* chain_hourly_volume and chain_hourly_window_start
    trades          \* cross_chain_trades, by id

validatorVars == <<validators, slots, bitPos>>
limitVars == <<daily, burst, failures>>
ruleVars == <<chainInfo, travelData, travelLimit>>
tradeVars == <<chainDaily, accountDaily, chainHourly, trades>>
vars == <<controlVars, trackerVars, batchVars, validatorVars, requests, history,
          limitVars, ruleVars, tradeVars>>

Request ==
    [token : Tokens, src : Chains, dst : Chains, sender : Accounts, required : Nat,
     sigs : SUBSET Nat, createdAt : Nat, expires : SUBSET Nat, status : BridgeOperationStatus,
     hopStatus : MultiHopStatus, route : Seq(Chains), hop : Nat, valuation : Nat]

Transaction == [request : Nat, src : Chains, dst : Chains, sender : Accounts, hash : Hash]

Trade ==
    [trader : Accounts, dst : Chains, amount : Nat, request : SUBSET Nat, createdAt : Nat,
     status : {"Pending", "BridgeRequested", "Settled"}]

BridgeTypeOK ==
    /\ ControlTypeOK
    /\ TrackingTypeOK
    /\ validators \in SUBSET Accounts
    /\ slots \in Seq(Accounts)
    /\ DOMAIN bitPos \subseteq Accounts
    /\ \A v \in DOMAIN bitPos : bitPos[v] \in Nat
    /\ requests \in Seq(Request)
    /\ history \in Seq(Transaction)
    /\ DOMAIN chainInfo \subseteq Chains
    /\ \A c \in DOMAIN chainInfo : chainInfo[c] \in ChainInfo
    /\ travelData \in SUBSET (1..Len(requests))
    /\ DOMAIN travelLimit \subseteq Chains
    /\ \A c \in DOMAIN travelLimit : travelLimit[c] \in Nat
    /\ daily \in [Accounts -> [day : Nat, count : Nat]]
    /\ burst \in [Accounts -> [block : Nat, count : Nat]]
    /\ failures \in [start : Nat, count : Nat]
    /\ chainDaily \in [Chains -> [day : Nat, volume : Nat]]
    /\ accountDaily \in [Accounts -> [day : Nat, volume : Nat]]
    /\ chainHourly \in [Chains -> [start : Nat, volume : Nat]]
    /\ trades \in Seq(Trade)

BridgeInit ==
    /\ validators = {}
    /\ slots = << >>
    /\ bitPos = << >>
    /\ requests = << >>
    /\ history = << >>
    /\ chainInfo = [c \in InitialConfig.supported |-> InitialChainInfo]
    /\ travelData = {}
    /\ travelLimit = << >>
    /\ daily = [a \in Accounts |-> [day |-> 0, count |-> 0]]
    /\ burst = [a \in Accounts |-> [block |-> 0, count |-> 0]]
    /\ failures = [start |-> 0, count |-> 0]
    /\ chainDaily = [c \in Chains |-> [day |-> 0, volume |-> 0]]
    /\ accountDaily = [a \in Accounts |-> [day |-> 0, volume |-> 0]]
    /\ chainHourly = [c \in Chains |-> [start |-> 0, volume |-> 0]]
    /\ trades = << >>

Init == ControlInit /\ TrackingInit /\ BridgeInit

requestIds == 1..Len(requests)

----
\* Validators. A bit position is never given to another account, and an account
\* that is removed and added again gets its old one back.

\* Mutant: a removed validator's bit is given to the next one.
AddValidator_Recycles(caller, validator) ==
    /\ caller = admin
    /\ \/ /\ validator \in DOMAIN bitPos
          /\ UNCHANGED <<slots, bitPos>>
       \/ /\ validator \notin DOMAIN bitPos
          /\ Len(slots) < BitmapSlots
          /\ slots' = Append(slots, validator)
          /\ bitPos' = MapInsert(bitPos, validator, Cardinality(validators) + 1)
    /\ validators' = validators \cup {validator}
    /\ UNCHANGED <<controlVars, trackerVars, batchVars, requests, history, limitVars,
                   ruleVars, tradeVars>>

AddValidator(caller, validator) ==
    /\ caller = admin
    /\ \/ /\ validator \in DOMAIN bitPos
          /\ UNCHANGED <<slots, bitPos>>
       \/ /\ validator \notin DOMAIN bitPos
          /\ Len(slots) < BitmapSlots
          /\ slots' = Append(slots, validator)
          /\ bitPos' = MapInsert(bitPos, validator, Len(slots) + 1)
    /\ validators' = validators \cup {validator}
    /\ UNCHANGED <<controlVars, trackerVars, batchVars, requests, history, limitVars,
                   ruleVars, tradeVars>>

RemoveValidator(caller, validator) ==
    /\ caller = admin
    /\ validators' = validators \ {validator}
    /\ UNCHANGED <<controlVars, trackerVars, batchVars, slots, bitPos, requests, history,
                   limitVars, ruleVars, tradeVars>>

ValidatorNext ==
    \E caller, validator \in Accounts :
        AddValidator(caller, validator) \/ RemoveValidator(caller, validator)

----
\* Limits in front of a request

Today == Timestamp \div DayMs

\* track_request_burst. At the threshold the code pauses new requests and
\* returns Err, which reverts the pause together with the request.
TrackRequestBurst(caller) ==
    IF ~suspicious.auto THEN UNCHANGED burst
    ELSE LET count == (IF burst[caller].block = block THEN burst[caller].count ELSE 0) + 1
         IN  /\ suspicious.maxRequests > 0 => count < suspicious.maxRequests
             /\ burst' = [burst EXCEPT ![caller] = [block |-> block, count |-> count]]

\* check_and_update_rate_limits with amount 0 and is_nft
CountDailyRequest(caller) ==
    IF ~config.rateLimit THEN UNCHANGED daily
    ELSE LET d     == daily[caller]
             count == IF d.day < Today THEN 0 ELSE d.count
         IN  /\ count < config.maxPerDay
             /\ daily' = [daily EXCEPT ![caller] =
                    [day |-> IF d.day < Today THEN Today ELSE d.day, count |-> count + 1]]

SignaturesInRange(required) ==
    /\ required >= config.minSig
    /\ required <= config.maxSig

NewRequest(caller, token, src, dst, required, timeout, route, valuation) ==
    [token |-> token, src |-> src, dst |-> dst, sender |-> caller, required |-> required,
     sigs |-> {}, createdAt |-> block, expires |-> ExpiryOf(timeout), status |-> "Pending",
     hopStatus |-> "InProgress", route |-> route, hop |-> 0, valuation |-> valuation]

\* What both ways to initiate have in common.
Initiate(caller, token, dst, required, timeout, route, valuation) ==
    /\ Len(requests) < MaxRequests
    /\ ~IsOpPaused("NewRequest")
    /\ TrackRequestBurst(caller)
    /\ SignaturesInRange(required)
    /\ CountDailyRequest(caller)
    /\ token \notin frozenTokens
    /\ requests' = Append(requests,
          NewRequest(caller, token, LocalChain, dst, required, timeout, route, valuation))
    /\ tracker' = Append(tracker, FreshTracker(LocalChain, dst))
    /\ UNCHANGED <<controlVars, txHashIndex, batchVars, validatorVars, history, failures,
                   ruleVars, tradeVars>>

InitiateBridgeMultisig(caller, token, dst, required, timeout, valuation) ==
    /\ dst \in config.supported
    /\ Initiate(caller, token, dst, required, timeout, << >>, valuation)

\* estimate_multi_hop_bridge_gas fails for a chain without active information.
InitiateMultiHopBridge(caller, token, route, required, timeout, valuation) ==
    /\ Len(route) >= 2
    /\ route[1] # LocalChain
    /\ \A i \in 1..Len(route) :
          /\ route[i] \in config.supported
          /\ route[i] \in DOMAIN chainInfo
          /\ chainInfo[route[i]].active
    /\ Initiate(caller, token, route[1], required, timeout, route, valuation)

InitiateNext ==
    \E caller \in Accounts, token \in Tokens, required \in SignatureArgs,
       timeout \in {{}} \cup {{t} : t \in Timeouts}, valuation \in Valuations :
        \/ \E dst \in Chains :
              InitiateBridgeMultisig(caller, token, dst, required, timeout, valuation)
        \/ \E route \in Routes :
              InitiateMultiHopBridge(caller, token, route, required, timeout, valuation)

----
\* Signing

\* signature_count: the number of bits as u8, so that 256 of them count as 0.
SignatureCount(sigs) == Cardinality(sigs) % 2^8

\* track_failed_signature; unlike the other two heuristics it pauses on an Ok
\* path, so its pause stays.
TrackFailedSignature(signer) ==
    IF ~suspicious.auto THEN UNCHANGED <<failures, config, pauseFlags, auditLog>>
    ELSE LET stale == Timestamp - failures.start >= HourMs
             count == (IF stale THEN 0 ELSE failures.count) + 1
         IN  /\ failures' = [start |-> IF stale THEN Timestamp ELSE failures.start,
                             count |-> count]
             /\ IF suspicious.maxFailed > 0 /\ count >= suspicious.maxFailed
                THEN ApplyPause(signer, PauseFlagsForReason("FailedSignatureSurge"),
                                "FailedSignatureSurge")
                ELSE UNCHANGED <<config, pauseFlags, auditLog>>

SignedRequest(request, bit, approve) ==
    LET sigs == request.sigs \cup {bit}
    IN  [request EXCEPT
            !.sigs = sigs,
            !.status = IF ~approve THEN "Failed"
                       ELSE IF SignatureCount(sigs) >= request.required THEN "Locked" ELSE @,
            !.hopStatus = IF approve THEN @ ELSE "Failed"]

\* The status of the request is not looked at.
SignBridgeRequest(caller, id, approve) ==
    /\ ~IsOpPaused("Signing")
    /\ caller \in validators
    /\ ~PastExpiry(requests[id])
    /\ bitPos[caller] \notin requests[id].sigs
    /\ requests' = [requests EXCEPT ![id] = SignedRequest(@, bitPos[caller], approve)]
    /\ \/ approve /\ UNCHANGED <<failures, config, pauseFlags, auditLog>>
       \/ ~approve /\ TrackFailedSignature(caller)
    /\ UNCHANGED <<block, rightsVars, suspicious, emergencyVars, frozenTokens, trackerVars,
                   batchVars, validatorVars, history, daily, burst, ruleVars, tradeVars>>

\* With a signed approval the caller must also hold a registered key that
\* verifies it; verification itself is abstracted to the key's existence.
SignBridgeRequestWithSignature(caller, id, approve, signed) ==
    /\ signed => caller \in operatorKeys
    /\ SignBridgeRequest(caller, id, approve)

SignNext ==
    \E caller \in Accounts, id \in requestIds, approve \in BOOLEAN :
        \/ SignBridgeRequest(caller, id, approve)
        \/ \E signed \in BOOLEAN : SignBridgeRequestWithSignature(caller, id, approve, signed)

----
\* Execution, recovery and rollback

\* ensure_travel_rule_compliance; a chain without a threshold has none.
TravelRuleCompliant(id) ==
    LET r == requests[id]
    IN  r.dst \in DOMAIN travelLimit =>
            r.valuation <= travelLimit[r.dst] \/ id \in travelData

IsLastHop(request) == request.route = << >> \/ request.hop + 1 >= Len(request.route)

\* Mutant: the next hop starts without signatures but still Locked.
ExecutedRequest_StaysLocked(request) ==
    IF IsLastHop(request)
    THEN [request EXCEPT !.status = "Completed", !.hopStatus = "HopCompleted"]
    ELSE [request EXCEPT !.hop = @ + 1, !.src = request.dst,
                         !.dst = request.route[request.hop + 2], !.sigs = {}]

\* Mutant: the next destination is read with the old hop.
ExecutedRequest_OldHop(request) ==
    IF IsLastHop(request)
    THEN [request EXCEPT !.status = "Completed", !.hopStatus = "HopCompleted"]
    ELSE [request EXCEPT !.hop = @ + 1, !.src = request.dst,
                         !.dst = request.route[request.hop + 1],
                         !.status = "Pending", !.sigs = {}]

\* The request after one hop: done, or waiting for the signatures of the next.
ExecutedRequest(request) ==
    IF IsLastHop(request)
    THEN [request EXCEPT !.status = "Completed", !.hopStatus = "HopCompleted"]
    ELSE [request EXCEPT !.hop = @ + 1,
                         !.src = request.dst,
                         !.dst = request.route[request.hop + 2],
                         !.status = "Pending",
                         !.sigs = {},
                         !.hopStatus = "InProgress"]

\* generate_transaction_hash
TransactionHash(id, request) ==
    [request |-> id, src |-> request.src, dst |-> request.dst, at |-> Timestamp]

\* Mutant: the tracker is not restarted for the next hop.
TrackerAfterExecution_NoRestart(id, before, after) == AdvancedTracker(tracker[id])

\* advance_cross_chain_status_on_execute, then init_cross_chain_status for the
\* next hop, if there is one.
TrackerAfterExecution(id, before, after) ==
    IF IsLastHop(before) THEN AdvancedTracker(tracker[id]) ELSE FreshTracker(after.src, after.dst)

ExecuteBridge(caller, id) ==
    LET request == requests[id]
        after   == ExecutedRequest(request)
        hash    == TransactionHash(id, request)
    IN  /\ Len(history) < MaxTransactions
        /\ ~IsOpPaused("Execution")
        /\ caller \in operators
        /\ request.status = "Locked"
        /\ SignatureCount(request.sigs) >= request.required
        /\ TravelRuleCompliant(id)
        /\ request.token \notin frozenTokens
        /\ requests' = [requests EXCEPT ![id] = after]
        /\ AddTransactionToBatch(hash, request.src)
        /\ tracker' = [tracker EXCEPT ![id] = TrackerAfterExecution(id, request, after)]
        /\ IndexHash(hash, id)
        /\ history' = Append(history, [request |-> id, src |-> request.src,
                 dst |-> request.dst, sender |-> request.sender, hash |-> hash])
        /\ UNCHANGED <<controlVars, validatorVars, limitVars, ruleVars, tradeVars>>

\* UnlockToken and RefundGas are unimplemented in the code and change nothing.
RecoveredRequest(request, action) ==
    CASE action = "RetryBridge" ->
            [request EXCEPT !.status = "Pending", !.hopStatus = "InProgress", !.sigs = {}]
      [] action = "CancelBridge" ->
            [request EXCEPT !.status = "Failed", !.hopStatus = "Failed"]
      [] OTHER -> request

RecoverFailedBridge(caller, id, action) ==
    /\ caller = admin
    /\ requests[id].status \in {"Failed", "Expired"}
    /\ requests' = [requests EXCEPT ![id] = RecoveredRequest(@, action)]
    /\ UNCHANGED <<controlVars, trackerVars, batchVars, validatorVars, history, limitVars,
                   ruleVars, tradeVars>>

\* Recovering is written and overwritten within the message.
RollbackBridgeTransaction(caller, id) ==
    /\ caller = admin
    /\ requests[id].status \notin {"Completed", "None"}
    /\ requests' = [requests EXCEPT ![id] = [@ EXCEPT !.sigs = {}, !.status = "Failed"]]
    /\ tracker' = [tracker EXCEPT ![id] = FailedTracker(@)]
    /\ UNCHANGED <<controlVars, txHashIndex, batchVars, validatorVars, history, limitVars,
                   ruleVars, tradeVars>>

ExecuteNext == \E caller \in Accounts, id \in requestIds : ExecuteBridge(caller, id)

RecoveryNext ==
    \E caller \in Accounts, id \in requestIds :
        \/ \E action \in RecoveryAction : RecoverFailedBridge(caller, id, action)
        \/ RollbackBridgeTransaction(caller, id)

----
\* Travel rule and chain information

SubmitTravelRuleData(caller, id) ==
    /\ caller \in {requests[id].sender, admin}
    /\ id \notin travelData
    /\ travelData' = travelData \cup {id}
    /\ UNCHANGED <<controlVars, trackerVars, batchVars, validatorVars, requests, history,
                   limitVars, chainInfo, travelLimit, tradeVars>>

SetTravelRuleThreshold(caller, chain, amount) ==
    /\ caller = admin
    /\ travelLimit' = MapInsert(travelLimit, chain, amount)
    /\ UNCHANGED <<controlVars, trackerVars, batchVars, validatorVars, requests, history,
                   limitVars, chainInfo, travelData, tradeVars>>

UpdateChainInfo(caller, chain, info) ==
    /\ caller = admin
    /\ chainInfo' = MapInsert(chainInfo, chain, info)
    /\ UNCHANGED <<controlVars, trackerVars, batchVars, validatorVars, requests, history,
                   limitVars, travelData, travelLimit, tradeVars>>

RuleNext ==
    \E caller \in Accounts :
        \/ \E id \in requestIds : SubmitTravelRuleData(caller, id)
        \/ \E chain \in Chains :
              \/ \E amount \in Valuations : SetTravelRuleThreshold(caller, chain, amount)
              \/ \E info \in ChainInfoArgs : UpdateChainInfo(caller, chain, info)

----
\* Cross-chain trades

\* track_chain_volume; as with bursts, the call that reaches the threshold is
\* reverted together with the pause it would have caused.
TrackChainVolume(chain, amount) ==
    IF ~suspicious.auto \/ amount = 0 THEN UNCHANGED chainHourly
    ELSE LET w     == chainHourly[chain]
             fresh == Timestamp - w.start < HourMs
             sum   == (IF fresh THEN w.volume ELSE 0) + amount
         IN  /\ suspicious.maxVolume > 0 => sum < suspicious.maxVolume
             /\ chainHourly' = [chainHourly EXCEPT ![chain] =
                    [start |-> IF fresh THEN w.start ELSE Timestamp, volume |-> sum]]

\* A daily counter after adding amount today.
DailySum(counter, amount) ==
    IF counter.day < Today THEN [day |-> Today, volume |-> amount]
                           ELSE [counter EXCEPT !.volume = @ + amount]

\* check_and_update_rate_limits with an amount; max_value_per_day is not
\* compared with the account's volume.
CountDailyVolume(caller, chain, amount) ==
    IF ~config.rateLimit \/ amount = 0 THEN UNCHANGED <<chainDaily, accountDaily>>
    ELSE /\ chain \in DOMAIN chainInfo
         /\ DailySum(chainDaily[chain], amount).volume <= chainInfo[chain].dailyLimit
         /\ chainDaily' = [chainDaily EXCEPT ![chain] = DailySum(@, amount)]
         /\ accountDaily' = [accountDaily EXCEPT ![caller] = DailySum(@, amount)]

RegisterCrossChainTrade(caller, dst, amount) ==
    /\ Len(trades) < MaxTrades
    /\ ~IsOpPaused("CrossChainTrade")
    /\ dst \in config.supported
    /\ TrackChainVolume(dst, amount)
    /\ CountDailyVolume(caller, dst, amount)
    /\ dst \in DOMAIN chainInfo
    /\ chainInfo[dst].active
    /\ trades' = Append(trades, [trader |-> caller, dst |-> dst, amount |-> amount,
                                 request |-> {}, createdAt |-> block, status |-> "Pending"])
    /\ UNCHANGED <<controlVars, trackerVars, batchVars, validatorVars, requests, history,
                   limitVars, ruleVars>>

\* Neither the trade's status nor the request's existence is looked at.
AttachBridgeRequestToTrade(caller, trade, request) ==
    /\ caller # admin => ~IsOpPaused("CrossChainTrade")
    /\ caller \in {trades[trade].trader, admin}
    /\ trades' = [trades EXCEPT ![trade].request = {request}, ![trade].status = "BridgeRequested"]
    /\ UNCHANGED <<controlVars, trackerVars, batchVars, validatorVars, requests, history,
                   limitVars, ruleVars, chainDaily, accountDaily, chainHourly>>

SettleCrossChainTrade(caller, trade) ==
    /\ caller = admin \/ caller \in operators
    /\ caller # admin => ~IsOpPaused("CrossChainTrade")
    /\ trades' = [trades EXCEPT ![trade].status = "Settled"]
    /\ UNCHANGED <<controlVars, trackerVars, batchVars, validatorVars, requests, history,
                   limitVars, ruleVars, chainDaily, accountDaily, chainHourly>>

TradeNext ==
    \E caller \in Accounts :
        \/ \E dst \in Chains, amount \in Amounts : RegisterCrossChainTrade(caller, dst, amount)
        \/ \E trade \in 1..Len(trades) :
              \/ \E request \in 1..MaxRequests : AttachBridgeRequestToTrade(caller, trade, request)
              \/ SettleCrossChainTrade(caller, trade)

----
\* The contract

nonControlVars == <<trackerVars, batchVars, validatorVars, requests, history, limitVars,
                    ruleVars, tradeVars>>

ControlNext ==
    /\ Tick \/ RightsNext \/ PauseNext \/ FreezeNext \/ EmergencyNext
    /\ UNCHANGED nonControlVars

TrackingNext ==
    /\ TrackerNext \/ BatchNext
    /\ UNCHANGED <<validatorVars, requests, history, limitVars, ruleVars, tradeVars>>

RequestNext == InitiateNext \/ SignNext \/ ExecuteNext \/ RecoveryNext

Next ==
    \/ ControlNext
    \/ TrackingNext
    \/ ValidatorNext
    \/ RequestNext
    \/ RuleNext
    \/ TradeNext

Spec == Init /\ [][Next]_vars

----
\* Properties

\* A bit identifies one account for ever: slots and positions are inverse to
\* each other, every validator has a position, and every bit set on a request is
\* the bit of some account, whatever was added and removed since.
BitmapSound ==
    /\ \A v \in DOMAIN bitPos : bitPos[v] \in DOMAIN slots /\ slots[bitPos[v]] = v
    /\ \A i \in DOMAIN slots : slots[i] \in DOMAIN bitPos /\ bitPos[slots[i]] = i
    /\ validators \subseteq DOMAIN bitPos
    /\ \A id \in DOMAIN requests : requests[id].sigs \subseteq DOMAIN slots

\* The chain a request has to go to at hop h of its route, and the one it leaves.
HopDestination(request, h) ==
    IF request.route = << >> THEN request.dst ELSE request.route[h + 1]

HopSource(request, h) == IF h = 0 THEN LocalChain ELSE request.route[h]

\* A request stands at a hop of its own route, and its tracker reports the two
\* chains of that hop and no others, through executions, retries and rollbacks.
TrackerFollowsRequest ==
    /\ DOMAIN tracker = DOMAIN requests
    /\ \A id \in DOMAIN requests :
          LET r == requests[id]
          IN  /\ r.route # << >> => r.hop < Len(r.route)
              /\ r.route = << >> => r.hop = 0
              /\ r.src = HopSource(r, r.hop)
              /\ r.dst = HopDestination(r, r.hop)
              /\ tracker[id].src = r.src
              /\ tracker[id].dst = r.dst

\* The signatures of one hop never count for the next: a Locked request was
\* signed, for the hop it stands at, by as many accounts as it requires. (The
\* count the code compares is a u8 and shows less when all 256 bits are set.)
LockedHasQuorum ==
    \A id \in DOMAIN requests :
        requests[id].status = "Locked" => Cardinality(requests[id].sigs) >= requests[id].required

TransactionsOfRequest(id) == {n \in DOMAIN history : history[n].request = id}

LastHop(request) == IF request.route = << >> THEN 0 ELSE Len(request.route) - 1

\* The hop of the transaction that has n others of its request before it: later
\* ones repeat the last hop.
HopAfter(n, request) == IF n < LastHop(request) THEN n ELSE LastHop(request)

\* The transactions of a request leave hop after hop of its route, in order, none
\* skipped and none of the intermediate ones repeated by a retry or a late vote.
HistoryFollowsRoute ==
    \A id \in DOMAIN requests :
        LET r  == requests[id]
            ts == TransactionsOfRequest(id)
        IN  /\ Cardinality(ts) >= r.hop
            /\ Cardinality(ts) > r.hop => r.hop = LastHop(r)
            /\ \A n \in ts :
                  LET h == HopAfter(Cardinality({m \in ts : m < n}), r)
                  IN  history[n].src = HopSource(r, h) /\ history[n].dst = HopDestination(r, h)

OnToday(b) == (b * BlockTime) \div DayMs = Today

RequestsToday(a) ==
    {id \in DOMAIN requests : requests[id].sender = a /\ OnToday(requests[id].createdAt)}

TradesToday(c) == {n \in DOMAIN trades : trades[n].dst = c /\ OnToday(trades[n].createdAt)}

\* While rate limits are in force, within a day no account creates more requests
\* and no chain is sent more trade volume than the largest limit the admin ever
\* configured, counting the requests and the trades themselves, not the counters.
DailyLimits ==
    /\ \A a \in Accounts :
          \E c \in AdminConfigs \cup {InitialConfig} :
              c.rateLimit => Cardinality(RequestsToday(a)) <= c.maxPerDay
    /\ \A c \in Chains :
          \/ \E cfg \in AdminConfigs \cup {InitialConfig} : ~cfg.rateLimit
          \/ \E info \in ChainInfoArgs \cup {InitialChainInfo} :
                SumFunctionOnSet([n \in TradesToday(c) |-> trades[n].amount], TradesToday(c))
                    <= info.dailyLimit

\* The books of the bridge agree over every order of requests, executions and
\* windows: the state has its types, every transaction is in a batch of its own
\* chain, and a day's requests and trades keep to the limits of the day
\* (add_to_batch, check_rate_limit, check_chain_daily_limit).
BridgeBooksAgree ==
    /\ BridgeTypeOK
    /\ BatchesAgree
    /\ \A n \in DOMAIN history : history[n].hash \in DOMAIN txBatch
    /\ DailyLimits

\* What the comment in rollback_bridge_transaction says of it: "Completed
\* requests cannot be rolled back -- funds already moved". A request whose last
\* hop was executed is not rolled back afterwards.
CompletedNeverRolledBack ==
    [][\A caller \in Accounts, id \in DOMAIN requests :
          Cardinality(TransactionsOfRequest(id)) > requests[id].hop
              => ~RollbackBridgeTransaction(caller, id)]_vars
====

---- MODULE MCBridge ----
(***************************************************************************)
(* Model checking of Bridge. The messages of the contract are many and     *)
(* mostly independent, so a behaviour is about one aspect (focus), chosen  *)
(* at the start: every step is a step of Bridge!Next, and the aspects take *)
(* the messages whose interleavings matter together.                       *)
(***************************************************************************)
EXTENDS Bridge

CONSTANTS A, B, C, T, R1, R2

\* Bound: rejections counted within an hour in the aspect "surge".
MaxFailures == 3

VARIABLE focus

mcVars == <<vars, focus>>

ConfigWith(minSig, emergencyPause, maxPerDay) ==
    [supported |-> {1, 2, 3}, minSig |-> minSig, maxSig |-> 2, emergencyPause |-> emergencyPause,
     rateLimit |-> TRUE, maxPerDay |-> maxPerDay]

SuspiciousWith(auto) == [auto |-> auto, maxRequests |-> 3, maxVolume |-> 4, maxFailed |-> 2]

MCAccounts == {A, B, C}
MCChains == 1..3
MCInitialConfig == ConfigWith(1, FALSE, 2)
MCAdminConfigs == {MCInitialConfig, ConfigWith(1, TRUE, 1)}
MCInitialSuspicious == SuspiciousWith(TRUE)
MCSuspiciousConfigs == {SuspiciousWith(b) : b \in BOOLEAN}
MCFlagArgs == {{}, {"all_operations"}, {"signing"}, {"signing", "new_requests"}, PauseFlag}
MCReasonArgs == {"ManualAdmin", "SuspiciousVolume"}
MCRoutes == {<<2>>, <<2, 3>>, <<1, 2>>, <<2, 2>>, <<3, 2, 3>>}
MCRelayerHashes == {[request |-> 0, src |-> 2, dst |-> 2, at |-> 0]}
MCBatchArgs == {<<10, 150>>}
MCChainInfoArgs == {[active |-> FALSE, dailyLimit |-> 3]}
MCInitialChainInfo == [active |-> TRUE, dailyLimit |-> 3]
MCRoots == {R1, R2}

\* After add_validator(B), add_validator(C), add_bridge_operator(B),
\* add_guardian(C), add_emergency_signer(B) and (C).
Configured ==
    /\ operators = {A, B} /\ guardians = {C} /\ emSigners = {B, C}
    /\ validators = {B, C} /\ slots = <<B, C>> /\ bitPos = [v \in {B, C} |-> IF v = B THEN 1 ELSE 2]
    /\ block = 1 /\ admin = A /\ rotation = {} /\ operatorKeys = {}
    /\ config = InitialConfig /\ suspicious = InitialSuspicious /\ pauseFlags = {}
    /\ auditLog = << >> /\ emThreshold = 2 /\ emRequests = << >> /\ frozenAssets = {}
    /\ frozenTokens = {}
    /\ requests = << >> /\ history = << >>
    /\ chainInfo = [c \in InitialConfig.supported |-> InitialChainInfo]
    /\ travelData = {} /\ travelLimit = << >>
    /\ daily = [a \in Accounts |-> [day |-> 0, count |-> 0]]
    /\ burst = [a \in Accounts |-> [block |-> 0, count |-> 0]]
    /\ failures = [start |-> 0, count |-> 0]
    /\ chainDaily = [c \in Chains |-> [day |-> 0, volume |-> 0]]
    /\ accountDaily = [a \in Accounts |-> [day |-> 0, volume |-> 0]]
    /\ chainHourly = [c \in Chains |-> [start |-> 0, volume |-> 0]]
    /\ trades = << >>
    /\ TrackingInit

MCInit ==
    \/ focus \in {"validators", "rights"} /\ Init
    \/ focus \in {"route", "report", "batch", "pause", "surge", "emergency", "limits", "rules", "trades"}
       /\ Configured

Quiet == UNCHANGED nonControlVars
TrackQuiet == UNCHANGED <<validatorVars, requests, history, limitVars, ruleVars, tradeVars>>

\* One multi-hop request: hops, votes, retries and rollbacks.
RouteNext ==
    \/ /\ requests = << >>
       /\ \E route \in Routes, required \in SignatureArgs :
             InitiateMultiHopBridge(A, T, route, required, {}, 0)
    \/ \E caller \in {B, C}, id \in requestIds, approve \in BOOLEAN : SignBridgeRequest(caller, id, approve)
    \/ ExecuteNext
    \/ RecoveryNext

\* One single-hop request and the relayers' reports about it, to the local
\* chain too.
ReportNext ==
    \/ /\ requests = << >>
       /\ \E dst \in Chains : InitiateBridgeMultisig(A, T, dst, 1, {}, 0)
    \/ \E id \in requestIds : SignBridgeRequest(B, id, TRUE)
    \/ ExecuteNext
    \/ RecoveryNext
    \/ TrackerNext /\ TrackQuiet

\* Two requests executed in the same or in different windows.
BatchFocusNext ==
    \/ Len(requests) < 2 /\ InitiateBridgeMultisig(A, T, 2, 1, {}, 0)
    \/ requests = << >> /\ InitiateMultiHopBridge(A, T, <<2, 3>>, 1, {}, 0)
    \/ \E id \in requestIds : SignBridgeRequest(B, id, TRUE)
    \/ /\ Len(requests) = 2 /\ requests[2].status = "Completed"
       /\ SignBridgeRequest(C, 2, TRUE)
    \/ Len(history) < 3 /\ \E id \in requestIds : ExecuteBridge(B, id)
    \/ BatchNext /\ TrackQuiet
    \/ block < 4 /\ Tick /\ Quiet

\* Removed and re-added validators, expiring requests.
ValidatorFocusNext ==
    \/ ValidatorNext
    \/ requests = << >> /\ \E timeout \in {{}, {0}} : InitiateBridgeMultisig(A, T, 2, 2, timeout, 0)
    \/ SignNext
    \/ history = << >> /\ ExecuteNext
    \/ \E id \in requestIds : RecoverFailedBridge(A, id, "RetryBridge")
    \/ block < 2 /\ Tick /\ Quiet

\* Rejections that pause signing, pauses and frozen tokens against executions.
SurgeNext ==
    \/ requests = << >> /\ InitiateBridgeMultisig(A, T, 2, 1, {}, 0)
    \/ \E caller \in {B, C}, id \in requestIds, approve \in BOOLEAN :
          (approve \/ failures.count < MaxFailures) /\ SignBridgeRequest(caller, id, approve)
    \/ Len(history) < 2 /\ \E id \in requestIds : ExecuteBridge(B, id)
    \/ \E id \in requestIds : RecoverFailedBridge(A, id, "RetryBridge")
    \/ FreezeNext /\ Quiet
    \/ block < 3 /\ Tick /\ Quiet
    \/ \E f \in {{"signing"}, PauseFlag} : EmergencyUnpause(A, f) /\ Quiet

\* Daily quota and bursts.
LimitsNext ==
    \/ \E caller \in {A, B} : InitiateBridgeMultisig(caller, T, 2, 1, {}, 0)
    \/ /\ \/ Tick
          \/ \E c \in AdminConfigs : UpdateConfig(A, c)
          \/ \E c \in SuspiciousConfigs : UpdateSuspiciousConfig(A, c)
       /\ Quiet

\* Travel rule data and thresholds around one request.
RulesFocusNext ==
    \/ /\ requests = << >>
       /\ \E valuation \in Valuations :
             \/ InitiateBridgeMultisig(C, T, 2, 1, {}, valuation)
             \/ InitiateMultiHopBridge(C, T, <<3, 2>>, 1, {}, valuation)
    \/ \E id \in requestIds : SignBridgeRequest(B, id, TRUE)
    \/ \E id \in requestIds : ExecuteBridge(B, id)
    \/ RuleNext

\* Trades of one trader, with limits and pauses in between.
TradesFocusNext ==
    \/ \E dst \in {1, 2}, amount \in Amounts : RegisterCrossChainTrade(C, dst, amount)
    \/ \E caller \in Accounts, trade \in 1..Len(trades) :
          \/ AttachBridgeRequestToTrade(caller, trade, 1)
          \/ SettleCrossChainTrade(caller, trade)
    \/ Tick /\ Quiet

\* Two emergency requests, their signers coming and going.
EmergencyFocusNext ==
    \/ \E a \in {A, B} : AddEmergencySigner(A, a) \/ RemoveEmergencySigner(A, a)
    \/ \E n \in 1..2 : SetEmergencyThreshold(A, n)
    \/ UnfreezeAsset(A, C)
    \/ ProposePauseBridge(B, {"signing"}, "ManualAdmin", {})
    \/ \E timeout \in {{}, {0}} : ProposeFreezeAsset(C, C, timeout)
    \/ \E caller \in Accounts, id \in 1..Len(emRequests) :
          SignEmergencyRequest(caller, id) \/ ExecuteEmergencyRequest(caller, id)
    \/ block < 2 /\ Tick

MCNext ==
    /\ UNCHANGED focus
    /\ \/ focus = "route" /\ RouteNext
       \/ focus = "report" /\ ReportNext
       \/ focus = "batch" /\ BatchFocusNext
       \/ focus = "validators" /\ ValidatorFocusNext
       \/ focus = "rights" /\ (RightsNext \/ Tick) /\ Quiet
       \/ focus = "pause" /\ (PauseNext \/ FreezeNext) /\ Quiet
       \/ focus = "surge" /\ SurgeNext
       \/ focus = "emergency" /\ EmergencyFocusNext /\ Quiet
       \/ focus = "limits" /\ LimitsNext
       \/ focus = "rules" /\ RulesFocusNext
       \/ focus = "trades" /\ TradesFocusNext

MCSpec == MCInit /\ [][MCNext]_mcVars
====

---- MODULE BridgeControl ----
(***************************************************************************)
(* Who may do what on the bridge, and what is stopped: administration and  *)
(* its two-step rotation, operators, guardians, the granular pause with    *)
(* its bounded audit log, and the emergency multi-signature that pauses    *)
(* the bridge or freezes an asset (contracts/bridge/src/lib.rs).           *)
(*                                                                         *)
(* A message that returns Err is reverted by the runtime, so every action  *)
(* below is the Ok path of one message; its Err returns are its guard.     *)
(***************************************************************************)
EXTENDS Integers, Sequences, FiniteSets

----
\* Enumerations and pure helper functions (also contracts/traits/src/bridge.rs)

BridgeOperationStatus ==
    {"None", "Pending", "Locked", "InTransit", "Completed", "Failed",
     "Recovering", "Expired"}

MultiHopStatus == {"InProgress", "HopCompleted", "Failed"}

ChainTxStatus == {"NotStarted", "Submitted", "Confirming", "Confirmed", "Failed"}

RecoveryAction == {"UnlockToken", "RefundGas", "RetryBridge", "CancelBridge"}

\* PauseFlags is a struct of five booleans; here it is the set of the ones that
\* are true, so that the OR-merge of apply_pause is a union.
PauseFlag == {"all_operations", "new_requests", "signing", "execution",
              "cross_chain_trades"}

\* The flag that BridgeOperation op is guarded by, besides all_operations.
FlagOfOperation ==
    [NewRequest |-> "new_requests", Signing |-> "signing",
     Execution |-> "execution", CrossChainTrade |-> "cross_chain_trades"]

PauseReason == {"ManualAdmin", "GuardianTrigger", "SuspiciousFrequency",
                "SuspiciousVolume", "FailedSignatureSurge", "Custom"}

PauseFlagsForReason(reason) ==
    CASE reason = "SuspiciousFrequency"  -> {"new_requests"}
      [] reason = "SuspiciousVolume"     -> {"cross_chain_trades"}
      [] reason = "FailedSignatureSurge" -> {"signing"}
      [] OTHER                           -> {"all_operations"}

\* Allowed per-leg moves: forward progress only, Confirmed and Failed terminal.
IsValidChainStatusTransition(from, to) ==
    \/ from = "NotStarted" /\ to \in {"Submitted", "Failed"}
    \/ from = "Submitted"  /\ to \in {"Submitted", "Confirming", "Confirmed", "Failed"}
    \/ from = "Confirming" /\ to \in {"Confirming", "Confirmed", "Failed"}
    \/ from \in {"Confirmed", "Failed"} /\ to = from

ComputeOverallStatus(source, destination) ==
    CASE source = "Failed" \/ destination = "Failed" -> "Failed"
      [] source = "Confirmed" /\ destination = "Confirmed" -> "Completed"
      [] source \in {"Submitted", "Confirming"} /\ destination = "NotStarted" -> "Pending"
      [] OTHER -> "InTransit"

\* A Mapping::insert on a partial function.
MapInsert(f, k, v) == [x \in DOMAIN f \cup {k} |-> IF x = k THEN v ELSE f[x]]

----

CONSTANTS
    Accounts,           \* accounts that may call the contract
    Tokens,             \* token ids
    Chains,             \* chain ids an argument may name
    LocalChain,         \* get_current_chain_id()
    Deployer,           \* caller of the constructor
    InitialConfig,      \* BridgeConfig the constructor builds
    AdminConfigs,       \* BridgeConfigs an admin may install
    SuspiciousConfigs,  \* SuspiciousActivityConfigs, the default one first
    InitialSuspicious,
    BlockTime,          \* milliseconds between two blocks
    RotationCooldown,   \* KEY_ROTATION_COOLDOWN_BLOCKS
    RotationExpiry,     \* KEY_ROTATION_EXPIRY_BLOCKS
    AuditLogLimit,      \* PAUSE_AUDIT_LOG_LIMIT
    Timeouts,           \* timeout_blocks an argument may name
    FlagArgs,           \* PauseFlags an argument may hold
    ReasonArgs,         \* PauseReasons an argument may hold
    MaxBlock,           \* bound: the last block of a behaviour
    MaxEmergency        \* bound: emergency requests of a behaviour

BridgeConfigType ==
    [supported : SUBSET Chains, minSig : Nat, maxSig : Nat,
     emergencyPause : BOOLEAN, rateLimit : BOOLEAN, maxPerDay : Nat]

SuspiciousConfigType ==
    [auto : BOOLEAN, maxRequests : Nat, maxVolume : Nat, maxFailed : Nat]

ASSUME ControlConstants ==
    /\ Deployer \in Accounts
    /\ LocalChain \in Chains
    /\ InitialConfig \in BridgeConfigType
    /\ AdminConfigs \subseteq BridgeConfigType
    /\ InitialSuspicious \in SuspiciousConfigType
    /\ SuspiciousConfigs \subseteq SuspiciousConfigType
    /\ BlockTime \in Nat \ {0}
    /\ RotationCooldown \in Nat
    /\ RotationExpiry \in Nat
    /\ AuditLogLimit \in Nat \ {0}
    /\ Timeouts \subseteq Nat
    /\ FlagArgs \subseteq SUBSET PauseFlag
    /\ ReasonArgs \subseteq PauseReason
    /\ MaxBlock \in Nat
    /\ MaxEmergency \in Nat

VARIABLES
    block,          \* env().block_number()
    admin,
    rotation,       \* pending_admin_rotation: at most one KeyRotationRequest
    operators,      \* bridge_operators
    operatorKeys,   \* accounts with an entry in operator_public_keys
    guardians,
    config,
    suspicious,     \* suspicious_config
    pauseFlags,
    auditLog,       \* pause_audit_log
    emSigners,      \* emergency_signers
    emThreshold,    \* emergency_threshold
    emRequests,     \* emergency_requests, by id
    frozenAssets,   \* frozen_assets, the keys
    frozenTokens    \* frozen_tokens, those mapped to true

rightsVars == <<admin, rotation, operators, operatorKeys, guardians>>
pauseVars  == <<config, suspicious, pauseFlags, auditLog>>
emergencyVars == <<emSigners, emThreshold, emRequests, frozenAssets>>
controlVars == <<block, rightsVars, pauseVars, emergencyVars, frozenTokens>>

Rotation == [old : Accounts, new : Accounts, effective : Nat]
AuditEntry == [by : Accounts, paused : BOOLEAN, flags : SUBSET PauseFlag, reason : PauseReason]
EmergencyRequest ==
    [kind : {"PauseBridge", "FreezeAsset"}, flags : SUBSET PauseFlag, reason : PauseReason,
     asset : Accounts, sigs : SUBSET Accounts, expires : SUBSET Nat, executed : BOOLEAN]

ControlTypeOK ==
    /\ block \in Nat
    /\ admin \in Accounts
    /\ rotation \in SUBSET Rotation
    /\ operators \in SUBSET Accounts
    /\ operatorKeys \in SUBSET Accounts
    /\ guardians \in SUBSET Accounts
    /\ config \in BridgeConfigType
    /\ suspicious \in SuspiciousConfigType
    /\ pauseFlags \in SUBSET PauseFlag
    /\ auditLog \in Seq(AuditEntry)
    /\ emSigners \in SUBSET Accounts
    /\ emThreshold \in Nat \ {0}
    /\ emRequests \in Seq(EmergencyRequest)
    /\ frozenAssets \in SUBSET Accounts
    /\ frozenTokens \in SUBSET Tokens

ControlInit ==
    /\ block = 1
    /\ admin = Deployer
    /\ rotation = {}
    /\ operators = {Deployer}
    /\ operatorKeys = {}
    /\ guardians = {}
    /\ config = InitialConfig
    /\ suspicious = InitialSuspicious
    /\ pauseFlags = {}
    /\ auditLog = << >>
    /\ emSigners = {}
    /\ emThreshold = 2
    /\ emRequests = << >>
    /\ frozenAssets = {}
    /\ frozenTokens = {}

----
\* Time. The timestamp of a block is its number times the block time.

Timestamp == block * BlockTime

Tick ==
    /\ block < MaxBlock
    /\ block' = block + 1
    /\ UNCHANGED <<rightsVars, pauseVars, emergencyVars, frozenTokens>>

ExpiryOf(timeout) == {block + t : t \in timeout}

PastExpiry(request) == \E e \in request.expires : block > e

----
\* Rights

AddBridgeOperator(caller, operator) ==
    /\ caller = admin
    /\ operators' = operators \cup {operator}
    /\ UNCHANGED <<block, admin, rotation, operatorKeys, guardians, pauseVars,
                   emergencyVars, frozenTokens>>

RemoveBridgeOperator(caller, operator) ==
    /\ caller = admin
    /\ operators' = operators \ {operator}
    /\ UNCHANGED <<block, admin, rotation, operatorKeys, guardians, pauseVars,
                   emergencyVars, frozenTokens>>

RegisterOperatorPublicKey(caller) ==
    /\ caller \in operators
    /\ operatorKeys' = operatorKeys \cup {caller}
    /\ UNCHANGED <<block, admin, rotation, operators, guardians, pauseVars,
                   emergencyVars, frozenTokens>>

AddGuardian(caller, guardian) ==
    /\ caller = admin
    /\ guardians' = guardians \cup {guardian}
    /\ UNCHANGED <<block, admin, rotation, operators, operatorKeys, pauseVars,
                   emergencyVars, frozenTokens>>

RemoveGuardian(caller, guardian) ==
    /\ caller = admin
    /\ guardians' = guardians \ {guardian}
    /\ UNCHANGED <<block, admin, rotation, operators, operatorKeys, pauseVars,
                   emergencyVars, frozenTokens>>

RequestAdminRotation(caller, newAdmin) ==
    /\ caller = admin
    /\ rotation' = {[old |-> caller, new |-> newAdmin, effective |-> block + RotationCooldown]}
    /\ UNCHANGED <<block, admin, operators, operatorKeys, guardians, pauseVars,
                   emergencyVars, frozenTokens>>

\* Mutant: the cooldown is not waited for.
ConfirmAdminRotation_NoCooldown(caller) ==
    /\ \E r \in rotation : r.new = caller /\ block <= r.effective + RotationExpiry
    /\ admin' = caller
    /\ rotation' = {}
    /\ UNCHANGED <<block, operators, operatorKeys, guardians, pauseVars,
                   emergencyVars, frozenTokens>>

\* Past the expiry the code clears the request and returns Err: the clearing is
\* reverted with the message.
ConfirmAdminRotation(caller) ==
    /\ \E r \in rotation :
          /\ r.new = caller
          /\ block >= r.effective
          /\ block <= r.effective + RotationExpiry
    /\ admin' = caller
    /\ rotation' = {}
    /\ UNCHANGED <<block, operators, operatorKeys, guardians, pauseVars,
                   emergencyVars, frozenTokens>>

CancelAdminRotation(caller) ==
    /\ \E r \in rotation : caller \in {r.old, r.new}
    /\ rotation' = {}
    /\ UNCHANGED <<block, admin, operators, operatorKeys, guardians, pauseVars,
                   emergencyVars, frozenTokens>>

RightsNext ==
    \E caller \in Accounts :
        \/ \E a \in Accounts :
              \/ AddBridgeOperator(caller, a)
              \/ RemoveBridgeOperator(caller, a)
              \/ AddGuardian(caller, a)
              \/ RemoveGuardian(caller, a)
              \/ RequestAdminRotation(caller, a)
        \/ RegisterOperatorPublicKey(caller)
        \/ ConfirmAdminRotation(caller)
        \/ CancelAdminRotation(caller)

----
\* Pause

IsOpPaused(op) ==
    \/ config.emergencyPause
    \/ "all_operations" \in pauseFlags
    \/ FlagOfOperation[op] \in pauseFlags

\* Mutant: a full log drops the new entry instead of the oldest.
PushAuditEntry_KeepsOldest(entry) ==
    auditLog' = IF Len(auditLog) >= AuditLogLimit THEN auditLog ELSE Append(auditLog, entry)

\* The audit log keeps the newest AuditLogLimit entries.
PushAuditEntry(entry) ==
    auditLog' = IF Len(auditLog) >= AuditLogLimit
                THEN Append(Tail(auditLog), entry)
                ELSE Append(auditLog, entry)

ApplyPause(by, flags, reason) ==
    /\ pauseFlags' = pauseFlags \cup flags
    /\ config' = [config EXCEPT !.emergencyPause = @ \/ "all_operations" \in pauseFlags']
    /\ PushAuditEntry([by |-> by, paused |-> TRUE, flags |-> pauseFlags', reason |-> reason])

ApplyUnpause(by, flags) ==
    /\ pauseFlags' = pauseFlags \ flags
    /\ config' = [config EXCEPT !.emergencyPause = "all_operations" \in pauseFlags']
    /\ PushAuditEntry([by |-> by, paused |-> FALSE, flags |-> pauseFlags',
                       reason |-> "ManualAdmin"])

UpdateConfig(caller, newConfig) ==
    /\ caller = admin
    /\ config' = newConfig
    /\ UNCHANGED <<block, rightsVars, suspicious, pauseFlags, auditLog,
                   emergencyVars, frozenTokens>>

SetEmergencyPause(caller, paused) ==
    /\ caller = admin
    /\ IF paused THEN ApplyPause(caller, PauseFlag, "ManualAdmin")
                 ELSE ApplyUnpause(caller, PauseFlag)
    /\ UNCHANGED <<block, rightsVars, suspicious, emergencyVars, frozenTokens>>

EmergencyPause(caller, flags, reason) ==
    /\ caller = admin \/ caller \in guardians
    /\ flags # {}
    /\ ApplyPause(caller, flags, reason)
    /\ UNCHANGED <<block, rightsVars, suspicious, emergencyVars, frozenTokens>>

\* Mutant: guardians may unpause as they may pause.
EmergencyUnpause_ByGuardian(caller, flags) ==
    /\ caller = admin \/ caller \in guardians
    /\ ApplyUnpause(caller, flags)
    /\ UNCHANGED <<block, rightsVars, suspicious, emergencyVars, frozenTokens>>

EmergencyUnpause(caller, flags) ==
    /\ caller = admin
    /\ ApplyUnpause(caller, flags)
    /\ UNCHANGED <<block, rightsVars, suspicious, emergencyVars, frozenTokens>>

UpdateSuspiciousConfig(caller, newConfig) ==
    /\ caller = admin
    /\ suspicious' = newConfig
    /\ UNCHANGED <<block, rightsVars, config, pauseFlags, auditLog,
                   emergencyVars, frozenTokens>>

\* The report whose measured value reaches its (positive) threshold; any other
\* report only emits an event.
ReportSuspiciousActivity(caller, reason) ==
    /\ caller = admin \/ caller \in guardians
    /\ suspicious.auto
    /\ ApplyPause(caller, PauseFlagsForReason(reason), reason)
    /\ UNCHANGED <<block, rightsVars, suspicious, emergencyVars, frozenTokens>>

FreezeToken(caller, token) ==
    /\ caller = admin
    /\ token \notin frozenTokens
    /\ frozenTokens' = frozenTokens \cup {token}
    /\ UNCHANGED <<block, rightsVars, pauseVars, emergencyVars>>

UnfreezeToken(caller, token) ==
    /\ caller = admin
    /\ token \in frozenTokens
    /\ frozenTokens' = frozenTokens \ {token}
    /\ UNCHANGED <<block, rightsVars, pauseVars, emergencyVars>>

PauseNext ==
    \E caller \in Accounts :
        \/ \E c \in AdminConfigs : UpdateConfig(caller, c)
        \/ \E paused \in BOOLEAN : SetEmergencyPause(caller, paused)
        \/ \E flags \in FlagArgs :
              \/ \E reason \in ReasonArgs : EmergencyPause(caller, flags, reason)
              \/ EmergencyUnpause(caller, flags)
        \/ \E c \in SuspiciousConfigs : UpdateSuspiciousConfig(caller, c)
        \/ \E reason \in ReasonArgs : ReportSuspiciousActivity(caller, reason)

FreezeNext ==
    \E caller \in Accounts, token \in Tokens :
        FreezeToken(caller, token) \/ UnfreezeToken(caller, token)

----
\* Emergency multi-signature

AddEmergencySigner(caller, signer) ==
    /\ caller = admin
    /\ emSigners' = emSigners \cup {signer}
    /\ UNCHANGED <<block, rightsVars, pauseVars, emThreshold, emRequests,
                   frozenAssets, frozenTokens>>

RemoveEmergencySigner(caller, signer) ==
    /\ caller = admin
    /\ emSigners' = emSigners \ {signer}
    /\ UNCHANGED <<block, rightsVars, pauseVars, emThreshold, emRequests,
                   frozenAssets, frozenTokens>>

SetEmergencyThreshold(caller, threshold) ==
    /\ caller = admin
    /\ threshold > 0
    /\ threshold <= Cardinality(emSigners)
    /\ emThreshold' = threshold
    /\ UNCHANGED <<block, rightsVars, pauseVars, emSigners, emRequests,
                   frozenAssets, frozenTokens>>

NewEmergencyRequest(caller, kind, flags, reason, asset, timeout) ==
    /\ caller \in emSigners
    /\ Len(emRequests) < MaxEmergency
    /\ emRequests' = Append(emRequests,
          [kind |-> kind, flags |-> flags, reason |-> reason, asset |-> asset,
           sigs |-> {caller}, expires |-> ExpiryOf(timeout), executed |-> FALSE])
    /\ UNCHANGED <<block, rightsVars, pauseVars, emSigners, emThreshold,
                   frozenAssets, frozenTokens>>

ProposePauseBridge(caller, flags, reason, timeout) ==
    NewEmergencyRequest(caller, "PauseBridge", flags, reason, caller, timeout)

ProposeFreezeAsset(caller, asset, timeout) ==
    NewEmergencyRequest(caller, "FreezeAsset", {}, "Custom", asset, timeout)

SignEmergencyRequest(caller, id) ==
    /\ caller \in emSigners
    /\ ~emRequests[id].executed
    /\ ~PastExpiry(emRequests[id])
    /\ caller \notin emRequests[id].sigs
    /\ emRequests' = [emRequests EXCEPT ![id].sigs = @ \cup {caller}]
    /\ UNCHANGED <<block, rightsVars, pauseVars, emSigners, emThreshold,
                   frozenAssets, frozenTokens>>

\* Mutant: a request may be executed again.
ExecuteEmergencyRequest_Again(caller, id) ==
    /\ caller \in emSigners
    /\ ~PastExpiry(emRequests[id])
    /\ Cardinality(emRequests[id].sigs) >= emThreshold
    /\ emRequests' = [emRequests EXCEPT ![id].executed = TRUE]
    /\ \/ /\ emRequests[id].kind = "PauseBridge"
          /\ ApplyPause(caller, emRequests[id].flags, emRequests[id].reason)
          /\ UNCHANGED frozenAssets
       \/ /\ emRequests[id].kind = "FreezeAsset"
          /\ frozenAssets' = frozenAssets \cup {emRequests[id].asset}
          /\ UNCHANGED <<config, pauseFlags, auditLog>>
    /\ UNCHANGED <<block, rightsVars, suspicious, emSigners, emThreshold, frozenTokens>>

ExecuteEmergencyRequest(caller, id) ==
    /\ caller \in emSigners
    /\ ~emRequests[id].executed
    /\ ~PastExpiry(emRequests[id])
    /\ Cardinality(emRequests[id].sigs) >= emThreshold
    /\ emRequests' = [emRequests EXCEPT ![id].executed = TRUE]
    /\ \/ /\ emRequests[id].kind = "PauseBridge"
          /\ ApplyPause(caller, emRequests[id].flags, emRequests[id].reason)
          /\ UNCHANGED frozenAssets
       \/ /\ emRequests[id].kind = "FreezeAsset"
          /\ frozenAssets' = frozenAssets \cup {emRequests[id].asset}
          /\ UNCHANGED <<config, pauseFlags, auditLog>>
    /\ UNCHANGED <<block, rightsVars, suspicious, emSigners, emThreshold, frozenTokens>>

UnfreezeAsset(caller, asset) ==
    /\ caller = admin
    /\ asset \in frozenAssets
    /\ frozenAssets' = frozenAssets \ {asset}
    /\ UNCHANGED <<block, rightsVars, pauseVars, emSigners, emThreshold,
                   emRequests, frozenTokens>>

EmergencyNext ==
    \E caller \in Accounts :
        \/ \E a \in Accounts :
              \/ AddEmergencySigner(caller, a)
              \/ RemoveEmergencySigner(caller, a)
              \/ UnfreezeAsset(caller, a)
        \/ \E n \in 1..Cardinality(Accounts) : SetEmergencyThreshold(caller, n)
        \/ \E timeout \in {{}} \cup {{t} : t \in Timeouts} :
              \/ \E flags \in FlagArgs, reason \in ReasonArgs :
                    ProposePauseBridge(caller, flags, reason, timeout)
              \/ \E asset \in Accounts : ProposeFreezeAsset(caller, asset, timeout)
        \/ \E id \in 1..Len(emRequests) :
              \/ SignEmergencyRequest(caller, id)
              \/ ExecuteEmergencyRequest(caller, id)

----
\* Properties

\* The newest entry of the audit log describes the flags in force, whichever
\* path (admin, guardian, multi-signature, automatic) changed them last:
\* apply_pause and apply_unpause are the only writers of both.
AuditTailMatchesFlags ==
    IF auditLog = << >> THEN pauseFlags = {}
                        ELSE auditLog[Len(auditLog)].flags = pauseFlags

\* Guardians, emergency signers and the automatic heuristics may only add to a
\* pause: a flag is cleared by the admin alone, and the log says so
\* ("only the admin may lift a pause").
OnlyAdminLifts ==
    [][pauseFlags \ pauseFlags' # {} =>
          LET entry == auditLog'[Len(auditLog')]
          IN  /\ auditLog' # << >>
              /\ entry.by = admin
              /\ ~entry.paused]_<<admin, pauseFlags, auditLog>>

\* The admin changes only by the consent of both: to the account the previous
\* admin named, called by it, no earlier than the cooldown and no later than
\* the expiry (confirm_admin_rotation).
AdminRotatesByConsent ==
    [][admin' # admin =>
          \E r \in rotation : /\ r.new = admin'
                              /\ block >= r.effective
                              /\ block <= r.effective + RotationExpiry]_<<admin, rotation, block>>

\* An asset becomes frozen only in the step that executes, for the first time, a
\* request for it that has not expired and that a quorum signed; a request that
\* was executed and then lifted by the admin cannot freeze the asset again.
FreezeTakesAQuorum ==
    [][\A a \in frozenAssets' \ frozenAssets :
          \E id \in DOMAIN emRequests :
              /\ emRequests[id].kind = "FreezeAsset"
              /\ emRequests[id].asset = a
              /\ ~emRequests[id].executed /\ emRequests'[id].executed
              /\ ~PastExpiry(emRequests[id])
              /\ Cardinality(emRequests[id].sigs) >= emThreshold
      ]_<<block, emRequests, emThreshold, frozenAssets>>
====

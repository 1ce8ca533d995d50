---- MODULE BridgeProofs ----
(***************************************************************************)
(* Proofs about Bridge for all values of its constants.                    *)
(***************************************************************************)
EXTENDS Bridge, Sums, SequenceTheorems, TLAPS

----
\* Lemmas about sequences: what replacing or appending an element does.

\* Replacing an element by one of the same set stays within the sequences over it.
LEMMA ReplaceElement ==
    ASSUME NEW S, NEW s \in Seq(S), NEW i \in 1..Len(s), NEW e \in S
    PROVE  /\ [s EXCEPT ![i] = e] \in Seq(S)
           /\ Len([s EXCEPT ![i] = e]) = Len(s)
           /\ DOMAIN [s EXCEPT ![i] = e] = 1..Len(s)
           /\ [s EXCEPT ![i] = e][i] = e
           /\ \A j \in 1..Len(s) : j # i => [s EXCEPT ![i] = e][j] = s[j]
  BY LenProperties, ExceptSeq

\* The elements of a sequence to which one is appended.
LEMMA AppendElement ==
    ASSUME NEW S, NEW s \in Seq(S), NEW e \in S
    PROVE  /\ Append(s, e) \in Seq(S)
           /\ Len(Append(s, e)) = Len(s) + 1
           /\ DOMAIN Append(s, e) = 1..(Len(s) + 1)
           /\ \A j \in 1..Len(s) : Append(s, e)[j] = s[j]
           /\ Append(s, e)[Len(s) + 1] = e
  BY AppendProperties, LenProperties

----
\* The audit log

\* The log is a sequence of entries whose newest one shows the flags in force.
LogInv ==
    /\ auditLog \in Seq(AuditEntry)
    /\ AuditTailMatchesFlags

\* What an entry pushed onto the log leaves at its end.
LEMMA PushedEntry ==
    ASSUME NEW entry \in AuditEntry, auditLog \in Seq(AuditEntry), PushAuditEntry(entry)
    PROVE  /\ auditLog' \in Seq(AuditEntry)
           /\ auditLog' # << >>
           /\ auditLog'[Len(auditLog')] = entry
<1> USE ControlConstants
<1>1. CASE Len(auditLog) >= AuditLogLimit
  BY <1>1, LenProperties, HeadTailProperties, EmptySeq, AppendElement DEF PushAuditEntry
<1>2. CASE ~(Len(auditLog) >= AuditLogLimit)
  BY <1>2, AppendElement, LenProperties DEF PushAuditEntry
<1> QED
  BY <1>1, <1>2
\* Whoever changes the flags pushes the entry that shows them; nobody else
\* touches the log.
LEMMA ApplyPauseLog ==
    ASSUME LogInv, pauseFlags \subseteq PauseFlag,
           NEW by \in Accounts, NEW flags \in SUBSET PauseFlag, NEW reason \in PauseReason,
           ApplyPause(by, flags, reason)
    PROVE  /\ LogInv'
           /\ pauseFlags' \in SUBSET PauseFlag
           /\ pauseFlags \subseteq pauseFlags'
<1> DEFINE entry == [by |-> by, paused |-> TRUE, flags |-> pauseFlags', reason |-> reason]
<1>1. pauseFlags' = pauseFlags \cup flags /\ PushAuditEntry(entry)
  BY DEF ApplyPause
<1>2. entry \in AuditEntry
  BY <1>1 DEF AuditEntry
<1>3. auditLog \in Seq(AuditEntry)
  BY DEF LogInv
<1>4. /\ auditLog' \in Seq(AuditEntry)
      /\ auditLog' # << >>
      /\ auditLog'[Len(auditLog')] = entry
  <2> HIDE DEF entry
  <2> QED BY <1>1, <1>2, <1>3, PushedEntry
<1> QED
  BY <1>1, <1>4 DEF LogInv, AuditTailMatchesFlags

\* Lifting flags by hand leaves a last entry of the trail that names the lifter and
\* the flags that remain (apply_unpause).
LEMMA ApplyUnpauseLog ==
    ASSUME LogInv, pauseFlags \subseteq PauseFlag,
           NEW by \in Accounts, NEW flags \in SUBSET PauseFlag,
           ApplyUnpause(by, flags)
    PROVE  /\ LogInv'
           /\ pauseFlags' \in SUBSET PauseFlag
           /\ auditLog' # << >>
           /\ auditLog'[Len(auditLog')].by = by
           /\ auditLog'[Len(auditLog')].paused = FALSE
<1> DEFINE entry == [by |-> by, paused |-> FALSE, flags |-> pauseFlags',
                     reason |-> "ManualAdmin"]
<1>1. pauseFlags' = pauseFlags \ flags /\ PushAuditEntry(entry)
  BY DEF ApplyUnpause
<1>2. entry \in AuditEntry
  BY <1>1 DEF AuditEntry, PauseReason
<1>3. auditLog \in Seq(AuditEntry)
  BY DEF LogInv
<1>4. /\ auditLog' \in Seq(AuditEntry)
      /\ auditLog' # << >>
      /\ auditLog'[Len(auditLog')] = entry
  <2> HIDE DEF entry
  <2> QED BY <1>1, <1>2, <1>3, PushedEntry
<1> QED
  BY <1>1, <1>4 DEF LogInv, AuditTailMatchesFlags
----
\* The control part: its types and the tail of its log

ControlInv == ControlTypeOK /\ AuditTailMatchesFlags

\* The constructor establishes the invariant of the pause, the roles and the trail (new).
LEMMA ControlInvInit == Init => ControlInv
  BY ControlConstants, EmptySeq
  DEF Init, ControlInit, ControlInv, ControlTypeOK, AuditTailMatchesFlags

\* Every disjunct but the control messages and signing leaves the control part
\* alone.
LEMMA ControlFrame ==
    TrackingNext \/ ValidatorNext \/ InitiateNext \/ ExecuteNext \/ RecoveryNext
        \/ RuleNext \/ TradeNext
    => UNCHANGED controlVars
<1>1. TrackingNext => UNCHANGED controlVars
  BY DEF TrackingNext, TrackerNext, BatchNext, UpdateChainTxStatus, ConfirmDestinationDelivery,
         ConfigureBatchVerification, SubmitBatchMerkleRoot, VerifyBatchMerkleRoot
<1>2. ValidatorNext => UNCHANGED controlVars
  BY DEF ValidatorNext, AddValidator, RemoveValidator
<1>3. InitiateNext => UNCHANGED controlVars
  BY DEF InitiateNext, InitiateBridgeMultisig, InitiateMultiHopBridge, Initiate
<1>4. ExecuteNext => UNCHANGED controlVars
  BY DEF ExecuteNext, ExecuteBridge
<1>5. RecoveryNext => UNCHANGED controlVars
  BY DEF RecoveryNext, RecoverFailedBridge, RollbackBridgeTransaction
<1>6. RuleNext => UNCHANGED controlVars
  BY DEF RuleNext, SubmitTravelRuleData, SetTravelRuleThreshold, UpdateChainInfo
<1>7. TradeNext => UNCHANGED controlVars
  BY DEF TradeNext, RegisterCrossChainTrade, AttachBridgeRequestToTrade, SettleCrossChainTrade
<1> QED
  BY <1>1, <1>2, <1>3, <1>4, <1>5, <1>6, <1>7

\* A pause that leaves everything else of the control part alone keeps the invariant.
LEMMA PauseStep ==
    ASSUME ControlInv, NEW by \in Accounts, NEW flags \in SUBSET PauseFlag,
           NEW reason \in PauseReason, ApplyPause(by, flags, reason),
           UNCHANGED <<block, rightsVars, suspicious>>
    PROVE  /\ pauseFlags' \in SUBSET PauseFlag
           /\ pauseFlags \subseteq pauseFlags'
           /\ auditLog' \in Seq(AuditEntry)
           /\ AuditTailMatchesFlags'
           /\ config' \in BridgeConfigType
<1>1. LogInv /\ pauseFlags \subseteq PauseFlag /\ config \in BridgeConfigType
  BY DEF ControlInv, ControlTypeOK, LogInv
<1> DEFINE b == config.emergencyPause \/ "all_operations" \in pauseFlags'
<1>2. config' = [config EXCEPT !.emergencyPause = b]
  BY Zenon DEF ApplyPause
<1>3. config' \in BridgeConfigType
  <2>1. b \in BOOLEAN
    OBVIOUS
  <2> HIDE DEF b
  <2> QED BY <1>1, <1>2, <2>1 DEF BridgeConfigType
<1> QED
  BY <1>1, <1>3, ApplyPauseLog DEF LogInv

\* What every message that lifts flags leaves true of the flags, the configuration and
\* the trail (apply_unpause).
LEMMA UnpauseStep ==
    ASSUME ControlInv, NEW by \in Accounts, NEW flags \in SUBSET PauseFlag,
           ApplyUnpause(by, flags)
    PROVE  /\ pauseFlags' \in SUBSET PauseFlag
           /\ auditLog' \in Seq(AuditEntry)
           /\ AuditTailMatchesFlags'
           /\ config' \in BridgeConfigType
           /\ auditLog' # << >>
           /\ auditLog'[Len(auditLog')].by = by
           /\ auditLog'[Len(auditLog')].paused = FALSE
<1>1. LogInv /\ pauseFlags \subseteq PauseFlag /\ config \in BridgeConfigType
  BY DEF ControlInv, ControlTypeOK, LogInv
<1> DEFINE b == "all_operations" \in pauseFlags'
<1>2. config' = [config EXCEPT !.emergencyPause = b]
  BY Zenon DEF ApplyUnpause
<1>3. config' \in BridgeConfigType
  <2>1. b \in BOOLEAN
    OBVIOUS
  <2> HIDE DEF b
  <2> QED BY <1>1, <1>2, <2>1 DEF BridgeConfigType
<1> QED
  BY <1>1, <1>3, ApplyUnpauseLog DEF LogInv

\* A new block does not touch the pause.
LEMMA ControlInvTick == ControlInv /\ Tick => ControlInv'
  BY DEF ControlInv, ControlTypeOK, AuditTailMatchesFlags, Tick, rightsVars, pauseVars, emergencyVars

\* Roles, guardians and the rotation of the admin keep the invariant of the pause.
LEMMA ControlInvRights == ControlInv /\ RightsNext => ControlInv'
<1> SUFFICES ASSUME ControlInv, NEW caller \in Accounts, NEW a \in Accounts,
                    \/ AddBridgeOperator(caller, a) \/ RemoveBridgeOperator(caller, a)
                    \/ AddGuardian(caller, a) \/ RemoveGuardian(caller, a)
                    \/ RequestAdminRotation(caller, a) \/ RegisterOperatorPublicKey(caller)
                    \/ ConfirmAdminRotation(caller) \/ CancelAdminRotation(caller)
             PROVE  ControlInv'
  BY DEF RightsNext
<1> USE ControlConstants DEF ControlInv, ControlTypeOK, AuditTailMatchesFlags, pauseVars, emergencyVars
<1>1. CASE AddBridgeOperator(caller, a)
  BY <1>1 DEF AddBridgeOperator
<1>2. CASE RemoveBridgeOperator(caller, a)
  BY <1>2 DEF RemoveBridgeOperator
<1>3. CASE AddGuardian(caller, a)
  BY <1>3 DEF AddGuardian
<1>4. CASE RemoveGuardian(caller, a)
  BY <1>4 DEF RemoveGuardian
<1>5. CASE RequestAdminRotation(caller, a)
  BY <1>5 DEF RequestAdminRotation, Rotation
<1>6. CASE RegisterOperatorPublicKey(caller)
  BY <1>6 DEF RegisterOperatorPublicKey
<1>7. CASE ConfirmAdminRotation(caller)
  BY <1>7 DEF ConfirmAdminRotation
<1>8. CASE CancelAdminRotation(caller)
  BY <1>8 DEF CancelAdminRotation
<1> QED
  BY <1>1, <1>2, <1>3, <1>4, <1>5, <1>6, <1>7, <1>8

\* Every reason of a pause maps to known flags (pause_flags_for_reason).
LEMMA ReasonFlags == \A reason \in PauseReason : PauseFlagsForReason(reason) \in SUBSET PauseFlag
  BY DEF PauseReason, PauseFlagsForReason, PauseFlag

\* The messages that pause and unpause keep the invariant of the pause.
LEMMA ControlInvPause == ControlInv /\ PauseNext => ControlInv'
<1> SUFFICES ASSUME ControlInv, NEW caller \in Accounts, PauseNext!(caller)
             PROVE  ControlInv'
  BY DEF PauseNext
<1> USE DEF rightsVars, emergencyVars
<1>1. CASE \E c \in AdminConfigs : UpdateConfig(caller, c)
  BY <1>1, ControlConstants DEF UpdateConfig, ControlInv, ControlTypeOK, AuditTailMatchesFlags
<1>2. ASSUME NEW paused \in BOOLEAN, SetEmergencyPause(caller, paused)
      PROVE  ControlInv'
  <2>1. CASE paused
    BY <1>2, <2>1, PauseStep DEF SetEmergencyPause, PauseReason, ControlInv, ControlTypeOK
  <2>2. CASE ~paused
    <3>1. ApplyUnpause(caller, PauseFlag)
      BY <1>2, <2>2 DEF SetEmergencyPause
    <3>2. UNCHANGED <<block, rightsVars, suspicious, emergencyVars, frozenTokens>>
      BY <1>2 DEF SetEmergencyPause
    <3> QED
      BY <3>1, <3>2, UnpauseStep DEF ControlInv, ControlTypeOK
  <2> QED
    BY <2>1, <2>2
<1>3. ASSUME NEW flags \in FlagArgs, NEW reason \in ReasonArgs, EmergencyPause(caller, flags, reason)
      PROVE  ControlInv'
  BY <1>3, ControlConstants, PauseStep DEF EmergencyPause, ControlInv, ControlTypeOK
<1>4. ASSUME NEW flags \in FlagArgs, EmergencyUnpause(caller, flags)
      PROVE  ControlInv'
  BY <1>4, ControlConstants, UnpauseStep DEF EmergencyUnpause, ControlInv, ControlTypeOK
<1>5. CASE \E c \in SuspiciousConfigs : UpdateSuspiciousConfig(caller, c)
  BY <1>5, ControlConstants DEF UpdateSuspiciousConfig, ControlInv, ControlTypeOK, AuditTailMatchesFlags
<1>6. ASSUME NEW reason \in ReasonArgs, ReportSuspiciousActivity(caller, reason)
      PROVE  ControlInv'
  <2>1. reason \in PauseReason /\ PauseFlagsForReason(reason) \in SUBSET PauseFlag
    BY ControlConstants, ReasonFlags
  <2> QED
    BY <1>6, <2>1, PauseStep DEF ReportSuspiciousActivity, ControlInv, ControlTypeOK
<1> QED
  BY <1>1, <1>2, <1>3, <1>4, <1>5, <1>6

\* Freezing an account or a request keeps the invariant of the pause.
LEMMA ControlInvFreeze == ControlInv /\ FreezeNext => ControlInv'
  BY DEF ControlInv, ControlTypeOK, AuditTailMatchesFlags, FreezeNext, FreezeToken, UnfreezeToken,
         rightsVars, pauseVars, emergencyVars

\* Every step of the emergency controls keeps the invariant of the pause.
LEMMA ControlInvEmergency == ControlInv /\ EmergencyNext => ControlInv'
<1> SUFFICES ASSUME ControlInv, NEW caller \in Accounts, EmergencyNext!(caller)
             PROVE  ControlInv'
  BY DEF EmergencyNext
<1> USE DEF rightsVars, pauseVars
<1>t. ControlTypeOK /\ AuditTailMatchesFlags
  BY DEF ControlInv
<1>1. CASE \E a \in Accounts : \/ AddEmergencySigner(caller, a)
                               \/ RemoveEmergencySigner(caller, a)
                               \/ UnfreezeAsset(caller, a)
  BY <1>1 DEF AddEmergencySigner, RemoveEmergencySigner, UnfreezeAsset,
              ControlInv, ControlTypeOK, AuditTailMatchesFlags
<1>2. CASE \E n \in 1..Cardinality(Accounts) : SetEmergencyThreshold(caller, n)
  BY <1>2 DEF SetEmergencyThreshold, ControlInv, ControlTypeOK, AuditTailMatchesFlags
<1>3. ASSUME NEW kind \in {"PauseBridge", "FreezeAsset"}, NEW flags \in SUBSET PauseFlag,
             NEW reason \in PauseReason, NEW asset \in Accounts, NEW timeout \in SUBSET Timeouts,
             NewEmergencyRequest(caller, kind, flags, reason, asset, timeout)
      PROVE  ControlInv'
  <2> DEFINE request == [kind |-> kind, flags |-> flags, reason |-> reason, asset |-> asset,
                         sigs |-> {caller}, expires |-> ExpiryOf(timeout), executed |-> FALSE]
  <2>1. ExpiryOf(timeout) \in SUBSET Nat
    BY <1>t, ControlConstants DEF ExpiryOf, ControlTypeOK
  <2>2. request \in EmergencyRequest
    BY <2>1 DEF EmergencyRequest
  <2>3. emRequests' = Append(emRequests, request) /\ emRequests \in Seq(EmergencyRequest)
    BY <1>3, <1>t DEF NewEmergencyRequest, ControlTypeOK
  <2>4. emRequests' \in Seq(EmergencyRequest)
    <3> HIDE DEF request
    <3> QED BY <2>2, <2>3, AppendElement
  <2> QED
    BY <1>t, <1>3, <2>4 DEF NewEmergencyRequest, ControlInv, ControlTypeOK, AuditTailMatchesFlags
<1>4. ASSUME NEW timeout \in {{}} \cup {{t} : t \in Timeouts},
             \/ \E flags \in FlagArgs, reason \in ReasonArgs :
                   ProposePauseBridge(caller, flags, reason, timeout)
             \/ \E asset \in Accounts : ProposeFreezeAsset(caller, asset, timeout)
      PROVE  ControlInv'
  BY <1>3, <1>4, ControlConstants, ZenonT(30) DEF ProposePauseBridge, ProposeFreezeAsset, PauseReason
<1>5. ASSUME NEW id \in 1..Len(emRequests), SignEmergencyRequest(caller, id)
      PROVE  ControlInv'
  <2> DEFINE request == [emRequests[id] EXCEPT !.sigs = @ \cup {caller}]
  <2>1. emRequests \in Seq(EmergencyRequest) /\ emRequests[id] \in EmergencyRequest
    BY <1>t, ElementOfSeq DEF ControlTypeOK
  <2>2. request \in EmergencyRequest
    BY <2>1 DEF EmergencyRequest
  <2>3. emRequests' = [emRequests EXCEPT ![id] = request]
    BY <1>5 DEF SignEmergencyRequest
  <2>4. emRequests' \in Seq(EmergencyRequest)
    <3> HIDE DEF request
    <3> QED BY <2>1, <2>2, <2>3, ReplaceElement
  <2> QED
    BY <1>t, <1>5, <2>4 DEF SignEmergencyRequest, ControlInv, ControlTypeOK, AuditTailMatchesFlags
<1>6. ASSUME NEW id \in 1..Len(emRequests), ExecuteEmergencyRequest(caller, id)
      PROVE  ControlInv'
  <2> DEFINE request == [emRequests[id] EXCEPT !.executed = TRUE]
  <2>1. emRequests \in Seq(EmergencyRequest) /\ emRequests[id] \in EmergencyRequest
    BY <1>t, ElementOfSeq DEF ControlTypeOK
  <2>2. request \in EmergencyRequest
    BY <2>1 DEF EmergencyRequest
  <2>3. emRequests' = [emRequests EXCEPT ![id] = request]
    BY <1>6 DEF ExecuteEmergencyRequest
  <2>4. emRequests' \in Seq(EmergencyRequest)
    <3> HIDE DEF request
    <3> QED BY <2>1, <2>2, <2>3, ReplaceElement
  <2>5. /\ emRequests[id].flags \in SUBSET PauseFlag
        /\ emRequests[id].reason \in PauseReason
        /\ emRequests[id].asset \in Accounts
    BY <2>1 DEF EmergencyRequest
  <2>6. CASE ApplyPause(caller, emRequests[id].flags, emRequests[id].reason) /\ UNCHANGED frozenAssets
    BY <1>t, <1>6, <2>4, <2>5, <2>6, PauseStep
       DEF ExecuteEmergencyRequest, ControlInv, ControlTypeOK
  <2>7. CASE /\ frozenAssets' = frozenAssets \cup {emRequests[id].asset}
             /\ UNCHANGED <<config, pauseFlags, auditLog>>
    BY <1>t, <1>6, <2>4, <2>5, <2>7
       DEF ExecuteEmergencyRequest, ControlInv, ControlTypeOK, AuditTailMatchesFlags
  <2> QED
    BY <1>6, <2>6, <2>7 DEF ExecuteEmergencyRequest
<1> QED
  BY <1>1, <1>2, <1>4, <1>5, <1>6

\* Signing changes the control part only by the pause of a rejection surge.
LEMMA SignControl ==
    ASSUME NEW caller, NEW id, NEW approve \in BOOLEAN, SignBridgeRequest(caller, id, approve)
    PROVE  /\ UNCHANGED <<block, rightsVars, suspicious, emergencyVars, frozenTokens>>
           /\ \/ UNCHANGED <<config, pauseFlags, auditLog>>
              \/ ApplyPause(caller, PauseFlagsForReason("FailedSignatureSurge"), "FailedSignatureSurge")
<1>1. UNCHANGED <<block, rightsVars, suspicious, emergencyVars, frozenTokens>>
  BY DEF SignBridgeRequest
<1>2. CASE approve
  BY <1>2 DEF SignBridgeRequest
<1>3. CASE ~approve
  BY <1>3, <1>1 DEF SignBridgeRequest, TrackFailedSignature
<1> QED
  BY <1>1, <1>2, <1>3

\* Every signing message is a SignBridgeRequest.
LEMMA SignNextIsSign ==
    SignNext => \E caller \in Accounts, id \in requestIds, approve \in BOOLEAN :
                    SignBridgeRequest(caller, id, approve)
  BY DEF SignNext, SignBridgeRequestWithSignature

\* Signing, which may trip the breaker and pause the bridge, keeps the invariant of
\* the pause (sign_bridge_request).
LEMMA ControlInvSign == ControlInv /\ SignNext => ControlInv'
<1> SUFFICES ASSUME ControlInv, NEW caller \in Accounts, NEW id \in requestIds,
                    NEW approve \in BOOLEAN, SignBridgeRequest(caller, id, approve)
             PROVE  ControlInv'
  BY SignNextIsSign
<1>1. "FailedSignatureSurge" \in PauseReason
  BY DEF PauseReason
<1>2. PauseFlagsForReason("FailedSignatureSurge") \in SUBSET PauseFlag
  BY <1>1, ReasonFlags
<1>3. CASE UNCHANGED <<config, pauseFlags, auditLog>>
  BY <1>3, SignControl
     DEF ControlInv, ControlTypeOK, AuditTailMatchesFlags, rightsVars, emergencyVars
<1>4. CASE ApplyPause(caller, PauseFlagsForReason("FailedSignatureSurge"), "FailedSignatureSurge")
  <2>1. /\ pauseFlags' \in SUBSET PauseFlag
        /\ auditLog' \in Seq(AuditEntry)
        /\ AuditTailMatchesFlags'
        /\ config' \in BridgeConfigType
    BY <1>1, <1>2, <1>4, PauseStep, SignControl
  <2> QED
    BY <2>1, SignControl DEF ControlInv, ControlTypeOK, rightsVars, emergencyVars
<1> QED
  BY <1>3, <1>4, SignControl

\* The invariant of the pause is inductive.
LEMMA ControlInvStep == ControlInv /\ [Next]_vars => ControlInv'
<1>1. ControlInv /\ UNCHANGED controlVars => ControlInv'
  BY DEF ControlInv, ControlTypeOK, AuditTailMatchesFlags, controlVars, rightsVars, pauseVars,
         emergencyVars
<1> QED
  BY <1>1, ControlFrame, ControlInvTick, ControlInvRights, ControlInvPause, ControlInvFreeze,
     ControlInvEmergency, ControlInvSign DEF Next, ControlNext, RequestNext, vars

\* The control part always has its types, and the newest entry of the audit log
\* describes the flags in force, whatever the sizes of the contract's sets.
THEOREM ControlTypeCorrect == Spec => []ControlTypeOK
<1>1. ControlInv => ControlTypeOK
  BY DEF ControlInv
<1> QED
  BY <1>1, ControlInvInit, ControlInvStep, PTL DEF Spec

\* The newest entry of the pause's audit trail describes the flags in force, in every
\* reachable state.
THEOREM AuditTailCorrect == Spec => []AuditTailMatchesFlags
<1>1. ControlInv => AuditTailMatchesFlags
  BY DEF ControlInv
<1> QED
  BY <1>1, ControlInvInit, ControlInvStep, PTL DEF Spec
----
\* Only the admin lifts a pause

\* What OnlyAdminLifts says of one step.
LiftedByAdmin ==
    pauseFlags \ pauseFlags' # {} =>
        LET entry == auditLog'[Len(auditLog')]
        IN  /\ auditLog' # << >>
            /\ entry.by = admin
            /\ ~entry.paused

\* A message of the pause clears a flag only for the admin, and writes it down.
LEMMA PauseLifts ==
    ASSUME ControlInv, NEW caller \in Accounts, PauseNext!(caller)
    PROVE  LiftedByAdmin
<1>1. ASSUME NEW flags \in SUBSET PauseFlag, NEW reason \in PauseReason,
             ApplyPause(caller, flags, reason)
      PROVE  LiftedByAdmin
  BY <1>1 DEF ApplyPause, LiftedByAdmin
<1>2. ASSUME caller = admin, NEW flags \in SUBSET PauseFlag, ApplyUnpause(caller, flags)
      PROVE  LiftedByAdmin
  <2>1. /\ auditLog' # << >>
        /\ auditLog'[Len(auditLog')].by = caller
        /\ auditLog'[Len(auditLog')].paused = FALSE
    BY <1>2, UnpauseStep
  <2> QED
    BY <1>2, <2>1 DEF LiftedByAdmin
<1>3. ASSUME NEW paused \in BOOLEAN, SetEmergencyPause(caller, paused)
      PROVE  LiftedByAdmin
  BY <1>1, <1>3, <1>2 DEF SetEmergencyPause, PauseReason
<1>4. ASSUME NEW flags \in FlagArgs, NEW reason \in ReasonArgs, EmergencyPause(caller, flags, reason)
      PROVE  LiftedByAdmin
  BY <1>1, <1>4, ControlConstants DEF EmergencyPause
<1>5. ASSUME NEW flags \in FlagArgs, EmergencyUnpause(caller, flags)
      PROVE  LiftedByAdmin
  BY <1>2, <1>5, ControlConstants DEF EmergencyUnpause
<1>6. ASSUME NEW reason \in ReasonArgs, ReportSuspiciousActivity(caller, reason)
      PROVE  LiftedByAdmin
  BY <1>1, <1>6, ControlConstants, ReasonFlags DEF ReportSuspiciousActivity
<1>7. ASSUME UNCHANGED pauseFlags
      PROVE  LiftedByAdmin
  BY <1>7 DEF LiftedByAdmin
<1> QED
  BY <1>3, <1>4, <1>5, <1>6, <1>7 DEF UpdateConfig, UpdateSuspiciousConfig

\* No other group of messages clears a flag of the pause.
LEMMA OthersNeverLift ==
    Tick \/ RightsNext \/ FreezeNext \/ EmergencyNext \/ SignNext => pauseFlags \subseteq pauseFlags'
<1>1. Tick \/ RightsNext \/ FreezeNext => UNCHANGED pauseFlags
  BY DEF Tick, RightsNext, FreezeNext, AddBridgeOperator, RemoveBridgeOperator, AddGuardian,
         RemoveGuardian, RequestAdminRotation, RegisterOperatorPublicKey, ConfirmAdminRotation,
         CancelAdminRotation, FreezeToken, UnfreezeToken, pauseVars
<1>2. EmergencyNext => pauseFlags \subseteq pauseFlags'
  BY DEF EmergencyNext, AddEmergencySigner, RemoveEmergencySigner, UnfreezeAsset,
         SetEmergencyThreshold, ProposePauseBridge, ProposeFreezeAsset, NewEmergencyRequest,
         SignEmergencyRequest, ExecuteEmergencyRequest, ApplyPause, pauseVars
<1>3. SignNext => pauseFlags \subseteq pauseFlags'
  BY SignNextIsSign, SignControl DEF ApplyPause
<1> QED
  BY <1>1, <1>2, <1>3

\* Every step that clears a flag is the admin's.
LEMMA LiftStep == ControlInv /\ [Next]_vars => [LiftedByAdmin]_<<admin, pauseFlags, auditLog>>
<1> SUFFICES ASSUME ControlInv, [Next]_vars
             PROVE  LiftedByAdmin \/ UNCHANGED <<admin, pauseFlags, auditLog>>
  OBVIOUS
<1>1. pauseFlags \subseteq pauseFlags' => LiftedByAdmin
  BY DEF LiftedByAdmin
<1>2. CASE PauseNext
  BY <1>2, PauseLifts DEF PauseNext
<1>3. CASE Tick \/ RightsNext \/ FreezeNext \/ EmergencyNext \/ SignNext
  BY <1>1, <1>3, OthersNeverLift
<1>4. CASE UNCHANGED controlVars
  BY <1>4 DEF controlVars, rightsVars, pauseVars
<1> QED
  BY <1>2, <1>3, <1>4, ControlFrame DEF Next, ControlNext, RequestNext, vars

\* No guardian, emergency signer or heuristic ever clears a pause flag: whoever
\* does is the admin, and the log's newest entry shows it.
THEOREM OnlyAdminLiftsPauses == Spec => OnlyAdminLifts
  BY ControlInvInit, ControlInvStep, LiftStep, PTL DEF Spec, OnlyAdminLifts, LiftedByAdmin

----
\* Rotation of the admin

RotatedByConsent ==
    admin' # admin => \E r \in rotation : /\ r.new = admin'
                                          /\ block >= r.effective
                                          /\ block <= r.effective + RotationExpiry

\* Every step that changes the admin follows a rotation that was asked for, aged and
\* confirmed by the new one (confirm_admin_rotation).
LEMMA RotationStep == [Next]_vars => [RotatedByConsent]_<<admin, rotation, block>>
<1> SUFFICES ASSUME [Next]_vars
             PROVE  RotatedByConsent
  OBVIOUS
<1>1. CASE RightsNext
  BY <1>1 DEF RightsNext, AddBridgeOperator, RemoveBridgeOperator, AddGuardian, RemoveGuardian,
         RequestAdminRotation, RegisterOperatorPublicKey, ConfirmAdminRotation,
         CancelAdminRotation, RotatedByConsent
<1>2. Tick \/ PauseNext \/ FreezeNext => UNCHANGED admin
  BY DEF Tick, PauseNext, FreezeNext, UpdateConfig, SetEmergencyPause, EmergencyPause,
         EmergencyUnpause, UpdateSuspiciousConfig, ReportSuspiciousActivity, FreezeToken,
         UnfreezeToken, rightsVars
<1>3. EmergencyNext => UNCHANGED admin
  BY DEF EmergencyNext, AddEmergencySigner, RemoveEmergencySigner, UnfreezeAsset,
         SetEmergencyThreshold, ProposePauseBridge, ProposeFreezeAsset, NewEmergencyRequest,
         SignEmergencyRequest, ExecuteEmergencyRequest, rightsVars
<1>4. SignNext => UNCHANGED admin
  BY SignNextIsSign, SignControl DEF rightsVars
<1>5. UNCHANGED controlVars => UNCHANGED admin
  BY DEF controlVars, rightsVars
<1>6. UNCHANGED admin => RotatedByConsent
  BY DEF RotatedByConsent
<1> QED
  BY <1>1, <1>2, <1>3, <1>4, <1>5, <1>6, ControlFrame DEF Next, ControlNext, RequestNext, vars

\* The admin changes only to the account the rotation names, within its window.
THEOREM RotationNeedsConsent == Spec => AdminRotatesByConsent
  BY RotationStep, PTL DEF Spec, AdminRotatesByConsent, RotatedByConsent
----
\* Requests, trackers and bitmaps

OverallDerived(t) ==
    \/ t.overall = ComputeOverallStatus(t.srcStatus, t.dstStatus)
    \/ t.overall = "Failed" /\ t.srcStatus = "Confirmed" /\ t.dstStatus = "Confirmed"

\* What holds of one request and its tracker when n bits have been assigned.
GoodPair(r, t, n) ==
    /\ r \in Request
    /\ t \in Tracker
    /\ r.sigs \subseteq 1..n
    /\ r.route # << >> => r.hop < Len(r.route)
    /\ r.route = << >> => r.hop = 0
    /\ r.src = HopSource(r, r.hop)
    /\ r.dst = HopDestination(r, r.hop)
    /\ t.src = r.src
    /\ t.dst = r.dst
    /\ OverallDerived(t)

PairsGood ==
    /\ requests \in Seq(Request)
    /\ tracker \in Seq(Tracker)
    /\ Len(tracker) = Len(requests)
    /\ \A id \in 1..Len(requests) : GoodPair(requests[id], tracker[id], Len(slots))

SlotsGood ==
    /\ slots \in Seq(Accounts)
    /\ validators \subseteq DOMAIN bitPos
    /\ \A v \in DOMAIN bitPos : bitPos[v] \in 1..Len(slots) /\ slots[bitPos[v]] = v
    /\ \A i \in 1..Len(slots) : slots[i] \in DOMAIN bitPos /\ bitPos[slots[i]] = i

RequestInv == ControlInv /\ PairsGood /\ SlotsGood

\* The inductive invariant implies the invariants it was found for.
LEMMA RequestInvImplies ==
    RequestInv => BitmapSound /\ TrackerFollowsRequest /\ OverallStatusDerived
<1> SUFFICES ASSUME RequestInv
             PROVE  BitmapSound /\ TrackerFollowsRequest /\ OverallStatusDerived
  OBVIOUS
<1>1. /\ DOMAIN requests = 1..Len(requests)
      /\ DOMAIN tracker = 1..Len(requests)
      /\ DOMAIN slots = 1..Len(slots)
  BY LenProperties DEF RequestInv, PairsGood, SlotsGood
<1>2. \A id \in DOMAIN requests : GoodPair(requests[id], tracker[id], Len(slots))
  BY <1>1 DEF RequestInv, PairsGood
<1>3. BitmapSound
  BY <1>1, <1>2 DEF RequestInv, SlotsGood, BitmapSound, GoodPair
<1>4. TrackerFollowsRequest
  BY <1>1, <1>2 DEF TrackerFollowsRequest, GoodPair
<1>5. OverallStatusDerived
  BY <1>1, <1>2 DEF OverallStatusDerived, GoodPair, OverallDerived
<1> QED
  BY <1>3, <1>4, <1>5

\* The constructor establishes the invariant of requests, trackers and slots.
LEMMA RequestInvInit == Init => RequestInv
  BY ControlInvInit, EmptySeq
  DEF Init, BridgeInit, TrackingInit, RequestInv, PairsGood, SlotsGood

\* Replacing one request and its tracker by a good pair.
LEMMA ReplacePair ==
    ASSUME PairsGood, NEW id \in 1..Len(requests), NEW r, NEW t, GoodPair(r, t, Len(slots)),
           requests' = [requests EXCEPT ![id] = r], tracker' = [tracker EXCEPT ![id] = t],
           UNCHANGED slots
    PROVE  PairsGood'
  BY ReplaceElement DEF GoodPair, PairsGood

\* Replacing a tracker by itself: the case of messages that leave it alone.
LEMMA SameTracker ==
    ASSUME PairsGood, NEW id \in 1..Len(requests), UNCHANGED tracker
    PROVE  tracker' = [tracker EXCEPT ![id] = tracker[id]]
  BY LenProperties DEF PairsGood

\* Requests that do not change are the requests with any one of them left as it is.
LEMMA SameRequests ==
    ASSUME PairsGood, NEW id \in 1..Len(requests), UNCHANGED requests
    PROVE  requests' = [requests EXCEPT ![id] = requests[id]]
  BY LenProperties DEF PairsGood

\* Appending a good pair.
LEMMA AppendPair ==
    ASSUME PairsGood, NEW r, NEW t, GoodPair(r, t, Len(slots)),
           requests' = Append(requests, r), tracker' = Append(tracker, t), UNCHANGED slots
    PROVE  PairsGood'
  BY AppendElement, LenProperties DEF GoodPair, PairsGood

\* A new request gets the next id and its own tracker (initiate_bridge_multisig).
LEMMA PairsInitiate ==
    ASSUME RequestInv, InitiateNext
    PROVE  PairsGood'
<1> USE BridgeConstants, ControlConstants
<1>1. ASSUME NEW caller \in Accounts, NEW token \in Tokens, NEW required \in SignatureArgs,
             NEW timeout \in {{}} \cup {{t} : t \in Timeouts}, NEW valuation \in Valuations,
             NEW dst \in Chains, NEW route \in Seq(Chains),
             route = << >> \/ (Len(route) >= 2 /\ route[1] = dst),
             Initiate(caller, token, dst, required, timeout, route, valuation)
      PROVE  PairsGood'
  <2> DEFINE r == NewRequest(caller, token, LocalChain, dst, required, timeout, route, valuation)
             t == FreshTracker(LocalChain, dst)
  <2>1. block \in Nat /\ ExpiryOf(timeout) \in SUBSET Nat
    <3>1. block \in Nat
      BY DEF RequestInv, ControlInv, ControlTypeOK
    <3> QED
      BY <3>1 DEF ExpiryOf
  <2>2. r \in Request
    BY <2>1 DEF NewRequest, Request, BridgeOperationStatus, MultiHopStatus
  <2>3. t \in Tracker /\ OverallDerived(t)
    BY DEF FreshTracker, Tracker, ChainTxStatus, BridgeOperationStatus, OverallDerived,
           ComputeOverallStatus
  <2>4. GoodPair(r, t, Len(slots))
    BY <1>1, LenProperties, <2>2, <2>3 DEF NewRequest, FreshTracker, GoodPair, HopSource, HopDestination
  <2>5. requests' = Append(requests, r) /\ tracker' = Append(tracker, t) /\ UNCHANGED slots
    BY <1>1 DEF Initiate, validatorVars
  <2> HIDE DEF r, t
  <2> QED
    BY <2>4, <2>5, AppendPair DEF RequestInv
<1>2. << >> \in Seq(Chains)
  BY EmptySeq
<1>3. ASSUME NEW caller \in Accounts, NEW token \in Tokens, NEW required \in SignatureArgs,
             NEW timeout \in {{}} \cup {{t} : t \in Timeouts}, NEW valuation \in Valuations,
             NEW dst \in Chains,
             InitiateBridgeMultisig(caller, token, dst, required, timeout, valuation)
      PROVE  PairsGood'
  BY <1>1, <1>2, <1>3 DEF InitiateBridgeMultisig
<1>4. ASSUME NEW caller \in Accounts, NEW token \in Tokens, NEW required \in SignatureArgs,
             NEW timeout \in {{}} \cup {{t} : t \in Timeouts}, NEW valuation \in Valuations,
             NEW route \in Routes,
             InitiateMultiHopBridge(caller, token, route, required, timeout, valuation)
      PROVE  PairsGood'
  <2>1. route \in Seq(Chains) /\ Len(route) >= 2
    BY <1>4 DEF InitiateMultiHopBridge
  <2>2. route[1] \in Chains
    BY <2>1, ElementOfSeq, LenProperties
  <2> QED
    BY <1>1, <1>4, <2>1, <2>2 DEF InitiateMultiHopBridge
<1> QED
  BY <1>3, <1>4 DEF InitiateNext

\* A message that changes only what a request has collected or its status, not
\* where it stands, leaves its pair good.
LEMMA StatusPair ==
    ASSUME NEW r, NEW t, NEW n, GoodPair(r, t, n), NEW sigs \in SUBSET (1..n), n \in Nat,
           NEW status \in BridgeOperationStatus, NEW hopStatus \in MultiHopStatus, NEW q,
           q = [r EXCEPT !.sigs = sigs, !.status = status, !.hopStatus = hopStatus]
    PROVE  GoodPair(q, t, n)
<1>0. sigs \in SUBSET Nat /\ r \in Request
  BY DEF GoodPair
<1>1. q \in Request
  BY <1>0 DEF Request
<1>2. q.hop = r.hop /\ q.route = r.route /\ q.src = r.src /\ q.dst = r.dst /\ q.sigs = sigs
  BY DEF GoodPair, Request
<1> QED
  BY <1>1, <1>2 DEF GoodPair, HopSource, HopDestination

\* What the invariant says of one request and its tracker.
LEMMA PairOfId ==
    ASSUME RequestInv, NEW id \in requestIds
    PROVE  /\ GoodPair(requests[id], tracker[id], Len(slots))
           /\ requests[id] \in Request
           /\ tracker[id] \in Tracker
           /\ Len(slots) \in Nat
  BY LenProperties DEF RequestInv, PairsGood, SlotsGood, requestIds, GoodPair

\* A signature keeps every request and its tracker in agreement (sign_bridge_request).
LEMMA PairsSign ==
    ASSUME RequestInv, SignNext
    PROVE  PairsGood'
<1> SUFFICES ASSUME NEW caller \in Accounts, NEW id \in requestIds, NEW approve \in BOOLEAN,
                    SignBridgeRequest(caller, id, approve)
             PROVE  PairsGood'
  BY SignNextIsSign
<1> DEFINE r == requests[id]
           q == SignedRequest(r, bitPos[caller], approve)
           sigs == r.sigs \cup {bitPos[caller]}
           status == IF ~approve THEN "Failed"
                     ELSE IF SignatureCount(sigs) >= r.required THEN "Locked" ELSE r.status
           hopStatus == IF approve THEN r.hopStatus ELSE "Failed"
<1>1. GoodPair(r, tracker[id], Len(slots)) /\ r \in Request /\ Len(slots) \in Nat
  BY PairOfId
<1>2. bitPos[caller] \in 1..Len(slots)
  BY DEF SignBridgeRequest, RequestInv, SlotsGood
<1>3. q = [r EXCEPT !.sigs = sigs, !.status = status, !.hopStatus = hopStatus]
  BY <1>1 DEF SignedRequest, Request
<1>4. /\ sigs \in SUBSET (1..Len(slots))
      /\ status \in BridgeOperationStatus
      /\ hopStatus \in MultiHopStatus
  BY <1>1, <1>2 DEF GoodPair, Request, BridgeOperationStatus, MultiHopStatus
<1>5. GoodPair(q, tracker[id], Len(slots))
  <2> HIDE DEF r, q, sigs, status, hopStatus
  <2> QED BY <1>1, <1>3, <1>4, StatusPair
<1>6. /\ requests' = [requests EXCEPT ![id] = q]
      /\ UNCHANGED <<slots, tracker>>
  BY DEF SignBridgeRequest, validatorVars, trackerVars
<1>7. tracker' = [tracker EXCEPT ![id] = tracker[id]]
  BY <1>6, SameTracker DEF RequestInv, requestIds
<1> HIDE DEF q
<1> QED
  BY <1>5, <1>6, <1>7, ReplacePair DEF RequestInv, requestIds

\* Recovering a request keeps every request and its tracker in agreement
\* (recover_failed_bridge).
LEMMA PairsRecovery ==
    ASSUME RequestInv, RecoveryNext
    PROVE  PairsGood'
<1>1. ASSUME NEW caller \in Accounts, NEW id \in requestIds, NEW action \in RecoveryAction,
             RecoverFailedBridge(caller, id, action)
      PROVE  PairsGood'
  <2> DEFINE r == requests[id]
             q == RecoveredRequest(r, action)
  <2>1. GoodPair(r, tracker[id], Len(slots)) /\ r \in Request /\ Len(slots) \in Nat
    BY PairOfId
  <2>2. r.sigs \in SUBSET (1..Len(slots))
    BY <2>1 DEF GoodPair
  <2>3. ASSUME action = "RetryBridge"
        PROVE  GoodPair(q, tracker[id], Len(slots))
    <3>1. q = [r EXCEPT !.sigs = {}, !.status = "Pending", !.hopStatus = "InProgress"]
      BY <2>1, <2>3 DEF RecoveredRequest, Request
    <3>2. {} \in SUBSET (1..Len(slots)) /\ "Pending" \in BridgeOperationStatus
             /\ "InProgress" \in MultiHopStatus
      BY DEF BridgeOperationStatus, MultiHopStatus
    <3> HIDE DEF r, q
    <3> QED BY <2>1, <3>1, <3>2, StatusPair
  <2>4. ASSUME action = "CancelBridge"
        PROVE  GoodPair(q, tracker[id], Len(slots))
    <3>1. q = [r EXCEPT !.sigs = r.sigs, !.status = "Failed", !.hopStatus = "Failed"]
      BY <2>1, <2>4 DEF RecoveredRequest, Request
    <3>2. "Failed" \in BridgeOperationStatus /\ "Failed" \in MultiHopStatus
      BY DEF BridgeOperationStatus, MultiHopStatus
    <3> HIDE DEF r, q
    <3> QED BY <2>1, <2>2, <3>1, <3>2, StatusPair
  <2>5. ASSUME action \notin {"RetryBridge", "CancelBridge"}
        PROVE  GoodPair(q, tracker[id], Len(slots))
    <3>1. q = r
      BY <2>5 DEF RecoveredRequest
    <3> HIDE DEF r, q
    <3> QED BY <2>1, <3>1
  <2>6. GoodPair(q, tracker[id], Len(slots))
    <3> HIDE DEF r, q
    <3> QED BY <2>3, <2>4, <2>5
  <2>7. requests' = [requests EXCEPT ![id] = q] /\ UNCHANGED <<slots, tracker>>
    BY <1>1 DEF RecoverFailedBridge, validatorVars, trackerVars
  <2>8. tracker' = [tracker EXCEPT ![id] = tracker[id]]
    BY <2>7, SameTracker DEF RequestInv, requestIds
  <2> HIDE DEF q
  <2> QED
    BY <2>6, <2>7, <2>8, ReplacePair DEF RequestInv, requestIds
<1>2. ASSUME NEW caller \in Accounts, NEW id \in requestIds, RollbackBridgeTransaction(caller, id)
      PROVE  PairsGood'
  <2> DEFINE r == requests[id]
             q == [r EXCEPT !.sigs = {}, !.status = "Failed"]
             t == tracker[id]
             u == FailedTracker(t)
  <2>1. GoodPair(r, t, Len(slots)) /\ r \in Request /\ t \in Tracker /\ Len(slots) \in Nat
    BY PairOfId
  <2>2. q = [r EXCEPT !.sigs = {}, !.status = "Failed", !.hopStatus = r.hopStatus]
    BY <2>1 DEF Request
  <2>3. GoodPair(q, t, Len(slots))
    <3>1. {} \in SUBSET (1..Len(slots)) /\ "Failed" \in BridgeOperationStatus
             /\ r.hopStatus \in MultiHopStatus
      BY <2>1 DEF Request, BridgeOperationStatus
    <3> HIDE DEF r, q, t
    <3> QED BY <2>1, <2>2, <3>1, StatusPair
  <2>4. u \in Tracker /\ u.src = t.src /\ u.dst = t.dst /\ OverallDerived(u)
    BY <2>1 DEF FailedTracker, Tracker, ChainTxStatus, BridgeOperationStatus, OverallDerived,
                ComputeOverallStatus
  <2>5. GoodPair(q, u, Len(slots))
    <3> HIDE DEF q, u, t
    <3> QED BY <2>3, <2>4 DEF GoodPair
  <2>6. /\ requests' = [requests EXCEPT ![id] = q]
        /\ tracker' = [tracker EXCEPT ![id] = u]
        /\ UNCHANGED slots
    BY <1>2 DEF RollbackBridgeTransaction, validatorVars
  <2> HIDE DEF q, u
  <2> QED
    BY <2>5, <2>6, ReplacePair DEF RequestInv, requestIds
<1> QED
  BY <1>1, <1>2 DEF RecoveryNext

\* Executing a request keeps every request and its tracker in agreement
\* (execute_bridge).
LEMMA PairsExecute ==
    ASSUME RequestInv, ExecuteNext
    PROVE  PairsGood'
<1> SUFFICES ASSUME NEW caller \in Accounts, NEW id \in requestIds, ExecuteBridge(caller, id)
             PROVE  PairsGood'
  BY DEF ExecuteNext
<1> DEFINE r == requests[id]
           t == tracker[id]
           q == ExecutedRequest(r)
           u == TrackerAfterExecution(id, r, q)
           n == Len(slots)
<1>1. GoodPair(r, t, n) /\ r \in Request /\ t \in Tracker /\ n \in Nat
  BY PairOfId
<1>2. ASSUME IsLastHop(r)
      PROVE  GoodPair(q, u, n)
  <2>1. q = [r EXCEPT !.sigs = r.sigs, !.status = "Completed", !.hopStatus = "HopCompleted"]
    BY <1>1, <1>2 DEF ExecutedRequest, Request
  <2>2. r.sigs \in SUBSET (1..n) /\ "Completed" \in BridgeOperationStatus
           /\ "HopCompleted" \in MultiHopStatus
    BY <1>1 DEF GoodPair, BridgeOperationStatus, MultiHopStatus
  <2>3. GoodPair(q, t, n)
    <3> HIDE DEF r, q, t, n
    <3> QED BY <1>1, <2>1, <2>2, StatusPair
  <2>4. u = AdvancedTracker(t)
    BY <1>2 DEF TrackerAfterExecution
  <2>5. u \in Tracker /\ u.src = t.src /\ u.dst = t.dst /\ OverallDerived(u)
    BY <1>1, <2>4 DEF AdvancedTracker, Tracker, ChainTxStatus, BridgeOperationStatus,
                      OverallDerived, ComputeOverallStatus
  <2> HIDE DEF r, q, u, t, n
  <2> QED
    BY <2>3, <2>5 DEF GoodPair
<1>3. ASSUME ~IsLastHop(r)
      PROVE  GoodPair(q, u, n)
  <2>1. /\ r.route # << >> /\ r.route \in Seq(Chains) /\ r.hop \in Nat
        /\ ~(r.hop + 1 >= Len(r.route)) /\ Len(r.route) \in Nat
    BY <1>1, <1>3, LenProperties DEF IsLastHop, Request
  <2>2. r.hop + 2 \in 1..Len(r.route)
    BY <2>1
  <2>3. r.route[r.hop + 2] \in Chains
    BY <2>1, <2>2, ElementOfSeq
  <2>4. q = [r EXCEPT !.hop = r.hop + 1, !.src = r.dst, !.dst = r.route[r.hop + 2],
                      !.status = "Pending", !.sigs = {}, !.hopStatus = "InProgress"]
    BY <1>1, <1>3 DEF ExecutedRequest
  <2>5. q \in Request
    <3>1. r.hop + 1 \in Nat /\ {} \in SUBSET Nat /\ r.dst \in Chains
      BY <1>1, <2>1 DEF Request
    <3>2. "Pending" \in BridgeOperationStatus /\ "InProgress" \in MultiHopStatus
      BY DEF BridgeOperationStatus, MultiHopStatus
    <3> HIDE DEF r, q
    <3> QED BY <1>1, <2>3, <2>4, <3>1, <3>2 DEF Request
  <2>6. /\ q.hop = r.hop + 1 /\ q.route = r.route /\ q.src = r.dst
        /\ q.dst = r.route[r.hop + 2] /\ q.sigs = {}
    BY <1>1, <2>4 DEF Request
  <2>7. r.dst = r.route[r.hop + 1]
    BY <1>1, <2>1 DEF GoodPair, HopDestination
  <2>8. q.src = HopSource(q, q.hop) /\ q.dst = HopDestination(q, q.hop)
    <3> HIDE DEF r, q
    <3>1. r.hop + 1 # 0 /\ (r.hop + 1) + 1 = r.hop + 2
      BY <2>1
    <3> QED BY <2>1, <2>6, <2>7, <3>1 DEF HopSource, HopDestination
  <2>9. u = FreshTracker(q.src, q.dst)
    BY <1>3 DEF TrackerAfterExecution
  <2>10. q.src \in Chains /\ q.dst \in Chains
    <3> HIDE DEF q
    <3> QED BY <2>5 DEF Request
  <2>11. u \in Tracker /\ u.src = q.src /\ u.dst = q.dst /\ OverallDerived(u)
    <3> HIDE DEF q, u
    <3> QED BY <2>9, <2>10 DEF FreshTracker, Tracker, ChainTxStatus, BridgeOperationStatus,
                               OverallDerived, ComputeOverallStatus
  <2> HIDE DEF r, q, u, t, n
  <2> QED
    BY <2>1, <2>5, <2>6, <2>8, <2>11 DEF GoodPair
<1>4. /\ requests' = [requests EXCEPT ![id] = q]
      /\ tracker' = [tracker EXCEPT ![id] = u]
      /\ UNCHANGED slots
  BY DEF ExecuteBridge, validatorVars
<1>5. GoodPair(q, u, Len(slots))
  BY <1>2, <1>3
<1> HIDE DEF q, u
<1> QED
  BY <1>4, <1>5, ReplacePair DEF RequestInv, requestIds

\* Reports of the relayers move the legs of a tracker only.
LEMMA PairsTracking ==
    ASSUME RequestInv, TrackerNext, UNCHANGED <<requests, slots>>
    PROVE  PairsGood'
<1>1. ASSUME NEW caller \in Accounts, NEW id \in requestIds, NEW chain \in Chains,
             NEW status \in ChainTxStatus, NEW hash,
             UpdateChainTxStatus(caller, id, chain, status, hash)
      PROVE  PairsGood'
  <2> DEFINE t == tracker[id]
             u == ReportedTracker(t, chain, status)
  <2>1. GoodPair(requests[id], t, Len(slots)) /\ t \in Tracker
    BY PairOfId
  <2>2. u \in Tracker /\ u.src = t.src /\ u.dst = t.dst /\ OverallDerived(u)
    BY <2>1 DEF ReportedTracker, Tracker, ChainTxStatus, BridgeOperationStatus, OverallDerived,
                ComputeOverallStatus
  <2>3. tracker' = [tracker EXCEPT ![id] = u]
    BY <1>1 DEF UpdateChainTxStatus
  <2>4. GoodPair(requests[id], u, Len(slots))
    <3> HIDE DEF u, t
    <3> QED BY <2>1, <2>2 DEF GoodPair
  <2>5. requests' = [requests EXCEPT ![id] = requests[id]]
    BY SameRequests DEF RequestInv, requestIds
  <2> HIDE DEF u
  <2> QED
    BY <2>3, <2>4, <2>5, ReplacePair DEF RequestInv, requestIds
<1>2. 1..Len(tracker) = requestIds
  BY DEF RequestInv, PairsGood, requestIds
<1>3. ASSUME NEW caller \in Accounts, NEW id \in requestIds, NEW hash,
             ConfirmDestinationDelivery(caller, id, hash)
      PROVE  PairsGood'
  BY PairOfId, <1>1, <1>3 DEF Tracker, ChainTxStatus, ConfirmDestinationDelivery
<1> QED
  BY <1>1, <1>2, <1>3 DEF TrackerNext

\* More bits leave every pair good.
LEMMA PairsGrow ==
    ASSUME PairsGood, UNCHANGED <<requests, tracker>>, Len(slots) \in Nat, Len(slots') \in Nat,
           Len(slots) <= Len(slots')
    PROVE  PairsGood'
  BY DEF PairsGood, GoodPair

\* The agreement of requests and trackers is about nothing but them and the slots.
LEMMA PairsSame ==
    ASSUME PairsGood, UNCHANGED <<requests, tracker, slots>>
    PROVE  PairsGood'
  BY DEF PairsGood, GoodPair, OverallDerived, HopSource, HopDestination

\* What holds of validators is about nothing but their variables.
LEMMA SlotsSame ==
    ASSUME SlotsGood, UNCHANGED validatorVars
    PROVE  SlotsGood'
  BY DEF SlotsGood, validatorVars

\* Adding and removing validators keeps the slots right, and every request in agreement
\* with its tracker (add_validator, remove_validator).
LEMMA ValidatorStep ==
    ASSUME RequestInv, ValidatorNext
    PROVE  PairsGood' /\ SlotsGood'
<1> USE DEF RequestInv
<1>1. ASSUME NEW caller \in Accounts, NEW v \in Accounts, RemoveValidator(caller, v)
      PROVE  PairsGood' /\ SlotsGood'
  BY <1>1, PairsSame DEF RemoveValidator, trackerVars, SlotsGood
<1>2. ASSUME NEW caller \in Accounts, NEW v \in Accounts, AddValidator(caller, v)
      PROVE  PairsGood' /\ SlotsGood'
  <2>1. CASE v \in DOMAIN bitPos /\ UNCHANGED <<slots, bitPos>>
    BY <1>2, <2>1, PairsSame DEF AddValidator, trackerVars, SlotsGood
  <2>2. CASE /\ v \notin DOMAIN bitPos
             /\ slots' = Append(slots, v)
             /\ bitPos' = MapInsert(bitPos, v, Len(slots) + 1)
    BY <2>2, AppendElement, LenProperties, <1>2, PairsGrow DEF SlotsGood, MapInsert, AddValidator, trackerVars
  <2> QED
    BY <1>2, <2>1, <2>2 DEF AddValidator
<1> QED
  BY <1>1, <1>2 DEF ValidatorNext

\* Every other message leaves requests, trackers and bits alone.
LEMMA OtherFrame ==
    \/ ControlNext
    \/ BatchNext /\ UNCHANGED <<validatorVars, requests>>
    \/ RuleNext
    \/ TradeNext
    => UNCHANGED <<requests, tracker, validatorVars>>
<1>1. ControlNext => UNCHANGED <<requests, tracker, validatorVars>>
  BY DEF ControlNext, nonControlVars, trackerVars
<1>2. BatchNext => UNCHANGED tracker
  BY DEF BatchNext, ConfigureBatchVerification, SubmitBatchMerkleRoot, VerifyBatchMerkleRoot,
         trackerVars
<1>3. RuleNext => UNCHANGED <<requests, tracker, validatorVars>>
  BY DEF RuleNext, SubmitTravelRuleData, SetTravelRuleThreshold, UpdateChainInfo, trackerVars
<1>4. TradeNext => UNCHANGED <<requests, tracker, validatorVars>>
  BY DEF TradeNext, RegisterCrossChainTrade, AttachBridgeRequestToTrade, SettleCrossChainTrade,
         trackerVars
<1> QED
  BY <1>1, <1>2, <1>3, <1>4

\* No message about requests touches the validators.
LEMMA RequestFrame == RequestNext => UNCHANGED validatorVars
<1>1. InitiateNext => UNCHANGED validatorVars
  BY DEF InitiateNext, InitiateBridgeMultisig, InitiateMultiHopBridge, Initiate
<1>2. SignNext => UNCHANGED validatorVars
  BY SignNextIsSign DEF SignBridgeRequest
<1>3. ExecuteNext => UNCHANGED validatorVars
  BY DEF ExecuteNext, ExecuteBridge
<1>4. RecoveryNext => UNCHANGED validatorVars
  BY DEF RecoveryNext, RecoverFailedBridge, RollbackBridgeTransaction
<1> QED
  BY <1>1, <1>2, <1>3, <1>4 DEF RequestNext

\* The invariant of requests, trackers and slots is inductive.
LEMMA RequestInvStep == RequestInv /\ [Next]_vars => RequestInv'
<1> SUFFICES ASSUME RequestInv, [Next]_vars
             PROVE  RequestInv'
  OBVIOUS
<1>1. ControlInv'
  BY ControlInvStep DEF RequestInv
<1>2. ASSUME UNCHANGED <<requests, tracker, validatorVars>>
      PROVE  PairsGood' /\ SlotsGood'
  BY <1>2, PairsSame, SlotsSame DEF validatorVars, RequestInv
<1>3. CASE ValidatorNext
  BY <1>1, <1>3, ValidatorStep DEF RequestInv
<1>4. CASE RequestNext
  <2>1. SlotsGood'
    BY <1>4, RequestFrame, SlotsSame DEF RequestInv
  <2>2. PairsGood'
    BY <1>4, PairsInitiate, PairsSign, PairsExecute, PairsRecovery DEF RequestNext
  <2> QED
    BY <1>1, <2>1, <2>2 DEF RequestInv
<1>5. CASE TrackingNext
  <2>1. CASE TrackerNext
    BY <1>5, SlotsSame, <2>1, PairsTracking, <1>1 DEF TrackingNext, RequestInv, validatorVars
  <2>2. CASE BatchNext
    BY <1>1, <1>2, <1>5, <2>2, OtherFrame DEF TrackingNext, RequestInv
  <2> QED
    BY <1>5, <2>1, <2>2 DEF TrackingNext
<1>6. CASE ControlNext \/ RuleNext \/ TradeNext
  BY <1>1, <1>2, <1>6, OtherFrame DEF RequestInv
<1>7. CASE UNCHANGED vars
  BY <1>7, <1>1, <1>2 DEF vars, trackerVars, RequestInv
<1> QED
  BY <1>3, <1>4, <1>5, <1>6, <1>7 DEF Next

\* No sequence of validator changes, votes, executions and rollbacks gives one
\* bit of a bitmap to two accounts or sets a bit that belongs to nobody.
THEOREM BitmapsStaySound == Spec => []BitmapSound
  BY RequestInvInit, RequestInvStep, RequestInvImplies, PTL DEF Spec

\* Whatever hops, retries and rollbacks happen, a request and its tracker agree
\* on the hop of the route they stand at.
THEOREM TrackersFollowRequests == Spec => []TrackerFollowsRequest
  BY RequestInvInit, RequestInvStep, RequestInvImplies, PTL DEF Spec

\* The overall status a tracker shows follows from its two legs, but for the one
\* exception the property names.
THEOREM OverallStatusIsDerived == Spec => []OverallStatusDerived
  BY RequestInvInit, RequestInvStep, RequestInvImplies, PTL DEF Spec

----
\* Freezing an asset

\* What FreezeTakesAQuorum says of one step.
FrozenByQuorum ==
    \A a \in frozenAssets' \ frozenAssets :
        \E id \in DOMAIN emRequests :
            /\ emRequests[id].kind = "FreezeAsset"
            /\ emRequests[id].asset = a
            /\ ~emRequests[id].executed /\ emRequests'[id].executed
            /\ ~PastExpiry(emRequests[id])
            /\ Cardinality(emRequests[id].sigs) >= emThreshold

\* Of the emergency messages only the execution of a request adds a frozen asset.
LEMMA FreezeEmergency ==
    ASSUME ControlInv, EmergencyNext
    PROVE  FrozenByQuorum
<1>1. ASSUME NEW caller \in Accounts, NEW id \in 1..Len(emRequests),
             ExecuteEmergencyRequest(caller, id)
      PROVE  FrozenByQuorum
  BY LenProperties, ElementOfSeq, <1>1 DEF ControlInv, ControlTypeOK, ExecuteEmergencyRequest, EmergencyRequest,
     FrozenByQuorum
<1>2. ASSUME frozenAssets' \subseteq frozenAssets
      PROVE  FrozenByQuorum
  BY <1>2 DEF FrozenByQuorum
<1> QED
  BY <1>1, <1>2 DEF EmergencyNext, AddEmergencySigner, RemoveEmergencySigner, UnfreezeAsset,
     SetEmergencyThreshold, ProposePauseBridge, ProposeFreezeAsset, NewEmergencyRequest,
     SignEmergencyRequest

\* No other message freezes an asset.
LEMMA FreezeStep ==
    ControlInv /\ [Next]_vars => [FrozenByQuorum]_<<block, emRequests, emThreshold, frozenAssets>>
<1> SUFFICES ASSUME ControlInv, [Next]_vars
             PROVE  FrozenByQuorum
  OBVIOUS
<1>1. Tick \/ RightsNext \/ FreezeNext => UNCHANGED frozenAssets
  BY DEF Tick, RightsNext, FreezeNext, AddBridgeOperator, RemoveBridgeOperator, AddGuardian,
         RemoveGuardian, RequestAdminRotation, RegisterOperatorPublicKey, ConfirmAdminRotation,
         CancelAdminRotation, FreezeToken, UnfreezeToken, emergencyVars
<1>2. PauseNext => UNCHANGED frozenAssets
  BY DEF PauseNext, UpdateConfig, SetEmergencyPause, EmergencyPause, EmergencyUnpause,
         UpdateSuspiciousConfig, ReportSuspiciousActivity, emergencyVars
<1>3. SignNext => UNCHANGED frozenAssets
  BY SignNextIsSign, SignControl DEF emergencyVars
<1>4. UNCHANGED controlVars => UNCHANGED frozenAssets
  BY DEF controlVars, emergencyVars
<1>5. UNCHANGED frozenAssets => FrozenByQuorum
  BY DEF FrozenByQuorum
<1> QED
  BY <1>1, <1>2, <1>3, <1>4, <1>5, FreezeEmergency, ControlFrame
  DEF Next, ControlNext, RequestNext, vars

\* An asset is frozen by the first execution of an unexpired request that a
\* quorum of emergency signers has signed, and in no other way.
THEOREM FreezingTakesAQuorum == Spec => FreezeTakesAQuorum
  BY ControlInvInit, ControlInvStep, FreezeStep, PTL DEF Spec, FreezeTakesAQuorum, FrozenByQuorum

----
\* Locked requests

HasQuorum(r) == r.status = "Locked" => Cardinality(r.sigs) >= r.required

\* A set of bits is finite, and the count the code compares is at most its size.
LEMMA BitsAreFew ==
    ASSUME NEW n \in Nat, NEW sigs \in SUBSET (1..n)
    PROVE  /\ IsFiniteSet(sigs)
           /\ Cardinality(sigs) \in Nat
           /\ Cardinality(sigs) <= n
           /\ SignatureCount(sigs) <= Cardinality(sigs)
           /\ n < 2^8 => SignatureCount(sigs) = Cardinality(sigs)
<1>1. IsFiniteSet(1..n) /\ Cardinality(1..n) = n
  BY FS_Interval
<1>2. IsFiniteSet(sigs) /\ Cardinality(sigs) <= n
  BY <1>1, FS_Subset
<1>3. Cardinality(sigs) \in Nat
  BY <1>2, FS_CardinalityType
<1>4. 2^8 = 256
  OBVIOUS
<1>5. \A k \in Nat : k % 256 <= k /\ (k < 256 => k % 256 = k)
  OBVIOUS
<1> QED
  BY <1>2, <1>3, <1>4, <1>5 DEF SignatureCount

\* One request replaced by another that has its quorum, or appended.
LEMMA QuorumReplaced ==
    ASSUME PairsGood, LockedHasQuorum, NEW id \in 1..Len(requests), NEW r \in Request, HasQuorum(r),
           requests' = [requests EXCEPT ![id] = r]
    PROVE  LockedHasQuorum'
  BY LenProperties, ReplaceElement DEF PairsGood, LockedHasQuorum, HasQuorum

\* A new request that has its quorum leaves every locked one with its own.
LEMMA QuorumAppended ==
    ASSUME PairsGood, LockedHasQuorum, NEW r \in Request, HasQuorum(r),
           requests' = Append(requests, r)
    PROVE  LockedHasQuorum'
  BY LenProperties, AppendElement DEF PairsGood, LockedHasQuorum, HasQuorum

\* The messages that change a request or the history.
LEMMA RequestCases ==
    [Next]_vars => \/ UNCHANGED <<requests, history>>
                   \/ InitiateNext \/ SignNext \/ ExecuteNext \/ RecoveryNext
<1>1. ControlNext => UNCHANGED <<requests, history>>
  BY DEF ControlNext, nonControlVars
<1>2. TrackingNext => UNCHANGED <<requests, history>>
  BY DEF TrackingNext
<1>3. ValidatorNext => UNCHANGED <<requests, history>>
  BY DEF ValidatorNext, AddValidator, RemoveValidator
<1>4. RuleNext => UNCHANGED <<requests, history>>
  BY DEF RuleNext, SubmitTravelRuleData, SetTravelRuleThreshold, UpdateChainInfo
<1>5. TradeNext => UNCHANGED <<requests, history>>
  BY DEF TradeNext, RegisterCrossChainTrade, AttachBridgeRequestToTrade, SettleCrossChainTrade
<1> QED
  BY <1>1, <1>2, <1>3, <1>4, <1>5 DEF Next, RequestNext, vars

\* A new request and the tracker it gets, whichever way it was initiated.
LEMMA InitiatedRequest ==
    ASSUME RequestInv, InitiateNext
    PROVE  \E caller \in Accounts, token \in Tokens, required \in SignatureArgs,
              timeout \in {{}} \cup {{t} : t \in Timeouts}, valuation \in Valuations,
              dst \in Chains, route \in Seq(Chains) :
              /\ Initiate(caller, token, dst, required, timeout, route, valuation)
              /\ NewRequest(caller, token, LocalChain, dst, required, timeout, route, valuation)
                    \in Request
<1>1. ASSUME NEW caller \in Accounts, NEW token \in Tokens, NEW required \in SignatureArgs,
             NEW timeout \in {{}} \cup {{t} : t \in Timeouts}, NEW valuation \in Valuations,
             NEW dst \in Chains, NEW route \in Seq(Chains)
      PROVE  NewRequest(caller, token, LocalChain, dst, required, timeout, route, valuation)
                \in Request
  <2>1. block \in Nat /\ ExpiryOf(timeout) \in SUBSET Nat
    BY ControlConstants DEF RequestInv, ControlInv, ControlTypeOK, ExpiryOf
  <2> QED
    BY <2>1, BridgeConstants, ControlConstants
       DEF NewRequest, Request, BridgeOperationStatus, MultiHopStatus
<1>2. << >> \in Seq(Chains)
  BY EmptySeq
<1>3. CASE \E caller \in Accounts, token \in Tokens, required \in SignatureArgs,
              timeout \in {{}} \cup {{t} : t \in Timeouts}, valuation \in Valuations,
              dst \in Chains :
                 InitiateBridgeMultisig(caller, token, dst, required, timeout, valuation)
  <2> PICK caller \in Accounts, token \in Tokens, required \in SignatureArgs,
           timeout \in {{}} \cup {{t} : t \in Timeouts}, valuation \in Valuations,
           dst \in Chains :
              InitiateBridgeMultisig(caller, token, dst, required, timeout, valuation)
    BY <1>3
  <2>1. Initiate(caller, token, dst, required, timeout, << >>, valuation)
    BY DEF InitiateBridgeMultisig
  <2>2. NewRequest(caller, token, LocalChain, dst, required, timeout, << >>, valuation) \in Request
    BY <1>1, <1>2
  <2> QED
    BY <1>2, <2>1, <2>2
<1>4. CASE \E caller \in Accounts, token \in Tokens, required \in SignatureArgs,
              timeout \in {{}} \cup {{t} : t \in Timeouts}, valuation \in Valuations,
              route \in Routes :
                 InitiateMultiHopBridge(caller, token, route, required, timeout, valuation)
  <2> PICK caller \in Accounts, token \in Tokens, required \in SignatureArgs,
           timeout \in {{}} \cup {{t} : t \in Timeouts}, valuation \in Valuations,
           route \in Routes :
              InitiateMultiHopBridge(caller, token, route, required, timeout, valuation)
    BY <1>4
  <2>1. route \in Seq(Chains) /\ Len(route) >= 2
    BY BridgeConstants DEF InitiateMultiHopBridge
  <2>2. route[1] \in Chains
    BY <2>1, ElementOfSeq, LenProperties
  <2>3. Initiate(caller, token, route[1], required, timeout, route, valuation)
    BY DEF InitiateMultiHopBridge
  <2>4. NewRequest(caller, token, LocalChain, route[1], required, timeout, route, valuation)
            \in Request
    BY <1>1, <2>1, <2>2
  <2> QED
    BY <2>1, <2>2, <2>3, <2>4
<1> QED
  BY <1>3, <1>4 DEF InitiateNext

\* A request is locked only by a vote that makes its quorum, and every message
\* that clears its signatures takes it out of Locked.
LEMMA QuorumStep == RequestInv /\ LockedHasQuorum /\ [Next]_vars => LockedHasQuorum'
<1> SUFFICES ASSUME RequestInv, LockedHasQuorum, [Next]_vars
             PROVE  LockedHasQuorum'
  OBVIOUS
<1>0. PairsGood /\ PairsGood' /\ DOMAIN requests = 1..Len(requests)
  BY RequestInvStep, LenProperties DEF RequestInv, PairsGood
<1>1. CASE UNCHANGED <<requests, history>>
  BY <1>1 DEF LockedHasQuorum
<1>2. CASE InitiateNext
  <2> PICK caller \in Accounts, token \in Tokens, required \in SignatureArgs,
           timeout \in {{}} \cup {{t} : t \in Timeouts}, valuation \in Valuations,
           dst \in Chains, route \in Seq(Chains) :
              /\ Initiate(caller, token, dst, required, timeout, route, valuation)
              /\ NewRequest(caller, token, LocalChain, dst, required, timeout, route, valuation)
                    \in Request
    BY <1>2, InitiatedRequest
  <2> DEFINE r == NewRequest(caller, token, LocalChain, dst, required, timeout, route, valuation)
  <2>1. HasQuorum(r)
    BY DEF HasQuorum, NewRequest
  <2>2. requests' = Append(requests, r) /\ r \in Request
    BY DEF Initiate
  <2> HIDE DEF r
  <2> QED
    BY <1>0, <2>1, <2>2, QuorumAppended
<1>3. CASE SignNext
  <2> PICK caller \in Accounts, id \in requestIds, approve \in BOOLEAN :
              SignBridgeRequest(caller, id, approve)
    BY <1>3, SignNextIsSign
  <2> DEFINE r == requests[id]
             sigs == r.sigs \cup {bitPos[caller]}
             q == SignedRequest(r, bitPos[caller], approve)
  <2>1. r \in Request /\ r.sigs \in SUBSET (1..Len(slots)) /\ Len(slots) \in Nat
    BY PairOfId DEF GoodPair
  <2>2. bitPos[caller] \in 1..Len(slots)
    BY DEF SignBridgeRequest, RequestInv, SlotsGood
  <2>3. sigs \in SUBSET (1..Len(slots))
    BY <2>1, <2>2
  <2>4. /\ Cardinality(sigs) \in Nat /\ Cardinality(r.sigs) \in Nat
        /\ SignatureCount(sigs) <= Cardinality(sigs)
        /\ SignatureCount(sigs) \in Nat
    <3> HIDE DEF sigs
    <3>1. Cardinality(sigs) \in Nat /\ Cardinality(r.sigs) \in Nat
             /\ SignatureCount(sigs) <= Cardinality(sigs)
      BY <2>1, <2>3, BitsAreFew
    <3> QED
      BY <3>1 DEF SignatureCount
  <2>5. Cardinality(r.sigs) <= Cardinality(sigs)
    <3>1. IsFiniteSet(sigs) /\ r.sigs \in SUBSET sigs
      BY <2>1, <2>3, BitsAreFew
    <3> HIDE DEF sigs, r
    <3> QED
      BY <3>1, FS_Subset
  <2>6. /\ q.sigs = sigs
        /\ q.required = r.required
        /\ q.status = "Locked" => SignatureCount(sigs) >= r.required \/ r.status = "Locked"
    BY <2>1 DEF SignedRequest, Request
  <2>7. HasQuorum(r) /\ r.required \in Nat
    BY <1>0, <2>1 DEF LockedHasQuorum, HasQuorum, Request, requestIds
  <2>8. HasQuorum(q)
    BY <2>4, <2>5, <2>6, <2>7 DEF HasQuorum
  <2>9. requests' = [requests EXCEPT ![id] = q]
    BY DEF SignBridgeRequest
  <2>10. requests'[id] = q /\ requests'[id] \in Request
    <3> HIDE DEF q
    <3> QED BY <1>0, <2>9, ElementOfSeq DEF PairsGood, requestIds
  <2> HIDE DEF q
  <2> QED
    BY <1>0, <2>8, <2>9, <2>10, QuorumReplaced DEF requestIds
<1>4. CASE ExecuteNext
  <2> PICK caller \in Accounts, id \in requestIds : ExecuteBridge(caller, id)
    BY <1>4 DEF ExecuteNext
  <2> DEFINE q == ExecutedRequest(requests[id])
  <2>1. requests[id] \in Request
    BY PairOfId
  <2>2. q.status # "Locked"
    BY <2>1 DEF ExecutedRequest, Request
  <2>3. requests' = [requests EXCEPT ![id] = q]
    BY DEF ExecuteBridge
  <2>4. requests'[id] = q /\ requests'[id] \in Request
    <3> HIDE DEF q
    <3> QED BY <1>0, <2>3, ElementOfSeq DEF PairsGood, requestIds
  <2> HIDE DEF q
  <2> QED
    BY <1>0, <2>2, <2>3, <2>4, QuorumReplaced DEF requestIds, HasQuorum
<1>5. CASE RecoveryNext
  <2>1. ASSUME NEW caller \in Accounts, NEW id \in requestIds, NEW q,
               requests' = [requests EXCEPT ![id] = q], q = requests[id] \/ q.status # "Locked"
        PROVE  LockedHasQuorum'
    BY <1>0, <2>1, ElementOfSeq, QuorumReplaced DEF PairsGood, requestIds, LockedHasQuorum, HasQuorum
  <2>2. ASSUME NEW caller \in Accounts, NEW id \in requestIds, NEW action \in RecoveryAction,
               RecoverFailedBridge(caller, id, action)
        PROVE  LockedHasQuorum'
    <3> DEFINE q == RecoveredRequest(requests[id], action)
    <3>1. requests[id] \in Request
      BY PairOfId
    <3>2. q = requests[id] \/ q.status # "Locked"
      BY <3>1 DEF RecoveredRequest, Request
    <3>3. requests' = [requests EXCEPT ![id] = q]
      BY <2>2 DEF RecoverFailedBridge
    <3> HIDE DEF q
    <3> QED
      BY <2>1, <3>2, <3>3
  <2>3. ASSUME NEW caller \in Accounts, NEW id \in requestIds,
               RollbackBridgeTransaction(caller, id)
        PROVE  LockedHasQuorum'
    <3> DEFINE q == [requests[id] EXCEPT !.sigs = {}, !.status = "Failed"]
    <3>1. requests[id] \in Request
      BY PairOfId
    <3>2. q.status # "Locked"
      BY <3>1 DEF Request
    <3>3. requests' = [requests EXCEPT ![id] = q]
      BY <2>3 DEF RollbackBridgeTransaction
    <3> HIDE DEF q
    <3> QED
      BY <2>1, <3>2, <3>3
  <2> QED
    BY <1>5, <2>2, <2>3 DEF RecoveryNext
<1> QED
  BY <1>1, <1>2, <1>3, <1>4, <1>5, RequestCases

\* A request that may be executed was signed, for the hop it stands at, by as
\* many accounts as it requires.
THEOREM LockedRequestsAreSigned == Spec => []LockedHasQuorum
<1>1. Init => LockedHasQuorum
  BY DEF Init, BridgeInit, LockedHasQuorum
<1> QED
  BY <1>1, RequestInvInit, RequestInvStep, QuorumStep, PTL DEF Spec

----
\* The history of a request

Of(hist, id) == {n \in 1..Len(hist) : hist[n].request = id}

\* What HistoryFollowsRoute says of request r under number id.
Follows(r, hist, id) ==
    /\ Cardinality(Of(hist, id)) >= r.hop
    /\ Cardinality(Of(hist, id)) > r.hop => r.hop = LastHop(r)
    /\ \A n \in Of(hist, id) :
          LET h == HopAfter(Cardinality({m \in Of(hist, id) : m < n}), r)
          IN  hist[n].src = HopSource(r, h) /\ hist[n].dst = HopDestination(r, h)

HistoryInv ==
    /\ history \in Seq(Transaction)
    /\ \A n \in 1..Len(history) : history[n].request \in 1..Len(requests)
    /\ \A id \in 1..Len(requests) : Follows(requests[id], history, id)

\* The inductive invariant of the history says that it follows the routes.
LEMMA HistoryInvImplies == RequestInv /\ HistoryInv => HistoryFollowsRoute
<1> SUFFICES ASSUME RequestInv, HistoryInv
             PROVE  HistoryFollowsRoute
  OBVIOUS
<1>1. DOMAIN requests = 1..Len(requests) /\ DOMAIN history = 1..Len(history)
  BY LenProperties DEF RequestInv, PairsGood, HistoryInv
<1>2. \A id : TransactionsOfRequest(id) = Of(history, id)
  BY <1>1 DEF TransactionsOfRequest, Of
<1> QED
  BY <1>1, <1>2 DEF HistoryInv, HistoryFollowsRoute, Follows

\* Only the route, the hop and the destination of a request are compared.
LEMMA FollowsSame ==
    ASSUME NEW r, NEW q, NEW hist, NEW id, Follows(r, hist, id),
           q.route = r.route, q.hop = r.hop, q.dst = r.dst
    PROVE  Follows(q, hist, id)
  BY DEF Follows, HopAfter, LastHop, HopSource, HopDestination

\* A transaction of another request changes nothing.
LEMMA FollowsOther ==
    ASSUME NEW r, NEW hist \in Seq(Transaction), NEW id, Follows(r, hist, id),
           NEW t \in Transaction, t.request # id
    PROVE  Follows(r, Append(hist, t), id)
<1>1. /\ Len(Append(hist, t)) = Len(hist) + 1 /\ Len(hist) \in Nat
      /\ \A j \in 1..Len(hist) : Append(hist, t)[j] = hist[j]
      /\ Append(hist, t)[Len(hist) + 1] = t
  BY AppendElement, LenProperties
<1>2. Of(Append(hist, t), id) = Of(hist, id)
  BY <1>1 DEF Of
<1>3. \A n \in Of(hist, id) : Append(hist, t)[n] = hist[n]
  BY <1>1 DEF Of
<1> QED
  BY <1>2, <1>3 DEF Follows

\* The transaction of the hop a request stands at, which then stands at the next
\* one, or at the last one for good.
LEMMA FollowsNext ==
    ASSUME NEW r, NEW q, NEW hist \in Seq(Transaction), NEW id, Follows(r, hist, id),
           NEW t \in Transaction, t.request = id, t.src = r.src, t.dst = r.dst,
           r.hop \in Nat, LastHop(r) \in Nat, r.hop <= LastHop(r), q.route = r.route,
           r.src = HopSource(r, r.hop), r.dst = HopDestination(r, r.hop),
           IF r.hop = LastHop(r) THEN q.hop = r.hop /\ q.dst = r.dst
                                 ELSE q.hop = r.hop + 1 /\ r.route # << >>
    PROVE  Follows(q, Append(hist, t), id)
<1> DEFINE all == Append(hist, t)
           old == Of(hist, id)
           new == Len(hist) + 1
           Before(n) == {m \in Of(all, id) : m < n}
<1>1. /\ Len(all) = Len(hist) + 1 /\ Len(hist) \in Nat
      /\ \A j \in 1..Len(hist) : all[j] = hist[j]
      /\ all[Len(hist) + 1] = t
  BY AppendElement, LenProperties
<1>2. Of(all, id) = old \cup {new}
  BY <1>1 DEF Of
<1>3. IsFiniteSet(old) /\ Cardinality(old) \in Nat /\ new \notin old
  BY <1>1, BitsAreFew DEF Of
<1>4. Cardinality(Of(all, id)) = Cardinality(old) + 1
  <2> HIDE DEF all, old, new
  <2> QED
    BY <1>2, <1>3, FS_AddElement
<1>5. Before(new) = old /\ \A n \in old : Before(n) = {m \in old : m < n}
  BY <1>1, <1>2 DEF Of
<1>6. LastHop(q) = LastHop(r)
  BY DEF LastHop
<1>7. HopAfter(Cardinality(old), r) = r.hop
  BY <1>3 DEF Follows, HopAfter
<1>8. \A h : HopSource(q, h) = HopSource(r, h) /\ HopDestination(q, h) = HopDestination(r, h)
  BY DEF HopSource, HopDestination
<1>9. \A c : HopAfter(c, q) = HopAfter(c, r)
  BY <1>6 DEF HopAfter
<1>10. \A n \in Of(all, id) :
          LET h == HopAfter(Cardinality(Before(n)), q)
          IN  all[n].src = HopSource(q, h) /\ all[n].dst = HopDestination(q, h)
  <2> SUFFICES ASSUME NEW n \in Of(all, id)
               PROVE  LET h == HopAfter(Cardinality(Before(n)), r)
                      IN  all[n].src = HopSource(r, h) /\ all[n].dst = HopDestination(r, h)
    BY <1>8, <1>9, ZenonT(30)
  <2>1. CASE n = new
    <3>1. Before(n) = old /\ all[n] = t
      BY <1>1, <1>5, <2>1
    <3> HIDE DEF Before, all, old, new
    <3> QED
      BY <1>7, <3>1
  <2>2. CASE n \in old
    BY <1>1, <1>5, <2>2 DEF Of, Follows
  <2> HIDE DEF Before, all, old, new
  <2> QED
    BY <1>2, <2>1, <2>2
<1>11. Cardinality(Of(all, id)) >= q.hop /\ (Cardinality(Of(all, id)) > q.hop => q.hop = LastHop(q))
  BY <1>3, <1>4, <1>6 DEF Follows
<1> QED
  BY <1>10, <1>11 DEF Follows

\* The messages that leave the history alone keep every request on its route.
LEMMA HistoryKept ==
    ASSUME RequestInv, HistoryInv, UNCHANGED history, Len(requests') \in Nat,
           Len(requests') >= Len(requests),
           \A id \in 1..Len(requests) : /\ requests'[id].route = requests[id].route
                                        /\ requests'[id].hop = requests[id].hop
                                        /\ requests'[id].dst = requests[id].dst,
           \A id \in 1..Len(requests') : id > Len(requests) => requests'[id].hop = 0
    PROVE  HistoryInv'
<1>1. Len(requests) \in Nat /\ Len(history) \in Nat
  BY LenProperties DEF RequestInv, PairsGood, HistoryInv
<1>2. \A n \in 1..Len(history) : history[n].request \in 1..Len(requests')
  BY <1>1 DEF HistoryInv
<1>3. ASSUME NEW id \in 1..Len(requests)
      PROVE  Follows(requests'[id], history, id)
  BY FollowsSame DEF HistoryInv
<1>4. ASSUME NEW id \in 1..Len(requests'), id > Len(requests)
      PROVE  Follows(requests'[id], history, id)
  <2>1. Of(history, id) = {}
    BY <1>1, <1>4 DEF Of, HistoryInv
  <2>2. Cardinality(Of(history, id)) = 0
    BY <2>1, FS_EmptySet
  <2> QED
    BY <1>4, <2>1, <2>2 DEF Follows
<1>5. \A id \in 1..Len(requests') : Follows(requests'[id], history, id)
  BY <1>1, <1>3, <1>4
<1> QED
  BY <1>2, <1>5 DEF HistoryInv

\* An execution adds one transaction to the history, on the route of its request
\* (execute_bridge).
LEMMA HistoryExecute ==
    ASSUME RequestInv, HistoryInv, NEW caller \in Accounts, NEW id \in requestIds,
           ExecuteBridge(caller, id)
    PROVE  HistoryInv'
<1> DEFINE r == requests[id]
           q == ExecutedRequest(r)
           t == [request |-> id, src |-> r.src, dst |-> r.dst, sender |-> r.sender,
                 hash |-> TransactionHash(id, r)]
<1>1. GoodPair(r, tracker[id], Len(slots)) /\ r \in Request
  BY PairOfId
<1>2. requests \in Seq(Request) /\ Len(requests) \in Nat /\ history \in Seq(Transaction)
  BY LenProperties DEF RequestInv, PairsGood, HistoryInv
<1>3. t \in Transaction
  <2>1. Timestamp \in Nat /\ id \in Nat
    BY ControlConstants, <1>2 DEF RequestInv, ControlInv, ControlTypeOK, Timestamp, requestIds
  <2> QED
    BY <1>1, <2>1 DEF Request, Transaction, TransactionHash, Hash
<1>4. requests' = [requests EXCEPT ![id] = q] /\ history' = Append(history, t)
  BY DEF ExecuteBridge
<1>5. /\ Len(requests') = Len(requests)
      /\ requests'[id] = q
      /\ \A j \in 1..Len(requests) : j # id => requests'[j] = requests[j]
  BY PairsExecute, <1>2, <1>4, LenProperties DEF ExecuteNext, requestIds, PairsGood
<1>6. /\ r.hop \in Nat /\ r.route \in Seq(Chains) /\ Len(r.route) \in Nat
      /\ LastHop(r) \in Nat /\ r.hop <= LastHop(r)
      /\ IsLastHop(r) <=> r.hop = LastHop(r)
  BY <1>1, LenProperties DEF Request, GoodPair, LastHop, IsLastHop
<1>7. /\ q.route = r.route
      /\ IsLastHop(r) => q.hop = r.hop /\ q.dst = r.dst
      /\ ~IsLastHop(r) => q.hop = r.hop + 1 /\ r.route # << >>
  BY <1>1 DEF ExecutedRequest, Request, IsLastHop
<1>8. Follows(q, Append(history, t), id)
  BY <1>1, <1>6, <1>7, <1>2, <1>3, FollowsNext DEF GoodPair, HistoryInv, requestIds
<1>9. ASSUME NEW j \in 1..Len(requests), j # id
      PROVE  Follows(requests[j], Append(history, t), j)
  BY <1>2, <1>3, <1>9, FollowsOther DEF HistoryInv
<1>10. /\ history' \in Seq(Transaction)
       /\ \A n \in 1..Len(history') : history'[n].request \in 1..Len(requests')
  <2>1. t.request = id
    OBVIOUS
  <2>2. /\ Len(history') = Len(history) + 1 /\ history' \in Seq(Transaction)
        /\ \A j \in 1..Len(history) : history'[j] = history[j]
        /\ history'[Len(history) + 1] = t /\ Len(history) \in Nat
    <3> HIDE DEF t
    <3> QED BY <1>2, <1>3, <1>4, AppendElement, LenProperties
  <2>3. history'[Len(history) + 1].request \in 1..Len(requests')
    BY <1>5, <2>1, <2>2 DEF requestIds
  <2> HIDE DEF t
  <2> QED
    BY <1>5, <2>2, <2>3 DEF HistoryInv
<1>11. \A j \in 1..Len(requests') : Follows(requests'[j], history', j)
  BY <1>4, <1>5, <1>8, <1>9
<1> QED
  BY <1>10, <1>11 DEF HistoryInv

\* Every message keeps every request's transactions on its route.
LEMMA HistoryStep == RequestInv /\ HistoryInv /\ [Next]_vars => HistoryInv'
<1> SUFFICES ASSUME RequestInv, HistoryInv, [Next]_vars
             PROVE  HistoryInv'
  OBVIOUS
<1>0. /\ requests \in Seq(Request) /\ DOMAIN requests = 1..Len(requests) /\ Len(requests) \in Nat
  BY LenProperties DEF RequestInv, PairsGood
<1>1. CASE UNCHANGED <<requests, history>>
  BY <1>1 DEF HistoryInv
<1>2. CASE InitiateNext
  <2> PICK caller \in Accounts, token \in Tokens, required \in SignatureArgs,
           timeout \in {{}} \cup {{t} : t \in Timeouts}, valuation \in Valuations,
           dst \in Chains, route \in Seq(Chains) :
              /\ Initiate(caller, token, dst, required, timeout, route, valuation)
              /\ NewRequest(caller, token, LocalChain, dst, required, timeout, route, valuation)
                    \in Request
    BY <1>2, InitiatedRequest
  <2> DEFINE r == NewRequest(caller, token, LocalChain, dst, required, timeout, route, valuation)
  <2>1. r \in Request /\ r.hop = 0
    BY DEF NewRequest
  <2>2. requests' = Append(requests, r) /\ UNCHANGED history
    BY DEF Initiate
  <2> HIDE DEF r
  <2>3. /\ Len(requests') = Len(requests) + 1
        /\ \A j \in 1..Len(requests) : requests'[j] = requests[j]
        /\ requests'[Len(requests) + 1] = r
    BY <1>0, <2>1, <2>2, AppendElement
  <2>4. \A id \in 1..Len(requests') : id > Len(requests) => requests'[id].hop = 0
    BY <1>0, <2>1, <2>3
  <2> QED
    BY <1>0, <2>2, <2>3, <2>4, HistoryKept
<1>3. ASSUME NEW id \in requestIds, NEW q, requests' = [requests EXCEPT ![id] = q],
             q.route = requests[id].route, q.hop = requests[id].hop, q.dst = requests[id].dst,
             UNCHANGED history
      PROVE  HistoryInv'
  BY RequestInvStep, <1>0, <1>3, LenProperties, HistoryKept DEF RequestInv, PairsGood, requestIds
<1>4. CASE SignNext
  <2> PICK caller \in Accounts, id \in requestIds, approve \in BOOLEAN :
              SignBridgeRequest(caller, id, approve)
    BY <1>4, SignNextIsSign
  <2> DEFINE q == SignedRequest(requests[id], bitPos[caller], approve)
  <2>1. requests[id] \in Request
    BY PairOfId
  <2>2. q.route = requests[id].route /\ q.hop = requests[id].hop /\ q.dst = requests[id].dst
    BY <2>1 DEF SignedRequest, Request
  <2>3. requests' = [requests EXCEPT ![id] = q] /\ UNCHANGED history
    BY DEF SignBridgeRequest
  <2> HIDE DEF q
  <2> QED
    BY <1>3, <2>2, <2>3
<1>5. CASE ExecuteNext
  BY <1>5, HistoryExecute DEF ExecuteNext
<1>6. CASE RecoveryNext
  <2>1. ASSUME NEW caller \in Accounts, NEW id \in requestIds, NEW action \in RecoveryAction,
               RecoverFailedBridge(caller, id, action)
        PROVE  HistoryInv'
    <3> DEFINE q == RecoveredRequest(requests[id], action)
    <3>1. requests[id] \in Request
      BY PairOfId
    <3>2. q.route = requests[id].route /\ q.hop = requests[id].hop /\ q.dst = requests[id].dst
      BY <3>1 DEF RecoveredRequest, Request
    <3>3. requests' = [requests EXCEPT ![id] = q] /\ UNCHANGED history
      BY <2>1 DEF RecoverFailedBridge
    <3> HIDE DEF q
    <3> QED
      BY <1>3, <3>2, <3>3
  <2>2. ASSUME NEW caller \in Accounts, NEW id \in requestIds,
               RollbackBridgeTransaction(caller, id)
        PROVE  HistoryInv'
    <3> DEFINE q == [requests[id] EXCEPT !.sigs = {}, !.status = "Failed"]
    <3>1. requests[id] \in Request
      BY PairOfId
    <3>2. q.route = requests[id].route /\ q.hop = requests[id].hop /\ q.dst = requests[id].dst
      BY <3>1 DEF Request
    <3>3. requests' = [requests EXCEPT ![id] = q] /\ UNCHANGED history
      BY <2>2 DEF RollbackBridgeTransaction
    <3> HIDE DEF q
    <3> QED
      BY <1>3, <3>2, <3>3
  <2> QED
    BY <1>6, <2>1, <2>2 DEF RecoveryNext
<1> QED
  BY <1>1, <1>2, <1>4, <1>5, <1>6, RequestCases

\* A request leaves each chain of its route once and in order, whatever votes,
\* retries and rollbacks come in between; only its last hop can be repeated.
THEOREM HistoriesFollowRoutes == Spec => []HistoryFollowsRoute
<1>1. Init => HistoryInv
  BY EmptySeq DEF Init, BridgeInit, HistoryInv
<1> QED
  BY <1>1, RequestInvInit, RequestInvStep, HistoryStep, HistoryInvImplies, PTL DEF Spec

----
\* Which messages change the books

\* Which group of messages may write which of the bridge's books.
LEMMA BooksFrame ==
    [Next]_vars => /\ UNCHANGED ruleVars \/ RuleNext
                   /\ UNCHANGED <<daily, burst>> \/ InitiateNext
                   /\ UNCHANGED failures \/ SignNext
                   /\ UNCHANGED tradeVars \/ TradeNext
                   /\ UNCHANGED batchVars \/ (TrackingNext /\ BatchNext) \/ ExecuteNext
                   /\ UNCHANGED txHashIndex \/ (TrackingNext /\ TrackerNext) \/ ExecuteNext
                   /\ UNCHANGED history \/ ExecuteNext
<1>1. ControlNext =>
         UNCHANGED <<ruleVars, daily, burst, failures, tradeVars, batchVars, txHashIndex, history>>
  BY DEF ControlNext, nonControlVars, limitVars, trackerVars
<1>2. ValidatorNext =>
         UNCHANGED <<ruleVars, daily, burst, failures, tradeVars, batchVars, txHashIndex, history>>
  BY DEF ValidatorNext, AddValidator, RemoveValidator, limitVars, trackerVars
<1>3. TrackingNext => UNCHANGED <<ruleVars, daily, burst, failures, tradeVars, history>>
  BY DEF TrackingNext, limitVars
<1>4. TrackerNext => UNCHANGED batchVars
  BY DEF TrackerNext, UpdateChainTxStatus, ConfirmDestinationDelivery
<1>5. BatchNext => UNCHANGED txHashIndex
  BY DEF BatchNext, ConfigureBatchVerification, SubmitBatchMerkleRoot, VerifyBatchMerkleRoot,
         trackerVars
<1>6. InitiateNext => UNCHANGED <<ruleVars, failures, tradeVars, batchVars, txHashIndex, history>>
  BY DEF InitiateNext, InitiateBridgeMultisig, InitiateMultiHopBridge, Initiate
<1>7. SignNext => UNCHANGED <<ruleVars, daily, burst, tradeVars, batchVars, txHashIndex, history>>
  BY SignNextIsSign DEF SignBridgeRequest, trackerVars
<1>8. ExecuteNext => UNCHANGED <<ruleVars, daily, burst, failures, tradeVars>>
  BY DEF ExecuteNext, ExecuteBridge, limitVars
<1>9. RecoveryNext =>
         UNCHANGED <<ruleVars, daily, burst, failures, tradeVars, batchVars, txHashIndex, history>>
  BY DEF RecoveryNext, RecoverFailedBridge, RollbackBridgeTransaction, limitVars, trackerVars
<1>10. RuleNext => UNCHANGED <<daily, burst, failures, tradeVars, batchVars, txHashIndex, history>>
  BY DEF RuleNext, SubmitTravelRuleData, SetTravelRuleThreshold, UpdateChainInfo, limitVars,
         trackerVars
<1>11. TradeNext => UNCHANGED <<ruleVars, daily, burst, failures, batchVars, txHashIndex, history>>
  BY DEF TradeNext, RegisterCrossChainTrade, AttachBridgeRequestToTrade, SettleCrossChainTrade,
         limitVars, trackerVars
<1>12. CASE UNCHANGED vars
  BY <1>12 DEF vars, limitVars, trackerVars
<1> QED
  BY <1>1, <1>2, <1>3, <1>4, <1>5, <1>6, <1>7, <1>8, <1>9, <1>10, <1>11, <1>12
  DEF Next, TrackingNext, RequestNext

----
\* Batches

BatchTypes ==
    /\ DOMAIN txHashIndex \subseteq Hash
    /\ \A h \in DOMAIN txHashIndex : txHashIndex[h] \in 1..Len(requests)
    /\ batchWindow \in [Chains -> [counter : Nat, start : Nat]]
    /\ DOMAIN batchTx \subseteq BatchKey
    /\ \A k \in DOMAIN batchTx : batchTx[k] \in Seq(Hash)
    /\ DOMAIN txBatch \subseteq Hash
    /\ \A h \in DOMAIN txBatch : txBatch[h] \in BatchKey
    /\ DOMAIN batchRoots \subseteq BatchKey
    /\ \A k \in DOMAIN batchRoots : batchRoots[k] \in Roots
    /\ verifiedTx \in SUBSET Hash
    /\ batchConfig \in (Nat \ {0}) \X (Nat \ {0})

\* A window that was started has a number.
WindowsNumbered == \A c \in Chains : batchWindow[c].start # 0 => batchWindow[c].counter # 0

AllBatched == \A n \in 1..Len(history) : history[n].hash \in DOMAIN txBatch

BatchInv == BatchTypes /\ WindowsNumbered /\ BatchesAgree /\ AllBatched

\* The elements of a sequence to which one is appended.
LEMMA AppendedElements ==
    ASSUME NEW S, NEW s \in Seq(S), NEW e \in S
    PROVE  Range(Append(s, e)) = Range(s) \cup {e}
  BY LenProperties, AppendElement DEF Range

\* The window a transaction goes to is open and not older than any of its chain.
LEMMA WindowOfNow ==
    ASSUME NEW c \in Chains, batchWindow \in [Chains -> [counter : Nat, start : Nat]],
           WindowsNumbered, Timestamp \in Nat
    PROVE  /\ CurrentWindow(c) \in [counter : Nat, start : Nat]
           /\ CurrentWindow(c).counter >= batchWindow[c].counter
           /\ CurrentWindow(c).counter # 0
  BY DEF WindowsNumbered, CurrentWindow

\* An executed transaction goes to the open batch of the chain it leaves.
LEMMA BatchExecute ==
    ASSUME BatchTypes, WindowsNumbered, BatchesAgree, NEW h \in Hash, h.src \in Chains,
           Timestamp \in Nat, AddTransactionToBatch(h, h.src)
    PROVE  /\ batchWindow' \in [Chains -> [counter : Nat, start : Nat]]
           /\ DOMAIN batchTx' \subseteq BatchKey
           /\ \A k \in DOMAIN batchTx' : batchTx'[k] \in Seq(Hash)
           /\ DOMAIN txBatch' = DOMAIN txBatch \cup {h}
           /\ \A g \in DOMAIN txBatch' : txBatch'[g] \in BatchKey
           /\ WindowsNumbered'
           /\ BatchesAgree'
<1> DEFINE c == h.src
           w == CurrentWindow(c)
           key == <<c, w.counter>>
           list == TransactionsOf(key)
<1>1. /\ w \in [counter : Nat, start : Nat]
      /\ w.counter >= batchWindow[c].counter
      /\ w.counter # 0
      /\ batchWindow[c].counter \in Nat
  BY WindowOfNow DEF BatchTypes
<1>2. key \in BatchKey /\ key[1] = c /\ key[2] = w.counter
  BY <1>1 DEF BatchKey
<1>3. list \in Seq(Hash)
  BY EmptySeq DEF TransactionsOf, BatchTypes
<1>4. /\ batchWindow' = [batchWindow EXCEPT ![c] = w]
      /\ batchTx' = MapInsert(batchTx, key, Append(list, h))
      /\ txBatch' = MapInsert(txBatch, h, key)
      /\ UNCHANGED <<batchRoots, verifiedTx, batchConfig>>
  BY DEF AddTransactionToBatch
<1>5. Append(list, h) \in Seq(Hash)
  <2> HIDE DEF list
  <2> QED BY <1>3, AppendElement
<1>6. /\ DOMAIN batchTx' = DOMAIN batchTx \cup {key}
      /\ batchTx'[key] = Append(list, h)
      /\ \A k \in DOMAIN batchTx : k # key => batchTx'[k] = batchTx[k]
  <2> HIDE DEF list, key
  <2> QED BY <1>4 DEF MapInsert
<1>7. /\ DOMAIN txBatch' = DOMAIN txBatch \cup {h}
      /\ txBatch'[h] = key
      /\ \A g \in DOMAIN txBatch : g # h => txBatch'[g] = txBatch[g]
  <2> HIDE DEF key
  <2> QED BY <1>4 DEF MapInsert
<1>8. /\ batchWindow' \in [Chains -> [counter : Nat, start : Nat]]
      /\ batchWindow'[c] = w
      /\ \A d \in Chains : d # c => batchWindow'[d] = batchWindow[d]
      /\ \A d \in Chains : batchWindow'[d].counter >= batchWindow[d].counter
  <2> HIDE DEF w
  <2> QED BY <1>1, <1>4 DEF BatchTypes
<1>9. /\ Range(batchTx'[key]) = (IF key \in DOMAIN batchTx THEN Range(batchTx[key]) ELSE {}) \cup {h}
      /\ \A k \in DOMAIN batchTx : k # key => Range(batchTx'[k]) = Range(batchTx[k])
  <2>1. Range(Append(list, h)) = Range(list) \cup {h}
    <3> HIDE DEF list
    <3> QED BY <1>3, AppendedElements
  <2>2. Range(list) = IF key \in DOMAIN batchTx THEN Range(batchTx[key]) ELSE {}
    <3>1. CASE key \in DOMAIN batchTx
      <4>1. list = batchTx[key]
        BY <3>1 DEF TransactionsOf
      <4> HIDE DEF list, key
      <4> QED BY <3>1, <4>1
    <3>2. CASE key \notin DOMAIN batchTx
      <4>1. list = << >>
        BY <3>2 DEF TransactionsOf
      <4> HIDE DEF list, key
      <4> QED BY <3>2, <4>1 DEF Range
    <3> QED BY <3>1, <3>2
  <2> HIDE DEF list, key
  <2> QED
    BY <1>6, <2>1, <2>2
<1> HIDE DEF key, list, w
<1>10. WindowsNumbered'
  BY <1>1, <1>8 DEF WindowsNumbered
<1>11. /\ \A k \in DOMAIN batchTx' : batchTx'[k] \in Seq(Hash)
       /\ DOMAIN batchTx' \subseteq BatchKey
       /\ \A g \in DOMAIN txBatch' : txBatch'[g] \in BatchKey
  BY <1>2, <1>5, <1>6, <1>7 DEF BatchTypes
<1>12. \A k \in DOMAIN batchTx : Range(batchTx[k]) \subseteq Range(batchTx'[k])
  BY <1>9
<1>13. \A g \in DOMAIN txBatch' : txBatch'[g] \in DOMAIN batchTx' /\ g \in Range(batchTx'[txBatch'[g]])
  <2>1. ASSUME NEW g \in DOMAIN txBatch, g # h
        PROVE  txBatch'[g] \in DOMAIN batchTx' /\ g \in Range(batchTx'[txBatch'[g]])
    BY <1>7, <2>1, <1>12, <1>6 DEF BatchesAgree
  <2>2. txBatch'[h] \in DOMAIN batchTx' /\ h \in Range(batchTx'[txBatch'[h]])
    <3>1. h \in Range(batchTx'[key])
      BY <1>9
    <3> QED
      BY <1>6, <1>7, <3>1
  <2> QED
    BY <1>7, <2>1, <2>2
<1>14. ASSUME NEW k \in DOMAIN batchTx'
       PROVE  /\ k[2] \in 1..batchWindow'[k[1]].counter
              /\ \A g \in Range(batchTx'[k]) : /\ g \in DOMAIN txBatch'
                                         /\ g.src = k[1]
                                         /\ k[2] <= txBatch'[g][2]
  <2>1. k \in BatchKey /\ k[1] \in Chains /\ k[2] \in Nat
    BY <1>11 DEF BatchKey
  <2>2. k \in DOMAIN batchTx => k[2] \in 1..batchWindow[k[1]].counter
    BY DEF BatchesAgree
  <2>3. batchWindow[k[1]].counter \in Nat /\ batchWindow'[k[1]].counter \in Nat
           /\ batchWindow'[k[1]].counter >= batchWindow[k[1]].counter
    BY <1>8, <2>1 DEF BatchTypes
  <2>4. k[2] \in 1..batchWindow'[k[1]].counter
    <3>1. CASE k = key
      BY <1>1, <1>2, <1>8, <3>1
    <3>2. CASE k # key
      BY <1>6, <2>1, <2>2, <2>3, <3>2
    <3> QED BY <3>1, <3>2
  <2>5. ASSUME NEW g \in Range(batchTx'[k])
        PROVE  g \in DOMAIN txBatch' /\ g.src = k[1] /\ k[2] <= txBatch'[g][2]
    <3>1. g = h \/ (k \in DOMAIN batchTx /\ g \in Range(batchTx[k]))
      BY <1>6, <1>9
    <3>2. CASE g = h
      <4>1. k[1] = c
        <5>1. k = key \/ (k \in DOMAIN batchTx /\ g \in Range(batchTx[k]))
          BY <1>6, <1>9
        <5> QED BY <1>2, <3>2, <5>1 DEF BatchesAgree
      <4>2. k[2] <= w.counter
        BY <1>8, <2>3, <2>4, <4>1
      <4> QED
        BY <1>2, <1>7, <3>2, <4>1, <4>2
    <3>3. CASE g # h
      BY <1>7, <3>1, <3>3 DEF BatchesAgree
    <3> QED
      BY <3>2, <3>3
  <2> QED
    BY <2>4, <2>5
<1>15. DOMAIN batchRoots' \subseteq DOMAIN batchTx'
  BY <1>4, <1>6 DEF BatchesAgree
<1>16. \A g \in verifiedTx' : \E k \in DOMAIN batchRoots' : g \in Range(batchTx'[k])
  BY <1>4, <1>12 DEF BatchesAgree
<1>17. BatchesAgree'
  BY <1>13, <1>14, <1>15, <1>16 DEF BatchesAgree
<1> QED
  BY <1>7, <1>8, <1>10, <1>11, <1>17

\* The block, its timestamp and its day.
LEMMA TimeIsNatural == ControlInv => block \in Nat /\ Timestamp \in Nat /\ Today \in Nat
  BY ControlConstants, BridgeConstants DEF ControlInv, ControlTypeOK, Timestamp, Today

\* The batches under an execution.
LEMMA BatchInvExecute ==
    ASSUME RequestInv, HistoryInv, BatchInv, HistoryInv', NEW caller \in Accounts,
           NEW id \in requestIds, ExecuteBridge(caller, id)
    PROVE  BatchInv'
<1> DEFINE r == requests[id]
           h == TransactionHash(id, r)
           t == [request |-> id, src |-> r.src, dst |-> r.dst, sender |-> r.sender, hash |-> h]
<1>1. r \in Request /\ r.src \in Chains
  BY PairOfId DEF Request
<1>2. Timestamp \in Nat /\ id \in Nat /\ Len(requests) \in Nat
  BY TimeIsNatural, LenProperties DEF RequestInv, PairsGood, requestIds
<1>3. h \in Hash /\ h.src = r.src
  BY <1>1, <1>2 DEF Request, TransactionHash, Hash
<1>4. /\ AddTransactionToBatch(h, r.src)
      /\ txHashIndex' = MapInsert(txHashIndex, h, id)
      /\ history' = Append(history, t)
  BY DEF ExecuteBridge, IndexHash
<1>5. t.hash = h
  OBVIOUS
<1>6. Len(requests') = Len(requests)
  BY PairsExecute, LenProperties, <1>2 DEF ExecuteNext, requestIds, ExecuteBridge, RequestInv, PairsGood
<1> HIDE DEF h, r, t
<1>7. /\ batchWindow' \in [Chains -> [counter : Nat, start : Nat]]
      /\ DOMAIN batchTx' \subseteq BatchKey
      /\ \A k \in DOMAIN batchTx' : batchTx'[k] \in Seq(Hash)
      /\ DOMAIN txBatch' = DOMAIN txBatch \cup {h}
      /\ \A g \in DOMAIN txBatch' : txBatch'[g] \in BatchKey
      /\ WindowsNumbered'
      /\ BatchesAgree'
  <2>1. AddTransactionToBatch(h, h.src)
    BY <1>3, <1>4
  <2>2. BatchTypes /\ WindowsNumbered /\ BatchesAgree /\ h.src \in Chains
    BY <1>1, <1>3 DEF BatchInv
  <2> QED
    BY <1>2, <1>3, <2>1, <2>2, BatchExecute
<1>8. /\ DOMAIN txHashIndex' \subseteq Hash
      /\ \A g \in DOMAIN txHashIndex' : txHashIndex'[g] \in 1..Len(requests)
  BY <1>3, <1>4 DEF MapInsert, BatchInv, BatchTypes, requestIds
<1>9. UNCHANGED <<batchRoots, verifiedTx, batchConfig>>
  BY <1>4 DEF AddTransactionToBatch
<1>10. BatchTypes'
  BY <1>3, <1>6, <1>7, <1>8, <1>9 DEF BatchInv, BatchTypes
<1>11. AllBatched'
  BY <1>4, LenProperties, AppendElement, <1>5, <1>7 DEF HistoryInv, BatchInv, AllBatched
<1> QED
  BY <1>7, <1>10, <1>11 DEF BatchInv

\* The batches under a new configuration, a root or a verification.
LEMMA BatchInvMessage ==
    ASSUME RequestInv, BatchInv, BatchNext, UNCHANGED <<requests, history, txHashIndex>>
    PROVE  BatchInv'
<1> USE DEF BatchInv
<1>1. ASSUME NEW caller \in Accounts, NEW args \in BatchArgs,
             ConfigureBatchVerification(caller, args)
      PROVE  BatchInv'
  BY <1>1, TrackingConstants
     DEF ConfigureBatchVerification, BatchTypes, WindowsNumbered, BatchesAgree, AllBatched
<1>2. ASSUME NEW caller \in Accounts, NEW key \in DOMAIN batchTx, NEW root \in Roots,
             SubmitBatchMerkleRoot(caller, key, root)
      PROVE  BatchInv'
  BY <1>2 DEF SubmitBatchMerkleRoot, MapInsert, BatchTypes, BatchesAgree, WindowsNumbered, AllBatched
<1>3. ASSUME NEW caller \in Accounts, NEW key \in DOMAIN batchTx, NEW root \in Roots,
             VerifyBatchMerkleRoot(caller, key, root)
      PROVE  BatchInv'
  BY <1>3 DEF VerifyBatchMerkleRoot, BatchTypes, BatchesAgree, WindowsNumbered, AllBatched
<1> QED
  BY <1>1, <1>2, <1>3 DEF BatchNext

\* Relayers' reports may add hashes to the index.
LEMMA IndexReported ==
    ASSUME RequestInv, BatchInv, TrackerNext, UNCHANGED <<requests, history, batchVars>>
    PROVE  BatchInv'
<1>1. UNCHANGED <<batchWindow, batchTx, txBatch, batchRoots, verifiedTx, batchConfig>>
  BY DEF batchVars
<1>2. 1..Len(tracker) = requestIds
  BY DEF RequestInv, PairsGood, requestIds
<1>3. ASSUME NEW caller \in Accounts, NEW id \in requestIds, NEW chain, NEW status,
             NEW hash \in SUBSET RelayerHashes,
             UpdateChainTxStatus(caller, id, chain, status, hash)
      PROVE  /\ DOMAIN txHashIndex' \subseteq Hash
             /\ \A h \in DOMAIN txHashIndex' : txHashIndex'[h] \in 1..Len(requests)
  <2>1. CASE UNCHANGED txHashIndex
    BY <2>1 DEF BatchInv, BatchTypes
  <2>2. ASSUME NEW h \in hash, IndexHash(h, id)
        PROVE  /\ DOMAIN txHashIndex' \subseteq Hash
               /\ \A g \in DOMAIN txHashIndex' : txHashIndex'[g] \in 1..Len(requests)
    BY TrackingConstants, <2>2 DEF IndexHash, MapInsert, BatchInv, BatchTypes, requestIds
  <2> QED
    BY <1>3, <2>1, <2>2 DEF UpdateChainTxStatus
<1>4. /\ DOMAIN txHashIndex' \subseteq Hash
      /\ \A h \in DOMAIN txHashIndex' : txHashIndex'[h] \in 1..Len(requests)
  BY <1>2, <1>3 DEF TrackerNext, ConfirmDestinationDelivery
<1>5. BatchTypes'
  BY <1>1, <1>4 DEF BatchInv, BatchTypes
<1> QED
  BY <1>1, <1>5 DEF BatchInv, WindowsNumbered, BatchesAgree, AllBatched

\* No message takes a request away.
LEMMA RequestsGrow ==
    ASSUME RequestInv, [Next]_vars
    PROVE  Len(requests) \in Nat /\ Len(requests') \in Nat /\ Len(requests) <= Len(requests')
<1>0. Len(requests) \in Nat /\ Len(requests') \in Nat /\ DOMAIN requests = 1..Len(requests)
         /\ DOMAIN requests' = 1..Len(requests')
  BY RequestInvStep, LenProperties DEF RequestInv, PairsGood
<1>1. DOMAIN requests' = DOMAIN requests => Len(requests) = Len(requests')
  <2>1. \A m, n \in Nat : 1..m = 1..n => m = n
    OBVIOUS
  <2> QED
    BY <1>0, <2>1
<1>2. CASE UNCHANGED <<requests, history>>
  BY <1>0, <1>2
<1>3. CASE InitiateNext
  <2>1. \E r \in Request : requests' = Append(requests, r)
    BY <1>3, InitiatedRequest DEF Initiate
  <2> QED
    BY <1>0, <2>1, AppendElement DEF RequestInv, PairsGood
<1>4. CASE SignNext \/ ExecuteNext \/ RecoveryNext
  <2>1. \E id, q : requests' = [requests EXCEPT ![id] = q]
    BY <1>4, SignNextIsSign DEF SignBridgeRequest, ExecuteNext, ExecuteBridge, RecoveryNext,
       RecoverFailedBridge, RollbackBridgeTransaction
  <2> QED
    BY <1>0, <1>1, <2>1
<1> QED
  BY <1>2, <1>3, <1>4, RequestCases

\* Every message keeps the batches, the index and the history together.
LEMMA BatchStep == RequestInv /\ HistoryInv /\ BatchInv /\ [Next]_vars => BatchInv'
<1> SUFFICES ASSUME RequestInv, HistoryInv, BatchInv, [Next]_vars
             PROVE  BatchInv'
  OBVIOUS
<1>1. HistoryInv'
  BY HistoryStep
<1>2. CASE ExecuteNext
  BY <1>1, <1>2, BatchInvExecute DEF ExecuteNext
<1>3. CASE TrackingNext /\ TrackerNext
  BY <1>3, IndexReported DEF TrackingNext, TrackerNext, UpdateChainTxStatus, ConfirmDestinationDelivery
<1>4. CASE TrackingNext /\ BatchNext
  BY <1>4, BatchInvMessage DEF TrackingNext, BatchNext, ConfigureBatchVerification, SubmitBatchMerkleRoot,
     VerifyBatchMerkleRoot, trackerVars
<1>5. ASSUME UNCHANGED <<batchVars, txHashIndex, history>>
      PROVE  BatchInv'
  BY RequestsGrow, <1>5 DEF batchVars, BatchInv, BatchTypes, WindowsNumbered, BatchesAgree, AllBatched
<1>6. ASSUME ~ExecuteNext, ~TrackingNext
      PROVE  UNCHANGED <<batchVars, txHashIndex, history>>
  BY <1>6, BooksFrame
<1> QED
  BY <1>2, <1>3, <1>4, <1>5, <1>6 DEF TrackingNext

----
\* Rules, limits and trades: their types

RuleTypes ==
    /\ DOMAIN chainInfo \subseteq Chains
    /\ \A c \in DOMAIN chainInfo : chainInfo[c] \in ChainInfo
    /\ \A c \in DOMAIN chainInfo : chainInfo[c] \in ChainInfoArgs \cup {InitialChainInfo}
    /\ travelData \in SUBSET (1..Len(requests))
    /\ DOMAIN travelLimit \subseteq Chains
    /\ \A c \in DOMAIN travelLimit : travelLimit[c] \in Nat

LimitTypes ==
    /\ daily \in [Accounts -> [day : Nat, count : Nat]]
    /\ burst \in [Accounts -> [block : Nat, count : Nat]]
    /\ failures \in [start : Nat, count : Nat]

TradeTypes ==
    /\ chainDaily \in [Chains -> [day : Nat, volume : Nat]]
    /\ accountDaily \in [Accounts -> [day : Nat, volume : Nat]]
    /\ chainHourly \in [Chains -> [start : Nat, volume : Nat]]
    /\ trades \in Seq(Trade)

\* The rules that the admin sets keep their types.
LEMMA RuleTypesStep ==
    ASSUME RequestInv, RuleTypes, [Next]_vars
    PROVE  RuleTypes'
<1>1. 1..Len(requests) \subseteq 1..Len(requests')
  BY RequestsGrow
<1>2. CASE UNCHANGED ruleVars
  BY <1>1, <1>2 DEF RuleTypes, ruleVars
<1>3. CASE RuleNext
  <2>1. ASSUME NEW caller, NEW id \in requestIds, SubmitTravelRuleData(caller, id)
        PROVE  RuleTypes'
    BY <1>1, <2>1 DEF SubmitTravelRuleData, RuleTypes, requestIds
  <2>2. ASSUME NEW caller, NEW chain \in Chains, NEW amount \in Valuations,
               SetTravelRuleThreshold(caller, chain, amount)
        PROVE  RuleTypes'
    BY <1>1, <2>2, BridgeConstants DEF SetTravelRuleThreshold, MapInsert, RuleTypes
  <2>3. ASSUME NEW caller, NEW chain \in Chains, NEW info \in ChainInfoArgs,
               UpdateChainInfo(caller, chain, info)
        PROVE  RuleTypes'
    BY <1>1, <2>3, BridgeConstants DEF UpdateChainInfo, MapInsert, RuleTypes
  <2> QED
    BY <1>3, <2>1, <2>2, <2>3 DEF RuleNext
<1> QED
  BY <1>2, <1>3, BooksFrame

\* The counters of limits keep their types.
LEMMA LimitTypesStep ==
    ASSUME RequestInv, LimitTypes, [Next]_vars
    PROVE  LimitTypes'
<1>0. block \in Nat /\ Timestamp \in Nat /\ Today \in Nat
  BY TimeIsNatural DEF RequestInv
<1>1. ASSUME NEW caller \in Accounts, TrackRequestBurst(caller), CountDailyRequest(caller)
      PROVE  /\ daily' \in [Accounts -> [day : Nat, count : Nat]]
             /\ burst' \in [Accounts -> [block : Nat, count : Nat]]
  BY <1>0, <1>1, SMTT(30) DEF LimitTypes, TrackRequestBurst, CountDailyRequest
<1>2. /\ daily' \in [Accounts -> [day : Nat, count : Nat]]
      /\ burst' \in [Accounts -> [block : Nat, count : Nat]]
  <2>1. CASE InitiateNext
    BY <2>1, InitiatedRequest, <1>1 DEF Initiate
  <2> QED
    BY <2>1, BooksFrame DEF LimitTypes
<1>3. failures' \in [start : Nat, count : Nat]
  <2>1. ASSUME NEW caller, TrackFailedSignature(caller)
        PROVE  failures' \in [start : Nat, count : Nat]
    BY <1>0, <2>1 DEF TrackFailedSignature, LimitTypes
  <2>2. CASE SignNext
    BY <2>2, SignNextIsSign, <2>1 DEF SignBridgeRequest, LimitTypes
  <2> QED
    BY <2>2, BooksFrame DEF LimitTypes
<1> QED
  BY <1>2, <1>3 DEF LimitTypes

\* A trade that is replaced by one of the same type, or appended.
LEMMA TradeTypesStep ==
    ASSUME RequestInv, TradeTypes, [Next]_vars
    PROVE  TradeTypes'
<1>0. block \in Nat /\ Timestamp \in Nat /\ Today \in Nat
  BY TimeIsNatural DEF RequestInv
<1>1. ASSUME NEW caller \in Accounts, NEW dst \in Chains, NEW amount \in Amounts,
             RegisterCrossChainTrade(caller, dst, amount)
      PROVE  TradeTypes'
  <2> DEFINE t == [trader |-> caller, dst |-> dst, amount |-> amount, request |-> {},
                   createdAt |-> block, status |-> "Pending"]
  <2>1. amount \in Nat /\ t \in Trade
    BY <1>0, BridgeConstants DEF Trade
  <2>2. trades' = Append(trades, t)
    BY <1>1 DEF RegisterCrossChainTrade
  <2>3. trades' \in Seq(Trade)
    <3> HIDE DEF t
    <3> QED BY <2>1, <2>2, AppendElement DEF TradeTypes
  <2>4. /\ \A c \in Chains : DailySum(chainDaily[c], amount) \in [day : Nat, volume : Nat]
        /\ \A a \in Accounts : DailySum(accountDaily[a], amount) \in [day : Nat, volume : Nat]
    <3>1. \A d \in [day : Nat, volume : Nat] : DailySum(d, amount) \in [day : Nat, volume : Nat]
      BY <1>0, <2>1 DEF DailySum
    <3> QED
      BY <3>1 DEF TradeTypes
  <2>5. chainHourly' \in [Chains -> [start : Nat, volume : Nat]]
    <3> DEFINE w == chainHourly[dst]
               fresh == Timestamp - w.start < HourMs
               sum == (IF fresh THEN w.volume ELSE 0) + amount
               v == [start |-> IF fresh THEN w.start ELSE Timestamp, volume |-> sum]
    <3>1. w \in [start : Nat, volume : Nat]
      BY DEF TradeTypes
    <3>2. v \in [start : Nat, volume : Nat]
      BY <1>0, <2>1, <3>1
    <3>3. TrackChainVolume(dst, amount)
      BY <1>1 DEF RegisterCrossChainTrade
    <3>4. UNCHANGED chainHourly \/ chainHourly' = [chainHourly EXCEPT ![dst] = v]
      BY <3>3 DEF TrackChainVolume
    <3> HIDE DEF v
    <3> QED
      BY <3>2, <3>4 DEF TradeTypes
  <2>6. /\ chainDaily' \in [Chains -> [day : Nat, volume : Nat]]
        /\ accountDaily' \in [Accounts -> [day : Nat, volume : Nat]]
    <3>1. CASE UNCHANGED <<chainDaily, accountDaily>>
      BY <3>1 DEF TradeTypes
    <3>2. CASE /\ chainDaily' = [chainDaily EXCEPT ![dst] = DailySum(chainDaily[dst], amount)]
               /\ accountDaily' = [accountDaily EXCEPT ![caller] =
                                       DailySum(accountDaily[caller], amount)]
      BY <2>4, <3>2 DEF TradeTypes
    <3> QED
      BY <1>1, <3>1, <3>2 DEF RegisterCrossChainTrade, CountDailyVolume
  <2> QED
    BY <2>3, <2>5, <2>6 DEF TradeTypes
<1>2. ASSUME NEW n \in 1..Len(trades), NEW t \in Trade, trades' = [trades EXCEPT ![n] = t],
             UNCHANGED <<chainDaily, accountDaily, chainHourly>>
      PROVE  TradeTypes'
  BY <1>2, ReplaceElement DEF TradeTypes
<1>3. ASSUME NEW caller, NEW n \in 1..Len(trades), NEW request \in 1..MaxRequests,
             AttachBridgeRequestToTrade(caller, n, request)
      PROVE  TradeTypes'
  <2> DEFINE t == [trades[n] EXCEPT !.request = {request}, !.status = "BridgeRequested"]
  <2>1. trades[n] \in Trade /\ trades \in Seq(Trade)
    BY ElementOfSeq DEF TradeTypes
  <2>2. t \in Trade
    <3>1. {request} \in SUBSET Nat
      OBVIOUS
    <3> QED
      BY <2>1, <3>1 DEF Trade
  <2>3. trades' = [trades EXCEPT ![n] = t] /\ UNCHANGED <<chainDaily, accountDaily, chainHourly>>
    BY <1>3, <2>1 DEF AttachBridgeRequestToTrade, Trade
  <2> HIDE DEF t
  <2> QED
    BY <1>2, <2>2, <2>3
<1>4. ASSUME NEW caller, NEW n \in 1..Len(trades), SettleCrossChainTrade(caller, n)
      PROVE  TradeTypes'
  <2> DEFINE t == [trades[n] EXCEPT !.status = "Settled"]
  <2>1. trades[n] \in Trade
    BY ElementOfSeq DEF TradeTypes
  <2>2. t \in Trade
    BY <2>1 DEF Trade
  <2>3. trades' = [trades EXCEPT ![n] = t] /\ UNCHANGED <<chainDaily, accountDaily, chainHourly>>
    BY <1>4 DEF SettleCrossChainTrade
  <2> HIDE DEF t
  <2> QED
    BY <1>2, <2>2, <2>3
<1>5. CASE UNCHANGED tradeVars
  BY <1>5 DEF tradeVars, TradeTypes
<1> QED
  BY <1>1, <1>3, <1>4, <1>5, BooksFrame DEF TradeNext

----
\* Daily limits

\* A later block is not on an earlier day.
LEMMA DaysPass ==
    ASSUME NEW b \in Nat, NEW c \in Nat, b <= c
    PROVE  /\ (b * BlockTime) \div DayMs \in Nat
           /\ (b * BlockTime) \div DayMs <= (c * BlockTime) \div DayMs
  BY ControlConstants, BridgeConstants

AllLimited == \A c \in AdminConfigs \cup {InitialConfig} : c.rateLimit

\* Everything was made at a block that has been.
PastOnly ==
    /\ \A id \in 1..Len(requests) : requests[id].createdAt <= block
    /\ \A n \in 1..Len(trades) : trades[n].createdAt <= block

\* The limits in force are some that were configured.
ConfigKnown ==
    \E c \in AdminConfigs \cup {InitialConfig} :
        config.rateLimit = c.rateLimit /\ config.maxPerDay = c.maxPerDay

\* The counter of an account is the number of its requests of today, or stale.
RequestsCounted(a) ==
    /\ daily[a].day <= Today
    /\ Cardinality(RequestsToday(a)) = IF daily[a].day < Today THEN 0 ELSE daily[a].count
    /\ \E c \in AdminConfigs \cup {InitialConfig} : daily[a].count <= c.maxPerDay

VolumeToday(c) == SumFunctionOnSet([n \in TradesToday(c) |-> trades[n].amount], TradesToday(c))

\* The counter of a chain is the volume of today's trades to it, or stale.
VolumeCounted(c) ==
    /\ chainDaily[c].day <= Today
    /\ VolumeToday(c) = IF chainDaily[c].day < Today THEN 0 ELSE chainDaily[c].volume
    /\ \E info \in ChainInfoArgs \cup {InitialChainInfo} : chainDaily[c].volume <= info.dailyLimit

CountersTrue ==
    AllLimited => /\ \A a \in Accounts : RequestsCounted(a)
                  /\ \A c \in Chains : VolumeCounted(c)

DailyInv == RuleTypes /\ LimitTypes /\ TradeTypes /\ PastOnly /\ ConfigKnown /\ CountersTrue

\* The true counters imply the limits of the day.
LEMMA CountersImplyLimits == RequestInv /\ DailyInv => DailyLimits
<1> SUFFICES ASSUME RequestInv, DailyInv
             PROVE  DailyLimits
  OBVIOUS
<1>1. CASE ~AllLimited
  BY <1>1 DEF AllLimited, DailyLimits
<1>2. CASE AllLimited
  <2>1. ASSUME NEW a \in Accounts
        PROVE  \E c \in AdminConfigs \cup {InitialConfig} :
                  c.rateLimit => Cardinality(RequestsToday(a)) <= c.maxPerDay
    BY <1>2, ControlConstants DEF DailyInv, CountersTrue, BridgeConfigType, RequestsCounted
  <2>2. ASSUME NEW c \in Chains
        PROVE  \E info \in ChainInfoArgs \cup {InitialChainInfo} :
                  VolumeToday(c) <= info.dailyLimit
    BY <1>2, BridgeConstants DEF DailyInv, CountersTrue, ChainInfo, VolumeCounted
  <2> QED
    BY <2>1, <2>2 DEF DailyLimits, VolumeToday
<1> QED
  BY <1>1, <1>2

\* A new block: either today goes on, or nothing was made yet today.
LEMMA DailyTick ==
    ASSUME RequestInv, DailyInv, block' = block + 1,
           UNCHANGED <<requests, trades, daily, chainDaily>>, AllLimited
    PROVE  /\ \A a \in Accounts : RequestsCounted(a)'
           /\ \A c \in Chains : VolumeCounted(c)'
<1>0. /\ block \in Nat /\ Today \in Nat
      /\ requests \in Seq(Request) /\ DOMAIN requests = 1..Len(requests)
      /\ trades \in Seq(Trade) /\ DOMAIN trades = 1..Len(trades)
  BY TimeIsNatural, LenProperties DEF RequestInv, PairsGood, DailyInv, TradeTypes
<1>1. /\ \A id \in DOMAIN requests : requests[id].createdAt \in Nat
      /\ \A n \in DOMAIN trades : trades[n].createdAt \in Nat
  <2>1. /\ \A id \in DOMAIN requests : requests[id] \in Request
        /\ \A n \in DOMAIN trades : trades[n] \in Trade
    BY <1>0, ElementOfSeq
  <2> QED
    BY <2>1 DEF Request, Trade
<1>2. /\ Today' \in Nat /\ Today <= Today'
      /\ \A b \in Nat : b <= block => (b * BlockTime) \div DayMs <= Today
      /\ \A b \in Nat : (b * BlockTime) \div DayMs \in Nat
  BY <1>0, DaysPass DEF Today, Timestamp
<1>3. CASE Today' = Today
  <2>1. \A b : OnToday(b)' <=> OnToday(b)
    BY <1>3 DEF OnToday
  <2>2. /\ \A a : RequestsToday(a)' = RequestsToday(a)
        /\ \A c : TradesToday(c)' = TradesToday(c)
    BY <2>1 DEF RequestsToday, TradesToday
  <2>3. \A c : VolumeToday(c)' = VolumeToday(c)
    BY <2>2 DEF VolumeToday
  <2> QED
    BY <1>3, <2>2, <2>3 DEF RequestsCounted, VolumeCounted, DailyInv, CountersTrue
<1>4. CASE Today < Today'
  <2>1. \A b \in Nat : b <= block => ~OnToday(b)'
    BY <1>0, <1>2, <1>4 DEF OnToday
  <2>2. /\ \A a : RequestsToday(a)' = {}
        /\ \A c : TradesToday(c)' = {}
    BY <1>0, <1>1, <2>1 DEF RequestsToday, TradesToday, DailyInv, PastOnly
  <2>3. \A a : Cardinality(RequestsToday(a)') = 0
    BY <2>2, FS_EmptySet
  <2>4. \A c : VolumeToday(c)' = 0
    BY <2>2, SumEmpty DEF VolumeToday
  <2>5. /\ \A a \in Accounts : daily[a].day \in Nat /\ daily[a].day <= Today
        /\ \A c \in Chains : chainDaily[c].day \in Nat /\ chainDaily[c].day <= Today
    BY DEF DailyInv, LimitTypes, TradeTypes, CountersTrue, RequestsCounted, VolumeCounted
  <2>6. /\ \A a \in Accounts : daily[a].day < Today'
        /\ \A c \in Chains : chainDaily[c].day < Today'
    <3>1. \A x \in Nat : x <= Today => x < Today'
      BY <1>0, <1>2, <1>4
    <3> QED
      BY <2>5, <3>1
  <2>7. ASSUME NEW a \in Accounts
        PROVE  RequestsCounted(a)'
    BY <1>2, <2>3, <2>5, <2>6 DEF RequestsCounted, DailyInv, CountersTrue
  <2>8. ASSUME NEW c \in Chains
        PROVE  VolumeCounted(c)'
    BY <1>2, <2>4, <2>5, <2>6 DEF VolumeCounted, DailyInv, CountersTrue
  <2> QED
    BY <2>7, <2>8
<1> QED
  BY <1>0, <1>2, <1>3, <1>4

\* Messages that make no request leave the counts of requests true.
LEMMA RequestsKept ==
    ASSUME RequestInv, DailyInv, AllLimited, UNCHANGED <<block, daily>>,
           DOMAIN requests' = DOMAIN requests,
           \A id \in DOMAIN requests : /\ requests'[id].sender = requests[id].sender
                                       /\ requests'[id].createdAt = requests[id].createdAt
    PROVE  \A a \in Accounts : RequestsCounted(a)'
  BY DEF Today, Timestamp, OnToday, RequestsToday, RequestsCounted, DailyInv, CountersTrue

\* A request that is made is counted.
LEMMA RequestCounted ==
    ASSUME RequestInv, DailyInv, AllLimited, NEW caller \in Accounts, NEW r \in Request,
           r.sender = caller, r.createdAt = block, requests' = Append(requests, r),
           CountDailyRequest(caller), UNCHANGED <<block, config>>
    PROVE  \A a \in Accounts : RequestsCounted(a)'
<1> DEFINE d == daily[caller]
           count == IF d.day < Today THEN 0 ELSE d.count
           new == Len(requests) + 1
<1>0. /\ block \in Nat /\ Today \in Nat
      /\ requests \in Seq(Request) /\ DOMAIN requests = 1..Len(requests) /\ Len(requests) \in Nat
  BY TimeIsNatural, LenProperties DEF RequestInv, PairsGood
<1>1. UNCHANGED Today /\ \A b : OnToday(b)' <=> OnToday(b)
  BY DEF Today, Timestamp, OnToday
<1>2. OnToday(block)
  BY DEF OnToday, Today, Timestamp
<1>3. /\ DOMAIN requests' = 1..new
      /\ \A j \in 1..Len(requests) : requests'[j] = requests[j]
      /\ requests'[new] = r
  BY <1>0, AppendElement
<1>4. /\ RequestsToday(caller)' = RequestsToday(caller) \cup {new}
      /\ \A a : a # caller => RequestsToday(a)' = RequestsToday(a)
  BY <1>0, <1>1, <1>2, <1>3 DEF RequestsToday
<1>5. IsFiniteSet(RequestsToday(caller)) /\ new \notin RequestsToday(caller)
  BY <1>0, BitsAreFew DEF RequestsToday
<1>6. Cardinality(RequestsToday(caller)') = Cardinality(RequestsToday(caller)) + 1
  <2> HIDE DEF new
  <2> QED BY <1>4, <1>5, FS_AddElement
<1>7. RequestsCounted(caller) /\ daily \in [Accounts -> [day : Nat, count : Nat]]
  BY DEF DailyInv, CountersTrue, LimitTypes
<1>8. PICK c \in AdminConfigs \cup {InitialConfig} :
              config.rateLimit = c.rateLimit /\ config.maxPerDay = c.maxPerDay
  BY DEF DailyInv, ConfigKnown
<1>9. c.rateLimit /\ c.maxPerDay \in Nat
  BY ControlConstants DEF AllLimited, BridgeConfigType
<1>10. /\ count < c.maxPerDay
       /\ daily' = [daily EXCEPT ![caller] =
              [day |-> IF d.day < Today THEN Today ELSE d.day, count |-> count + 1]]
  BY <1>8, <1>9 DEF CountDailyRequest
<1>11. d.day \in Nat /\ d.count \in Nat /\ d.day <= Today
  BY <1>7 DEF RequestsCounted
<1>12. Cardinality(RequestsToday(caller)) = count
  BY <1>0, <1>7, <1>11 DEF RequestsCounted
<1>13. daily'[caller].day = Today /\ daily'[caller].count = count + 1
  BY <1>0, <1>7, <1>10, <1>11
<1>14. count \in Nat
  BY <1>11
<1> HIDE DEF count, new
<1>15. RequestsCounted(caller)'
  BY <1>0, <1>1, <1>6, <1>9, <1>10, <1>12, <1>13, <1>14 DEF RequestsCounted
<1>16. ASSUME NEW a \in Accounts, a # caller
       PROVE  RequestsCounted(a)'
  BY <1>1, <1>4, <1>7, <1>10, <1>16 DEF RequestsCounted, DailyInv, CountersTrue
<1> QED
  BY <1>15, <1>16

\* Messages that register no trade leave the volumes true.
LEMMA VolumesKept ==
    ASSUME DailyInv, AllLimited, UNCHANGED <<block, chainDaily>>,
           DOMAIN trades' = DOMAIN trades,
           \A n \in DOMAIN trades : /\ trades'[n].dst = trades[n].dst
                                    /\ trades'[n].amount = trades[n].amount
                                    /\ trades'[n].createdAt = trades[n].createdAt
    PROVE  \A c \in Chains : VolumeCounted(c)'
<1>1. UNCHANGED Today /\ \A b : OnToday(b)' <=> OnToday(b)
  BY DEF Today, Timestamp, OnToday
<1>2. \A c : TradesToday(c)' = TradesToday(c)
  BY <1>1 DEF TradesToday
<1>3. \A c : [n \in TradesToday(c)' |-> trades'[n].amount] = [n \in TradesToday(c) |-> trades[n].amount]
  BY <1>2 DEF TradesToday
<1>4. \A c : VolumeToday(c)' = VolumeToday(c)
  BY <1>2, <1>3 DEF VolumeToday
<1> QED
  BY <1>1, <1>4 DEF VolumeCounted, DailyInv, CountersTrue

\* The volume of a chain after a trade of today to it.
LEMMA VolumeAdds ==
    ASSUME NEW c, NEW d, DailyInv, ControlInv, UNCHANGED block, NEW t \in Trade,
           trades' = Append(trades, t), t.dst = d, t.createdAt = block
    PROVE  /\ VolumeToday(c) \in Int
           /\ VolumeToday(c)' = VolumeToday(c) + (IF c = d THEN t.amount ELSE 0)
<1> DEFINE S == TradesToday(c)
           new == Len(trades) + 1
           f == [n \in S |-> trades[n].amount]
           g == [n \in S \cup {new} |-> trades'[n].amount]
<1>0. trades \in Seq(Trade) /\ DOMAIN trades = 1..Len(trades) /\ Len(trades) \in Nat
  BY LenProperties DEF DailyInv, TradeTypes
<1>1. /\ DOMAIN trades' = 1..new
      /\ \A j \in 1..Len(trades) : trades'[j] = trades[j]
      /\ trades'[new] = t
  BY <1>0, AppendElement
<1>2. (\A b : OnToday(b)' <=> OnToday(b)) /\ OnToday(block)
  BY DEF Today, Timestamp, OnToday
<1>3. S \in SUBSET (1..Len(trades)) /\ new \notin S
  BY <1>0 DEF TradesToday
<1>4. IsFiniteSet(S)
  <2> HIDE DEF S
  <2> QED BY <1>0, <1>3, BitsAreFew
<1>5. TradesToday(c)' = IF c = d THEN S \cup {new} ELSE S
  BY <1>0, <1>1, <1>2 DEF TradesToday
<1>6. \A n \in S : trades[n].amount \in Nat /\ trades'[n].amount = trades[n].amount
  <2>1. \A n \in S : trades[n] \in Trade
    BY <1>0, <1>3, ElementOfSeq
  <2> QED
    BY <1>1, <1>3, <2>1 DEF Trade
<1>7. t.amount \in Nat
  BY DEF Trade
<1>8. VolumeToday(c) = SumFunctionOnSet(f, S) /\ SumFunctionOnSet(f, S) \in Int
  BY <1>6, <1>4, SumType DEF VolumeToday, f, S
<1>9. CASE c = d
  <2>1. VolumeToday(c)' = SumFunctionOnSet(g, S \cup {new})
    BY <1>5, <1>9 DEF VolumeToday
  <2>2. /\ \A n \in S \cup {new} : g[n] \in Int
        /\ \A n \in S : g[n] = f[n]
        /\ g[new] = t.amount
    <3>1. trades'[new].amount = t.amount
      BY <1>1
    <3> HIDE DEF S, new
    <3>2. /\ \A n \in S \cup {new} : g[n] = trades'[n].amount
          /\ \A n \in S : f[n] = trades[n].amount
      OBVIOUS
    <3> HIDE DEF f, g
    <3>3. \A n \in S : g[n] = f[n] /\ g[n] \in Nat
      BY <1>6, <3>2
    <3>4. g[new] = t.amount
      BY <3>1, <3>2
    <3>5. \A n \in S \cup {new} : g[n] \in Nat
      BY <1>7, <3>3, <3>4
    <3> QED
      BY <3>3, <3>4, <3>5
  <2> HIDE DEF S, f, g, new
  <2>3. SumFunctionOnSet(g, S \cup {new}) = SumFunctionOnSet(g, S) + g[new]
    BY <1>3, <1>4, <2>2, SumAdd
  <2>4. SumFunctionOnSet(f, S) = SumFunctionOnSet(g, S)
    BY <1>4, <2>2, SumSame
  <2> QED
    BY <1>8, <1>9, <2>1, <2>2, <2>3, <2>4
<1>10. CASE c # d
  <2>1. TradesToday(c)' = S
    BY <1>5, <1>10
  <2>2. [n \in S |-> trades'[n].amount] = f
    BY <1>6
  <2>3. VolumeToday(c)' = VolumeToday(c)
    BY <2>1, <2>2 DEF VolumeToday
  <2> QED
    BY <1>8, <1>10, <2>3
<1> QED
  BY <1>8, <1>9, <1>10

\* A trade that is registered is counted.
LEMMA TradeCounted ==
    ASSUME ControlInv, DailyInv, AllLimited, NEW caller \in Accounts, NEW dst \in Chains,
           NEW amount \in Amounts, RegisterCrossChainTrade(caller, dst, amount)
    PROVE  \A c \in Chains : VolumeCounted(c)'
<1> DEFINE t == [trader |-> caller, dst |-> dst, amount |-> amount, request |-> {},
                 createdAt |-> block, status |-> "Pending"]
           d == chainDaily[dst]
<1>0. block \in Nat /\ Today \in Nat
  BY TimeIsNatural
<1>1. amount \in Nat /\ t \in Trade /\ t.dst = dst /\ t.createdAt = block /\ t.amount = amount
  BY <1>0, BridgeConstants DEF Trade
<1>2. UNCHANGED block /\ UNCHANGED Today
  BY DEF RegisterCrossChainTrade, controlVars, Today, Timestamp
<1>3. trades' = Append(trades, t)
  BY DEF RegisterCrossChainTrade
<1> HIDE DEF t
<1>4. \A c : /\ VolumeToday(c) \in Int
             /\ VolumeToday(c)' = VolumeToday(c) + (IF c = dst THEN amount ELSE 0)
  BY <1>1, <1>2, <1>3, VolumeAdds
<1>5. \A c \in Chains : VolumeCounted(c) /\ chainDaily[c] \in [day : Nat, volume : Nat]
  BY DEF DailyInv, CountersTrue, TradeTypes
<1>6. CASE amount = 0
  BY <1>6, <1>4, <1>2, <1>5 DEF RegisterCrossChainTrade, CountDailyVolume, VolumeCounted
<1>7. CASE amount # 0
  <2> DEFINE e == DailySum(d, amount)
  <2>1. config.rateLimit
    BY DEF AllLimited, DailyInv, ConfigKnown
  <2>2. /\ dst \in DOMAIN chainInfo
        /\ e.volume <= chainInfo[dst].dailyLimit
        /\ chainDaily' = [chainDaily EXCEPT ![dst] = e]
    BY <1>7, <2>1 DEF RegisterCrossChainTrade, CountDailyVolume
  <2>3. chainInfo[dst] \in ChainInfoArgs \cup {InitialChainInfo}
    BY <2>2 DEF DailyInv, RuleTypes
  <2>4. d \in [day : Nat, volume : Nat] /\ d.day <= Today
    BY <1>5 DEF VolumeCounted
  <2>5. /\ e.day = Today
        /\ e.volume = (IF d.day < Today THEN 0 ELSE d.volume) + amount
    BY <1>0, <1>1, <2>4 DEF DailySum
  <2>6. VolumeToday(dst)' = e.volume
    BY <1>4, <1>5, <2>5 DEF VolumeCounted
  <2> HIDE DEF e
  <2>7. chainDaily'[dst] = e /\ \A c \in Chains : c # dst => chainDaily'[c] = chainDaily[c]
    BY <2>2 DEF DailyInv, TradeTypes
  <2>8. VolumeCounted(dst)'
    BY <1>0, <1>2, <2>2, <2>3, <2>5, <2>6, <2>7 DEF VolumeCounted
  <2>9. ASSUME NEW c \in Chains, c # dst
        PROVE  VolumeCounted(c)'
    BY <1>4, <2>9, <1>2, <1>5, <2>7 DEF VolumeCounted
  <2> QED
    BY <2>8, <2>9
<1> QED
  BY <1>6, <1>7

\* Who changes what the daily limits are about.
LEMMA DailyFrame ==
    [Next]_vars =>
        /\ UNCHANGED block \/ (Tick /\ UNCHANGED nonControlVars)
        /\ \/ UNCHANGED <<config.rateLimit, config.maxPerDay>>
           \/ config' \in AdminConfigs
<1>1. Tick => UNCHANGED config
  BY DEF Tick, pauseVars
<1>2. RightsNext \/ FreezeNext => UNCHANGED <<block, config>>
  BY DEF RightsNext, FreezeNext, AddBridgeOperator, RemoveBridgeOperator, AddGuardian,
         RemoveGuardian, RequestAdminRotation, RegisterOperatorPublicKey, ConfirmAdminRotation,
         CancelAdminRotation, FreezeToken, UnfreezeToken, pauseVars
<1>3. \A by, flags, reason : ApplyPause(by, flags, reason) =>
         UNCHANGED <<config.rateLimit, config.maxPerDay>>
  BY DEF ApplyPause
<1>4. \A by, flags : ApplyUnpause(by, flags) => UNCHANGED <<config.rateLimit, config.maxPerDay>>
  BY DEF ApplyUnpause
<1>5. PauseNext => /\ UNCHANGED block
                   /\ \/ UNCHANGED <<config.rateLimit, config.maxPerDay>>
                      \/ config' \in AdminConfigs
  BY <1>3, <1>4 DEF PauseNext, UpdateConfig, SetEmergencyPause, EmergencyPause, EmergencyUnpause,
     UpdateSuspiciousConfig, ReportSuspiciousActivity
<1>6. EmergencyNext => UNCHANGED <<block, config.rateLimit, config.maxPerDay>>
  BY <1>3 DEF EmergencyNext, AddEmergencySigner, RemoveEmergencySigner, UnfreezeAsset,
     SetEmergencyThreshold, ProposePauseBridge, ProposeFreezeAsset, NewEmergencyRequest,
     SignEmergencyRequest, ExecuteEmergencyRequest, pauseVars
<1>7. SignNext => UNCHANGED <<block, config.rateLimit, config.maxPerDay>>
  BY <1>3, SignNextIsSign, SignControl
<1>8. UNCHANGED controlVars => UNCHANGED <<block, config>>
  BY DEF controlVars, pauseVars
<1> QED
  BY <1>1, <1>2, <1>5, <1>6, <1>7, <1>8, ControlFrame DEF Next, ControlNext, RequestNext, vars

\* The limits in force are the initial ones or ones that the admin may set
\* (update_config).
LEMMA ConfigStays == ConfigKnown /\ [Next]_vars => ConfigKnown'
  BY DailyFrame DEF ConfigKnown

\* What a message does to requests and trades as far as the past is concerned.
LEMMA DailyCases ==
    ASSUME RequestInv, TradeTypes, [Next]_vars
    PROVE  /\ \/ /\ DOMAIN requests' = DOMAIN requests
                 /\ \A id \in DOMAIN requests : /\ requests'[id].sender = requests[id].sender
                                                /\ requests'[id].createdAt = requests[id].createdAt
              \/ \E caller \in Accounts, r \in Request :
                    /\ r.sender = caller /\ r.createdAt = block
                    /\ requests' = Append(requests, r)
                    /\ CountDailyRequest(caller)
                    /\ UNCHANGED <<block, config>>
           /\ \/ /\ DOMAIN trades' = DOMAIN trades
                 /\ \A n \in DOMAIN trades : /\ trades'[n].dst = trades[n].dst
                                             /\ trades'[n].amount = trades[n].amount
                                             /\ trades'[n].createdAt = trades[n].createdAt
                 /\ UNCHANGED chainDaily
              \/ \E caller \in Accounts, dst \in Chains, amount \in Amounts :
                    RegisterCrossChainTrade(caller, dst, amount)
<1> DEFINE SameRequest == /\ DOMAIN requests' = DOMAIN requests
                          /\ \A id \in DOMAIN requests :
                                /\ requests'[id].sender = requests[id].sender
                                /\ requests'[id].createdAt = requests[id].createdAt
           SameTrade == /\ DOMAIN trades' = DOMAIN trades
                        /\ \A n \in DOMAIN trades : /\ trades'[n].dst = trades[n].dst
                                                    /\ trades'[n].amount = trades[n].amount
                                                    /\ trades'[n].createdAt = trades[n].createdAt
                        /\ UNCHANGED chainDaily
<1>1. UNCHANGED requests => SameRequest
  OBVIOUS
<1>2. ASSUME NEW id \in requestIds, NEW q, requests' = [requests EXCEPT ![id] = q],
             q.sender = requests[id].sender, q.createdAt = requests[id].createdAt
      PROVE  SameRequest
  BY <1>2
<1>3. CASE InitiateNext
  <2> PICK caller \in Accounts, token \in Tokens, required \in SignatureArgs,
           timeout \in {{}} \cup {{t} : t \in Timeouts}, valuation \in Valuations,
           dst \in Chains, route \in Seq(Chains) :
              /\ Initiate(caller, token, dst, required, timeout, route, valuation)
              /\ NewRequest(caller, token, LocalChain, dst, required, timeout, route, valuation)
                    \in Request
    BY <1>3, InitiatedRequest
  <2> DEFINE r == NewRequest(caller, token, LocalChain, dst, required, timeout, route, valuation)
  <2>1. r \in Request /\ r.sender = caller /\ r.createdAt = block
    BY DEF NewRequest
  <2>2. requests' = Append(requests, r) /\ CountDailyRequest(caller) /\ UNCHANGED <<block, config>>
    BY DEF Initiate, controlVars, pauseVars
  <2>3. UNCHANGED tradeVars
    BY DEF Initiate
  <2>4. SameTrade
    BY <2>3 DEF tradeVars
  <2> HIDE DEF r, SameTrade
  <2>5. \E a \in Accounts, q \in Request :
           /\ q.sender = a /\ q.createdAt = block
           /\ requests' = Append(requests, q)
           /\ CountDailyRequest(a)
           /\ UNCHANGED <<block, config>>
    BY <2>1, <2>2
  <2> QED
    BY <2>4, <2>5 DEF SameTrade
<1>4. CASE ~InitiateNext
  <2>1. SameRequest
    <3>1. CASE SignNext
      <4> PICK caller \in Accounts, id \in requestIds, approve \in BOOLEAN :
                  SignBridgeRequest(caller, id, approve)
        BY <3>1, SignNextIsSign
      <4>1. requests[id] \in Request
        BY PairOfId
      <4>2. /\ SignedRequest(requests[id], bitPos[caller], approve).sender = requests[id].sender
            /\ SignedRequest(requests[id], bitPos[caller], approve).createdAt = requests[id].createdAt
        BY <4>1 DEF SignedRequest, Request
      <4>3. requests' = [requests EXCEPT ![id] = SignedRequest(requests[id], bitPos[caller], approve)]
        BY DEF SignBridgeRequest
      <4> HIDE DEF SameRequest
      <4> QED
        BY <1>2, <4>2, <4>3
    <3>2. CASE ExecuteNext
      BY <3>2, PairOfId, <1>2 DEF ExecuteNext, ExecutedRequest, Request, ExecuteBridge
    <3>3. CASE RecoveryNext
      <4>1. ASSUME NEW caller, NEW id \in requestIds, NEW action,
                   RecoverFailedBridge(caller, id, action)
            PROVE  SameRequest
        BY PairOfId, <4>1, <1>2 DEF RecoveredRequest, Request, RecoverFailedBridge
      <4>2. ASSUME NEW caller, NEW id \in requestIds, RollbackBridgeTransaction(caller, id)
            PROVE  SameRequest
        BY PairOfId, <4>2, <1>2 DEF Request, RollbackBridgeTransaction
      <4> QED
        BY <3>3, <4>1, <4>2 DEF RecoveryNext
    <3> HIDE DEF SameRequest
    <3> QED
      BY <1>1, <1>4, <3>1, <3>2, <3>3, RequestCases
  <2>2. \/ SameTrade
        \/ \E caller \in Accounts, dst \in Chains, amount \in Amounts :
              RegisterCrossChainTrade(caller, dst, amount)
    <3>0. trades \in Seq(Trade) /\ DOMAIN trades = 1..Len(trades)
             /\ \A n \in DOMAIN trades : trades[n] \in Trade
      BY LenProperties, ElementOfSeq DEF TradeTypes
    <3>1. CASE UNCHANGED tradeVars
      BY <3>1 DEF tradeVars
    <3>2. ASSUME NEW n \in 1..Len(trades), NEW t, trades' = [trades EXCEPT ![n] = t],
                 t.dst = trades[n].dst, t.amount = trades[n].amount,
                 t.createdAt = trades[n].createdAt, UNCHANGED chainDaily
          PROVE  SameTrade
      BY <3>2
    <3>3. ASSUME NEW caller, NEW n \in 1..Len(trades), NEW request,
                 AttachBridgeRequestToTrade(caller, n, request)
          PROVE  SameTrade
      BY <3>0, <3>3, <3>2 DEF Trade, AttachBridgeRequestToTrade
    <3>4. ASSUME NEW caller, NEW n \in 1..Len(trades), SettleCrossChainTrade(caller, n)
          PROVE  SameTrade
      BY <3>0, <3>4, <3>2 DEF Trade, SettleCrossChainTrade
    <3> HIDE DEF SameTrade
    <3> QED
      BY <3>1, <3>3, <3>4, BooksFrame DEF TradeNext
  <2> QED
    BY <2>1, <2>2
<1> QED
  BY <1>3, <1>4

\* No daily counter belongs to a day that has not come.
LEMMA PastStep ==
    ASSUME RequestInv, DailyInv, [Next]_vars
    PROVE  PastOnly'
<1>0. /\ block \in Nat /\ block' \in Nat /\ block <= block'
      /\ requests \in Seq(Request) /\ DOMAIN requests = 1..Len(requests) /\ Len(requests) \in Nat
      /\ DOMAIN requests' = 1..Len(requests')
      /\ trades \in Seq(Trade) /\ DOMAIN trades = 1..Len(trades) /\ Len(trades) \in Nat
      /\ DOMAIN trades' = 1..Len(trades')
  <2>1. ControlInv' /\ RequestInv' /\ TradeTypes'
    BY RequestInvStep, TradeTypesStep DEF RequestInv, DailyInv
  <2>2. block' = block \/ block' = block + 1
    BY DailyFrame DEF Tick
  <2>3. block \in Nat /\ block' \in Nat
    BY <2>1 DEF RequestInv, ControlInv, ControlTypeOK
  <2>4. block <= block'
    BY <2>2, <2>3
  <2> QED
    BY <2>1, <2>3, <2>4, LenProperties DEF RequestInv, PairsGood, DailyInv, TradeTypes
<1>1. /\ \A id \in DOMAIN requests : requests[id].createdAt \in Nat /\ requests[id].createdAt <= block
      /\ \A n \in DOMAIN trades : trades[n].createdAt \in Nat /\ trades[n].createdAt <= block
  <2>1. /\ \A id \in DOMAIN requests : requests[id] \in Request
        /\ \A n \in DOMAIN trades : trades[n] \in Trade
    BY <1>0, ElementOfSeq
  <2> QED
    BY <1>0, <2>1 DEF Request, Trade, DailyInv, PastOnly
<1>2. \A b \in Nat : b <= block => b <= block'
  BY <1>0
<1>3. \A id \in DOMAIN requests' : requests'[id].createdAt <= block'
  <2>1. CASE /\ DOMAIN requests' = DOMAIN requests
             /\ \A id \in DOMAIN requests : requests'[id].createdAt = requests[id].createdAt
    BY <1>1, <1>2, <2>1
  <2>2. ASSUME NEW r \in Request, r.createdAt = block, requests' = Append(requests, r)
        PROVE  \A id \in DOMAIN requests' : requests'[id].createdAt <= block'
    BY <1>0, <2>2, AppendElement, <1>1, <1>2
  <2> QED
    BY <2>1, <2>2, DailyCases DEF DailyInv
<1>4. \A n \in DOMAIN trades' : trades'[n].createdAt <= block'
  <2>1. CASE /\ DOMAIN trades' = DOMAIN trades
             /\ \A n \in DOMAIN trades : trades'[n].createdAt = trades[n].createdAt
    BY <1>1, <1>2, <2>1
  <2>2. ASSUME NEW caller \in Accounts, NEW dst \in Chains, NEW amount \in Amounts,
               RegisterCrossChainTrade(caller, dst, amount)
        PROVE  \A n \in DOMAIN trades' : trades'[n].createdAt <= block'
    <3> DEFINE t == [trader |-> caller, dst |-> dst, amount |-> amount, request |-> {},
                     createdAt |-> block, status |-> "Pending"]
    <3>1. t \in Trade /\ t.createdAt = block
      BY <1>0, BridgeConstants DEF Trade
    <3>2. trades' = Append(trades, t)
      BY <2>2 DEF RegisterCrossChainTrade
    <3> HIDE DEF t
    <3>3. /\ DOMAIN trades' = 1..(Len(trades) + 1)
          /\ \A j \in 1..Len(trades) : trades'[j] = trades[j]
          /\ trades'[Len(trades) + 1] = t
      BY <1>0, <3>1, <3>2, AppendElement
    <3> QED
      BY <1>0, <1>1, <1>2, <3>1, <3>3
  <2> QED
    BY <2>1, <2>2, DailyCases DEF DailyInv
<1> QED
  BY <1>0, <1>3, <1>4 DEF PastOnly

\* Every message keeps the counters true.
LEMMA DailyStep ==
    ASSUME RequestInv, DailyInv, [Next]_vars
    PROVE  DailyInv'
<1>1. RuleTypes' /\ LimitTypes' /\ TradeTypes' /\ PastOnly' /\ ConfigKnown'
  BY RuleTypesStep, LimitTypesStep, TradeTypesStep, PastStep, ConfigStays DEF DailyInv
<1>2. ASSUME AllLimited
      PROVE  (\A a \in Accounts : RequestsCounted(a)') /\ (\A c \in Chains : VolumeCounted(c)')
  <2>1. CASE Tick /\ UNCHANGED nonControlVars
    BY <2>1, <1>2, DailyTick DEF Tick, nonControlVars, limitVars, tradeVars
  <2>2. CASE UNCHANGED block
    <3>1. UNCHANGED daily \/ InitiateNext
      BY BooksFrame
    <3>2. \A a \in Accounts : RequestsCounted(a)'
      <4>1. ASSUME NEW caller \in Accounts, NEW r \in Request, r.sender = caller,
                   r.createdAt = block, requests' = Append(requests, r),
                   CountDailyRequest(caller), UNCHANGED <<block, config>>
            PROVE  \A a \in Accounts : RequestsCounted(a)'
        BY <1>2, <4>1, RequestCounted
      <4>2. CASE InitiateNext
        <5> PICK caller \in Accounts, token \in Tokens, required \in SignatureArgs,
                 timeout \in {{}} \cup {{t} : t \in Timeouts}, valuation \in Valuations,
                 dst \in Chains, route \in Seq(Chains) :
              /\ Initiate(caller, token, dst, required, timeout, route, valuation)
              /\ NewRequest(caller, token, LocalChain, dst, required, timeout, route, valuation)
                    \in Request
          BY <4>2, InitiatedRequest
        <5> DEFINE r == NewRequest(caller, token, LocalChain, dst, required, timeout, route,
                                   valuation)
        <5>1. r \in Request /\ r.sender = caller /\ r.createdAt = block
          BY DEF NewRequest
        <5>2. requests' = Append(requests, r) /\ CountDailyRequest(caller)
                 /\ UNCHANGED <<block, config>>
          BY DEF Initiate, controlVars, pauseVars
        <5> HIDE DEF r
        <5> QED
          BY <4>1, <5>1, <5>2
      <4>3. CASE UNCHANGED daily /\ ~InitiateNext
        BY <1>2, <2>2, <4>3, RequestsKept, <4>1, DailyCases DEF DailyInv
      <4> QED
        BY <3>1, <4>2, <4>3
    <3>3. \A c \in Chains : VolumeCounted(c)'
      BY <1>2, TradeCounted, <2>2, VolumesKept, DailyCases DEF RequestInv, DailyInv
    <3> QED
      BY <3>2, <3>3
  <2> QED
    BY <2>1, <2>2, DailyFrame
<1> QED
  BY <1>1, <1>2 DEF DailyInv, CountersTrue, AllLimited

\* The constructor establishes the invariants of history, batches and daily limits.
LEMMA BooksInit == Init => HistoryInv /\ BatchInv /\ DailyInv
<1> SUFFICES ASSUME Init
             PROVE  HistoryInv /\ BatchInv /\ DailyInv
  OBVIOUS
<1> USE BridgeConstants, ControlConstants, EmptySeq
<1>0. Len(requests) = 0 /\ requests = << >> /\ Len(trades) = 0 /\ trades = << >> /\ Len(history) = 0
  BY DEF Init, BridgeInit
<1>1. HistoryInv
  BY DEF Init, BridgeInit, HistoryInv
<1>2. BatchInv
  BY DEF Init, BridgeInit, TrackingInit, BatchInv, BatchTypes, WindowsNumbered, BatchesAgree,
         AllBatched
<1>3. RuleTypes /\ LimitTypes /\ TradeTypes /\ PastOnly
  BY DEF Init, BridgeInit, RuleTypes, LimitTypes, TradeTypes, PastOnly, BridgeConfigType
<1>4. ConfigKnown
  BY DEF Init, ControlInit, ConfigKnown
<1>5. Today \in Nat
  BY ControlInvInit, TimeIsNatural
<1>6. ASSUME NEW a \in Accounts
      PROVE  RequestsCounted(a)
  BY <1>0, FS_EmptySet, <1>5 DEF RequestsToday, Init, BridgeInit, RequestsCounted, BridgeConfigType
<1>7. ASSUME NEW c \in Chains
      PROVE  VolumeCounted(c)
  BY <1>0, SumEmpty, <1>5 DEF TradesToday, VolumeToday, Init, BridgeInit, VolumeCounted, ChainInfo
<1> QED
  BY <1>1, <1>2, <1>3, <1>4, <1>6, <1>7 DEF DailyInv, CountersTrue

\* The four inductive invariants say together that the bridge's books agree.
LEMMA BooksImplied ==
    ASSUME RequestInv, HistoryInv, BatchInv, DailyInv
    PROVE  BridgeBooksAgree
<1>1. /\ DOMAIN tracker = 1..Len(requests)
      /\ DOMAIN history = 1..Len(history)
      /\ slots \in Seq(Accounts)
  BY LenProperties DEF RequestInv, PairsGood, SlotsGood, HistoryInv
<1>2. TrackingTypeOK
  BY <1>1 DEF TrackingTypeOK, BatchInv, BatchTypes, RequestInv, PairsGood
<1>3. DOMAIN bitPos \subseteq Accounts /\ (\A v \in DOMAIN bitPos : bitPos[v] \in Nat)
  BY <1>1, ElementOfSeq DEF RequestInv, SlotsGood
<1>4. ControlTypeOK /\ requests \in Seq(Request) /\ history \in Seq(Transaction)
         /\ validators \in SUBSET Accounts
  BY <1>3 DEF RequestInv, ControlInv, PairsGood, SlotsGood, HistoryInv
<1>5. BridgeTypeOK
  BY <1>1, <1>2, <1>3, <1>4 DEF BridgeTypeOK, DailyInv, RuleTypes, LimitTypes, TradeTypes
<1>6. DailyLimits
  BY CountersImplyLimits
<1> QED
  BY <1>1, <1>5, <1>6 DEF BridgeBooksAgree, BatchInv, AllBatched

\* The books of the bridge agree whatever the sizes of its sets, the lengths of
\* its windows and the limits configured.
THEOREM BridgeBooks == Spec => []BridgeBooksAgree
<1>1. RequestInv /\ DailyInv /\ [Next]_vars => DailyInv'
  BY DailyStep
<1>2. RequestInv /\ HistoryInv /\ BatchInv /\ DailyInv => BridgeBooksAgree
  BY BooksImplied
<1> QED
  BY <1>1, <1>2, RequestInvInit, RequestInvStep, BooksInit, HistoryStep, BatchStep, PTL DEF Spec
====

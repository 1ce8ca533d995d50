---- MODULE RegistryProofs ----
(***************************************************************************)
(* Proofs about the property registry and the compliance and the identity  *)
(* registry it asks, for all values of their constants. Resumption is      *)
(* proved for whatever the two others do meanwhile; standing, titles and   *)
(* identities are about the three of them with every message.              *)
(***************************************************************************)
EXTENDS MCRegistry, Sums, SequenceTheorems

----
\* The pause

\* Approvals are kept only of an open request while the pause is in force.
PauseInv ==
    /\ block \in Nat
    /\ pause \in Pause
    /\ pause.paused /\ ~pause.active => pause.approvals = {}

\* What the state of the abstract pause is here.
ApprovalsSoFar == IF pause.paused THEN pause.approvals ELSE {}
Deadline == IF pause.paused THEN pause.autoResume ELSE {}
PromisedStep == Promise!ResumeStep \/ UNCHANGED <<pause.paused, ApprovalsSoFar, Deadline>>

\* The constructor leaves the registry running and nothing asked for.
LEMMA PauseInvInit == ChainInit /\ RegistryInit => PauseInv /\ Promise!ResumeInit
  BY DEF ChainInit, RegistryInit, PauseInv, Pause, Promise!ResumeInit

\* The abstract module counts as this one does.
LEMMA SameCount == \A S : Promise!Cardinality(S) = Cardinality(S)
  BY DEF Promise!Cardinality, Cardinality

\* A pause begins with no approvals and no request to resume
\* (pause_contract, emergency_pause).
LEMMA PauseBegins ==
    ASSUME PauseInv, NEW deadline \in SUBSET Nat, \A t \in deadline : t >= block,
           deadline = {} \/ \E t : deadline = {t},
           SetPause(PausedUntil(deadline))
    PROVE  PauseInv' /\ PromisedStep
<1>1. /\ pause' = [paused |-> TRUE, autoResume |-> deadline, active |-> FALSE, approvals |-> {}]
      /\ block' = block
  BY DEF SetPause, PausedUntil
<1>2. PauseInv'
  BY <1>1 DEF PauseInv, Pause
<1>3. Cardinality(deadline) <= 1
  <2>1. CASE deadline = {}
    BY <2>1, FS_EmptySet
  <2>2. CASE \E t : deadline = {t}
    <3>1. PICK t : deadline = {t}
      BY <2>2
    <3>2. Cardinality({t}) = 1
      BY FS_Singleton
    <3> QED
      BY <3>1, <3>2
  <2> QED
    BY <2>1, <2>2
<1>4. Promise!Stop
  BY <1>1, <1>3, SameCount DEF Promise!Stop
<1> QED
  BY <1>2, <1>4 DEF PromisedStep, Promise!ResumeStep

\* The messages of the pause keep its invariant, and take only the steps that the
\* abstract resumption allows.
LEMMA PauseMessages ==
    ASSUME PauseInv, PauseNext
    PROVE  PauseInv' /\ PromisedStep
<1> USE RegistryConstants DEF PauseInv
<1>1. ASSUME NEW caller \in Accounts, NEW duration \in DurationArgs, PauseContract(caller, duration)
      PROVE  PauseInv' /\ PromisedStep
  <2> DEFINE deadline == {block + d : d \in duration}
  <2>0. block \in Nat
    OBVIOUS
  <2>1. duration = {} \/ \E d \in Nat : duration = {d}
    OBVIOUS
  <2>2. deadline \in SUBSET Nat /\ \A t \in deadline : t >= block
    BY <2>0, <2>1
  <2>3. deadline = {} \/ \E t : deadline = {t}
    <3>1. CASE duration = {}
      BY <3>1
    <3>2. CASE \E d \in Nat : duration = {d}
      <4>1. PICK d \in Nat : duration = {d}
        BY <3>2
      <4>2. deadline = {block + d}
        BY <4>1
      <4> HIDE DEF deadline
      <4> QED
        BY <4>2
    <3> QED
      BY <2>1, <3>1, <3>2
  <2>4. SetPause(PausedUntil(deadline))
    BY <1>1 DEF PauseContract
  <2> HIDE DEF deadline
  <2> QED
    BY <2>2, <2>3, <2>4, PauseBegins
<1>2. ASSUME NEW caller \in Accounts, EmergencyPause(caller)
      PROVE  PauseInv' /\ PromisedStep
  BY <1>2, PauseBegins DEF EmergencyPause, PauseContract
<1>3. ASSUME NEW caller \in Accounts, ForceEmergencyStop(caller)
      PROVE  PauseInv' /\ PromisedStep
  BY <1>3, PauseBegins DEF ForceEmergencyStop
<1>4. ASSUME NEW caller \in Accounts, RequestResume(caller)
      PROVE  PauseInv' /\ PromisedStep
  <2>1. PauseInv'
    BY <1>4 DEF RequestResume, SetPause, Pause
  <2>2. Promise!Consent
    BY <1>4 DEF RequestResume, SetPause, Pause, Promise!Consent
  <2> QED
    BY <2>1, <2>2 DEF PromisedStep, Promise!ResumeStep
<1>5. ASSUME NEW caller \in Accounts, ApproveResume(caller)
      PROVE  PauseInv' /\ PromisedStep
  <2>1. PauseInv'
    BY <1>5 DEF ApproveResume, SetPause, Pause
  <2>2. CASE ~pause.paused
    BY <1>5, <2>2 DEF ApproveResume, SetPause, Pause, PromisedStep, ApprovalsSoFar, Deadline
  <2>3. CASE pause.paused /\ Cardinality(pause.approvals \cup {caller}) >= RequiredApprovals
    <3>1. /\ ~pause'.paused
          /\ (IF pause.paused THEN pause.approvals ELSE {}) = pause.approvals
          /\ caller \in {a \in Accounts : MayPause(a)}
      BY <1>5, <2>3 DEF ApproveResume, SetPause, Pause
    <3>2. Promise!Resume
      BY <2>3, <3>1, SameCount DEF Promise!Resume
    <3> QED
      BY <2>1, <3>2 DEF PromisedStep, Promise!ResumeStep
  <2>4. CASE pause.paused /\ ~(Cardinality(pause.approvals \cup {caller}) >= RequiredApprovals)
    <3>1. Promise!Consent
      BY <1>5, <2>4 DEF ApproveResume, SetPause, Pause, Promise!Consent
    <3> QED
      BY <2>1, <3>1 DEF PromisedStep, Promise!ResumeStep
  <2> QED
    BY <2>1, <2>2, <2>3, <2>4
<1>6. ASSUME TryAutoResume
      PROVE  PauseInv' /\ PromisedStep
  <2>1. PauseInv'
    BY <1>6 DEF TryAutoResume, SetPause, Pause
  <2>2. Promise!Resume
    BY <1>6 DEF TryAutoResume, SetPause, Pause, Promise!Resume
  <2> QED
    BY <2>1, <2>2 DEF PromisedStep, Promise!ResumeStep
<1>7. ASSUME NEW caller \in Accounts, NEW a \in Accounts, NEW enabled \in BOOLEAN,
             SetPauseGuardian(caller, a, enabled)
      PROVE  PauseInv' /\ PromisedStep
  BY <1>7 DEF SetPauseGuardian, PromisedStep, ApprovalsSoFar, Deadline
<1> QED
  BY <1>1, <1>2, <1>3, <1>4, <1>5, <1>6, <1>7 DEF PauseNext

\* No other message looks at the clock or the pause but to be refused.
LEMMA PauseFrame ==
    ASSUME \/ AuthorityNext \/ LinkNext \/ TitleNext \/ OracleValuationNext
           \/ BatchNext \/ EscrowNext \/ BadgeNext
    PROVE  UNCHANGED <<block, pause>>
<1>1. AuthorityNext => UNCHANGED <<block, pause>>
  BY DEF AuthorityNext, ChangeAdmin, GrantRole, RevokeRole
<1>2. LinkNext => UNCHANGED <<block, pause>>
  BY DEF LinkNext, SetOracle, SetFeeManager, SetComplianceRegistry, SetIdentityRegistry, SetService,
         RegisterService, UnregisterService, SetLinks, TripBreaker, ResetBreaker, SetBreakers,
         ConfigureBreaker, SetMinReputationThreshold
<1>3. TitleNext \/ OracleValuationNext => UNCHANGED <<block, pause>>
  BY DEF TitleNext, OracleValuationNext, RegisterProperty, Registered, TransferProperty, UpdateMetadata,
         SetProperties, Approve, EnableFractional, UpdateValuationFromOracle
<1>4. BatchNext => UNCHANGED <<block, pause>>
  <2>1. \A caller, values : BatchRegisterProperties(caller, values) => UNCHANGED <<block, pause>>
    BY DEF BatchRegisterProperties, Registered
  <2>2. \A caller, ids, to : BatchTransferProperties(caller, ids, to) => UNCHANGED <<block, pause>>
    BY Zenon DEF BatchTransferProperties
  <2>3. \A caller, transfers :
           BatchTransferPropertiesToMultiple(caller, transfers) => UNCHANGED <<block, pause>>
    BY Zenon DEF BatchTransferPropertiesToMultiple
  <2>4. \A caller, updates : BatchUpdateMetadata(caller, updates) => UNCHANGED <<block, pause>>
    BY Zenon DEF BatchUpdateMetadata, SetProperties
  <2>5. \A caller, size, failures : UpdateBatchConfig(caller, size, failures) => UNCHANGED <<block, pause>>
    BY DEF UpdateBatchConfig
  <2> QED
    BY <2>1, <2>2, <2>3, <2>4, <2>5, Zenon DEF BatchNext, BatchTransferNext
<1>5. EscrowNext => UNCHANGED <<block, pause>>
  BY DEF EscrowNext, CreateEscrow, RefundEscrow, SetEscrows
<1>6. BadgeNext => UNCHANGED <<block, pause>>
  BY DEF BadgeNext, SetVerifier, IssueBadge, RevokeBadge, RequestVerification, SubmitAppeal,
         ReviewVerification, ResolveAppeal, SetBadges
<1> QED
  BY <1>1, <1>2, <1>3, <1>4, <1>5, <1>6

\* Every step of the registry is a step of the abstract resumption or none.
LEMMA ResumptionStep ==
    ASSUME PauseInv, [RegistryNext]_<<block, registryVars>>
    PROVE  PauseInv' /\ PromisedStep
  BY PauseFrame, PauseMessages DEF PauseInv, PromisedStep, ApprovalsSoFar, Deadline, RegistryNext, NextBlock,
     registryVars

\* The registry resumes as the abstract pause promises: two different entitled
\* accounts have consented since the pause in force began, or its announced time
\* has come, whatever guardians, admins and roles come and go, and whatever
\* requests earlier pauses left open (approve_resume, try_auto_resume).
THEOREM ResumptionTakesTwo == RegistrySpec => ResumeTakesTwo
<1>1. ChainInit /\ RegistryInit => PauseInv /\ Promise!ResumeInit
  BY PauseInvInit
<1>2. PauseInv /\ [RegistryNext]_<<block, registryVars>> => PauseInv' /\ PromisedStep
  BY ResumptionStep
<1>3. PromisedStep <=> [Promise!ResumeStep]_<<pause.paused, ApprovalsSoFar, Deadline>>
  BY DEF PromisedStep
<1> QED
  BY <1>1, <1>2, <1>3, PTL DEF RegistrySpec, ResumeTakesTwo, Promise!Resumption, ApprovalsSoFar, Deadline

----
\* Standing in the compliance registry

Checks == {"aml", "sanctions", "consent", "barred", "debt"}

\* While data is Verified, what it says was passed has been passed, and nothing failed.
Backed(d, p) ==
    d.status = "Verified" =>
        /\ d.aml => "aml" \in p
        /\ d.sanctions => "sanctions" \in p
        /\ d.consent = "Given" => "consent" \in p
        /\ "barred" \notin p

\* Of the compliance registry: types of what decides, checks that back the data,
\* and debts that are recorded.
ComplianceInv ==
    /\ block \in Nat
    /\ DOMAIN rules \subseteq Jurisdictions /\ \A j \in DOMAIN rules : rules[j] \in Rules
    /\ passed \in [Clients -> SUBSET Checks]
    /\ DOMAIN compliance \subseteq Clients
    /\ \A a \in DOMAIN compliance : compliance[a] \in ComplianceData /\ Backed(compliance[a], passed[a])
    /\ \A a \in Clients : "debt" \in passed[a] => a \in DOMAIN tax /\ ~tax[a].settled

\* Data that is backed, of an account that owes nothing, is what IsCompliant asks for.
LEMMA ComplianceInvImplies == ComplianceInv => ComplianceIsEarned
  BY DEF ComplianceIsEarned, TransactionCompliant, IsCompliant, ComplianceInv, Backed, TaxCompliant, Earned

\* At first nobody has passed a check and nobody is known to the compliance registry.
LEMMA ComplianceInvInit == RegistriesInit => ComplianceInv
  BY ComplianceConstants DEF RegistriesInit, ChainInit, ComplianceInit, ComplianceInv

\* A message about one account that changes its data and what is known of its checks.
OneAccount(a, d, p) ==
    /\ compliance' = Put(compliance, a, d)
    /\ passed' = [passed EXCEPT ![a] = p]
    /\ UNCHANGED <<block, rules, tax>>

\* A message that writes one account's record keeps the invariant, if that record
\* is backed by what the account has passed.
LEMMA OneAccountKeeps ==
    ASSUME ComplianceInv, NEW a \in Clients, NEW d \in ComplianceData, NEW p \in SUBSET Checks,
           Backed(d, p), "debt" \in p => "debt" \in passed[a], OneAccount(a, d, p)
    PROVE  ComplianceInv'
<1>1. /\ compliance' = [x \in DOMAIN compliance \cup {a} |-> IF x = a THEN d ELSE compliance[x]]
      /\ passed' = [passed EXCEPT ![a] = p]
      /\ UNCHANGED <<block, rules, tax>>
  BY DEF OneAccount, Put
<1>2. passed \in [Clients -> SUBSET Checks]
  BY DEF ComplianceInv
<1>3. passed' \in [Clients -> SUBSET Checks] /\ passed'[a] = p /\ \A c \in Clients : c # a => passed'[c] = passed[c]
  BY <1>1, <1>2
<1>4. DOMAIN compliance' = DOMAIN compliance \cup {a}
  BY <1>1
<1>5. \A c \in DOMAIN compliance' : compliance'[c] \in ComplianceData /\ Backed(compliance'[c], passed'[c])
  <2>1. SUFFICES ASSUME NEW c \in DOMAIN compliance'
                 PROVE  compliance'[c] \in ComplianceData /\ Backed(compliance'[c], passed'[c])
    OBVIOUS
  <2>2. CASE c = a
    BY <1>1, <1>3, <1>4, <2>2
  <2>3. CASE c # a
    BY <1>1, <1>3, <1>4, <2>1, <2>3 DEF ComplianceInv
  <2> QED
    BY <2>2, <2>3
<1>6. \A c \in Clients : "debt" \in passed'[c] => c \in DOMAIN tax' /\ ~tax'[c].settled
  BY <1>1, <1>3 DEF ComplianceInv
<1>7. block' \in Nat /\ DOMAIN rules' \subseteq Jurisdictions /\ \A j \in DOMAIN rules' : rules'[j] \in Rules
  BY <1>1 DEF ComplianceInv
<1> QED
  BY <1>3, <1>4, <1>5, <1>6, <1>7 DEF ComplianceInv

\* New data passes no check yet (submit_verification_internal).
LEMMA NewDataBacked ==
    ASSUME ComplianceInv, NEW j \in DOMAIN rules, NEW risk \in Risks, NEW p \in SUBSET Checks, "barred" \notin p
    PROVE  NewData(j, risk) \in ComplianceData /\ Backed(NewData(j, risk), p)
  BY ComplianceConstants DEF ComplianceInv, Rules, NewData, ComplianceData, Backed, ComplianceStatuses, Consents

\* A verification starts an account afresh (submit_verification).
LEMMA VerifyKeeps ==
    ASSUME ComplianceInv, NEW caller \in Clients, NEW a \in Clients, VerifyMessage(caller, a), Verified(a)
    PROVE  ComplianceInv'
<1>1. \E j \in DOMAIN rules, risk \in Risks :
          compliance' = Put(compliance, a, NewData(j, risk)) /\ UNCHANGED <<block, rules, tax>>
  BY DEF VerifyMessage, SubmitVerification, ProcessVerificationRequest, taxVars
<1>2. PICK j \in DOMAIN rules, risk \in Risks :
          compliance' = Put(compliance, a, NewData(j, risk)) /\ UNCHANGED <<block, rules, tax>>
  BY <1>1
<1> DEFINE p == passed[a] \cap {"debt"}
<1>3. p \in SUBSET Checks /\ "barred" \notin p /\ ("debt" \in p => "debt" \in passed[a])
  BY DEF Checks
<1>4. passed' = [passed EXCEPT ![a] = p]
  BY DEF Verified
<1> HIDE DEF p
<1>5. NewData(j, risk) \in ComplianceData /\ Backed(NewData(j, risk), p)
  BY <1>3, NewDataBacked
<1>6. OneAccount(a, NewData(j, risk), p)
  BY <1>2, <1>4 DEF OneAccount
<1> QED
  BY <1>3, <1>5, <1>6, OneAccountKeeps

\* What a check leaves of an account's data is data again.
LEMMA OutcomesAreData ==
    \A d \in ComplianceData, ok \in BOOLEAN, factors \in 0..4 :
        AmlOutcome(d, ok, factors) \in ComplianceData /\ SanctionsOutcome(d, ok) \in ComplianceData
<1> SUFFICES ASSUME NEW d \in ComplianceData, NEW ok \in BOOLEAN, NEW factors \in 0..4
             PROVE  AmlOutcome(d, ok, factors) \in ComplianceData /\ SanctionsOutcome(d, ok) \in ComplianceData
  OBVIOUS
<1>1. \A e \in ComplianceData, b \in BOOLEAN : [e EXCEPT !.aml = b] \in ComplianceData
  BY DEF ComplianceData
<1>2. \A e \in ComplianceData, b \in BOOLEAN : [e EXCEPT !.sanctions = b] \in ComplianceData
  BY DEF ComplianceData
<1>3. \A e \in ComplianceData, risk \in Risks : [e EXCEPT !.risk = risk] \in ComplianceData
  BY DEF ComplianceData
<1>4. \A e \in ComplianceData : [e EXCEPT !.status = "Rejected", !.risk = "Prohibited"] \in ComplianceData
  BY DEF ComplianceData, ComplianceStatuses, Risks
<1>5. {"High", "Medium", "Prohibited"} \subseteq Risks
  BY DEF Risks
<1>6. AmlOutcome(d, ok, factors) \in ComplianceData
  BY <1>1, <1>3, <1>4, <1>5, Zenon DEF AmlOutcome
<1>7. CASE ok
  BY <1>2, <1>6, <1>7, Zenon DEF SanctionsOutcome
<1>8. CASE ~ok
  <2>1. [d EXCEPT !.sanctions = FALSE] \in ComplianceData
    BY <1>2
  <2>2. SanctionsOutcome(d, ok) = [[d EXCEPT !.sanctions = FALSE] EXCEPT !.status = "Rejected", !.risk = "Prohibited"]
    BY <1>8 DEF SanctionsOutcome
  <2> QED
    BY <1>4, <1>6, <2>1, <2>2
<1> QED
  BY <1>7, <1>8

\* A check that is passed adds to what has been passed, and one that fails bars.
LEMMA AmlBacked ==
    ASSUME NEW d \in ComplianceData, NEW p \in SUBSET Checks, Backed(d, p),
           NEW ok \in BOOLEAN, NEW factors \in 0..4
    PROVE  Backed(AmlOutcome(d, ok, factors), IF ok /\ factors < 3 THEN p \cup {"aml"} ELSE p \cup {"barred"})
  BY DEF ComplianceData, AmlOutcome, Backed

\* The outcome of one screening is backed by the checks passed with it
\* (update_sanctions_status).
LEMMA SanctionsBacked ==
    ASSUME NEW d \in ComplianceData, NEW p \in SUBSET Checks, Backed(d, p), NEW ok \in BOOLEAN
    PROVE  Backed(SanctionsOutcome(d, ok), IF ok THEN p \cup {"sanctions"} ELSE p \cup {"barred"})
  BY DEF ComplianceData, SanctionsOutcome, Backed

\* A message that writes an account's data back writes that account.
LEMMA SetDataIs ==
    ASSUME ComplianceInv, NEW a \in DOMAIN compliance, NEW d, SetData(a, d)
    PROVE  compliance' = Put(compliance, a, d) /\ UNCHANGED <<block, rules, tax>>
<1>1. DOMAIN compliance \cup {a} = DOMAIN compliance
  OBVIOUS
<1>2. [compliance EXCEPT ![a] = d] = [x \in DOMAIN compliance |-> IF x = a THEN d ELSE compliance[x]]
  OBVIOUS
<1> QED
  BY <1>1, <1>2 DEF SetData, Put, taxVars

\* A check, a revocation, a deletion and a consent keep every standing backed
\* (update_aml_status, update_sanctions_status, revoke_verification, update_consent).
LEMMA CheckKeeps ==
    ASSUME ComplianceInv, NEW caller \in Clients, NEW a \in Clients,
           \/ AmlMessage(caller, a) \/ SanctionsMessage(caller, a)
           \/ RevokeVerification(caller, a) /\ Told(a, "revoked", FALSE)
           \/ ComplianceDeletion(a) /\ Told(a, "deleted", FALSE)
           \/ \E consent \in Consents : UpdateConsent(caller, a, consent) /\ Consented(a, consent)
    PROVE  ComplianceInv'
<1>a. a \in DOMAIN compliance
  BY DEF AmlMessage, SanctionsMessage, UpdateAmlStatus, UpdateSanctionsStatus, RevokeVerification,
         ComplianceDeletion, RetentionOver, UpdateConsent
<1>b. compliance[a] \in ComplianceData /\ Backed(compliance[a], passed[a]) /\ passed[a] \in SUBSET Checks
  BY <1>a DEF ComplianceInv
<1>0. ASSUME NEW d \in ComplianceData, NEW p \in SUBSET Checks, Backed(d, p),
             "debt" \in p => "debt" \in passed[a], SetData(a, d), passed' = [passed EXCEPT ![a] = p]
      PROVE  ComplianceInv'
  <2>1. OneAccount(a, d, p)
    BY <1>0, <1>a, SetDataIs DEF OneAccount
  <2> QED
    BY <1>0, <2>1, OneAccountKeeps
<1>1. CASE AmlMessage(caller, a)
  <2>1. PICK ok \in BOOLEAN, factors \in 0..4 : UpdateAmlStatus(caller, a, ok, factors) /\ Told(a, "aml", ok /\ factors < 3)
    BY <1>1 DEF AmlMessage
  <2> DEFINE d == AmlOutcome(compliance[a], ok, factors)
             p == IF ok /\ factors < 3 THEN passed[a] \cup {"aml"} ELSE passed[a] \cup {"barred"}
  <2>2. d \in ComplianceData /\ Backed(d, p)
    BY <1>b, OutcomesAreData, AmlBacked
  <2>3. p \in SUBSET Checks /\ ("debt" \in p => "debt" \in passed[a])
    BY <1>b DEF Checks
  <2>4. SetData(a, d) /\ passed' = [passed EXCEPT ![a] = p]
    BY <2>1 DEF UpdateAmlStatus, Told
  <2> HIDE DEF d, p
  <2> QED
    BY <1>0, <2>2, <2>3, <2>4
<1>2. CASE SanctionsMessage(caller, a)
  <2>1. PICK ok \in BOOLEAN : UpdateSanctionsStatus(caller, a, ok) /\ Told(a, "sanctions", ok)
    BY <1>2 DEF SanctionsMessage
  <2> DEFINE d == SanctionsOutcome(compliance[a], ok)
             p == IF ok THEN passed[a] \cup {"sanctions"} ELSE passed[a] \cup {"barred"}
  <2>2. d \in ComplianceData /\ Backed(d, p)
    <3>1. 0 \in 0..4
      OBVIOUS
    <3>2. d \in ComplianceData
      BY <1>b, <3>1, OutcomesAreData
    <3>3. Backed(d, p)
      BY <1>b, SanctionsBacked
    <3> QED
      BY <3>2, <3>3
  <2>3. p \in SUBSET Checks /\ ("debt" \in p => "debt" \in passed[a])
    BY <1>b DEF Checks
  <2>4. SetData(a, d) /\ passed' = [passed EXCEPT ![a] = p]
    BY <2>1 DEF UpdateSanctionsStatus, Told
  <2> HIDE DEF d, p
  <2> QED
    BY <1>0, <2>2, <2>3, <2>4
<1>3. ASSUME NEW status \in {"Rejected", "Expired"}, SetData(a, [compliance[a] EXCEPT !.status = status]),
             NEW check, Told(a, check, FALSE)
      PROVE  ComplianceInv'
  <2> DEFINE d == [compliance[a] EXCEPT !.status = status]
             p == passed[a] \cup {"barred"}
  <2>1. d \in ComplianceData
    BY <1>b DEF ComplianceData, ComplianceStatuses
  <2>a. d.status # "Verified"
    BY <1>b DEF ComplianceData
  <2>2. d \in ComplianceData /\ Backed(d, p)
    BY <2>1, <2>a, Zenon DEF Backed
  <2>3. p \in SUBSET Checks /\ ("debt" \in p => "debt" \in passed[a])
    BY <1>b DEF Checks
  <2>4. SetData(a, d) /\ passed' = [passed EXCEPT ![a] = p]
    BY <1>3 DEF Told
  <2> HIDE DEF d, p
  <2> QED
    BY <1>0, <2>2, <2>3, <2>4
<1>4. ASSUME NEW consent \in Consents, UpdateConsent(caller, a, consent), Consented(a, consent)
      PROVE  ComplianceInv'
  <2> DEFINE d == [compliance[a] EXCEPT !.consent = consent]
             p == IF consent = "Given" THEN passed[a] \cup {"consent"} ELSE passed[a] \ {"consent"}
  <2>1. d \in ComplianceData
    BY <1>b DEF ComplianceData
  <2>a. /\ d.status = compliance[a].status /\ d.aml = compliance[a].aml
        /\ d.sanctions = compliance[a].sanctions /\ d.consent = consent
    BY <1>b DEF ComplianceData
  <2>b. p \in SUBSET Checks /\ ("debt" \in p => "debt" \in passed[a])
    BY <1>b DEF Checks
  <2>3. SetData(a, d) /\ passed' = [passed EXCEPT ![a] = p]
    BY <1>4 DEF UpdateConsent, Consented
  <2>4. /\ "aml" \in p <=> "aml" \in passed[a]
        /\ "sanctions" \in p <=> "sanctions" \in passed[a]
        /\ "barred" \in p <=> "barred" \in passed[a]
        /\ consent = "Given" => "consent" \in p
    OBVIOUS
  <2> HIDE DEF d, p
  <2>2. Backed(d, p)
    BY <1>b, <2>a, <2>4 DEF Backed
  <2> QED
    BY <1>0, <2>1, <2>2, <2>b, <2>3
<1> QED
  BY <1>1, <1>2, <1>3, <1>4 DEF RevokeVerification, ComplianceDeletion

\* A tax status that clears or blocks an account keeps every standing backed
\* (update_tax_compliance_status).
LEMMA TaxKeeps ==
    ASSUME ComplianceInv, NEW caller \in Clients, NEW a \in Clients, NEW status,
           UpdateTaxComplianceStatus(caller, a, status), Owed(a, status)
    PROVE  ComplianceInv'
  BY DEF UpdateTaxComplianceStatus, Put, ComplianceInv, Owed, Checks, Backed

\* Every message of the compliance registry that looks at no data and no check.
LEMMA OtherComplianceKeeps ==
    ASSUME ComplianceInv,
           \/ ComplianceOwnerNext \/ TokenRulesNext
           \/ \E a \in Clients : ScreenAddress(a) \/ \E j \in Jurisdictions : CreateVerificationRequest(a, j),
           UNCHANGED passed
    PROVE  ComplianceInv'
<1>1. UNCHANGED <<block, compliance, tax>>
  <2>1. ComplianceOwnerNext => UNCHANGED <<block, compliance, tax>>
    BY DEF ComplianceOwnerNext, AddVerifier, RegisterServiceProvider, UpdateJurisdictionRules, SetTaxModule,
           SetScreeningCacheTtl, taxVars
  <2>2. TokenRulesNext => UNCHANGED <<block, compliance, tax>>
    BY DEF TokenRulesNext, SetTokenJurisdiction, SetJurisdictionOperations, DeactivateToken, ReactivateToken,
           SetTokenActive, taxVars
  <2>3. \A a, j : ScreenAddress(a) \/ CreateVerificationRequest(a, j) => UNCHANGED <<block, compliance, tax>>
    BY DEF ScreenAddress, CreateVerificationRequest, taxVars
  <2> QED
    BY <2>1, <2>2, <2>3
<1>2. UNCHANGED rules \/ \E caller \in Clients, j \in Jurisdictions, new \in RulesArgs : UpdateJurisdictionRules(caller, j, new)
  <2>1. ComplianceOwnerNext =>
           \/ UNCHANGED rules
           \/ \E caller \in Clients, j \in Jurisdictions, new \in RulesArgs : UpdateJurisdictionRules(caller, j, new)
    BY DEF ComplianceOwnerNext, AddVerifier, RegisterServiceProvider, SetTaxModule, SetScreeningCacheTtl
  <2>2. TokenRulesNext => UNCHANGED rules
    BY DEF TokenRulesNext, SetTokenJurisdiction, SetJurisdictionOperations, DeactivateToken, ReactivateToken,
           SetTokenActive
  <2>3. \A a, j : ScreenAddress(a) \/ CreateVerificationRequest(a, j) => UNCHANGED rules
    BY DEF ScreenAddress, CreateVerificationRequest
  <2> QED
    BY <2>1, <2>2, <2>3
<1>3. CASE UNCHANGED rules
  BY <1>1, <1>3 DEF ComplianceInv
<1>4. ASSUME NEW caller, NEW j \in Jurisdictions, NEW new \in RulesArgs, UpdateJurisdictionRules(caller, j, new)
      PROVE  ComplianceInv'
  BY <1>4, ComplianceConstants, <1>1 DEF UpdateJurisdictionRules, Put, ComplianceInv
<1> QED
  BY <1>2, <1>3, <1>4

\* A list of two is gone through in two steps: what a batch makes of one account's data.
AmlNext(d, item, a) ==
    IF item.account # a THEN d ELSE AmlOutcome(d, item.factors < 3 /\ item.funds, item.factors)
SanctionsNext(d, item, a) ==
    IF item.account # a THEN d ELSE SanctionsOutcome(d, item.passed)

\* A batch of two checks writes the second on what the first has left, of one account
\* too (batch_aml_check).
LEMMA AmlBatchIs ==
    ASSUME NEW caller, NEW u, NEW v, BatchAmlCheck(caller, <<u, v>>)
    PROVE  /\ compliance' = [a \in DOMAIN compliance |-> AmlNext(AmlNext(compliance[a], u, a), v, a)]
           /\ UNCHANGED <<block, rules, tax>>
<1> DEFINE list == <<u, v>>
           outcome(a) == CHOOSE outcome : outcome = [i \in 0..Len(list) |->
               IF i = 0 THEN compliance[a]
               ELSE IF list[i].account # a THEN outcome[i - 1]
               ELSE AmlOutcome(outcome[i - 1], list[i].factors < 3 /\ list[i].funds, list[i].factors)]
<1>1. compliance' = [a \in DOMAIN compliance |-> outcome(a)[Len(list)]]
  BY DEF BatchAmlCheck
<1>2. Len(list) = 2 /\ list[1] = u /\ list[2] = v
  OBVIOUS
<1>3. ASSUME NEW a PROVE outcome(a)[2] = AmlNext(AmlNext(compliance[a], u, a), v, a)
  <2> DEFINE body(f) == [i \in 0..Len(list) |->
               IF i = 0 THEN compliance[a]
               ELSE IF list[i].account # a THEN f[i - 1]
               ELSE AmlOutcome(f[i - 1], list[i].factors < 3 /\ list[i].funds, list[i].factors)]
             x1 == AmlNext(compliance[a], u, a)
             x2 == AmlNext(x1, v, a)
             w == [i \in 0..2 |-> IF i = 0 THEN compliance[a] ELSE IF i = 1 THEN x1 ELSE x2]
  <2>1. w[0] = compliance[a] /\ w[1] = x1 /\ w[2] = x2
    OBVIOUS
  <2>2. body(w) = w
    <3>1. \A i \in 0..2 : i = 0 \/ i = 1 \/ i = 2
      OBVIOUS
    <3>2. \A i \in 0..2 : body(w)[i] = w[i]
      BY <1>2, <2>1, <3>1 DEF AmlNext
    <3>3. DOMAIN body(w) = 0..2 /\ DOMAIN w = 0..2 /\ body(w) = [i \in DOMAIN body(w) |-> body(w)[i]] /\ w = [i \in DOMAIN w |-> w[i]]
      BY <1>2
    <3> HIDE DEF body, w
    <3> QED
      BY <3>2, <3>3
  <2>3. outcome(a) = body(outcome(a))
    <3>1. \E f : f = body(f)
      BY <2>2
    <3> QED
      BY <3>1, Zenon
  <2> DEFINE o == outcome(a)
  <2>4. o = body(o)
    BY <2>3
  <2> HIDE DEF outcome, o
  <2>5. o[0] = compliance[a]
    BY <1>2, <2>4
  <2>6. o[1] = x1
    BY <1>2, <2>4, <2>5 DEF AmlNext
  <2>7. o[2] = x2
    BY <1>2, <2>4, <2>6 DEF AmlNext
  <2> QED
    BY <2>7 DEF o
<1> QED
  BY <1>1, <1>2, <1>3 DEF BatchAmlCheck, taxVars

\* A batch of two screenings writes the second on what the first has left
\* (batch_sanctions_check).
LEMMA SanctionsBatchIs ==
    ASSUME NEW caller, NEW u, NEW v, BatchSanctionsCheck(caller, <<u, v>>)
    PROVE  /\ compliance' = [a \in DOMAIN compliance |-> SanctionsNext(SanctionsNext(compliance[a], u, a), v, a)]
           /\ UNCHANGED <<block, rules, tax>>
<1> DEFINE list == <<u, v>>
           outcome(a) == CHOOSE outcome : outcome = [i \in 0..Len(list) |->
               IF i = 0 THEN compliance[a]
               ELSE IF list[i].account # a THEN outcome[i - 1]
               ELSE SanctionsOutcome(outcome[i - 1], list[i].passed)]
<1>1. compliance' = [a \in DOMAIN compliance |-> outcome(a)[Len(list)]]
  BY DEF BatchSanctionsCheck
<1>2. Len(list) = 2 /\ list[1] = u /\ list[2] = v
  OBVIOUS
<1>3. ASSUME NEW a PROVE outcome(a)[2] = SanctionsNext(SanctionsNext(compliance[a], u, a), v, a)
  <2> DEFINE body(f) == [i \in 0..Len(list) |->
               IF i = 0 THEN compliance[a]
               ELSE IF list[i].account # a THEN f[i - 1]
               ELSE SanctionsOutcome(f[i - 1], list[i].passed)]
             x1 == SanctionsNext(compliance[a], u, a)
             x2 == SanctionsNext(x1, v, a)
             w == [i \in 0..2 |-> IF i = 0 THEN compliance[a] ELSE IF i = 1 THEN x1 ELSE x2]
  <2>1. w[0] = compliance[a] /\ w[1] = x1 /\ w[2] = x2
    OBVIOUS
  <2>2. body(w) = w
    <3>1. \A i \in 0..2 : i = 0 \/ i = 1 \/ i = 2
      OBVIOUS
    <3>2. \A i \in 0..2 : body(w)[i] = w[i]
      BY <1>2, <2>1, <3>1 DEF SanctionsNext
    <3>3. DOMAIN body(w) = 0..2 /\ DOMAIN w = 0..2 /\ body(w) = [i \in DOMAIN body(w) |-> body(w)[i]] /\ w = [i \in DOMAIN w |-> w[i]]
      BY <1>2
    <3> HIDE DEF body, w
    <3> QED
      BY <3>2, <3>3
  <2>3. outcome(a) = body(outcome(a))
    BY <2>2
  <2> DEFINE o == outcome(a)
  <2>4. o = body(o)
    BY <2>3
  <2> HIDE DEF outcome, o
  <2>5. o[0] = compliance[a]
    BY <1>2, <2>4
  <2>6. o[1] = x1
    BY <1>2, <2>4, <2>5 DEF SanctionsNext
  <2>7. o[2] = x2
    BY <1>2, <2>4, <2>6 DEF SanctionsNext
  <2> QED
    BY <2>7 DEF o
<1> QED
  BY <1>1, <1>2, <1>3 DEF BatchSanctionsCheck, taxVars

\* One item of a batch keeps data backed, by what the ledger adds for its account.
LEMMA AmlNextBacked ==
    ASSUME NEW d \in ComplianceData, NEW p \in SUBSET Checks, Backed(d, p), NEW a, NEW b,
           NEW factors \in 0..4, NEW funds \in BOOLEAN
    PROVE  LET e == AmlNext(d, [account |-> b, factors |-> factors, funds |-> funds], a)
               q == IF a # b THEN p ELSE p \cup {"aml"} \cup (IF ~(factors < 3 /\ funds) THEN {"barred"} ELSE {})
           IN  e \in ComplianceData /\ Backed(e, q)
<1>1. CASE a # b
  BY <1>1 DEF AmlNext
<1>2. CASE a = b
  <2> DEFINE ok == factors < 3 /\ funds
             e == AmlOutcome(d, ok, factors)
  <2>1. ok \in BOOLEAN
    OBVIOUS
  <2>2. e \in ComplianceData
    BY <2>1, OutcomesAreData
  <2>3. Backed(e, IF ok /\ factors < 3 THEN p \cup {"aml"} ELSE p \cup {"barred"})
    BY <2>1, AmlBacked
  <2>4. ok => factors < 3
    OBVIOUS
  <2>5. ~ok => e.status # "Verified"
    BY DEF AmlOutcome, ComplianceData
  <2>6. AmlNext(d, [account |-> b, factors |-> factors, funds |-> funds], a) = e
    BY <1>2 DEF AmlNext
  <2> HIDE DEF e
  <2>7. CASE ok
    BY <1>2, <2>2, <2>3, <2>4, <2>6, <2>7 DEF Backed
  <2>8. CASE ~ok
    BY <1>2, <2>2, <2>5, <2>6, <2>8 DEF Backed
  <2> QED
    BY <2>7, <2>8
<1> QED
  BY <1>1, <1>2

\* One entry of a batch of screenings keeps a record backed (batch_sanctions_check).
LEMMA SanctionsNextBacked ==
    ASSUME NEW d \in ComplianceData, NEW p \in SUBSET Checks, Backed(d, p), NEW a, NEW b, NEW ok \in BOOLEAN
    PROVE  LET e == SanctionsNext(d, [account |-> b, passed |-> ok], a)
               q == IF a # b THEN p ELSE p \cup {"sanctions"} \cup (IF ~ok THEN {"barred"} ELSE {})
           IN  e \in ComplianceData /\ Backed(e, q)
<1>1. CASE a # b
  BY <1>1 DEF SanctionsNext
<1>2. CASE a = b
  <2> DEFINE e == SanctionsOutcome(d, ok)
  <2>1. 0 \in 0..4
    OBVIOUS
  <2>2. e \in ComplianceData
    BY <2>1, OutcomesAreData
  <2>3. Backed(e, IF ok THEN p \cup {"sanctions"} ELSE p \cup {"barred"})
    BY SanctionsBacked
  <2>5. ~ok => e.status # "Verified"
    BY DEF SanctionsOutcome, ComplianceData
  <2>6. SanctionsNext(d, [account |-> b, passed |-> ok], a) = e
    BY <1>2 DEF SanctionsNext
  <2> HIDE DEF e
  <2>7. CASE ok
    BY <1>2, <2>2, <2>3, <2>6, <2>7 DEF Backed
  <2>8. CASE ~ok
    BY <1>2, <2>2, <2>5, <2>6, <2>8 DEF Backed
  <2> QED
    BY <2>7, <2>8
<1> QED
  BY <1>1, <1>2

\* More that is known of an account, but for debts and bars, backs what was backed.
LEMMA BatchFrame ==
    ASSUME ComplianceInv, UNCHANGED <<block, rules, tax>>,
           passed' \in [Clients -> SUBSET Checks], DOMAIN compliance' = DOMAIN compliance,
           \A c \in Clients : "debt" \in passed'[c] => "debt" \in passed[c],
           \A c \in DOMAIN compliance : compliance'[c] \in ComplianceData /\ Backed(compliance'[c], passed'[c])
    PROVE  ComplianceInv'
  BY DEF ComplianceInv

\* Both batches keep every standing backed.
LEMMA BatchKeeps ==
    ASSUME ComplianceInv, NEW caller \in Clients, NEW a \in Clients, NEW b \in Clients, BatchMessage(caller, a, b)
    PROVE  ComplianceInv'
<1>a. \A c \in DOMAIN compliance :
         c \in Clients /\ compliance[c] \in ComplianceData /\ Backed(compliance[c], passed[c]) /\ passed[c] \in SUBSET Checks
  BY DEF ComplianceInv
<1>b. passed \in [Clients -> SUBSET Checks]
  BY DEF ComplianceInv
<1>1. ASSUME NEW f \in 0..4, NEW g \in 0..4, NEW x \in BOOLEAN, NEW y \in BOOLEAN,
             TwoAmlChecks(caller, a, b, f, g, x, y)
      PROVE  ComplianceInv'
  <2> DEFINE u == [account |-> a, factors |-> f, funds |-> x]
             v == [account |-> b, factors |-> g, funds |-> y]
             q1(c) == IF c # a THEN passed[c] ELSE passed[c] \cup {"aml"} \cup (IF ~(f < 3 /\ x) THEN {"barred"} ELSE {})
             q2(c) == IF c # b THEN q1(c) ELSE q1(c) \cup {"aml"} \cup (IF ~(g < 3 /\ y) THEN {"barred"} ELSE {})
  <2>1. compliance' = [c \in DOMAIN compliance |-> AmlNext(AmlNext(compliance[c], u, c), v, c)] /\ UNCHANGED <<block, rules, tax>>
    BY <1>1, AmlBatchIs DEF TwoAmlChecks
  <2>2. \A c \in DOMAIN compliance : passed'[c] = q2(c)
    BY <1>1, <1>a DEF TwoAmlChecks
  <2>3. passed' \in [Clients -> SUBSET Checks] /\ \A c \in Clients : "debt" \in passed'[c] => "debt" \in passed[c]
    BY <1>1, <1>b DEF Checks, TwoAmlChecks
  <2>4. ASSUME NEW c \in DOMAIN compliance
        PROVE  compliance'[c] \in ComplianceData /\ Backed(compliance'[c], q2(c))
    <3> DEFINE d == AmlNext(compliance[c], u, c)
               p == q1(c)
    <3>a. compliance[c] \in ComplianceData /\ Backed(compliance[c], passed[c]) /\ passed[c] \in SUBSET Checks
      BY <1>a
    <3>1. d \in ComplianceData /\ Backed(d, p)
      BY <3>a, AmlNextBacked
    <3>2. p \in SUBSET Checks
      BY <1>a DEF Checks
    <3>3. compliance'[c] = AmlNext(d, v, c)
      BY <2>1
    <3> HIDE DEF d, p
    <3>4. LET e == AmlNext(d, v, c)
              q == IF c # b THEN p ELSE p \cup {"aml"} \cup (IF ~(g < 3 /\ y) THEN {"barred"} ELSE {})
          IN  e \in ComplianceData /\ Backed(e, q)
      BY <3>1, <3>2, AmlNextBacked
    <3> QED
      BY <3>3, <3>4 DEF p
  <2>5. DOMAIN compliance' = DOMAIN compliance
    BY <2>1
  <2> HIDE DEF q2
  <2> QED
    BY <2>1, <2>2, <2>3, <2>4, <2>5, BatchFrame
<1>2. ASSUME NEW x \in BOOLEAN, NEW y \in BOOLEAN, TwoSanctionsChecks(caller, a, b, x, y)
      PROVE  ComplianceInv'
  <2> DEFINE u == [account |-> a, passed |-> x]
             v == [account |-> b, passed |-> y]
             q1(c) == IF c # a THEN passed[c] ELSE passed[c] \cup {"sanctions"} \cup (IF ~x THEN {"barred"} ELSE {})
             q2(c) == IF c # b THEN q1(c) ELSE q1(c) \cup {"sanctions"} \cup (IF ~y THEN {"barred"} ELSE {})
  <2>1. compliance' = [c \in DOMAIN compliance |-> SanctionsNext(SanctionsNext(compliance[c], u, c), v, c)] /\ UNCHANGED <<block, rules, tax>>
    BY <1>2, SanctionsBatchIs DEF TwoSanctionsChecks
  <2>2. \A c \in DOMAIN compliance : passed'[c] = q2(c)
    BY <1>2, <1>a DEF TwoSanctionsChecks
  <2>3. passed' \in [Clients -> SUBSET Checks] /\ \A c \in Clients : "debt" \in passed'[c] => "debt" \in passed[c]
    BY <1>2, <1>b DEF Checks, TwoSanctionsChecks
  <2>4. ASSUME NEW c \in DOMAIN compliance
        PROVE  compliance'[c] \in ComplianceData /\ Backed(compliance'[c], q2(c))
    <3> DEFINE d == SanctionsNext(compliance[c], u, c)
               p == q1(c)
    <3>a. compliance[c] \in ComplianceData /\ Backed(compliance[c], passed[c]) /\ passed[c] \in SUBSET Checks
      BY <1>a
    <3>1. d \in ComplianceData /\ Backed(d, p)
      BY <3>a, SanctionsNextBacked
    <3>2. p \in SUBSET Checks
      BY <1>a DEF Checks
    <3>3. compliance'[c] = SanctionsNext(d, v, c)
      BY <2>1
    <3> HIDE DEF d, p
    <3>4. LET e == SanctionsNext(d, v, c)
              q == IF c # b THEN p ELSE p \cup {"sanctions"} \cup (IF ~y THEN {"barred"} ELSE {})
          IN  e \in ComplianceData /\ Backed(e, q)
      BY <3>1, <3>2, SanctionsNextBacked
    <3> QED
      BY <3>3, <3>4 DEF p
  <2>5. DOMAIN compliance' = DOMAIN compliance
    BY <2>1
  <2> HIDE DEF q2
  <2> QED
    BY <2>1, <2>2, <2>3, <2>4, <2>5, BatchFrame
<1> QED
  BY <1>1, <1>2, Zenon DEF BatchMessage

\* Every message of the compliance registry keeps every standing backed.
LEMMA ComplianceMovesKeep == ComplianceInv /\ ComplianceMoves => ComplianceInv'
<1> SUFFICES ASSUME ComplianceInv, ComplianceMoves PROVE ComplianceInv'
  OBVIOUS
<1>1. ASSUME NEW caller \in Clients, NEW a \in Clients,
             \/ AmlMessage(caller, a) \/ SanctionsMessage(caller, a)
             \/ RevokeVerification(caller, a) /\ Told(a, "revoked", FALSE)
             \/ ComplianceDeletion(a) /\ Told(a, "deleted", FALSE)
             \/ \E consent \in Consents : UpdateConsent(caller, a, consent) /\ Consented(a, consent)
      PROVE  ComplianceInv'
  BY <1>1, CheckKeeps
<1>2. ASSUME NEW caller \in Clients, NEW a \in Clients,
             \/ VerifyMessage(caller, a) /\ Verified(a)
             \/ \E status \in TaxArgs : UpdateTaxComplianceStatus(caller, a, status) /\ Owed(a, status)
             \/ \E b \in Clients : BatchMessage(caller, a, b)
      PROVE  ComplianceInv'
  BY <1>2, VerifyKeeps, TaxKeeps, BatchKeeps
<1>3. CASE /\ \/ ComplianceOwnerNext \/ TokenRulesNext
              \/ \E a \in Clients : ScreenAddress(a) \/ \E j \in Jurisdictions : CreateVerificationRequest(a, j)
           /\ UNCHANGED passed
  BY <1>3, OtherComplianceKeeps
<1> QED
  BY <1>1, <1>2, <1>3 DEF ComplianceMoves

\* Only block production moves the clock.
LEMMA MovesKeepTime ==
    ASSUME RegistryMoves \/ IdentityMoves \/ PauseNext
    PROVE  UNCHANGED block
<1>1. PauseNext => UNCHANGED block
  BY DEF PauseNext, PauseContract, EmergencyPause, ForceEmergencyStop, RequestResume, ApproveResume,
         SetPauseGuardian, TryAutoResume, SetPause
<1>2. RegistryMoves => UNCHANGED block
  BY PauseFrame, <1>1 DEF RegistryMoves
<1>3. \A caller : RecoveryBegun(caller) \/ DeletionAsked(caller) \/ DeletionConfirmed(caller) => UNCHANGED block
  BY DEF RecoveryBegun, DeletionAsked, DeletionConfirmed, InitiateRecovery, RequestIdentityDeletion,
         ConfirmIdentityDeletion
<1>4. \A caller, a, new : RecoveryApproved(caller, a, new) => UNCHANGED block
  BY DEF RecoveryApproved, ApproveRecovery, Moved
<1>5. \A caller, new : Ported(caller, new) => UNCHANGED block
  BY DEF Ported, PortIdentity, Moved
<1>6. \A caller, a, some, threshold : SetRecoveryGuardians(caller, a, some, threshold) => UNCHANGED block
  BY DEF SetRecoveryGuardians
<1>7. ReputationNext => UNCHANGED block
  BY ZenonT(30) DEF ReputationNext, CreateIdentity, VerifyIdentity, RevokeIdentity, RevokeCompromisedIdentity, Revoke,
         AssessTrust, UpdateReputation, AddCrossChainVerification, VerifyPrivacyPreserving
<1>8. KycNext => UNCHANGED block
  BY DEF KycNext, SetAuthorizedVerifier, AddSupportedChain, RegisterVerificationProvider, DeactivateProvider,
         RequestKycVerification, CompleteKycVerification
<1> QED
  BY <1>1, <1>2, <1>3, <1>4, <1>5, <1>6, <1>7, <1>8 DEF IdentityMoves

\* Nothing else touches the compliance registry, and later its data is no worse.
LEMMA ComplianceInvStep == ComplianceInv /\ [RegistriesNext]_registriesVars => ComplianceInv'
<1> SUFFICES ASSUME ComplianceInv, [RegistriesNext]_registriesVars PROVE ComplianceInv'
  OBVIOUS
<1>1. ASSUME UNCHANGED <<complianceVars, passed>>, block' \in Nat
      PROVE  ComplianceInv'
  BY <1>1 DEF ComplianceInv, complianceVars
<1>2. CASE RegistryMoves
  BY <1>1, <1>2, MovesKeepTime DEF ComplianceInv, RegistryMoves
<1>3. CASE ComplianceMoves
  BY <1>3, ComplianceMovesKeep
<1>4. CASE IdentityMoves
  BY <1>1, <1>4, MovesKeepTime DEF ComplianceInv, IdentityMoves
<1>5. CASE BlockMoves
  BY <1>1, <1>5 DEF ComplianceInv, BlockMoves, NextBlock, ledgers
<1>6. CASE UNCHANGED registriesVars
  BY <1>1, <1>6 DEF ComplianceInv, registriesVars, ledgers
<1> QED
  BY <1>2, <1>3, <1>4, <1>5, <1>6 DEF RegistriesNext

\* Every standing is backed by checks in every reachable state.
LEMMA ComplianceInvAlways == RegistriesSpec => []ComplianceInv
  BY ComplianceInvInit, ComplianceInvStep, PTL DEF RegistriesSpec

----
\* Titles

TitleInv == properties \in Seq(Property)

\* Every property that is there keeps its owner, and none is added.
OwnersStay ==
    /\ Len(properties') = Len(properties)
    /\ \A id \in DOMAIN properties : properties'[id].owner = properties[id].owner

\* New owners are one account, of which the compliance registry has been asked.
OwnerVetted ==
    \E to \in Accounts :
        /\ ComplianceChecked(to)
        /\ \A id \in DOMAIN properties' :
              (id \in DOMAIN properties => properties'[id].owner # properties[id].owner) => properties'[id].owner = to

\* Properties that are the same, but for their valuations.
SameTitles(all) ==
    all \in Seq(Property) /\ Len(all) = Len(properties) /\ \A id \in DOMAIN properties : all[id].owner = properties[id].owner

\* Writing one valuation of a list that has the same owners.
LEMMA OneValuation ==
    ASSUME TitleInv, NEW all, SameTitles(all), NEW id \in DOMAIN properties, NEW v \in Nat
    PROVE  SameTitles([all EXCEPT ![id].valuation = v])
<1>1. all \in Seq(Property) /\ id \in DOMAIN all
  BY DEF SameTitles, TitleInv
<1>2. all[id] \in Property
  BY <1>1
<1>3. [all[id] EXCEPT !.valuation = v] \in Property /\ [all[id] EXCEPT !.valuation = v].owner = all[id].owner
  BY <1>2 DEF Property
<1> DEFINE new == [all[id] EXCEPT !.valuation = v]
<1>4. [all EXCEPT ![id].valuation = v] = [all EXCEPT ![id] = new]
  OBVIOUS
<1> HIDE DEF new
<1>5. [all EXCEPT ![id] = new] \in Seq(Property) /\ Len([all EXCEPT ![id] = new]) = Len(all)
  BY <1>1, <1>3 DEF new
<1>6. \A k \in DOMAIN properties : [all EXCEPT ![id] = new][k].owner = properties[k].owner
  BY <1>1, <1>3 DEF SameTitles, TitleInv, new
<1> QED
  BY <1>4, <1>5, <1>6 DEF SameTitles

\* An item of a batch of metadata writes at most a valuation (batch_update_metadata).
LEMMA MetadataKeepsOwners ==
    ASSUME TitleInv, NEW caller, NEW p, p = [all |-> p.all, failed |-> p.failed], SameTitles(p.all),
           NEW u, u.valuation \in Nat
    PROVE  LET q == MetadataNext(caller, p, u)
           IN  q = [all |-> q.all, failed |-> q.failed] /\ SameTitles(q.all)
<1> DEFINE q == MetadataNext(caller, p, u)
<1>1. CASE q = p
  BY <1>1
<1>2. CASE q = [p EXCEPT !.failed = @ + 1]
  BY <1>2
<1>3. CASE u.id \in propertyIds /\ q = [p EXCEPT !.all[u.id].valuation = u.valuation]
  BY <1>3, OneValuation DEF propertyIds
<1> QED
  BY <1>1, <1>2, <1>3 DEF MetadataNext

\* A batch of two writes the second on what the first has left, of one title too
\* (batch_update_metadata).
LEMMA MetadataBatchIs ==
    ASSUME NEW caller, NEW u, NEW v, BatchUpdateMetadata(caller, <<u, v>>)
    PROVE  properties' = MetadataNext(caller, MetadataNext(caller, [all |-> properties, failed |-> 0], u), v).all
<1> DEFINE list == <<u, v>>
           start == [all |-> properties, failed |-> 0]
           body(f) == [i \in 0..Len(list) |-> IF i = 0 THEN start ELSE MetadataNext(caller, f[i - 1], list[i])]
           o == CHOOSE f : f = body(f)
           x1 == MetadataNext(caller, start, u)
           x2 == MetadataNext(caller, x1, v)
           w == [i \in 0..2 |-> IF i = 0 THEN start ELSE IF i = 1 THEN x1 ELSE x2]
<1>1. properties' = o[Len(list)].all
  BY DEF BatchUpdateMetadata, SetProperties
<1>2. Len(list) = 2 /\ list[1] = u /\ list[2] = v
  OBVIOUS
<1>3. w[0] = start /\ w[1] = x1 /\ w[2] = x2
  OBVIOUS
<1>4. body(w) = w
  BY <1>2, <1>3
<1>5. o = body(o)
  BY <1>4
<1> HIDE DEF o
<1>6. o[0] = start
  BY <1>2, <1>5
<1>7. o[1] = x1
  BY <1>2, <1>5, <1>6
<1>8. o[2] = x2
  BY <1>2, <1>5, <1>7
<1> QED
  BY <1>1, <1>2, <1>8

\* Registering asks about the caller, who owns what it registers (register_property).
LEMMA RegisteredVets ==
    ASSUME TitleInv, NEW caller \in Accounts, NEW values \in Seq(Nat), Registered(caller, values)
    PROVE  TitleInv' /\ OwnerVetted
<1> DEFINE new == [i \in DOMAIN values |-> [owner |-> caller, valuation |-> values[i]]]
<1>1. properties' = properties \o new /\ ComplianceChecked(caller)
  BY DEF Registered
<1>2. new \in Seq(Property)
  <2>1. \A i \in DOMAIN values : new[i] \in Property
    BY DEF Property
  <2>2. DOMAIN values = 1..Len(values) /\ Len(values) \in Nat
    OBVIOUS
  <2> HIDE DEF new
  <2>3. new \in [1..Len(values) -> Property]
    BY <2>1, <2>2 DEF new
  <2> QED
    BY <2>2, <2>3
<1>3. \A i \in DOMAIN new : new[i].owner = caller
  OBVIOUS
<1> HIDE DEF new
<1>4. TitleInv'
  BY <1>1, <1>2 DEF TitleInv
<1>5. \A id \in DOMAIN properties' :
         (id \in DOMAIN properties => properties'[id].owner # properties[id].owner) => properties'[id].owner = caller
  <2> SUFFICES ASSUME NEW id \in DOMAIN properties', id \in DOMAIN properties => properties'[id].owner # properties[id].owner
               PROVE  properties'[id].owner = caller
    OBVIOUS
  <2>1. properties \in Seq(Property)
    BY DEF TitleInv
  <2>2. id \in 1..(Len(properties) + Len(new)) /\ Len(properties) \in Nat /\ Len(new) \in Nat
    BY <1>1, <1>2, <2>1
  <2>3. CASE id <= Len(properties)
    BY <1>2, <2>1, <2>2, <2>3, <1>1
  <2>4. CASE id > Len(properties)
    BY <1>2, <2>1, <2>2, <2>4, <1>1, <1>3
  <2> QED
    BY <2>2, <2>3, <2>4
<1> QED
  BY <1>1, <1>4, <1>5 DEF OwnerVetted

\* A transfer asks about the new owner (transfer_property).
LEMMA TransferVets ==
    ASSUME TitleInv, NEW caller \in Accounts, NEW id \in propertyIds, NEW to \in Accounts, TransferProperty(caller, id, to)
    PROVE  TitleInv' /\ OwnerVetted
<1>1. properties' = [properties EXCEPT ![id].owner = to] /\ ComplianceChecked(to)
  BY DEF TransferProperty
<1> DEFINE new == [properties[id] EXCEPT !.owner = to]
<1>2. properties[id] \in Property
  BY DEF TitleInv, propertyIds
<1>3. new \in Property /\ new.owner = to
  BY <1>2 DEF Property
<1>4. properties' = [properties EXCEPT ![id] = new]
  BY <1>1
<1> HIDE DEF new
<1>a. properties \in Seq(Property) /\ id \in DOMAIN properties
  BY DEF TitleInv, propertyIds
<1>5. properties' \in Seq(Property) /\ DOMAIN properties' = DOMAIN properties
  BY <1>3, <1>4, <1>a
<1>b. TitleInv'
  BY <1>5 DEF TitleInv
<1>6. \A k \in DOMAIN properties : properties'[k] = IF k = id THEN new ELSE properties[k]
  BY <1>4
<1> QED
  BY <1>1, <1>3, <1>5, <1>6, <1>b DEF OwnerVetted

\* Batch transfers keep the list of properties one of properties.
LEMMA BatchTransferKeeps == ASSUME TitleInv, BatchTransferNext PROVE TitleInv'
<1>0. properties \in Seq(Property) /\ propertyIds = 1..Len(properties) /\ Len(properties) \in Nat
      /\ \A k \in propertyIds : properties[k] \in Property
  BY DEF TitleInv, propertyIds
<1>a. \A k \in propertyIds, to \in Accounts : [properties[k] EXCEPT !.owner = to] \in Property
  BY <1>0 DEF Property
<1>b. ASSUME NEW f, f \in [propertyIds -> Property], properties' = f PROVE TitleInv'
  BY <1>0, <1>b DEF TitleInv
<1>1. ASSUME NEW caller, NEW i \in propertyIds, NEW j \in propertyIds, NEW to \in Accounts,
             BatchTransferProperties(caller, <<i, j>>, to)
      PROVE  TitleInv'
  <2> DEFINE f == [k \in propertyIds |->
               IF k \in Range(<<i, j>>) THEN [properties[k] EXCEPT !.owner = to] ELSE properties[k]]
  <2>1. properties' = f
    BY <1>1, Zenon DEF BatchTransferProperties
  <2>2. f \in [propertyIds -> Property]
    BY <1>0, <1>a, Zenon
  <2> HIDE DEF f
  <2> QED
    BY <1>b, <2>1, <2>2
<1>2. ASSUME NEW caller, NEW i \in propertyIds, NEW j \in propertyIds, NEW a \in Accounts, NEW b \in Accounts,
             BatchTransferPropertiesToMultiple(caller, <<[id |-> i, to |-> a], [id |-> j, to |-> b]>>)
      PROVE  TitleInv'
  <2> DEFINE transfers == <<[id |-> i, to |-> a], [id |-> j, to |-> b]>>
             ids == {transfers[n].id : n \in DOMAIN transfers}
             last(k) == CHOOSE n \in DOMAIN transfers :
                            transfers[n].id = k /\ \A m \in DOMAIN transfers : transfers[m].id = k => m <= n
             f == [k \in propertyIds |->
               IF k \in ids THEN [properties[k] EXCEPT !.owner = transfers[last(k)].to] ELSE properties[k]]
  <2>1. properties' = f
    BY <1>2, Zenon DEF BatchTransferPropertiesToMultiple
  <2>2. ASSUME NEW k \in ids PROVE transfers[last(k)].to \in Accounts
    BY <2>2
  <2>3. f \in [propertyIds -> Property]
    <3> HIDE DEF ids, last, transfers
    <3> SUFFICES ASSUME NEW k \in propertyIds
                 PROVE  (IF k \in ids THEN [properties[k] EXCEPT !.owner = transfers[last(k)].to] ELSE properties[k]) \in Property
      BY Zenon
    <3> QED
      BY <1>0, <1>a, <2>2
  <2> HIDE DEF f
  <2> QED
    BY <1>b, <2>1, <2>3
<1> QED
  BY <1>1, <1>2, Zenon DEF BatchTransferNext

\* The messages that write no title.
LEMMA TitlesFrame ==
    /\ PauseNext \/ AuthorityNext \/ LinkNext => UNCHANGED <<titleVars, escrows, badgeVars>>
    /\ EscrowNext \/ BadgeNext => UNCHANGED titleVars
    /\ (EscrowNext /\ pause.paused) => FALSE
    /\ (BadgeNext /\ pause.paused) => UNCHANGED <<escrows, badges, badgeRequests, appeals>>
<1>1. PauseNext => UNCHANGED <<titleVars, escrows, badgeVars>>
  BY DEF PauseNext, PauseContract, EmergencyPause, ForceEmergencyStop, RequestResume, ApproveResume,
         SetPauseGuardian, TryAutoResume, SetPause
<1>2. AuthorityNext => UNCHANGED <<titleVars, escrows, badgeVars>>
  BY DEF AuthorityNext, ChangeAdmin, GrantRole, RevokeRole
<1>3. LinkNext => UNCHANGED <<titleVars, escrows, badgeVars>>
  BY DEF LinkNext, SetOracle, SetFeeManager, SetComplianceRegistry, SetIdentityRegistry, SetService,
         RegisterService, UnregisterService, SetLinks, TripBreaker, ResetBreaker, SetBreakers,
         ConfigureBreaker, SetMinReputationThreshold
<1>4. EscrowNext => UNCHANGED titleVars /\ ~pause.paused
  BY DEF EscrowNext, CreateEscrow, RefundEscrow, SetEscrows
<1>5. BadgeNext => UNCHANGED <<titleVars, escrows>> /\ (pause.paused => UNCHANGED <<badges, badgeRequests, appeals>>)
  BY DEF BadgeNext, SetVerifier, IssueBadge, RevokeBadge, RequestVerification, SubmitAppeal,
         ReviewVerification, ResolveAppeal, SetBadges
<1> QED
  BY <1>1, <1>2, <1>3, <1>4, <1>5

\* A list of properties with the same owners is again one.
LEMMA SameTitlesStay ==
    ASSUME TitleInv, SameTitles(properties') PROVE TitleInv' /\ OwnersStay
  BY DEF TitleInv, SameTitles, OwnersStay

\* Every message of the property registry keeps the invariant of titles; outside the
\* batch transfers a new owner is vetted, and under a pause nothing of a title moves.
LEMMA TitlesStep ==
    ASSUME TitleInv, RegistryMoves
    PROVE  /\ TitleInv'
           /\ OwnersStay \/ BatchTransferNext \/ OwnerVetted
           /\ pause.paused => OwnersStay /\ UNCHANGED <<ownerProperties, approvals, escrows, badges, badgeRequests, appeals>>
<1> DEFINE frozen == UNCHANGED <<ownerProperties, approvals, escrows, badges, badgeRequests, appeals>>
           goal == /\ TitleInv'
                   /\ OwnersStay \/ BatchTransferNext \/ OwnerVetted
                   /\ pause.paused => OwnersStay /\ frozen
<1>a. ValuationArgs \subseteq Nat
  BY RegistryConstants
<1>b. SameTitles(properties)
  BY DEF SameTitles, TitleInv
<1>c. UNCHANGED properties => TitleInv' /\ OwnersStay
  BY <1>b, SameTitlesStay
<1>d. ASSUME NEW id \in propertyIds, NEW v \in Nat, properties' = [properties EXCEPT ![id].valuation = v]
      PROVE  TitleInv' /\ OwnersStay
  <2>1. SameTitles([properties EXCEPT ![id].valuation = v])
    BY <1>b, OneValuation DEF propertyIds
  <2> QED
    BY <1>d, <2>1, SameTitlesStay
<1>1. ASSUME PauseNext \/ AuthorityNext \/ LinkNext \/ EscrowNext \/ BadgeNext PROVE goal
  BY <1>1, <1>c, TitlesFrame DEF titleVars, badgeVars
<1>2. ASSUME NEW caller \in Accounts, NEW v \in ValuationArgs, RegisterProperty(caller, v) PROVE goal
  <2>1. <<v>> \in Seq(Nat) /\ Registered(caller, <<v>>) /\ ~pause.paused
    BY <1>2, <1>a DEF RegisterProperty
  <2> QED
    BY <2>1, RegisteredVets
<1>3. ASSUME NEW caller \in Accounts, NEW id \in propertyIds, NEW to \in Accounts, TransferProperty(caller, id, to) PROVE goal
  <2>1. ~pause.paused
    BY <1>3 DEF TransferProperty
  <2> QED
    BY <1>3, <2>1, TransferVets
<1>4. ASSUME NEW caller \in Accounts, NEW id \in propertyIds, NEW v \in ValuationArgs, UpdateMetadata(caller, id, v) PROVE goal
  <2>1. ~pause.paused /\ properties' = [properties EXCEPT ![id].valuation = v]
    BY <1>4 DEF UpdateMetadata, SetProperties
  <2> QED
    BY <1>a, <1>d, <2>1
<1>5. ASSUME NEW caller, NEW id, NEW to, Approve(caller, id, to) \/ EnableFractional(caller, id) PROVE goal
  BY <1>5, <1>c DEF Approve, EnableFractional, titleVars, badgeVars
<1>6. ASSUME OracleValuationNext PROVE goal
  <2>1. PICK id \in propertyIds, v \in ValuationArgs : UpdateValuationFromOracle(id, v)
    BY <1>6 DEF OracleValuationNext
  <2>2. properties' = [properties EXCEPT ![id].valuation = v] /\ frozen
    BY <2>1 DEF UpdateValuationFromOracle, badgeVars
  <2>3. v \in Nat
    BY <1>a
  <2> QED
    BY <1>d, <2>2, <2>3
<1>7. ASSUME BatchTransferNext PROVE goal
  <2>a. \A caller, ids, to : BatchTransferProperties(caller, ids, to) => ~pause.paused
    BY Zenon DEF BatchTransferProperties
  <2>b. \A caller, transfers : BatchTransferPropertiesToMultiple(caller, transfers) => ~pause.paused
    BY Zenon DEF BatchTransferPropertiesToMultiple
  <2>1. ~pause.paused
    BY <1>7, <2>a, <2>b, Zenon DEF BatchTransferNext
  <2> QED
    BY <1>7, <2>1, BatchTransferKeeps
<1>8. ASSUME NEW caller \in Accounts, NEW v \in ValuationArgs, NEW w \in ValuationArgs, BatchRegisterProperties(caller, <<v, w>>)
      PROVE  goal
  <2>1. <<v, w>> \in Seq(Nat) /\ Registered(caller, <<v, w>>) /\ ~pause.paused
    BY <1>8, <1>a DEF BatchRegisterProperties
  <2> QED
    BY <2>1, RegisteredVets
<1>9. ASSUME NEW caller, NEW i, NEW j, NEW v \in ValuationArgs, NEW w \in ValuationArgs,
             BatchUpdateMetadata(caller, <<[id |-> i, valuation |-> v], [id |-> j, valuation |-> w]>>)
      PROVE  goal
  <2> DEFINE start == [all |-> properties, failed |-> 0]
             one == MetadataNext(caller, start, [id |-> i, valuation |-> v])
             two == MetadataNext(caller, one, [id |-> j, valuation |-> w])
  <2>1. properties' = two.all
    BY <1>9, MetadataBatchIs
  <2>2. ~pause.paused
    BY <1>9, Zenon DEF BatchUpdateMetadata
  <2>3. one = [all |-> one.all, failed |-> one.failed] /\ SameTitles(one.all)
    BY <1>b, <1>a, MetadataKeepsOwners
  <2>4. SameTitles(two.all)
    BY <1>a, <2>3, MetadataKeepsOwners
  <2> HIDE DEF two
  <2> QED
    BY <2>1, <2>2, <2>4, SameTitlesStay
<1>10. ASSUME NEW caller, NEW size, NEW failures, UpdateBatchConfig(caller, size, failures) PROVE goal
  BY <1>10, <1>c DEF UpdateBatchConfig, titleVars, badgeVars
<1> HIDE DEF goal
<1>11. TitleNext => goal
  BY <1>2, <1>3, <1>4, <1>5 DEF TitleNext
<1>12. BatchNext => goal
  BY <1>7, <1>8, <1>9, <1>10, Zenon DEF BatchNext
<1>14. RegistryMoves
  OBVIOUS
<1>13. goal
  BY <1>1, <1>6, <1>11, <1>12, <1>14, Zenon DEF RegistryMoves
<1> QED
  BY <1>13 DEF goal

\* The constructor establishes the invariant of titles.
LEMMA TitleInvInit == RegistriesInit => TitleInv
  BY DEF RegistriesInit, RegistryInit, TitleInv

\* Only the registry's own messages write a title.
LEMMA TitlesStay ==
    ASSUME ComplianceMoves \/ IdentityMoves \/ BlockMoves \/ UNCHANGED registriesVars
    PROVE  UNCHANGED registryVars
  BY DEF ComplianceMoves, IdentityMoves, BlockMoves, registriesVars

\* The invariant of titles is inductive, and owners change only by the property
\* registry's own messages.
LEMMA TitleInvStep ==
    ASSUME TitleInv, [RegistriesNext]_registriesVars
    PROVE  /\ TitleInv'
           /\ RegistryMoves \/ (UNCHANGED registryVars /\ OwnersStay)
<1>1. CASE RegistryMoves
  BY <1>1, TitlesStep
<1>2. CASE ComplianceMoves \/ IdentityMoves \/ BlockMoves \/ UNCHANGED registriesVars
  BY <1>2, TitlesStay DEF registryVars, titleVars, TitleInv, OwnersStay
<1> QED
  BY <1>1, <1>2 DEF RegistriesNext

\* The invariant of titles holds in every reachable state.
LEMMA TitleInvAlways == RegistriesSpec => []TitleInv
<1>1. TitleInv /\ [RegistriesNext]_registriesVars => TitleInv'
  BY TitleInvStep
<1> QED
  BY <1>1, TitleInvInit, PTL DEF RegistriesSpec

\* While the pause holds, owners stay; otherwise new ones have earned their compliance.
VettedStep ==
    ("ComplianceRegistry" \in linked /\ ~BatchTransferNext) =>
        \A id \in DOMAIN properties' :
            (id \in DOMAIN properties => properties'[id].owner # properties[id].owner) =>
                /\ Earned(properties'[id].owner)
                /\ block >= breakers["ComplianceRegistry"]
FrozenStep ==
    pause.paused =>
        /\ [i \in DOMAIN properties' |-> properties'[i].owner] = [i \in DOMAIN properties |-> properties[i].owner]
        /\ UNCHANGED <<ownerProperties, approvals, escrows, badges, badgeRequests, appeals>>

\* Every step that moves a title moves it to a vetted account, and none does so under
\* a pause.
LEMMA MovesByRight ==
    ASSUME TitleInv, ComplianceInv, [RegistriesNext]_registriesVars
    PROVE  VettedStep /\ FrozenStep
<1>1. OwnersStay => VettedStep /\ DOMAIN properties' = DOMAIN properties
  BY TitleInvStep DEF TitleInv, OwnersStay, VettedStep
<1>2. BatchTransferNext => VettedStep
  BY DEF VettedStep
<1>3. OwnerVetted => VettedStep
  BY RegistryConstants, ComplianceInvImplies DEF VettedStep, OwnerVetted, ComplianceChecked, Available,
     ComplianceIsEarned
<1>4. /\ OwnersStay \/ BatchTransferNext \/ OwnerVetted
      /\ pause.paused => OwnersStay /\ UNCHANGED <<ownerProperties, approvals, escrows, badges, badgeRequests, appeals>>
  BY TitlesStep, TitleInvStep DEF registryVars, titleVars, badgeVars
<1>5. VettedStep
  BY <1>1, <1>2, <1>3, <1>4
<1>6. FrozenStep
  BY <1>1, <1>4 DEF FrozenStep, OwnersStay
<1> QED
  BY <1>5, <1>6

\* With a compliance registry set, a title goes only to an account whose standing
\* was earned, and not while the breaker is open; two batch transfers, which do not
\* ask, apart. And no title, approval, escrow or badge changes while the registry is
\* paused, whichever message asks (transfer_property, register_property,
\* ensure_not_paused).
THEOREM TitlesAreMovedByRight == RegistriesSpec => TitlesMoveByRight
<1>1. TitleInv /\ ComplianceInv /\ [RegistriesNext]_registriesVars => [VettedStep]_registriesVars /\ [FrozenStep]_registryVars
  BY MovesByRight
<1>2. RegistriesSpec => [][VettedStep]_registriesVars /\ [][FrozenStep]_registryVars
  BY <1>1, TitleInvAlways, ComplianceInvAlways, PTL DEF RegistriesSpec
<1> QED
  BY <1>2, PTL DEF TitlesMoveByRight, TitlesAreVetted, PauseFreezesTitles, VettedStep, FrozenStep

----
\* Identities

\* Approvals of a recovery are of those who have vouched for it.
GoodIdentity(d, v) == d \in Identity /\ d.approvals \subseteq v
GoodMetrics(m) == m \in IdentityMetrics /\ m.successful <= m.total

PeopleInv ==
    /\ DOMAIN identities \subseteq Persons /\ IsFiniteSet(DOMAIN identities)
    /\ vouched \in [Persons -> SUBSET Persons] /\ \A a \in Persons : IsFiniteSet(vouched[a])
    /\ \A a \in DOMAIN identities : GoodIdentity(identities[a], vouched[a])
    /\ \A a \in DOMAIN metrics : GoodMetrics(metrics[a])

NobodyLeaves == DOMAIN identities \subseteq DOMAIN identities'

\* A message about one identity that keeps it good.
LEMMA IdentityRewritten ==
    ASSUME PeopleInv, NEW a \in DOMAIN identities, NEW d, GoodIdentity(d, vouched[a]),
           identities' = [identities EXCEPT ![a] = d], UNCHANGED <<vouched, metrics>>
    PROVE  PeopleInv' /\ NobodyLeaves
  BY DEF PeopleInv, NobodyLeaves

\* No message, and only block production, that touches none of these.
LEMMA PeopleStay ==
    ASSUME PeopleInv, UNCHANGED <<identities, metrics, vouched>> PROVE PeopleInv' /\ NobodyLeaves
  BY DEF PeopleInv, NobodyLeaves

\* What verifying, revoking and the like write into an identity.
LEMMA WritesAreGood ==
    ASSUME NEW v, NEW d, GoodIdentity(d, v)
    PROVE  /\ \A level \in 0..4 : GoodIdentity([d EXCEPT !.verified = TRUE, !.level = level, !.trust = Trust[level + 1]], v)
           /\ GoodIdentity(Revoked(d), v)
           /\ \A n \in Nat : GoodIdentity([d EXCEPT !.reputation = n], v)
           /\ \A tier \in 0..4 : GoodIdentity([d EXCEPT !.tier = tier, !.level = tier, !.verified = TRUE], v)
           /\ \A some \in SUBSET Persons, n \in Nat : GoodIdentity([d EXCEPT !.guardians = some, !.threshold = n], v)
<1>0. d \in Identity /\ d.approvals \subseteq v
  BY DEF GoodIdentity
<1>1. ASSUME NEW level \in 0..4
      PROVE  GoodIdentity([d EXCEPT !.verified = TRUE, !.level = level, !.trust = Trust[level + 1]], v)
  <2>1. Trust[level + 1] \in 0..100
    BY DEF Trust
  <2> DEFINE t == Trust[level + 1]
  <2> HIDE DEF t
  <2>2. [d EXCEPT !.verified = TRUE, !.level = level, !.trust = t] \in Identity
    BY <1>0, <2>1 DEF Identity, t
  <2>3. [d EXCEPT !.verified = TRUE, !.level = level, !.trust = t].approvals = d.approvals
    BY <1>0 DEF Identity
  <2> QED
    BY <1>0, <2>2, <2>3 DEF GoodIdentity, t
<1>2. GoodIdentity(Revoked(d), v)
  <2>a. 0 \in 0..4 /\ 0 \in 0..100
    OBVIOUS
  <2>b. Revoked(d) = [[[d EXCEPT !.verified = FALSE] EXCEPT !.level = 0] EXCEPT !.trust = 0]
    BY DEF Revoked
  <2>c. [d EXCEPT !.verified = FALSE] \in Identity
    BY <1>0 DEF Identity
  <2>d. \A x \in Identity : [x EXCEPT !.level = 0] \in Identity
    BY <2>a DEF Identity
  <2>e. \A x \in Identity : [x EXCEPT !.trust = 0] \in Identity
    BY <2>a DEF Identity
  <2>1. Revoked(d) \in Identity
    BY <2>b, <2>c, <2>d, <2>e
  <2>2. Revoked(d).approvals = d.approvals
    BY <1>0 DEF Revoked, Identity
  <2> QED
    BY <1>0, <2>1, <2>2 DEF GoodIdentity
<1>3. \A n \in Nat : GoodIdentity([d EXCEPT !.reputation = n], v)
  BY <1>0 DEF GoodIdentity, Identity
<1>4. \A tier \in 0..4 : GoodIdentity([d EXCEPT !.tier = tier, !.level = tier, !.verified = TRUE], v)
  BY <1>0 DEF GoodIdentity, Identity
<1>5. \A some \in SUBSET Persons, n \in Nat : GoodIdentity([d EXCEPT !.guardians = some, !.threshold = n], v)
  BY <1>0 DEF GoodIdentity, Identity
<1> QED
  BY <1>1, <1>2, <1>3, <1>4, <1>5

\* A transaction keeps the score in its range and counts a success at most once.
LEMMA MetricsAreGood ==
    ASSUME NEW m, GoodMetrics(m), NEW ok \in BOOLEAN, NEW value \in Nat
    PROVE  GoodMetrics(NextMetrics(m, ok, value)) /\ NextMetrics(m, ok, value).score \in Nat
  BY SMTT(30) DEF GoodMetrics, NextMetrics, IdentityMetrics

\* Identities and metrics on their way through a report of two transactions.
GoodBooks(books) ==
    /\ DOMAIN books.identities = DOMAIN identities
    /\ \A a \in DOMAIN identities : GoodIdentity(books.identities[a], vouched[a])
    /\ \A a \in DOMAIN books.metrics : GoodMetrics(books.metrics[a])

\* One report on an account keeps reputations and identities well formed
\* (update_reputation).
LEMMA ReputedKeeps ==
    ASSUME NEW books, GoodBooks(books), NEW a, NEW ok \in BOOLEAN, NEW value \in Nat
    PROVE  GoodBooks(Reputed(books, a, ok, value))
<1> DEFINE old == IF a \in DOMAIN books.metrics THEN books.metrics[a] ELSE NoTransactions
           new == NextMetrics(old, ok, value)
           after == Reputed(books, a, ok, value)
<1>1. GoodMetrics(NoTransactions)
  BY DEF GoodMetrics, NoTransactions, IdentityMetrics
<1>2. GoodMetrics(old)
  BY <1>1 DEF GoodBooks
<1> HIDE DEF old
<1>3. GoodMetrics(new) /\ new.score \in Nat
  BY <1>2, MetricsAreGood
<1>4. /\ after.metrics = With(books.metrics, a, new)
      /\ after.identities = IF a \in DOMAIN books.identities
                            THEN [books.identities EXCEPT ![a].reputation = new.score] ELSE books.identities
  BY DEF Reputed, old
<1> HIDE DEF new, after
<1>5. \A b \in DOMAIN after.metrics : GoodMetrics(after.metrics[b])
  BY <1>3, <1>4 DEF With, GoodBooks
<1>6. DOMAIN after.identities = DOMAIN identities
  BY <1>4 DEF GoodBooks
<1>7. \A b \in DOMAIN identities : GoodIdentity(after.identities[b], vouched[b])
  <2> SUFFICES ASSUME NEW b \in DOMAIN identities PROVE GoodIdentity(after.identities[b], vouched[b])
    OBVIOUS
  <2>1. GoodIdentity(books.identities[b], vouched[b]) /\ b \in DOMAIN books.identities
    BY DEF GoodBooks
  <2>2. GoodIdentity([books.identities[b] EXCEPT !.reputation = new.score], vouched[b])
    BY <1>3, <2>1, WritesAreGood
  <2>3. after.identities[b] = books.identities[b] \/ after.identities[b] = [books.identities[b] EXCEPT !.reputation = new.score]
    BY <1>4, <2>1
  <2> QED
    BY <2>1, <2>2, <2>3
<1> QED
  BY <1>5, <1>6, <1>7 DEF GoodBooks, after

\* A step that writes only such reports lets no identity leave.
LEMMA BooksWritten ==
    ASSUME PeopleInv, NEW books, GoodBooks(books), metrics' = books.metrics, identities' = books.identities, UNCHANGED vouched
    PROVE  PeopleInv' /\ NobodyLeaves
  BY DEF PeopleInv, GoodBooks, NobodyLeaves

\* A report of a transfer adds a transaction to each side, with the valuation for
\* its value (update_identity_reputation).
LEMMA ReportKeeps ==
    ASSUME PeopleInv, NEW from, NEW to, NEW value \in Nat, ReportTransfer(from, to, value), UNCHANGED vouched
    PROVE  PeopleInv' /\ NobodyLeaves
<1>1. CASE UNCHANGED identityVars
  BY <1>1, PeopleStay DEF identityVars
<1>2. CASE ~UNCHANGED identityVars
  <2> DEFINE books == [metrics |-> metrics, identities |-> identities]
             one == Reputed(books, from, TRUE, value)
             both == Reputed(one, to, TRUE, value)
  <2>1. metrics' = both.metrics /\ identities' = both.identities
    BY <1>2 DEF ReportTransfer
  <2>2. GoodBooks(books)
    BY DEF GoodBooks, PeopleInv
  <2>3. GoodBooks(one)
    <3> HIDE DEF books
    <3> QED
      BY <2>2, ReputedKeeps
  <2>4. GoodBooks(both)
    <3> HIDE DEF one
    <3> QED
      BY <2>3, ReputedKeeps
  <2> HIDE DEF both
  <2> QED
    BY <2>1, <2>4, BooksWritten
<1> QED
  BY <1>1, <1>2

\* The property registry's messages, which report transfers, let no identity leave.
LEMMA RegistryKeepsPeople ==
    ASSUME PeopleInv, TitleInv, RegistryMoves
    PROVE  PeopleInv' /\ NobodyLeaves
<1>1. UNCHANGED vouched
  BY DEF RegistryMoves, NoCause
<1>2. UNCHANGED identityVars \/ \E id \in propertyIds : \E from, to : ReportTransfer(from, to, properties[id].valuation)
  <2>1. TitleNext => UNCHANGED identityVars \/ \E id \in propertyIds : \E from, to : ReportTransfer(from, to, properties[id].valuation)
    <3>1. \A caller, id, to : TransferProperty(caller, id, to) => ReportTransfer(properties[id].owner, to, properties[id].valuation)
      BY Zenon DEF TransferProperty
    <3> QED
      BY <3>1, Zenon DEF TitleNext
  <2> QED
    BY <2>1, Zenon DEF RegistryMoves
<1>3. CASE UNCHANGED identityVars
  BY <1>1, <1>3, PeopleStay DEF identityVars
<1>4. ASSUME NEW from, NEW to, NEW id \in propertyIds, ReportTransfer(from, to, properties[id].valuation)
      PROVE  PeopleInv' /\ NobodyLeaves
  <2>1. properties[id].valuation \in Nat
    <3>1. properties \in Seq(Property) /\ id \in DOMAIN properties
      BY DEF TitleInv, propertyIds
    <3>2. properties[id] \in Property
      BY <3>1
    <3> QED
      BY <3>2 DEF Property
  <2> QED
    BY <1>1, <1>4, <2>1, ReportKeeps
<1> QED
  BY <1>2, <1>3, <1>4, Zenon

\* Creating, verifying, revoking and the like make nobody leave.
LEMMA ReputationKeepsPeople ==
    ASSUME PeopleInv, ReputationNext, UNCHANGED vouched
    PROVE  PeopleInv' /\ NobodyLeaves
<1>0. \A a \in DOMAIN identities : a \in Persons /\ GoodIdentity(identities[a], vouched[a])
  BY DEF PeopleInv
<1>1. ASSUME NEW caller \in Persons, NEW private \in BOOLEAN, CreateIdentity(caller, private)
      PROVE  PeopleInv' /\ NobodyLeaves
  <2> DEFINE d == [verified |-> FALSE, level |-> 0, tier |-> 0, trust |-> 50, reputation |-> 500, guardians |-> {},
                   threshold |-> 3, active |-> FALSE, approvals |-> {}, private |-> private]
  <2>1. identities' = With(identities, caller, d) /\ metrics' = With(metrics, caller, NoTransactions)
    BY <1>1 DEF CreateIdentity
  <2>2. d \in Identity /\ d.approvals = {}
    BY DEF Identity
  <2> HIDE DEF d
  <2>3. GoodIdentity(d, vouched[caller])
    BY <2>2 DEF GoodIdentity
  <2>4. GoodMetrics(NoTransactions)
    BY DEF GoodMetrics, NoTransactions, IdentityMetrics
  <2>5. DOMAIN identities' = DOMAIN identities \cup {caller}
    BY <2>1 DEF With
  <2>6. IsFiniteSet(DOMAIN identities \cup {caller})
    BY FS_AddElement DEF PeopleInv
  <2>7. \A a \in DOMAIN identities' : GoodIdentity(identities'[a], vouched[a])
    BY <1>0, <2>1, <2>3 DEF With
  <2>8. \A a \in DOMAIN metrics' : GoodMetrics(metrics'[a])
    BY <2>1, <2>4 DEF With, PeopleInv
  <2> QED
    BY <2>5, <2>6, <2>7, <2>8 DEF PeopleInv, NobodyLeaves
<1>2. ASSUME NEW caller, NEW a, NEW level \in 0..4, VerifyIdentity(caller, a, level)
      PROVE  PeopleInv' /\ NobodyLeaves
  <2> DEFINE d == [identities[a] EXCEPT !.verified = TRUE, !.level = level, !.trust = Trust[level + 1]]
  <2>1. a \in DOMAIN identities /\ identities' = [identities EXCEPT ![a] = d] /\ UNCHANGED metrics
    BY <1>2 DEF VerifyIdentity
  <2>2. GoodIdentity(d, vouched[a])
    BY <1>0, <2>1, WritesAreGood
  <2> HIDE DEF d
  <2> QED
    BY <2>1, <2>2, IdentityRewritten
<1>3. ASSUME NEW a, Revoke(a)
      PROVE  PeopleInv' /\ NobodyLeaves
  <2>1. a \in DOMAIN identities /\ identities' = [identities EXCEPT ![a] = Revoked(identities[a])] /\ UNCHANGED metrics
    BY <1>3 DEF Revoke
  <2>2. GoodIdentity(Revoked(identities[a]), vouched[a])
    BY <1>0, <2>1, WritesAreGood
  <2> QED
    BY <2>1, <2>2, IdentityRewritten
<1>4. ASSUME NEW caller, NEW a, NEW ok \in BOOLEAN, NEW value \in IdentityValueArgs, UpdateReputation(caller, a, ok, value)
      PROVE  PeopleInv' /\ NobodyLeaves
  <2> DEFINE books == [metrics |-> metrics, identities |-> identities]
             after == Reputed(books, a, ok, value)
  <2>1. metrics' = after.metrics /\ identities' = after.identities
    BY <1>4 DEF UpdateReputation
  <2>2. GoodBooks(books)
    BY DEF GoodBooks, PeopleInv
  <2>3. value \in Nat
    BY IdentityConstants
  <2>4. GoodBooks(after)
    BY <2>2, <2>3, ReputedKeeps
  <2> HIDE DEF after
  <2> QED
    BY <2>1, <2>4, BooksWritten
<1>5. ASSUME NEW caller, NEW chain, NEW n \in ReputationArgs, AddCrossChainVerification(caller, chain, n)
      PROVE  PeopleInv' /\ NobodyLeaves
  <2> DEFINE r == (identities[caller].reputation + n) \div 2
             d == [identities[caller] EXCEPT !.reputation = r]
  <2>1. caller \in DOMAIN identities /\ identities' = [identities EXCEPT ![caller] = d] /\ UNCHANGED metrics
    BY <1>5 DEF AddCrossChainVerification
  <2>2. identities[caller].reputation \in Nat /\ n \in Nat
    BY <1>0, <2>1, IdentityConstants DEF GoodIdentity, Identity
  <2>3. r \in Nat
    BY <2>2
  <2> HIDE DEF r
  <2>4. GoodIdentity(d, vouched[caller])
    BY <1>0, <2>1, <2>3, WritesAreGood
  <2> HIDE DEF d
  <2> QED
    BY <2>1, <2>4, IdentityRewritten
<1>6. ASSUME NEW caller, NEW a, NEW valid, AssessTrust(caller, a) \/ VerifyPrivacyPreserving(caller, valid)
      PROVE  PeopleInv' /\ NobodyLeaves
  BY <1>6, PeopleStay DEF AssessTrust, VerifyPrivacyPreserving
<1>7. \A caller, a : RevokeIdentity(caller, a) \/ RevokeCompromisedIdentity(caller, a) => Revoke(a)
  BY DEF RevokeIdentity, RevokeCompromisedIdentity
<1> QED
  BY <1>1, <1>2, <1>3, <1>4, <1>5, <1>6, <1>7, Zenon DEF ReputationNext

\* Requests are typed; what a provider verified is what it approved, and a tier is
\* one approved for its account.
KycRequest == [applicant : Persons, provider : Persons, tier : Tiers, status : {"Pending", "Approved", "Rejected"}]
Provider == [active : BOOLEAN, tiers : SUBSET Tiers, verified : Nat]
ApprovedBy(requests, p) == {r \in DOMAIN requests : requests[r].provider = p /\ requests[r].status = "Approved"}
ApprovedFor(requests, a, tier) ==
    \E r \in DOMAIN requests :
        requests[r].applicant = a /\ requests[r].tier = tier /\ requests[r].status = "Approved"
KycInv ==
    /\ kycRequests \in Seq(KycRequest)
    /\ \A p \in DOMAIN providers : providers[p] \in Provider /\ providers[p].verified <= Cardinality(ApprovedBy(kycRequests, p))
    /\ \A a \in DOMAIN kycTiers : ApprovedFor(kycRequests, a, kycTiers[a])

\* Requests, providers and tiers let no identity leave.
LEMMA KycKeepsPeople ==
    ASSUME PeopleInv, KycInv, KycNext, UNCHANGED vouched
    PROVE  PeopleInv' /\ NobodyLeaves
<1>0. \A a \in DOMAIN identities : a \in Persons /\ GoodIdentity(identities[a], vouched[a])
  BY DEF PeopleInv
<1>1. ASSUME NEW caller, NEW r, NEW approved, CompleteKycVerification(caller, r, approved)
      PROVE  PeopleInv' /\ NobodyLeaves
  <2> DEFINE q == kycRequests[r]
             d == [identities[q.applicant] EXCEPT !.tier = q.tier, !.level = q.tier, !.verified = TRUE]
  <2>1. UNCHANGED metrics /\ r \in DOMAIN kycRequests
    BY <1>1 DEF CompleteKycVerification
  <2>2. UNCHANGED identities \/ (q.applicant \in DOMAIN identities /\ identities' = [identities EXCEPT ![q.applicant] = d])
    BY <1>1 DEF CompleteKycVerification
  <2>3. q.tier \in 0..4
    <3>1. q \in KycRequest
      BY <2>1 DEF KycInv
    <3> QED
      BY <3>1, IdentityConstants DEF KycRequest
  <2>4. CASE UNCHANGED identities
    BY <2>1, <2>4, PeopleStay
  <2>5. CASE q.applicant \in DOMAIN identities /\ identities' = [identities EXCEPT ![q.applicant] = d]
    <3>1. GoodIdentity(d, vouched[q.applicant])
      BY <1>0, <2>3, <2>5, WritesAreGood
    <3> HIDE DEF d, q
    <3> QED
      BY <2>1, <2>5, <3>1, IdentityRewritten
  <2> QED
    BY <2>2, <2>4, <2>5
<1>2. ASSUME NEW caller, NEW v, NEW authorized, SetAuthorizedVerifier(caller, v, authorized) PROVE UNCHANGED <<identities, metrics>>
  BY <1>2 DEF SetAuthorizedVerifier
<1>3. ASSUME NEW caller, NEW chain, AddSupportedChain(caller, chain) PROVE UNCHANGED <<identities, metrics>>
  BY <1>3 DEF AddSupportedChain
<1>4. ASSUME NEW caller, NEW p, RegisterVerificationProvider(caller, p, Tiers) \/ DeactivateProvider(caller, p)
      PROVE  UNCHANGED <<identities, metrics>>
  BY <1>4 DEF RegisterVerificationProvider, DeactivateProvider
<1>5. ASSUME NEW caller, NEW p, NEW tier, RequestKycVerification(caller, p, tier) PROVE UNCHANGED <<identities, metrics>>
  BY <1>5 DEF RequestKycVerification
<1>6. UNCHANGED <<identities, metrics>> \/ \E caller \in Persons, r \in DOMAIN kycRequests, approved \in BOOLEAN : CompleteKycVerification(caller, r, approved)
  BY <1>2, <1>3, <1>4, <1>5, Zenon DEF KycNext
<1> QED
  BY <1>1, <1>6, PeopleStay

\* Leaving is a right: of the owner, of guardians that vouched, or after the cooldown.
LeaveStep ==
    \A a \in DOMAIN identities \ DOMAIN identities' :
        \/ cause' = "port" /\ a \notin revocations /\ Cardinality(DOMAIN identities') = Cardinality(DOMAIN identities)
        \/ cause' = "recovery" /\ Cardinality(vouched'[a]) >= identities[a].threshold
        \/ cause' = "deletion" /\ block >= askedAt[a] + DeletionCooldown

\* A deletion may be confirmed from its last request on.
DeletionInv ==
    /\ askedAt \in [Persons -> Nat]
    /\ \A a \in DOMAIN deletions :
          /\ a \in Persons
          /\ deletions[a] \in [end : Nat, done : BOOLEAN]
          /\ deletions[a].end = askedAt[a] + DeletionCooldown

\* An identity of one account becomes that of another one, with who vouched for it.
LEMMA MovedKeeps ==
    ASSUME PeopleInv, NEW old \in DOMAIN identities, NEW new \in Persons, NEW d, Moved(old, new, d),
           NEW v \in [Persons -> SUBSET Persons], vouched' = v, \A a \in Persons : IsFiniteSet(v[a]),
           GoodIdentity(d, v[new]), \A a \in Persons \ {old, new} : v[a] = vouched[a]
    PROVE  PeopleInv' /\ DOMAIN identities' = (DOMAIN identities \ {old}) \cup {new}
<1>0. /\ DOMAIN identities \subseteq Persons /\ IsFiniteSet(DOMAIN identities)
      /\ \A a \in DOMAIN identities : GoodIdentity(identities[a], vouched[a])
      /\ \A a \in DOMAIN metrics : GoodMetrics(metrics[a])
  BY DEF PeopleInv
<1>1. /\ identities' = [x \in (DOMAIN identities \ {old}) \cup {new} |-> IF x = new THEN d ELSE Without(identities, old)[x]]
      /\ metrics' = IF old \in DOMAIN metrics THEN With(Without(metrics, old), new, metrics[old]) ELSE metrics
  BY DEF Moved, With, Without
<1>2. DOMAIN identities' = (DOMAIN identities \ {old}) \cup {new}
  BY <1>1
<1>3. \A a \in DOMAIN identities' : identities'[a] = IF a = new THEN d ELSE identities[a]
  BY <1>1 DEF Without
<1>4. IsFiniteSet((DOMAIN identities \ {old}) \cup {new})
  BY <1>0, FS_RemoveElement, FS_AddElement
<1>5. \A a \in DOMAIN identities' : GoodIdentity(identities'[a], vouched'[a])
  BY <1>0, <1>2, <1>3
<1>6. \A a \in DOMAIN metrics' : GoodMetrics(metrics'[a])
  BY <1>0, <1>1 DEF With, Without
<1> QED
  BY <1>0, <1>2, <1>4, <1>5, <1>6 DEF PeopleInv

\* A recovery that begins needs new vouchers.
LEMMA RecoveryBegunKeeps ==
    ASSUME PeopleInv, NEW caller \in Persons, RecoveryBegun(caller)
    PROVE  PeopleInv' /\ NobodyLeaves
<1> DEFINE d == [identities[caller] EXCEPT !.active = TRUE, !.approvals = {}]
<1>1. /\ caller \in DOMAIN identities /\ identities' = [identities EXCEPT ![caller] = d]
      /\ UNCHANGED metrics /\ vouched' = [vouched EXCEPT ![caller] = {}]
  BY DEF RecoveryBegun, InitiateRecovery
<1>2. identities[caller] \in Identity
  BY <1>1 DEF PeopleInv, GoodIdentity
<1>3. d \in Identity /\ d.approvals = {}
  BY <1>2 DEF Identity
<1> HIDE DEF d
<1>4. DOMAIN identities' = DOMAIN identities
  BY <1>1
<1>5. vouched \in [Persons -> SUBSET Persons] /\ \A a \in Persons : IsFiniteSet(vouched[a])
  BY DEF PeopleInv
<1>6. /\ vouched' \in [Persons -> SUBSET Persons] /\ vouched'[caller] = {}
      /\ \A a \in Persons : a # caller => vouched'[a] = vouched[a]
  BY <1>1, <1>5
<1>7. \A a \in Persons : IsFiniteSet(vouched'[a])
  BY <1>5, <1>6, FS_EmptySet
<1>8. \A a \in DOMAIN identities' : GoodIdentity(identities'[a], vouched'[a])
  <2> SUFFICES ASSUME NEW a \in DOMAIN identities PROVE GoodIdentity(identities'[a], vouched'[a])
    BY <1>4
  <2>1. CASE a = caller
    BY <1>1, <1>3, <1>6, <2>1 DEF GoodIdentity
  <2>2. CASE a # caller
    BY <1>1, <1>6, <2>2 DEF PeopleInv
  <2> QED
    BY <2>1, <2>2
<1> QED
  BY <1>1, <1>4, <1>6, <1>7, <1>8 DEF PeopleInv, NobodyLeaves

\* A guardian's approval is counted once, and the identity leaves only when enough
\* guardians have given theirs (approve_recovery).
LEMMA RecoveryApprovedKeeps ==
    ASSUME PeopleInv, NEW caller \in Persons, NEW a \in Persons, NEW new \in Persons, RecoveryApproved(caller, a, new)
    PROVE  PeopleInv' /\ LeaveStep
<1> DEFINE d == identities[a]
           given == d.approvals \cup {caller}
<1>1. /\ a \in DOMAIN identities /\ vouched' = [vouched EXCEPT ![a] = @ \cup {caller}]
      /\ cause' = "recovery"
      /\ \/ Cardinality(given) >= d.threshold /\ Moved(a, new, [d EXCEPT !.active = FALSE, !.approvals = {}])
         \/ identities' = [identities EXCEPT ![a].approvals = given] /\ UNCHANGED metrics
  BY DEF RecoveryApproved, ApproveRecovery
<1>2. d \in Identity /\ d.approvals \subseteq vouched[a]
  BY <1>1 DEF PeopleInv, GoodIdentity
<1>3. vouched \in [Persons -> SUBSET Persons] /\ \A b \in Persons : IsFiniteSet(vouched[b])
  BY DEF PeopleInv
<1>4. /\ vouched' \in [Persons -> SUBSET Persons] /\ vouched'[a] = vouched[a] \cup {caller}
      /\ \A b \in Persons : b # a => vouched'[b] = vouched[b]
  BY <1>1, <1>3
<1>5. \A b \in Persons : IsFiniteSet(vouched'[b])
  <2>1. IsFiniteSet(vouched[a] \cup {caller})
    BY <1>3, FS_AddElement
  <2> QED
    BY <1>3, <1>4, <2>1
<1>6. CASE Cardinality(given) >= d.threshold /\ Moved(a, new, [d EXCEPT !.active = FALSE, !.approvals = {}])
  <2> DEFINE e == [d EXCEPT !.active = FALSE, !.approvals = {}]
             v == [vouched EXCEPT ![a] = vouched[a] \cup {caller}]
  <2>1. e \in Identity /\ e.approvals = {}
    BY <1>2 DEF Identity
  <2> HIDE DEF e
  <2>2. GoodIdentity(e, v[new])
    BY <2>1 DEF GoodIdentity
  <2>3. Moved(a, new, e)
    BY <1>6 DEF e
  <2>a. vouched' = v
    BY <1>1
  <2> HIDE DEF v
  <2>b. v \in [Persons -> SUBSET Persons] /\ (\A b \in Persons : IsFiniteSet(v[b])) /\ \A b \in Persons \ {a, new} : v[b] = vouched[b]
    BY <1>4, <1>5, <2>a
  <2>4. PeopleInv' /\ DOMAIN identities' = (DOMAIN identities \ {a}) \cup {new}
    BY <1>1, <2>2, <2>3, <2>a, <2>b, MovedKeeps
  <2>5. given \subseteq vouched'[a] /\ IsFiniteSet(vouched'[a])
    BY <1>2, <1>4, <1>5
  <2>6. IsFiniteSet(given) /\ Cardinality(given) <= Cardinality(vouched'[a])
    BY <2>5, FS_Subset
  <2>7. Cardinality(given) \in Nat /\ Cardinality(vouched'[a]) \in Nat /\ d.threshold \in Nat
    BY <1>2, <2>5, <2>6, FS_CardinalityType DEF Identity
  <2> HIDE DEF given, d
  <2>8. Cardinality(vouched'[a]) >= d.threshold
    BY <1>6, <2>6, <2>7
  <2> QED
    BY <1>1, <2>4, <2>8 DEF LeaveStep, d
<1>7. CASE identities' = [identities EXCEPT ![a].approvals = given] /\ UNCHANGED metrics
  <2> DEFINE e == [d EXCEPT !.approvals = given]
  <2>1. identities' = [identities EXCEPT ![a] = e] /\ UNCHANGED metrics
    BY <1>7
  <2>2. given \in SUBSET Persons
    BY <1>2 DEF Identity
  <2>3. e \in Identity /\ e.approvals \subseteq vouched'[a]
    BY <1>2, <2>2, <1>4 DEF Identity, given
  <2> HIDE DEF e
  <2>4. DOMAIN identities' = DOMAIN identities
    BY <2>1
  <2>5. \A b \in DOMAIN identities' : GoodIdentity(identities'[b], vouched'[b])
    <3> SUFFICES ASSUME NEW b \in DOMAIN identities PROVE GoodIdentity(identities'[b], vouched'[b])
      BY <2>4
    <3>1. CASE b = a
      BY <1>1, <2>1, <2>3, <3>1 DEF GoodIdentity
    <3>2. CASE b # a
      BY <1>4, <2>1, <3>2 DEF PeopleInv
    <3> QED
      BY <3>1, <3>2
  <2> QED
    BY <1>4, <1>5, <2>1, <2>4, <2>5 DEF PeopleInv, LeaveStep
<1> QED
  BY <1>1, <1>6, <1>7

\* An owner takes the identity to an account that has none (port_identity).
LEMMA PortedKeeps ==
    ASSUME PeopleInv, NEW caller \in Persons, NEW new \in Persons, Ported(caller, new)
    PROVE  PeopleInv' /\ LeaveStep
<1>1. /\ new # caller /\ caller \in DOMAIN identities /\ caller \notin revocations /\ new \notin DOMAIN identities
      /\ Moved(caller, new, identities[caller])
      /\ vouched' = [vouched EXCEPT ![new] = vouched[caller]] /\ cause' = "port"
  BY DEF Ported, PortIdentity
<1>2. GoodIdentity(identities[caller], vouched[caller])
  BY <1>1 DEF PeopleInv
<1>3. vouched \in [Persons -> SUBSET Persons] /\ \A b \in Persons : IsFiniteSet(vouched[b])
  BY DEF PeopleInv
<1> DEFINE v == [vouched EXCEPT ![new] = vouched[caller]]
<1>4. /\ v \in [Persons -> SUBSET Persons] /\ v[new] = vouched[caller]
      /\ \A b \in Persons : b # new => v[b] = vouched[b]
  BY <1>3
<1>5. \A b \in Persons : IsFiniteSet(v[b])
  BY <1>3, <1>4
<1>a. vouched' = v
  BY <1>1
<1> HIDE DEF v
<1>6. PeopleInv' /\ DOMAIN identities' = (DOMAIN identities \ {caller}) \cup {new}
  BY <1>1, <1>2, <1>4, <1>5, <1>a, MovedKeeps
<1>7. Cardinality(DOMAIN identities') = Cardinality(DOMAIN identities)
  <2> DEFINE all == DOMAIN identities
             rest == all \ {caller}
  <2>1. IsFiniteSet(all) /\ caller \in all
    BY <1>1 DEF PeopleInv
  <2> HIDE DEF all
  <2>2. IsFiniteSet(rest) /\ Cardinality(rest) = Cardinality(all) - 1
    BY <2>1, FS_RemoveElement
  <2>3. new \notin rest
    BY <1>1 DEF all
  <2> HIDE DEF rest
  <2>4. Cardinality(rest \cup {new}) = Cardinality(rest) + 1
    BY <2>2, <2>3, FS_AddElement
  <2>5. Cardinality(all) \in Nat
    BY <2>1, FS_CardinalityType
  <2>6. Cardinality(rest \cup {new}) = Cardinality(all)
    BY <2>2, <2>4, <2>5
  <2> QED
    BY <1>6, <2>6 DEF all, rest
<1>8. \A b \in DOMAIN identities \ DOMAIN identities' : b = caller
  BY <1>6
<1> QED
  BY <1>1, <1>6, <1>7, <1>8 DEF LeaveStep

\* A deletion is confirmed by the account it is about (confirm_data_deletion).
LEMMA DeletionConfirmedKeeps ==
    ASSUME PeopleInv, DeletionInv, NEW caller \in Persons, DeletionConfirmed(caller)
    PROVE  PeopleInv' /\ LeaveStep
  BY FS_RemoveElement DEF DeletionConfirmed, ConfirmIdentityDeletion, Without, PeopleInv, DeletionInv, LeaveStep

\* Choosing guardians lets no identity leave (set_recovery_guardians).
LEMMA GuardiansKeepPeople ==
    ASSUME PeopleInv, NEW caller, NEW a, NEW some \in GuardianArgs, NEW threshold \in 0..3,
           SetRecoveryGuardians(caller, a, some, threshold), UNCHANGED vouched
    PROVE  PeopleInv' /\ NobodyLeaves
<1> DEFINE d == [identities[a] EXCEPT !.guardians = some, !.threshold = threshold]
<1>1. a \in DOMAIN identities /\ identities' = [identities EXCEPT ![a] = d] /\ UNCHANGED metrics
  BY DEF SetRecoveryGuardians
<1>2. GoodIdentity(identities[a], vouched[a])
  BY <1>1 DEF PeopleInv
<1>3. some \in SUBSET Persons /\ threshold \in Nat
  BY IdentityConstants
<1>4. GoodIdentity(d, vouched[a])
  BY <1>2, <1>3, WritesAreGood
<1> HIDE DEF d
<1> QED
  BY <1>1, <1>4, IdentityRewritten

\* Whatever happens in the identity registry.
LEMMA IdentityMovesKeep ==
    ASSUME PeopleInv, KycInv, DeletionInv, IdentityMoves
    PROVE  PeopleInv' /\ LeaveStep
<1>0. NobodyLeaves => LeaveStep
  BY DEF NobodyLeaves, LeaveStep
<1>1. ASSUME NEW caller \in Persons, RecoveryBegun(caller) PROVE PeopleInv' /\ LeaveStep
  BY <1>0, <1>1, RecoveryBegunKeeps
<1>2. ASSUME NEW caller \in Persons, DeletionAsked(caller) PROVE PeopleInv' /\ LeaveStep
  BY <1>2, <1>0, PeopleStay DEF DeletionAsked, RequestIdentityDeletion
<1>3. ASSUME NEW caller \in Persons, NEW a \in Persons, NEW some \in GuardianArgs, NEW threshold \in 0..3,
             SetRecoveryGuardians(caller, a, some, threshold), NoCause
      PROVE  PeopleInv' /\ LeaveStep
  BY <1>3, <1>0, GuardiansKeepPeople DEF NoCause
<1>4. ASSUME ReputationNext \/ KycNext, NoCause PROVE PeopleInv' /\ LeaveStep
  BY <1>4, <1>0, ReputationKeepsPeople, KycKeepsPeople DEF NoCause
<1>5. IdentityMoves
  OBVIOUS
<1> QED
  BY <1>1, <1>2, <1>3, <1>4, <1>5, RecoveryApprovedKeeps, PortedKeeps, DeletionConfirmedKeeps DEF IdentityMoves

\* Asking again starts the cooldown again, and nothing else moves its end.
LEMMA DeletionsStep ==
    ASSUME DeletionInv, block \in Nat, [RegistriesNext]_registriesVars
    PROVE  DeletionInv'
<1>1. ASSUME UNCHANGED <<deletions, askedAt>> PROVE DeletionInv'
  BY <1>1 DEF DeletionInv
<1>2. ASSUME NEW caller \in Persons, DeletionAsked(caller) PROVE DeletionInv'
  BY <1>2, IdentityConstants DEF DeletionAsked, RequestIdentityDeletion, With, DeletionInv
<1>3. ASSUME NEW caller \in Persons, DeletionConfirmed(caller) PROVE DeletionInv'
  <2>1. /\ caller \in DOMAIN deletions /\ deletions' = [deletions EXCEPT ![caller].done = TRUE]
        /\ UNCHANGED askedAt
    BY <1>3 DEF DeletionConfirmed, ConfirmIdentityDeletion
  <2> DEFINE d == [deletions[caller] EXCEPT !.done = TRUE]
  <2>2. d.end = deletions[caller].end /\ d \in [end : Nat, done : BOOLEAN]
    BY <2>1 DEF DeletionInv
  <2>3. deletions' = [deletions EXCEPT ![caller] = d]
    BY <2>1
  <2> HIDE DEF d
  <2> QED
    BY <2>1, <2>2, <2>3, ZenonT(30) DEF DeletionInv
<1>4. UNCHANGED <<deletions, askedAt>> \/ \E caller \in Persons : DeletionAsked(caller) \/ DeletionConfirmed(caller)
  <2>1. RegistryMoves => UNCHANGED <<deletions, askedAt>>
    <3>1. \A caller, id, to : TransferProperty(caller, id, to) => UNCHANGED deletions
      <4>1. \A from, to, value : ReportTransfer(from, to, value) => UNCHANGED deletions
        BY DEF ReportTransfer, identityVars
      <4> QED
        BY <4>1, Zenon DEF TransferProperty
    <3>2. TitleNext => UNCHANGED deletions
      BY <3>1 DEF TitleNext, identityVars
    <3> QED
      BY <3>2 DEF RegistryMoves, NoCause, identityVars
  <2>2. ComplianceMoves \/ BlockMoves \/ UNCHANGED registriesVars => UNCHANGED <<deletions, askedAt>>
    BY DEF ComplianceMoves, BlockMoves, registriesVars, identityVars, ledgers
  <2>3. \A caller : RecoveryBegun(caller) => UNCHANGED <<deletions, askedAt>>
    BY DEF RecoveryBegun, InitiateRecovery
  <2>4. \A caller, a, new : RecoveryApproved(caller, a, new) => UNCHANGED <<deletions, askedAt>>
    BY DEF RecoveryApproved, ApproveRecovery, Moved
  <2>5. \A caller, new : Ported(caller, new) => UNCHANGED <<deletions, askedAt>>
    BY DEF Ported, PortIdentity, Moved
  <2>6. \A caller, a, some, threshold : SetRecoveryGuardians(caller, a, some, threshold) => UNCHANGED deletions
    BY DEF SetRecoveryGuardians
  <2>7. ReputationNext => UNCHANGED deletions
    BY ZenonT(30) DEF ReputationNext, CreateIdentity, VerifyIdentity, RevokeIdentity, RevokeCompromisedIdentity, Revoke,
           AssessTrust, UpdateReputation, AddCrossChainVerification, VerifyPrivacyPreserving
  <2>8. KycNext => UNCHANGED deletions
    BY DEF KycNext, SetAuthorizedVerifier, AddSupportedChain, RegisterVerificationProvider, DeactivateProvider,
           RequestKycVerification, CompleteKycVerification
  <2>9. IdentityMoves => UNCHANGED <<deletions, askedAt>> \/ \E caller \in Persons : DeletionAsked(caller) \/ DeletionConfirmed(caller)
    BY <2>3, <2>4, <2>5, <2>6, <2>7, <2>8 DEF IdentityMoves, NoCause
  <2> QED
    BY <2>1, <2>2, <2>9 DEF RegistriesNext
<1> QED
  BY <1>1, <1>2, <1>3, <1>4

\* Approved requests are counted.
LEMMA ApprovedIsFinite ==
    ASSUME NEW requests \in Seq(KycRequest), NEW p
    PROVE  IsFiniteSet(ApprovedBy(requests, p)) /\ Cardinality(ApprovedBy(requests, p)) \in Nat
<1>1. Len(requests) \in Nat /\ DOMAIN requests = 1..Len(requests)
  OBVIOUS
<1>2. IsFiniteSet(1..Len(requests))
  BY <1>1, FS_Interval
<1>3. ApprovedBy(requests, p) \subseteq 1..Len(requests)
  BY <1>1 DEF ApprovedBy
<1>4. IsFiniteSet(ApprovedBy(requests, p))
  BY <1>2, <1>3, FS_Subset
<1> QED
  BY <1>4, FS_CardinalityType

\* Requests keep what they say, and what was approved stays approved.
RequestsKept(requests) ==
    \A r \in DOMAIN kycRequests :
        /\ r \in DOMAIN requests
        /\ requests[r].applicant = kycRequests[r].applicant /\ requests[r].tier = kycRequests[r].tier
        /\ requests[r].provider = kycRequests[r].provider
        /\ kycRequests[r].status = "Approved" => requests[r].status = "Approved"

\* Requests that keep their outcomes leave a provider with no fewer approvals.
LEMMA ApprovedGrows ==
    ASSUME KycInv, NEW requests \in Seq(KycRequest), RequestsKept(requests)
    PROVE  /\ \A p : ApprovedBy(kycRequests, p) \subseteq ApprovedBy(requests, p)
           /\ \A p : Cardinality(ApprovedBy(kycRequests, p)) <= Cardinality(ApprovedBy(requests, p))
           /\ \A a, tier : ApprovedFor(kycRequests, a, tier) => ApprovedFor(requests, a, tier)
<1>1. \A p : ApprovedBy(kycRequests, p) \subseteq ApprovedBy(requests, p)
  BY DEF RequestsKept, ApprovedBy
<1>2. ASSUME NEW p PROVE Cardinality(ApprovedBy(kycRequests, p)) <= Cardinality(ApprovedBy(requests, p))
  BY ApprovedIsFinite, <1>1, FS_Subset
<1>3. \A a, tier : ApprovedFor(kycRequests, a, tier) => ApprovedFor(requests, a, tier)
  BY DEF RequestsKept, ApprovedFor
<1> QED
  BY <1>1, <1>2, <1>3

\* A step that approves nothing keeps the invariant of tiers.
LEMMA KycFrame ==
    ASSUME KycInv, kycRequests' \in Seq(KycRequest), RequestsKept(kycRequests'),
           \A p \in DOMAIN providers' :
               /\ providers'[p] \in Provider
               /\ \/ providers'[p].verified = 0
                  \/ p \in DOMAIN providers /\ providers'[p].verified = providers[p].verified,
           \A a \in DOMAIN kycTiers' : a \in DOMAIN kycTiers /\ kycTiers'[a] = kycTiers[a]
    PROVE  KycInv'
<1>1. \A p : Cardinality(ApprovedBy(kycRequests, p)) <= Cardinality(ApprovedBy(kycRequests', p))
  BY ApprovedGrows
<1>2. \A a, tier : ApprovedFor(kycRequests, a, tier) => ApprovedFor(kycRequests', a, tier)
  BY ApprovedGrows
<1>3. \A p : Cardinality(ApprovedBy(kycRequests, p)) \in Nat /\ Cardinality(ApprovedBy(kycRequests', p)) \in Nat
  BY ApprovedIsFinite DEF KycInv
<1>4. ASSUME NEW p \in DOMAIN providers'
      PROVE  providers'[p].verified <= Cardinality(ApprovedBy(kycRequests', p))
  <2>1. CASE providers'[p].verified = 0
    BY <1>3, <2>1
  <2>2. CASE p \in DOMAIN providers /\ providers'[p].verified = providers[p].verified
    BY <2>2, <1>1, <1>3 DEF KycInv, Provider
  <2> QED
    BY <2>1, <2>2
<1>5. \A a \in DOMAIN kycTiers' : ApprovedFor(kycRequests', a, kycTiers'[a])
  BY <1>2 DEF KycInv
<1> QED
  BY <1>4, <1>5 DEF KycInv

\* A request is decided once, by the provider it was made to, who gains one for an
\* approval (complete_kyc_verification).
LEMMA CompleteKeepsKyc ==
    ASSUME KycInv, NEW caller, NEW r, NEW approved \in BOOLEAN, CompleteKycVerification(caller, r, approved)
    PROVE  KycInv'
<1> DEFINE q == kycRequests[r]
           status == IF approved THEN "Approved" ELSE "Rejected"
           new == [q EXCEPT !.status = status]
<1>1. /\ r \in DOMAIN kycRequests /\ q.provider = caller /\ q.status = "Pending"
      /\ kycRequests' = [kycRequests EXCEPT ![r] = new]
  BY DEF CompleteKycVerification
<1>2. kycRequests \in Seq(KycRequest) /\ q \in KycRequest
  BY <1>1 DEF KycInv
<1>3. /\ new \in KycRequest /\ new.applicant = q.applicant /\ new.tier = q.tier /\ new.provider = q.provider
      /\ new.status = status
  BY <1>2 DEF KycRequest
<1> HIDE DEF new
<1>4. /\ kycRequests' \in Seq(KycRequest) /\ DOMAIN kycRequests' = DOMAIN kycRequests /\ kycRequests'[r] = new
      /\ \A x \in DOMAIN kycRequests : x # r => kycRequests'[x] = kycRequests[x]
  BY <1>1, <1>2, <1>3
<1>5. RequestsKept(kycRequests')
  BY <1>1, <1>3, <1>4 DEF RequestsKept
<1>6. CASE ~approved
  <2>1. UNCHANGED <<providers, kycTiers>>
    BY <1>6 DEF CompleteKycVerification
  <2> QED
    BY <1>4, <1>5, <2>1, KycFrame DEF KycInv
<1>7. CASE approved
  <2>1. kycTiers' = With(kycTiers, q.applicant, q.tier) /\ providers' = [providers EXCEPT ![caller].verified = @ + 1]
    BY <1>7 DEF CompleteKycVerification
  <2>2. ApprovedFor(kycRequests', q.applicant, q.tier)
    BY <1>1, <1>3, <1>4, <1>7 DEF ApprovedFor
  <2>3. \A a, tier : ApprovedFor(kycRequests, a, tier) => ApprovedFor(kycRequests', a, tier)
    BY <1>4, <1>5, ApprovedGrows
  <2>4. \A a \in DOMAIN kycTiers' : ApprovedFor(kycRequests', a, kycTiers'[a])
    BY <2>1, <2>2, <2>3 DEF With, KycInv
  <2>5. ASSUME NEW p \in DOMAIN providers'
        PROVE  providers'[p] \in Provider /\ providers'[p].verified <= Cardinality(ApprovedBy(kycRequests', p))
    <3>0. p \in DOMAIN providers /\ providers[p] \in Provider
          /\ providers[p].verified <= Cardinality(ApprovedBy(kycRequests, p))
      BY <2>1 DEF KycInv
    <3>a. /\ Cardinality(ApprovedBy(kycRequests, p)) <= Cardinality(ApprovedBy(kycRequests', p))
          /\ ApprovedBy(kycRequests, p) \subseteq ApprovedBy(kycRequests', p)
      BY <1>4, <1>5, ApprovedGrows
    <3>b. /\ IsFiniteSet(ApprovedBy(kycRequests, p)) /\ IsFiniteSet(ApprovedBy(kycRequests', p))
          /\ Cardinality(ApprovedBy(kycRequests, p)) \in Nat /\ Cardinality(ApprovedBy(kycRequests', p)) \in Nat
      BY <1>2, <1>4, ApprovedIsFinite
    <3>c. providers[p].verified \in Nat
      BY <3>0 DEF Provider
    <3>1. CASE p # caller
      BY <2>1, <3>0, <3>1, <3>a, <3>b, <3>c
    <3>2. CASE p = caller
      <4> DEFINE old == ApprovedBy(kycRequests, p)
                 now == ApprovedBy(kycRequests', p)
      <4>1. r \notin old /\ r \in now
        BY <1>1, <1>3, <1>4, <1>7, <3>2 DEF ApprovedBy
      <4>2. IsFiniteSet(old) /\ IsFiniteSet(now) /\ old \subseteq now /\ Cardinality(old) \in Nat /\ Cardinality(now) \in Nat
        BY <3>a, <3>b
      <4> HIDE DEF old, now
      <4>3. IsFiniteSet(old \cup {r}) /\ Cardinality(old \cup {r}) = Cardinality(old) + 1
        BY <4>1, <4>2, FS_AddElement
      <4>4. old \cup {r} \subseteq now
        BY <4>1, <4>2
      <4>5. Cardinality(old \cup {r}) <= Cardinality(now)
        BY <4>2, <4>4, FS_Subset
      <4>6. providers'[p] \in Provider /\ providers'[p].verified = providers[p].verified + 1
        BY <2>1, <3>0, <3>2, <3>c DEF Provider
      <4>7. providers[p].verified <= Cardinality(old)
        BY <3>0 DEF old
      <4> QED
        BY <3>c, <4>2, <4>3, <4>5, <4>6, <4>7 DEF now
    <3> QED
      BY <3>1, <3>2
  <2> QED
    BY <1>4, <2>4, <2>5 DEF KycInv
<1> QED
  BY <1>6, <1>7

\* The messages that decide no request.
LEMMA KycInvStep ==
    ASSUME KycInv, [RegistriesNext]_registriesVars
    PROVE  KycInv'
<1>0. /\ kycRequests \in Seq(KycRequest)
      /\ \A p \in DOMAIN providers : providers[p] \in Provider
  BY DEF KycInv
<1>1. ASSUME UNCHANGED kycVars PROVE KycInv'
  BY <1>1 DEF KycInv, kycVars
<1>2. ASSUME NEW caller, DeletionConfirmed(caller) PROVE KycInv'
  BY <1>2, <1>0, KycFrame DEF DeletionConfirmed, ConfirmIdentityDeletion, Without, RequestsKept
<1>3. ASSUME NEW caller, NEW p, RegisterVerificationProvider(caller, p, Tiers) PROVE KycInv'
  BY <1>3, <1>0, KycFrame DEF RegisterVerificationProvider, Provider, With, RequestsKept
<1>4. ASSUME NEW caller, NEW p, DeactivateProvider(caller, p) PROVE KycInv'
  <2>1. p \in DOMAIN providers /\ providers' = [providers EXCEPT ![p].active = FALSE] /\ UNCHANGED <<kycTiers, kycRequests>>
    BY <1>4 DEF DeactivateProvider
  <2>2. \A x \in DOMAIN providers' :
           providers'[x] \in Provider /\ x \in DOMAIN providers /\ providers'[x].verified = providers[x].verified
    BY <1>0, <2>1 DEF Provider
  <2> QED
    BY <1>0, <2>1, <2>2, KycFrame DEF RequestsKept
<1>5. ASSUME NEW caller \in Persons, NEW p \in Persons, NEW tier \in Tiers, RequestKycVerification(caller, p, tier) PROVE KycInv'
  BY <1>5, <1>0, AppendProperties, KycFrame DEF RequestKycVerification, KycRequest, RequestsKept
<1>6. ASSUME NEW caller, NEW x, SetAuthorizedVerifier(caller, x, TRUE) \/ SetAuthorizedVerifier(caller, x, FALSE) \/ AddSupportedChain(caller, x)
      PROVE  KycInv'
  <2>1. UNCHANGED kycVars
    BY <1>6 DEF SetAuthorizedVerifier, AddSupportedChain
  <2> QED
    BY <1>1, <2>1
<1>7. KycNext => KycInv'
  BY <1>3, <1>4, <1>5, <1>6, CompleteKeepsKyc DEF KycNext
<1>8. UNCHANGED kycVars \/ KycNext \/ \E caller \in Persons : DeletionConfirmed(caller)
  <2>1. RegistryMoves => UNCHANGED kycVars
    <3>1. \A caller, id, to : TransferProperty(caller, id, to) => UNCHANGED kycVars
      <4>1. \A from, to, value : ReportTransfer(from, to, value) => UNCHANGED kycVars
        BY DEF ReportTransfer, identityVars, kycVars
      <4> QED
        BY <4>1, Zenon DEF TransferProperty
    <3>2. TitleNext => UNCHANGED kycVars
      BY <3>1 DEF TitleNext, identityVars, kycVars
    <3> QED
      BY <3>2 DEF RegistryMoves, identityVars, kycVars
  <2>2. ComplianceMoves \/ BlockMoves \/ UNCHANGED registriesVars => UNCHANGED kycVars
    BY DEF ComplianceMoves, BlockMoves, registriesVars, identityVars, kycVars
  <2>3. \A caller : RecoveryBegun(caller) \/ DeletionAsked(caller) => UNCHANGED kycVars
    BY DEF RecoveryBegun, InitiateRecovery, DeletionAsked, RequestIdentityDeletion
  <2>4. \A caller, a, new : RecoveryApproved(caller, a, new) => UNCHANGED kycVars
    BY DEF RecoveryApproved, ApproveRecovery, Moved
  <2>5. \A caller, new : Ported(caller, new) => UNCHANGED kycVars
    BY DEF Ported, PortIdentity, Moved
  <2>6. \A caller, a, some, threshold : SetRecoveryGuardians(caller, a, some, threshold) => UNCHANGED kycVars
    BY DEF SetRecoveryGuardians
  <2>7. ReputationNext => UNCHANGED kycVars
    BY DEF ReputationNext, CreateIdentity, VerifyIdentity, RevokeIdentity, RevokeCompromisedIdentity, Revoke,
           AssessTrust, UpdateReputation, AddCrossChainVerification, VerifyPrivacyPreserving
  <2>9. IdentityMoves => UNCHANGED kycVars \/ KycNext \/ \E caller \in Persons : DeletionConfirmed(caller)
    BY <2>3, <2>4, <2>5, <2>6, <2>7 DEF IdentityMoves
  <2> QED
    BY <2>1, <2>2, <2>9 DEF RegistriesNext
<1> QED
  BY <1>1, <1>2, <1>7, <1>8, Zenon

\* What holds of the identity registry, together.
IdentityInv == PeopleInv /\ KycInv /\ DeletionInv

\* At first nobody has an identity, a request or a tier.
LEMMA IdentityInvInit == RegistriesInit => IdentityInv
  BY FS_EmptySet DEF RegistriesInit, IdentityInit, PeopleInv, KycInv, DeletionInv, IdentityInv

\* The invariant of identities and tiers is inductive, and an identity leaves an
\* account only by right.
LEMMA IdentityInvStep ==
    ASSUME IdentityInv, TitleInv, block \in Nat, [RegistriesNext]_registriesVars
    PROVE  IdentityInv' /\ LeaveStep
<1>0. NobodyLeaves => LeaveStep
  BY DEF NobodyLeaves, LeaveStep
<1>1. KycInv' /\ DeletionInv'
  BY KycInvStep, DeletionsStep DEF IdentityInv
<1>2. CASE RegistryMoves
  BY <1>0, <1>1, <1>2, RegistryKeepsPeople DEF IdentityInv
<1>3. CASE IdentityMoves
  BY <1>1, <1>3, IdentityMovesKeep DEF IdentityInv
<1>4. CASE ComplianceMoves \/ BlockMoves \/ UNCHANGED registriesVars
  <2>1. UNCHANGED <<identities, metrics, vouched>>
    BY <1>4 DEF ComplianceMoves, BlockMoves, registriesVars, identityVars, ledgers
  <2> QED
    BY <1>0, <1>1, <2>1, PeopleStay DEF IdentityInv
<1> QED
  BY <1>2, <1>3, <1>4 DEF RegistriesNext

\* The invariant of identities and tiers holds in every reachable state.
LEMMA IdentityInvAlways == RegistriesSpec => []IdentityInv
<1>1. IdentityInv /\ TitleInv /\ ComplianceInv /\ [RegistriesNext]_registriesVars => IdentityInv'
  BY IdentityInvStep DEF ComplianceInv
<1> QED
  BY <1>1, IdentityInvInit, TitleInvAlways, ComplianceInvAlways, PTL DEF RegistriesSpec

\* An identity leaves its account only because its owner, who is not revoked, moves
\* it to an account without one, as many guardians as it needs have vouched since
\* the recovery began, or the cooldown has passed since the last request to delete
\* it; whichever guardians are set meanwhile and however often it was moved
\* (port_identity, approve_recovery, confirm_data_deletion).
THEOREM IdentitiesAreMovedByRight == RegistriesSpec => IdentitiesMoveByRight
<1>1. IdentityInv /\ TitleInv /\ ComplianceInv /\ [RegistriesNext]_registriesVars => [LeaveStep]_registriesVars
  BY IdentityInvStep DEF ComplianceInv
<1>2. RegistriesSpec => [][LeaveStep]_registriesVars
  BY <1>1, IdentityInvAlways, TitleInvAlways, ComplianceInvAlways, PTL DEF RegistriesSpec
<1> QED
  BY <1>2, PTL DEF IdentitiesMoveByRight, LeaveStep

----
\* Standing

\* Percentages, and their parts, rounded down.
LEMMA Percent ==
    /\ \A n, m \in Nat, d \in Nat \ {0} : n <= m * d => n \div d \in Nat /\ n \div d <= m
    /\ \A n \in Nat : n \div 10 \in Nat /\ n \div 100 \in Nat
  OBVIOUS

\* Of an identity whose reputation is within its bound (calculate_trust_score).
LEMMA TrustIsBounded ==
    ASSUME NEW d \in Identity, NEW m, GoodMetrics(m), d.reputation <= 1000
    PROVE  TrustScore(d, m) <= 88
<1> DEFINE rate == IF m.total = 0 THEN 50 ELSE (m.successful * 100) \div m.total
           part == d.reputation \div 10
           sum == d.trust * 40 + part * 30 + d.level * 10 * 20 + rate * 10
<1>1. m.total \in Nat /\ m.successful \in Nat /\ m.successful <= m.total
  BY DEF GoodMetrics, IdentityMetrics
<1>2. rate \in Nat /\ rate <= 100
  <2>1. CASE m.total = 0
    BY <2>1
  <2>2. CASE m.total # 0
    <3>1. m.successful * 100 \in Nat /\ m.successful * 100 <= 100 * m.total /\ m.total \in Nat \ {0}
      BY <1>1, <2>2
    <3> DEFINE n == m.successful * 100
               t == m.total
    <3> HIDE DEF n, t
    <3>2. n \div t \in Nat /\ n \div t <= 100
      BY <3>1, Percent, SMTT(30) DEF n, t
    <3> QED
      BY <2>2, <3>2 DEF n, t
  <2> QED
    BY <2>1, <2>2
<1>3. part \in Nat /\ part <= 100
  BY Percent DEF Identity
<1>4. d.trust \in 0..100 /\ d.level \in 0..4
  BY DEF Identity
<1> HIDE DEF rate, part
<1>5. sum \in Nat /\ sum <= 88 * 100
  BY <1>2, <1>3, <1>4
<1>6. TrustScore(d, m) = sum \div 100
  BY DEF TrustScore, rate, part
<1> HIDE DEF sum
<1> QED
  BY <1>5, <1>6, Percent

\* The inductive invariant says that every tier was approved.
LEMMA TiersFollow == IdentityInv => TiersWereApproved
<1> SUFFICES ASSUME IdentityInv PROVE TiersWereApproved
  OBVIOUS
<1>1. \A p \in DOMAIN providers : providers[p].verified <=
          Cardinality({r \in DOMAIN kycRequests : kycRequests[r].provider = p /\ kycRequests[r].status = "Approved"})
  BY DEF IdentityInv, KycInv, ApprovedBy
<1>2. \A a \in DOMAIN kycTiers : \E r \in DOMAIN kycRequests :
          kycRequests[r].applicant = a /\ kycRequests[r].tier = kycTiers[a] /\ kycRequests[r].status = "Approved"
  BY DEF IdentityInv, KycInv, ApprovedFor
<1>3. ASSUME NEW a \in Persons, NEW value \in IdentityValueArgs, MayTransact(a, value)
      PROVE  \E r \in DOMAIN kycRequests : kycRequests[r].applicant = a /\ value <= TierLimit[kycRequests[r].tier]
  BY <1>3, <1>2 DEF MayTransact
<1>4. ASSUME NEW a \in DOMAIN identities \cap DOMAIN metrics, identities[a].reputation <= 1000
      PROVE  TrustScore(identities[a], metrics[a]) <= 88
  BY <1>4, TrustIsBounded DEF IdentityInv, PeopleInv, GoodIdentity
<1> QED
  BY <1>1, <1>2, <1>3, <1>4 DEF TiersWereApproved

\* Standing is earned in both registries: an account is compliant only by checks
\* passed since the verification that counts, none failed, consent given and no tax
\* owed, whichever of them came in a batch and however often it was verified; and a
\* KYC tier was approved for its account by the provider asked, who counts each
\* request once (is_compliant, check_transaction_compliance, complete_kyc_verification).
THEOREM StandingIsAlwaysEarned == RegistriesSpec => []StandingIsEarned
<1>1. ComplianceInv /\ IdentityInv => StandingIsEarned
  BY ComplianceInvImplies, TiersFollow DEF StandingIsEarned
<1> QED
  BY <1>1, ComplianceInvAlways, IdentityInvAlways, PTL
====

---- MODULE MCRegistry ----
(***************************************************************************)
(* Model checking of the property registry with the compliance and the     *)
(* identity registry it asks, aspect by aspect (focus). Every step is a    *)
(* step of one of the three modules and leaves the other registries alone, *)
(* except where a transfer reports to the identity registry. Ledgers       *)
(* follow which checks an account has passed since it was verified last,   *)
(* and who has vouched for a recovery.                                     *)
(***************************************************************************)
EXTENDS PropertyRegistry

CONSTANTS A, B, C, R, Foci

VARIABLES
    focus,
    passed,     \* by account: checks passed since the last verification, "barred" once one failed
    vouched,    \* by identity: guardians who approved since the recovery began
    askedAt,    \* by account: block of the last request for deletion
    cause       \* of an identity that left its account in the last step

ledgers == <<passed, vouched, askedAt, cause>>
registriesVars == <<block, registryVars, complianceVars, identityVars, ledgers>>
mcVars == <<registriesVars, focus>>

MCAccounts == {A, B, C}
MCPersons == {A, B, C, R}
MCJurisdictions == {"US", "UAE"}
MCDefaultRules == [j \in {"US"} |-> [level |-> 3, retention |-> 2, allRequired |-> TRUE]]
MCRulesArgs == {[level |-> 2, retention |-> 1, allRequired |-> FALSE]}
MCDefaultOperations == [j \in MCJurisdictions |-> IF j = "US" THEN {"Mint", "Bridge"} ELSE {"Mint"}]
MCOperationArgs == {{}, {"Mint"}, {"Bridge"}}
MCProofArgs == {<<"Passport", "None">>, <<"Passport", "MultiFactor">>, <<"NationalId", "FaceRecognition">>}
MCTaxArgs == {[settled |-> TRUE, clearance |-> 0], [settled |-> TRUE, clearance |-> 2], [settled |-> FALSE, clearance |-> 0]}
MCTierLimit == [tier \in 0..4 |-> 10 * tier]
MCGuardianArgs == {{B, C}, {C}}
MCDurationArgs == {{}, {1}}

RegistriesInit ==
    /\ ChainInit
    /\ RegistryInit
    /\ ComplianceInit
    /\ IdentityInit
    /\ passed = [a \in Clients |-> {}]
    /\ vouched = [a \in Persons |-> {}]
    /\ askedAt = [a \in Persons |-> 0]
    /\ cause = "none"

MCInit == RegistriesInit /\ focus \in Foci

MCTick == NextBlock /\ UNCHANGED <<registryVars, complianceVars, identityVars, focus, ledgers>>
MCTryAutoResume ==
    TryAutoResume /\ UNCHANGED <<complianceVars, identityVars, focus, ledgers>>

----
\* The messages that matter to a ledger, with their entries in it

\* A verification starts anew, but for what is owed; a check that fails bars the
\* account until the next one.
Verified(a) == passed' = [passed EXCEPT ![a] = @ \cap {"debt"}]
Told(a, check, ok) ==
    passed' = [passed EXCEPT ![a] = IF ok THEN @ \cup {check} ELSE @ \cup {"barred"}]
Consented(a, consent) ==
    passed' = [passed EXCEPT ![a] = IF consent = "Given" THEN @ \cup {"consent"} ELSE @ \ {"consent"}]
Owed(a, status) ==
    passed' = [passed EXCEPT ![a] = IF status.settled THEN @ \ {"debt"} ELSE @ \cup {"debt"}]

VerifyMessage(caller, a) ==
    \/ \E j \in Jurisdictions, risk \in Risks, proof \in ProofArgs, score \in RiskScoreArgs :
          SubmitVerification(caller, a, j, risk, proof, score)
    \/ \E r \in DOMAIN verificationRequests, risk \in Risks, proof \in ProofArgs, score \in RiskScoreArgs :
          verificationRequests[r].account = a /\ ProcessVerificationRequest(caller, r, risk, proof, score)

AmlMessage(caller, a) ==
    \E ok \in BOOLEAN, factors \in 0..4 : UpdateAmlStatus(caller, a, ok, factors) /\ Told(a, "aml", ok /\ factors < 3)
SanctionsMessage(caller, a) ==
    \E ok \in BOOLEAN : UpdateSanctionsStatus(caller, a, ok) /\ Told(a, "sanctions", ok)

\* A batch of two, which may be one account twice.
TwoAmlChecks(caller, a, b, f, g, x, y) ==
    /\ BatchAmlCheck(caller, <<[account |-> a, factors |-> f, funds |-> x], [account |-> b, factors |-> g, funds |-> y]>>)
    /\ passed' = [c \in Clients |->
           IF c \notin {a, b} \cap DOMAIN compliance THEN passed[c]
           ELSE passed[c] \cup {"aml"}
                \cup (IF (c = a /\ ~(f < 3 /\ x)) \/ (c = b /\ ~(g < 3 /\ y)) THEN {"barred"} ELSE {})]
TwoSanctionsChecks(caller, a, b, x, y) ==
    /\ BatchSanctionsCheck(caller, <<[account |-> a, passed |-> x], [account |-> b, passed |-> y]>>)
    /\ passed' = [c \in Clients |->
           IF c \notin {a, b} THEN passed[c]
           ELSE passed[c] \cup {"sanctions"}
                \cup (IF (c = a /\ ~x) \/ (c = b /\ ~y) THEN {"barred"} ELSE {})]
BatchMessage(caller, a, b) ==
    \E x, y \in BOOLEAN :
        TwoSanctionsChecks(caller, a, b, x, y) \/ \E f, g \in 0..4 : TwoAmlChecks(caller, a, b, f, g, x, y)

\* No identity leaves its account.
NoCause == cause' = "none" /\ UNCHANGED <<vouched, askedAt>>

RecoveryBegun(caller) ==
    InitiateRecovery(caller) /\ vouched' = [vouched EXCEPT ![caller] = {}] /\ cause' = "none" /\ UNCHANGED askedAt
RecoveryApproved(caller, a, new) ==
    /\ ApproveRecovery(caller, a, new)
    /\ vouched' = [vouched EXCEPT ![a] = @ \cup {caller}]
    /\ cause' = "recovery" /\ UNCHANGED askedAt
Ported(caller, new) ==
    /\ PortIdentity(caller, new)
    /\ vouched' = [vouched EXCEPT ![new] = vouched[caller]]
    /\ cause' = "port" /\ UNCHANGED askedAt
DeletionAsked(caller) ==
    /\ RequestIdentityDeletion(caller)
    /\ askedAt' = [askedAt EXCEPT ![caller] = block]
    /\ cause' = "none" /\ UNCHANGED vouched
DeletionConfirmed(caller) ==
    ConfirmIdentityDeletion(caller) /\ cause' = "deletion" /\ UNCHANGED <<vouched, askedAt>>

----
\* The three registries with every message and its entry in the ledgers, without the
\* foci and bounds below

RegistryMoves ==
    /\ \/ TitleNext
       \/ /\ \/ PauseNext \/ AuthorityNext \/ LinkNext \/ OracleValuationNext \/ BatchNext \/ EscrowNext \/ BadgeNext
          /\ UNCHANGED identityVars
    /\ UNCHANGED <<complianceVars, passed>> /\ NoCause

ComplianceMoves ==
    /\ \/ \E caller, a \in Clients :
             \/ VerifyMessage(caller, a) /\ Verified(a)
             \/ AmlMessage(caller, a) \/ SanctionsMessage(caller, a)
             \/ RevokeVerification(caller, a) /\ Told(a, "revoked", FALSE)
             \/ \E consent \in Consents : UpdateConsent(caller, a, consent) /\ Consented(a, consent)
             \/ \E status \in TaxArgs : UpdateTaxComplianceStatus(caller, a, status) /\ Owed(a, status)
             \/ \E b \in Clients : BatchMessage(caller, a, b)
       \/ \E a \in Clients : ComplianceDeletion(a) /\ Told(a, "deleted", FALSE)
       \/ /\ \/ ComplianceOwnerNext \/ TokenRulesNext
             \/ \E a \in Clients : ScreenAddress(a) \/ \E j \in Jurisdictions : CreateVerificationRequest(a, j)
          /\ UNCHANGED passed
    /\ UNCHANGED <<registryVars, identityVars, vouched, askedAt, cause>>

IdentityMoves ==
    /\ \/ \E caller \in Persons :
             \/ RecoveryBegun(caller) \/ DeletionAsked(caller) \/ DeletionConfirmed(caller)
             \/ \E a, new \in Persons : RecoveryApproved(caller, a, new)
             \/ \E new \in Persons : Ported(caller, new)
             \/ \E a \in Persons, some \in GuardianArgs, threshold \in 0..3 :
                   SetRecoveryGuardians(caller, a, some, threshold) /\ NoCause
       \/ (ReputationNext \/ KycNext) /\ NoCause
    /\ UNCHANGED <<registryVars, complianceVars, passed>>

BlockMoves == NextBlock /\ UNCHANGED <<registryVars, complianceVars, identityVars, ledgers>>

RegistriesNext == RegistryMoves \/ ComplianceMoves \/ IdentityMoves \/ BlockMoves
RegistriesSpec == RegistriesInit /\ [][RegistriesNext]_registriesVars

----
\* The registry

\* Who is guardian or admin changes for B and C; A keeps its roles. The deadline of
\* a pause is within the blocks of a behaviour.
PauseStep ==
    \/ PauseNext /\ guardians' \subseteq {B} /\ (\A t \in pause'.autoResume : t <= MaxBlock)
    \/ /\ AuthorityNext
       /\ roles' \ roles \subseteq {<<B, "Admin">>, <<B, "SuperAdmin">>, <<C, "PauseGuardian">>}
       /\ roles \ roles' \subseteq {B, C} \X Roles
       /\ registryAdmin' = A

TitleStep ==
    \/ TitleNext
    \/ OracleValuationNext /\ UNCHANGED identityVars
    \/ /\ EmergencyPause(A) \/ SetOracle(A) \/ TryAutoResume
       /\ UNCHANGED identityVars
    \/ /\ \/ RequestResume(A)
          \/ \E a \in Accounts : SetPauseGuardian(A, B, TRUE) \/ ApproveResume(a)
       /\ UNCHANGED identityVars

\* Lists grow with every batch that names an id twice: a bound.
BatchStep ==
    /\ \/ BatchNext
       \/ \E id \in propertyIds, a, b \in Accounts : Approve(a, id, {b})
    /\ MapThenSumSet(LAMBDA a : Len(ownerProperties'[a]), Accounts) <= 3
    /\ UNCHANGED identityVars

EscrowStep ==
    \/ Len(properties) = 0 /\ RegisterProperty(A, 5)
    \/ EscrowNext
    \/ \E id \in propertyIds, a, b \in Accounts : TransferProperty(a, id, b)

BadgeStep ==
    \/ Len(properties) = 0 /\ RegisterProperty(A, 5)
    \/ BadgeNext /\ A \notin badgeVerifiers' /\ C \notin badgeVerifiers'

LinkStep ==
    /\ LinkNext
    /\ Cardinality(linked') <= 1 /\ Cardinality(container') <= 1
    /\ \A s \in Services : breakers'[s] = 0 \/ s = "Oracle"

RegistryStep ==
    /\ \/ focus = "pause" /\ PauseStep
       \/ focus = "escrows" /\ EscrowStep
       \/ focus = "badges" /\ BadgeStep
       \/ focus = "links" /\ LinkStep
    /\ UNCHANGED <<complianceVars, identityVars, ledgers>>

TitleFocus ==
    /\ \/ focus = "titles" /\ TitleStep
       \/ focus = "batches" /\ BatchStep
    /\ UNCHANGED <<complianceVars, ledgers>>

----
\* The compliance registry

VerifyStep(caller, a) ==
    /\ \/ \E j \in Jurisdictions, proof \in ProofArgs, score \in RiskScoreArgs :
             SubmitVerification(caller, a, j, "Low", proof, score)
       \/ \E r \in DOMAIN verificationRequests, proof \in ProofArgs, score \in RiskScoreArgs :
             verificationRequests[r].account = a /\ ProcessVerificationRequest(caller, r, "Medium", proof, score)
    /\ kyc'["total"].attempts <= 3
    /\ Verified(a)

VerificationStep ==
    \/ \E caller \in {A, B}, a \in {B, C} : VerifyStep(caller, a)
    \/ \E a \in {B, C}, j \in Jurisdictions : CreateVerificationRequest(a, j) /\ UNCHANGED passed
    \/ /\ \/ AddVerifier(A, B)
          \/ \E type \in 0..3 : RegisterServiceProvider(A, C, type)
          \/ \E new \in RulesArgs : UpdateJurisdictionRules(A, "UAE", new)
       /\ UNCHANGED passed

\* What is told about an account: by one of its checks, or by a batch of two.
CheckStep(who) ==
    \/ \E caller, a \in who :
          \/ AmlMessage(caller, a) \/ SanctionsMessage(caller, a)
          \/ RevokeVerification(caller, a) /\ Told(a, "revoked", FALSE)
          \/ \E consent \in {"Given", "Withdrawn"} : UpdateConsent(caller, a, consent) /\ Consented(a, consent)
    \/ \E a \in who : ComplianceDeletion(a) /\ Told(a, "deleted", FALSE)

\* Screenings, and tax, of an account that has passed its checks or not.
TaxStep ==
    \/ /\ \/ ScreenAddress(A)
          \/ AddVerifier(A, B) \/ SetTaxModule(A, B, TRUE) \/ SetTaxModule(A, B, FALSE)
          \/ \E ttl \in TtlArgs : SetScreeningCacheTtl(A, ttl)
       /\ UNCHANGED passed
    \/ \E caller \in {A, B}, status \in TaxArgs : UpdateTaxComplianceStatus(caller, A, status) /\ Owed(A, status)
    \/ UpdateAmlStatus(A, A, TRUE, 0) /\ Told(A, "aml", TRUE)
    \/ SanctionsMessage(A, A)
    \/ UpdateConsent(A, A, "Given") /\ Consented(A, "Given")

BatchCheckStep == \E a, b \in {A, B} : BatchMessage(A, a, b)

OneVerification(a) ==
    /\ kyc["total"].attempts < 2
    /\ SubmitVerification(A, a, "US", "Low", <<"Passport", "MultiFactor">>, 10)
    /\ Verified(a)

ComplianceStep ==
    /\ \/ focus = "verification" /\ VerificationStep
       \/ focus = "checks" /\ (CheckStep({A}) \/ OneVerification(A))
       \/ focus = "taxes" /\ (TaxStep \/ OneVerification(A))
       \/ focus = "batchChecks" /\ (BatchCheckStep \/ \E a \in {A, B} : OneVerification(a))
       \/ focus = "tokens" /\ TokenRulesNext /\ UNCHANGED passed
    /\ UNCHANGED <<registryVars, identityVars, vouched, askedAt, cause>>

\* Titles of accounts that are verified, checked and lose their standing.
VettingStep ==
    \/ /\ \/ \E a \in {A, B} : RegisterProperty(a, 5)
          \/ \E id \in propertyIds, a, b \in {A, B} : TransferProperty(a, id, b)
          \/ TripBreaker(A, "ComplianceRegistry")
          \/ RegisterService(A, "ComplianceRegistry")
       /\ UNCHANGED <<complianceVars, identityVars, ledgers>>
    \/ /\ \/ OneVerification(B)
          \/ UpdateAmlStatus(A, B, TRUE, 0) /\ Told(B, "aml", TRUE)
          \/ SanctionsMessage(A, B)
          \/ UpdateConsent(B, B, "Given") /\ Consented(B, "Given")
       /\ UNCHANGED <<registryVars, identityVars, vouched, askedAt, cause>>
----
\* The identity registry

\* Transfers between accounts with an identity, reported by the registry.
ReportStep ==
    \/ /\ \/ Len(properties) = 0 /\ RegisterProperty(A, 5)
          \/ RegisterService(A, "IdentityRegistry")
          \/ \E threshold \in ThresholdArgs : SetMinReputationThreshold(A, threshold)
       /\ UNCHANGED <<identityVars, complianceVars, ledgers>>
    \/ /\ \E id \in propertyIds, a, b \in Accounts : TransferProperty(a, id, b)
       /\ UNCHANGED <<complianceVars, ledgers>>
       /\ \A a \in DOMAIN metrics' : metrics'[a].total <= MaxTransactions
    \/ /\ \/ \E a \in {A, B} : CreateIdentity(a, FALSE) \/ VerifyIdentity(A, a, 2) \/ RevokeIdentity(A, a)
          \/ SetAuthorizedVerifier(A, R, TRUE) \/ SetAuthorizedVerifier(A, R, FALSE)
          \/ UpdateReputation(A, B, FALSE, 0)
       /\ UNCHANGED <<registryVars, complianceVars, ledgers>>

ReputationStep ==
    \/ /\ ReputationNext
       /\ DOMAIN identities' \subseteq {B} /\ DOMAIN metrics' \subseteq {B} /\ DOMAIN assessments' \subseteq {<<C, B>>}
       /\ \A a \in DOMAIN identities' : identities'[a].level \in {0, 3}
    \/ SetAuthorizedVerifier(A, C, TRUE) \/ SetAuthorizedVerifier(A, C, FALSE)
    \/ \E chain \in ChainIds : AddSupportedChain(A, chain)

\* A's identity, which moves to C or onto B's.
RecoveryStep ==
    \/ /\ \/ \E a \in {A, B} : CreateIdentity(a, FALSE)
          \/ \E some \in GuardianArgs, threshold \in {1, 2} : SetRecoveryGuardians(A, A, some, threshold)
          \/ RevokeCompromisedIdentity(A, A)
       /\ NoCause
    \/ RecoveryBegun(A)
    \/ \E caller \in {B, C}, a \in {A, C}, new \in {B, C} : RecoveryApproved(caller, a, new)
    \/ Ported(A, C)

DeletionStep ==
    \/ CreateIdentity(A, FALSE) /\ NoCause
    \/ Ported(A, C) \/ Ported(C, A)
    \/ DeletionAsked(A) \/ DeletionConfirmed(A)

\* Providers B and C, applicant A.
KycStep ==
    \/ /\ KycNext
       /\ identityVerifiers' = identityVerifiers /\ chains' = chains
       /\ DOMAIN providers' \subseteq {B, C} /\ \A r \in DOMAIN kycRequests' : kycRequests'[r].applicant = A
       /\ NoCause
    \/ CreateIdentity(A, FALSE) /\ NoCause
    \/ DeletionAsked(A) \/ DeletionConfirmed(A)

IdentityStep ==
    /\ \/ focus = "reputation" /\ ReputationStep /\ NoCause
       \/ focus = "recovery" /\ RecoveryStep
       \/ focus = "deletion" /\ DeletionStep
       \/ focus = "kyc" /\ KycStep
    /\ UNCHANGED <<registryVars, complianceVars, passed>>

TimedFoci == {"pause", "links", "checks", "taxes", "vetting", "deletion", "kyc"}

MCNext ==
    /\ UNCHANGED focus
    /\ \/ RegistryStep
       \/ TitleFocus
       \/ ComplianceStep
       \/ focus = "vetting" /\ VettingStep
       \/ focus = "reporting" /\ ReportStep
       \/ IdentityStep
       \/ focus \in TimedFoci /\ MCTick

MCSpec == MCInit /\ [][MCNext]_mcVars

\* Blocks are produced, and somebody asks for a resumption whose time has come:
\* the message is open to everyone.
FairSpec == MCSpec /\ WF_mcVars(MCTick) /\ WF_mcVars(MCTryAutoResume)

----
\* Properties

\* The types of the three registries.
RegistriesTypeOK == RegistryTypeOK /\ ComplianceTypeOK /\ IdentityTypeOK

\* The books of the three registries agree: types, lists, pages, badges and counts
\* of the titles, and the counters of verifications.
RegistriesSound == RegistriesTypeOK /\ RegistryBooksAgree /\ RequestsRecounted

\* An account is compliant only if since the verification that counts it has
\* passed the AML and the sanctions check, has given its consent and not taken it
\* back, failed no check, and owes no tax; and so it is for every operation that
\* asks for more (is_compliant, check_transaction_compliance).
Earned(a) == {"aml", "sanctions", "consent"} \subseteq passed[a] /\ {"barred", "debt"} \cap passed[a] = {}
ComplianceIsEarned ==
    \A a \in Clients :
        /\ IsCompliant(a) => Earned(a)
        /\ \A operation \in RecordOperations \cup MarketOperations : TransactionCompliant(a, operation) => Earned(a)

\* Standing is earned in both registries: compliance by the checks passed since,
\* a KYC tier by the request a provider approved.
StandingIsEarned == ComplianceIsEarned /\ TiersWereApproved

\* With a compliance registry set, a property is registered by, or transferred
\* to, an account that has earned its compliance, and not while the breaker is open;
\* only the two batch transfers do not ask (transfer_property, check_compliance).
TitlesAreVetted ==
    [][("ComplianceRegistry" \in linked /\ ~BatchTransferNext) =>
        \A id \in DOMAIN properties' :
            (id \in DOMAIN properties => properties'[id].owner # properties[id].owner) =>
                /\ Earned(properties'[id].owner)
                /\ block >= breakers["ComplianceRegistry"]]_registriesVars

\* Titles change hands under both guards at once: only to vetted accounts, and
\* never while the registry is paused.
TitlesMoveByRight == TitlesAreVetted /\ PauseFreezesTitles

\* An identity leaves its account because the owner of one that is not revoked moves
\* it to an account without an identity, or as many guardians as are needed have
\* vouched since the recovery began, or a cooldown has passed since its deletion
\* was asked for last (port_identity, approve_recovery, confirm_data_deletion).
IdentitiesMoveByRight ==
    [][\A a \in DOMAIN identities \ DOMAIN identities' :
        \/ cause' = "port" /\ a \notin revocations /\ Cardinality(DOMAIN identities') = Cardinality(DOMAIN identities)
        \/ cause' = "recovery" /\ Cardinality(vouched'[a]) >= identities[a].threshold
        \/ cause' = "deletion" /\ block >= askedAt[a] + DeletionCooldown]_registriesVars
====

---- MODULE Gdpr ----
(***************************************************************************)
(* Consents of data subjects to purposes of processing, which they or the  *)
(* admin give and withdraw and which expire, retention policies, and       *)
(* requests for access to one's data. Time is the block number.            *)
(***************************************************************************)
EXTENDS BlockClock, SequencesExt, FiniteSetsExt

CONSTANTS GdprAdmin, Subjects, Purposes, OtherPurposes, ConsentDurations, RetentionPeriods, MaxConsents, MaxDataRequests

VARIABLES consents, subjectConsents, retentionPolicies, dataRequests, subjectRequests

gdprVars == <<consents, subjectConsents, retentionPolicies, dataRequests, subjectRequests>>

ASSUME GdprConstants ==
    /\ GdprAdmin \in Subjects /\ OtherPurposes \subseteq Purposes
    /\ ConsentDurations \subseteq Nat /\ MaxConsents \in Nat /\ MaxDataRequests \in Nat

ConsentRecord == [subject : Subjects, purpose : Purposes, status : {"Granted", "Withdrawn", "Expired"}, expires : Nat]
AccessRequest == [subject : Subjects, fulfilled : BOOLEAN]

GdprInit ==
    /\ consents = << >> /\ subjectConsents = [s \in Subjects |-> << >>]
    /\ retentionPolicies = << >>
    /\ dataRequests = << >> /\ subjectRequests = [s \in Subjects |-> << >>]

\* All purposes given in words share one key of the policies.
PurposeKey(purpose) == IF purpose \in OtherPurposes THEN "Other" ELSE purpose

GrantConsent(caller, subject, purpose, duration) ==
    /\ caller \in {subject, GdprAdmin}
    /\ duration > 0
    /\ consents' = Append(consents, [subject |-> subject, purpose |-> purpose, status |-> "Granted", expires |-> block + duration])
    /\ subjectConsents' = [subjectConsents EXCEPT ![subject] = Append(@, Len(consents) + 1)]
    /\ UNCHANGED <<retentionPolicies, dataRequests, subjectRequests>>

WithdrawConsent(caller, id) ==
    /\ id \in DOMAIN consents
    /\ caller \in {consents[id].subject, GdprAdmin}
    /\ consents[id].status = "Granted"
    /\ consents' = [consents EXCEPT ![id].status = "Withdrawn"]
    /\ UNCHANGED <<subjectConsents, retentionPolicies, dataRequests, subjectRequests>>

ExpireConsent(caller, id) ==
    /\ caller = GdprAdmin /\ id \in DOMAIN consents
    /\ consents[id].status = "Granted" /\ consents[id].expires <= block
    /\ consents' = [consents EXCEPT ![id].status = "Expired"]
    /\ UNCHANGED <<subjectConsents, retentionPolicies, dataRequests, subjectRequests>>

SubjectConsents(subject) == {subjectConsents[subject][i] : i \in DOMAIN subjectConsents[subject]}
Valid(id) == consents[id].status = "Granted" /\ consents[id].expires > block
CheckConsent(subject, purpose) == \E id \in SubjectConsents(subject) : consents[id].purpose = purpose /\ Valid(id)

SetRetentionPolicy(caller, purpose, days) ==
    /\ caller = GdprAdmin
    /\ retentionPolicies' = [k \in DOMAIN retentionPolicies \cup {PurposeKey(purpose)} |->
                                IF k = PurposeKey(purpose) THEN [purpose |-> purpose, days |-> days] ELSE retentionPolicies[k]]
    /\ UNCHANGED <<consents, subjectConsents, dataRequests, subjectRequests>>

RetentionPolicy(purpose) == retentionPolicies[PurposeKey(purpose)]

RequestDataAccess(caller) ==
    /\ dataRequests' = Append(dataRequests, [subject |-> caller, fulfilled |-> FALSE])
    /\ subjectRequests' = [subjectRequests EXCEPT ![caller] = Append(@, Len(dataRequests) + 1)]
    /\ UNCHANGED <<consents, subjectConsents, retentionPolicies>>

\* A request may be fulfilled again.
FulfillDataAccess(caller, id) ==
    /\ caller = GdprAdmin /\ id \in DOMAIN dataRequests
    /\ dataRequests' = [dataRequests EXCEPT ![id].fulfilled = TRUE]
    /\ UNCHANGED <<consents, subjectConsents, retentionPolicies, subjectRequests>>

GdprNext ==
    \E caller \in Subjects :
        \/ \E s \in Subjects, p \in Purposes, d \in ConsentDurations : Len(consents) < MaxConsents /\ GrantConsent(caller, s, p, d)
        \/ \E id \in DOMAIN consents : WithdrawConsent(caller, id) \/ ExpireConsent(caller, id)
        \/ \E p \in Purposes, days \in RetentionPeriods : SetRetentionPolicy(caller, p, days)
        \/ Len(dataRequests) < MaxDataRequests /\ RequestDataAccess(caller)
        \/ \E id \in DOMAIN dataRequests : FulfillDataAccess(caller, id)

----
\* Properties

GdprTypeOK ==
    /\ consents \in Seq(ConsentRecord) /\ dataRequests \in Seq(AccessRequest)
    /\ \A k \in DOMAIN retentionPolicies : PurposeKey(retentionPolicies[k].purpose) = k

\* Every record is filed under its own subject and found there, one that is called
\* expired is, and processing is allowed only by a consent that its own subject, or the
\* admin, gave and nobody withdrew (grant_consent, expire_consent, check_consent).
ConsentBooksAgree ==
    /\ GdprTypeOK
    /\ \A s \in Subjects : SubjectConsents(s) = {id \in DOMAIN consents : consents[id].subject = s}
    /\ \A s \in Subjects : Range(subjectRequests[s]) = {id \in DOMAIN dataRequests : dataRequests[id].subject = s}
    /\ \A id \in DOMAIN consents : consents[id].status = "Expired" => consents[id].expires <= block
    /\ \A s \in Subjects, p \in Purposes : CheckConsent(s, p) = \E id \in DOMAIN consents : consents[id].subject = s /\ consents[id].purpose = p /\ Valid(id)
====

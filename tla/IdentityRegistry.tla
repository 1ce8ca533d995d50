---- MODULE IdentityRegistry ----
(***************************************************************************)
(* The identity registry: identities with their verification, reputation   *)
(* and trust, recovery by guardians, moving to another account, KYC tiers  *)
(* granted by providers, and deletion after a cooldown. Left out: the DID  *)
(* documents and the map from DIDs to accounts, which no message reads, the*)
(* expiry of a verification, which is stored and never read, and the audit *)
(* entries.                                                                *)
(***************************************************************************)
EXTENDS BlockClock

CONSTANTS
    Persons,            \* the accounts
    IdentityAdmin,
    FirstChains,        \* the chains supported from the start
    Tiers,              \* the KYC tiers in use, of 0..4
    TierLimit,          \* max_transaction_value by tier
    DeletionCooldown,   \* deletion_cooldown_blocks
    ReputationArgs, IdentityValueArgs, GuardianArgs, ChainIds,
    MaxTransactions, MaxKycRequests    \* bounds on metrics and requests

VARIABLES
    identityVerifiers,  \* authorized_verifiers: TRUE, or FALSE once removed
    identities,         \* by account
    metrics,            \* reputation_metrics, by account
    assessments,        \* trust_assessments, by assessor and target
    crossChain,         \* accounts and chains with a verification
    chains,             \* supported_chains
    revocations,
    privacyNonces,
    providers, kycRequests, kycTiers,
    deletions           \* data_deletion_requests, by account

identityVars == <<identityVerifiers, identities, metrics, assessments, crossChain, chains, revocations,
                  privacyNonces, providers, kycRequests, kycTiers, deletions>>
identityLogs == <<assessments, crossChain, privacyNonces>>
kycVars == <<providers, kycRequests, kycTiers>>
identityAdminVars == <<identityVerifiers, chains>>

\* trust_score and the bonus of calculate_trust_score, by verification level.
Trust == <<0, 60, 75, 90, 100>>
Identity ==
    [verified : BOOLEAN, level : 0..4, tier : 0..4, trust : 0..100, reputation : Nat,
     guardians : SUBSET Persons, threshold : Nat, active : BOOLEAN, approvals : SUBSET Persons, private : BOOLEAN]
IdentityMetrics == [total : Nat, successful : Nat, score : 0..1000, value : Nat]
NoTransactions == [total |-> 0, successful |-> 0, score |-> 500, value |-> 0]

ASSUME IdentityConstants ==
    /\ IdentityAdmin \in Persons /\ Tiers \subseteq 0..4 /\ TierLimit \in [0..4 -> Nat]
    /\ DeletionCooldown \in Nat /\ MaxTransactions \in Nat /\ MaxKycRequests \in Nat
    /\ ReputationArgs \subseteq Nat /\ IdentityValueArgs \subseteq Nat /\ \A some \in GuardianArgs : some \subseteq Persons

IdentityTypeOK ==
    /\ DOMAIN identityVerifiers \subseteq Persons
    /\ DOMAIN identities \subseteq Persons /\ \A a \in DOMAIN identities : identities[a] \in Identity
    /\ DOMAIN metrics \subseteq Persons /\ \A a \in DOMAIN metrics : metrics[a] \in IdentityMetrics
    /\ DOMAIN assessments \subseteq Persons \X Persons
    /\ crossChain \subseteq Persons \X chains
    /\ revocations \subseteq Persons
    /\ DOMAIN kycTiers \subseteq Persons /\ \A a \in DOMAIN kycTiers : kycTiers[a] \in Tiers
    /\ DOMAIN deletions \subseteq Persons

Without(f, k) == [x \in DOMAIN f \ {k} |-> f[x]]
With(f, k, v) == [x \in DOMAIN f \cup {k} |-> IF x = k THEN v ELSE f[x]]

IdentityInit ==
    /\ identityVerifiers = << >>
    /\ identities = << >> /\ metrics = << >> /\ assessments = << >>
    /\ crossChain = {} /\ chains = FirstChains
    /\ revocations = {} /\ privacyNonces = [a \in Persons |-> 0]
    /\ providers = << >> /\ kycRequests = << >> /\ kycTiers = << >>
    /\ deletions = << >>

MayVerify(caller) ==
    caller = IdentityAdmin \/ (caller \in DOMAIN identityVerifiers /\ identityVerifiers[caller])

----
\* Identities, their verification and reputation

CreateIdentity(caller, private) ==
    /\ caller \notin DOMAIN identities
    /\ identities' = With(identities, caller,
           [verified |-> FALSE, level |-> 0, tier |-> 0, trust |-> 50, reputation |-> 500, guardians |-> {},
            threshold |-> 3, active |-> FALSE, approvals |-> {}, private |-> private])
    /\ metrics' = With(metrics, caller, NoTransactions)
    /\ UNCHANGED <<block, identityAdminVars, identityLogs, revocations, kycVars, deletions>>

VerifyIdentity(caller, a, level) ==
    /\ MayVerify(caller)
    /\ a \in DOMAIN identities
    /\ identities' = [identities EXCEPT ![a].verified = TRUE, ![a].level = level, ![a].trust = Trust[level + 1]]
    /\ UNCHANGED <<block, identityAdminVars, metrics, identityLogs, revocations, kycVars, deletions>>

Revoked(d) == [d EXCEPT !.verified = FALSE, !.level = 0, !.trust = 0]

Revoke(a) ==
    /\ a \in DOMAIN identities
    /\ identities' = [identities EXCEPT ![a] = Revoked(@)]
    /\ revocations' = revocations \cup {a}
    /\ UNCHANGED <<block, identityAdminVars, metrics, identityLogs, kycVars, deletions>>

\* Asks whether the caller has an entry among the verifiers, which one removed
\* keeps: removing stores false.
RevokeIdentity(caller, a) == (caller \in DOMAIN identityVerifiers \/ caller = IdentityAdmin) /\ Revoke(a)

RevokeCompromisedIdentity(caller, a) == MayVerify(caller) /\ Revoke(a)
NextMetrics(m, successful, value) ==
    [total |-> m.total + 1, value |-> m.value + value,
     successful |-> IF successful THEN m.successful + 1 ELSE m.successful,
     score |-> IF successful THEN IF m.score + 5 > 1000 THEN 1000 ELSE m.score + 5
               ELSE IF m.score < 10 THEN 0 ELSE m.score - 10]

\* The identities and metrics after one transaction of an account: the score of
\* its identity becomes that of the metrics, whatever other chains have told.
Reputed(books, a, successful, value) ==
    LET old == IF a \in DOMAIN books.metrics THEN books.metrics[a] ELSE NoTransactions
        new == NextMetrics(old, successful, value)
    IN  [metrics |-> With(books.metrics, a, new),
         identities |-> IF a \in DOMAIN books.identities
                        THEN [books.identities EXCEPT ![a].reputation = new.score] ELSE books.identities]

UpdateReputation(caller, a, successful, value) ==
    /\ MayVerify(caller)
    /\ a \in DOMAIN metrics => metrics[a].total < MaxTransactions
    /\ LET after == Reputed([metrics |-> metrics, identities |-> identities], a, successful, value) IN
          metrics' = after.metrics /\ identities' = after.identities
    /\ UNCHANGED <<block, identityAdminVars, identityLogs, revocations, kycVars, deletions>>

\* calculate_trust_score.
TrustScore(d, m) ==
    LET rate == IF m.total = 0 THEN 50 ELSE (m.successful * 100) \div m.total
    IN  (d.trust * 40 + (d.reputation \div 10) * 30 + d.level * 10 * 20 + rate * 10) \div 100

RiskOf(score) ==
    IF score >= 80 THEN "Low" ELSE IF score >= 60 THEN "Medium" ELSE IF score >= 40 THEN "High" ELSE "Critical"

AssessTrust(caller, a) ==
    /\ a \in DOMAIN identities
    /\ LET m == IF a \in DOMAIN metrics THEN metrics[a] ELSE NoTransactions IN
          assessments' = With(assessments, <<caller, a>>, RiskOf(TrustScore(identities[a], m)))
    /\ UNCHANGED <<block, identityAdminVars, identities, metrics, crossChain, privacyNonces, revocations, kycVars, deletions>>

\* The average is put into the identity and not into the metrics, and nothing
\* bounds what the caller says its reputation is.
AddCrossChainVerification(caller, chain, reputation) ==
    /\ chain \in chains
    /\ caller \in DOMAIN identities
    /\ crossChain' = crossChain \cup {<<caller, chain>>}
    /\ identities' = [identities EXCEPT ![caller].reputation = (@ + reputation) \div 2]
    /\ UNCHANGED <<block, identityAdminVars, metrics, assessments, privacyNonces, revocations, kycVars, deletions>>

\* Whether a proof is valid is only a matter of its length.
VerifyPrivacyPreserving(caller, valid) ==
    /\ caller \in DOMAIN identities /\ identities[caller].private
    /\ valid => privacyNonces[caller] < MaxTransactions
    /\ privacyNonces' = [privacyNonces EXCEPT ![caller] = IF valid THEN @ + 1 ELSE @]
    /\ UNCHANGED <<block, identityAdminVars, identities, metrics, assessments, crossChain, revocations, kycVars, deletions>>

----
\* Recovery, porting, deletion

\* Mutant: approvals of an earlier attempt count for a new one.
InitiateRecovery_KeepsApprovals(caller) ==
    /\ caller \in DOMAIN identities
    /\ identities' = [identities EXCEPT ![caller].active = TRUE]
    /\ UNCHANGED <<block, identityAdminVars, metrics, identityLogs, revocations, kycVars, deletions>>

\* The new account of the request is not recorded.
InitiateRecovery(caller) ==
    /\ caller \in DOMAIN identities /\ ~identities[caller].active
    /\ identities' = [identities EXCEPT ![caller].active = TRUE, ![caller].approvals = {}]
    /\ UNCHANGED <<block, identityAdminVars, metrics, identityLogs, revocations, kycVars, deletions>>

\* The identity with its metrics under another account; one that is there is lost.
\* Revocations, KYC tiers and deletion requests stay with the old account.
Moved(old, new, d) ==
    /\ identities' = With(Without(identities, old), new, d)
    /\ metrics' = IF old \in DOMAIN metrics THEN With(Without(metrics, old), new, metrics[old]) ELSE metrics
    /\ UNCHANGED <<block, identityAdminVars, identityLogs, revocations, kycVars, deletions>>

\* The guardian whose approval completes the number names the new account.
ApproveRecovery(caller, a, new) ==
    LET d == identities[a]
        approvals == d.approvals \cup {caller}
    IN
    /\ a \in DOMAIN identities
    /\ caller \in d.guardians /\ d.active
    /\ IF Cardinality(approvals) >= d.threshold
       THEN Moved(a, new, [d EXCEPT !.active = FALSE, !.approvals = {}])
       ELSE /\ identities' = [identities EXCEPT ![a].approvals = approvals]
            /\ UNCHANGED <<block, identityAdminVars, metrics, identityLogs, revocations, kycVars, deletions>>

\* The approvals of a running recovery stay.
SetRecoveryGuardians(caller, a, guardians, threshold) ==
    /\ caller = IdentityAdmin
    /\ a \in DOMAIN identities
    /\ identities' = [identities EXCEPT ![a].guardians = guardians, ![a].threshold = threshold]
    /\ UNCHANGED <<block, identityAdminVars, metrics, identityLogs, revocations, kycVars, deletions>>

PortIdentity(caller, new) ==
    /\ new # caller
    /\ caller \in DOMAIN identities
    /\ caller \notin revocations
    /\ new \notin DOMAIN identities
    /\ Moved(caller, new, identities[caller])

\* Asking again starts the cooldown again.
RequestIdentityDeletion(caller) ==
    /\ deletions' = With(deletions, caller, [end |-> block + DeletionCooldown, done |-> FALSE])
    /\ UNCHANGED <<block, identityAdminVars, identities, metrics, identityLogs, revocations, kycVars>>

ConfirmIdentityDeletion(caller) ==
    /\ caller \in DOMAIN deletions /\ ~deletions[caller].done
    /\ block >= deletions[caller].end
    /\ identities' = Without(identities, caller)
    /\ metrics' = Without(metrics, caller)
    /\ kycTiers' = Without(kycTiers, caller)
    /\ deletions' = [deletions EXCEPT ![caller].done = TRUE]
    /\ UNCHANGED <<block, identityAdminVars, identityLogs, revocations, providers, kycRequests>>

----
\* The admin's verifiers and chains, providers and KYC tiers

SetAuthorizedVerifier(caller, verifier, authorized) ==
    /\ caller = IdentityAdmin
    /\ identityVerifiers' = With(identityVerifiers, verifier, authorized)
    /\ UNCHANGED <<block, chains, identities, metrics, identityLogs, revocations, kycVars, deletions>>

AddSupportedChain(caller, chain) ==
    /\ caller = IdentityAdmin
    /\ chains' = chains \cup {chain}
    /\ UNCHANGED <<block, identityVerifiers, identities, metrics, identityLogs, revocations, kycVars, deletions>>

RegisterVerificationProvider(caller, provider, tiers) ==
    /\ caller = IdentityAdmin
    /\ providers' = With(providers, provider, [active |-> TRUE, tiers |-> tiers, verified |-> 0])
    /\ UNCHANGED <<block, identityAdminVars, identities, metrics, identityLogs, revocations, kycRequests, kycTiers, deletions>>

DeactivateProvider(caller, provider) ==
    /\ caller = IdentityAdmin
    /\ provider \in DOMAIN providers
    /\ providers' = [providers EXCEPT ![provider].active = FALSE]
    /\ UNCHANGED <<block, identityAdminVars, identities, metrics, identityLogs, revocations, kycRequests, kycTiers, deletions>>

RequestKycVerification(caller, provider, tier) ==
    /\ Len(kycRequests) < MaxKycRequests
    /\ provider \in DOMAIN providers /\ providers[provider].active /\ tier \in providers[provider].tiers
    /\ kycRequests' = Append(kycRequests, [applicant |-> caller, provider |-> provider, tier |-> tier, status |-> "Pending"])
    /\ UNCHANGED <<block, identityAdminVars, identities, metrics, identityLogs, revocations, providers, kycTiers, deletions>>

\* The provider may be inactive by now, and the applicant without an identity.
CompleteKycVerification(caller, r, approved) ==
    LET q == kycRequests[r] IN
    /\ r \in DOMAIN kycRequests
    /\ q.provider = caller /\ q.status = "Pending"
    /\ kycRequests' = [kycRequests EXCEPT ![r].status = IF approved THEN "Approved" ELSE "Rejected"]
    /\ IF approved
       THEN /\ identities' = IF q.applicant \notin DOMAIN identities THEN identities
                             ELSE [identities EXCEPT ![q.applicant].tier = q.tier, ![q.applicant].level = q.tier,
                                                     ![q.applicant].verified = TRUE]
            /\ kycTiers' = With(kycTiers, q.applicant, q.tier)
            /\ providers' = [providers EXCEPT ![caller].verified = @ + 1]
       ELSE UNCHANGED <<identities, kycTiers, providers>>
    /\ UNCHANGED <<block, identityAdminVars, metrics, identityLogs, revocations, deletions>>

\* check_tier_privileges: without a tier an account cannot trade.
MayTransact(a, value) ==
    LET tier == IF a \in DOMAIN kycTiers THEN kycTiers[a] ELSE 0
    IN  value <= TierLimit[tier] /\ tier > 0

----

IdentityTimeNext == NextBlock /\ UNCHANGED identityVars

ReputationNext ==
    \E caller \in Persons :
        \/ \E private \in BOOLEAN : CreateIdentity(caller, private)
        \/ \E a \in Persons, level \in 0..4 : VerifyIdentity(caller, a, level)
        \/ \E a \in Persons : RevokeIdentity(caller, a) \/ RevokeCompromisedIdentity(caller, a) \/ AssessTrust(caller, a)
        \/ \E a \in Persons, successful \in BOOLEAN, value \in IdentityValueArgs :
              UpdateReputation(caller, a, successful, value)
        \/ \E chain \in ChainIds, reputation \in ReputationArgs : AddCrossChainVerification(caller, chain, reputation)
        \/ \E valid \in BOOLEAN : VerifyPrivacyPreserving(caller, valid)

RecoveryNext ==
    \E caller \in Persons :
        \/ InitiateRecovery(caller)
        \/ \E a, new \in Persons : ApproveRecovery(caller, a, new)
        \/ \E a \in Persons, guardians \in GuardianArgs, threshold \in 0..3 :
              SetRecoveryGuardians(caller, a, guardians, threshold)
        \/ \E new \in Persons : PortIdentity(caller, new)
        \/ RequestIdentityDeletion(caller) \/ ConfirmIdentityDeletion(caller)

KycNext ==
    \E caller \in Persons :
        \/ \E v \in Persons, authorized \in BOOLEAN : SetAuthorizedVerifier(caller, v, authorized)
        \/ \E chain \in ChainIds : AddSupportedChain(caller, chain)
        \/ \E p \in Persons : RegisterVerificationProvider(caller, p, Tiers) \/ DeactivateProvider(caller, p)
        \/ \E p \in Persons, tier \in Tiers : RequestKycVerification(caller, p, tier)
        \/ \E r \in DOMAIN kycRequests, approved \in BOOLEAN : CompleteKycVerification(caller, r, approved)

IdentityNext == ReputationNext \/ RecoveryNext \/ KycNext \/ IdentityTimeNext

----
\* Properties

\* What providers verified is what they have approved, each request once, across
\* deactivation, deletion and recovery; a tier is one that a provider has approved
\* for that account, which alone lets it transact; and no score is above 88 where
\* the reputation is within its documented bound, which only what an account says
\* of itself exceeds (complete_kyc_verification, check_tier_privileges,
\* calculate_trust_score, add_cross_chain_verification).
TiersWereApproved ==
    /\ \A p \in DOMAIN providers :
          providers[p].verified <= Cardinality({r \in DOMAIN kycRequests :
                                      kycRequests[r].provider = p /\ kycRequests[r].status = "Approved"})
    /\ \A a \in DOMAIN kycTiers : \E r \in DOMAIN kycRequests :
          kycRequests[r].applicant = a /\ kycRequests[r].tier = kycTiers[a] /\ kycRequests[r].status = "Approved"
    /\ \A a \in Persons, value \in IdentityValueArgs : MayTransact(a, value) =>
          \E r \in DOMAIN kycRequests : kycRequests[r].applicant = a /\ value <= TierLimit[kycRequests[r].tier]
    /\ \A a \in DOMAIN identities \cap DOMAIN metrics :
          identities[a].reputation <= 1000 => TrustScore(identities[a], metrics[a]) <= 88
====

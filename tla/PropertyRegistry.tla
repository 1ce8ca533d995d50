---- MODULE PropertyRegistry ----
(***************************************************************************)
(* The property registry: properties with their owners and approvals,      *)
(* batches, escrows, badges with their verifications and appeals, the      *)
(* pause, roles, circuit breakers, and the registered services. It asks    *)
(* the compliance and the identity registry about accounts and reports     *)
(* transfers to the latter. Metadata is its valuation; 0 stands for what   *)
(* the registry's own messages refuse: one below the least, or metadata    *)
(* that is not valid. The oracle's answer is stored as it comes, 0 too.    *)
(* The audit trail is a module of its own; gas, batch and load statistics, *)
(* and the map property_owners, which no message reads, are left out. Only *)
(* the messages that transfer a property change another registry, and      *)
(* ReportTransfer says how.                                                *)
(***************************************************************************)
EXTENDS BlockClock, ComplianceRegistry, IdentityRegistry, SequencesExt

----
\* Roles (contracts/traits/src/access_control.rs). Admins hold every role but SuperAdmin,
\* and SuperAdmins hold all. Permissions, which no message ever grants, and the log of
\* grants are left out.

CONSTANT Accounts

VARIABLE roles      \* role_assignments that are true

Roles == {"SuperAdmin", "Admin", "OracleAdmin", "ComplianceAdmin", "FeeAdmin", "BridgeOperator", "Verifier",
          "PauseGuardian", "Manager", "EscrowAdmin"}

RolesTypeOK == roles \subseteq Accounts \X Roles

AncestorRoles(role) ==
    CASE role = "SuperAdmin" -> {}
      [] role = "Admin" -> {"SuperAdmin"}
      [] OTHER -> {"Admin", "SuperAdmin"}

HasRole(account, role) == \E r \in {role} \cup AncestorRoles(role) : <<account, r>> \in roles

Bootstrap(admin) == {<<admin, "SuperAdmin">>, <<admin, "Admin">>}

\* Any admin grants and revokes any role, SuperAdmin too.
AssignRole(actor, target, role) ==
    /\ HasRole(actor, "Admin")
    /\ roles' = roles \cup {<<target, role>>}

RemoveRole(actor, target, role) ==
    /\ HasRole(actor, "Admin")
    /\ roles' = roles \ {<<target, role>>}

----

CONSTANTS
    FirstAdmin,
    RegistryAccount,    \* the account of the contract, in the identity registry
    MinReputation,      \* min_reputation_threshold at the start
    BreakerCooldown,    \* external_call_config at the start
    ValuationArgs, DurationArgs, ThresholdArgs, CooldownArgs, BadgeTypes,
    MaxProperties, MaxEscrows, MaxReviews  \* bounds on properties, escrows, requests and appeals

Services == {"Oracle", "ComplianceRegistry", "FeeManager", "IdentityRegistry"}
RequiredApprovals == 2

VARIABLES
    registryAdmin,
    pause,              \* pause_info
    guardians,          \* pause_guardians
    properties,
    ownerProperties,    \* owner_properties, as the code keeps them: lists
    approvals,          \* at most one account by property
    escrows,
    badgeVerifiers, badges, badgeRequests, appeals,
    linked,             \* the services set, and those in the container
    container,
    breakers, breakerCooldown,  \* open_until by service, 0 if it never tripped
    minReputation,
    batchConfig,
    fractional,         \* properties that are enabled
    analytics

authorityVars == <<registryAdmin, roles, guardians>>
titleVars == <<properties, ownerProperties, approvals, analytics>>
badgeVars == <<badgeVerifiers, badges, badgeRequests, appeals>>
linkVars == <<linked, container, breakers, breakerCooldown, minReputation, batchConfig>>
registryVars == <<authorityVars, pause, titleVars, escrows, badgeVars, linkVars, fractional>>

ASSUME RegistryConstants ==
    /\ FirstAdmin \in Accounts /\ RegistryAccount \in Persons
    /\ Accounts \subseteq Clients /\ Accounts \subseteq Persons
    /\ MinReputation \in Nat /\ BreakerCooldown \in Nat \ {0} /\ ValuationArgs \subseteq Nat
    /\ \A duration \in DurationArgs : duration = {} \/ \E d \in duration : d \in Nat /\ duration = {d}
    /\ MaxProperties \in Nat /\ MaxEscrows \in Nat /\ MaxReviews \in Nat

Property == [owner : Accounts, valuation : Nat]
Pause == [paused : BOOLEAN, autoResume : SUBSET Nat, active : BOOLEAN, approvals : SUBSET Accounts]
EscrowInfo == [property : Nat, buyer : Accounts, seller : Accounts, amount : Nat, released : BOOLEAN]
Badge == [by : Accounts, revoked : BOOLEAN]
Review == [property : Nat, badge : BadgeTypes, by : Accounts, status : {"Pending", "Approved", "Rejected"}]

propertyIds == DOMAIN properties

RegistryTypeOK ==
    /\ RolesTypeOK /\ registryAdmin \in Accounts /\ guardians \subseteq Accounts /\ badgeVerifiers \subseteq Accounts
    /\ pause \in Pause /\ Cardinality(pause.autoResume) <= 1
    /\ properties \in Seq(Property) /\ Len(properties) <= MaxProperties
    /\ \A a \in Accounts : Range(ownerProperties[a]) \subseteq propertyIds
    /\ approvals \in [propertyIds -> SUBSET Accounts]
    /\ escrows \in Seq(EscrowInfo)
    /\ DOMAIN badges \subseteq propertyIds \X BadgeTypes /\ \A k \in DOMAIN badges : badges[k] \in Badge
    /\ badgeRequests \in Seq(Review) /\ appeals \in Seq(Review)
    /\ linked \subseteq Services /\ container \subseteq Services
    /\ breakers \in [Services -> Nat] /\ breakerCooldown \in Nat \ {0}
    /\ fractional \subseteq propertyIds

RegistryInit ==
    /\ registryAdmin = FirstAdmin
    /\ roles = Bootstrap(FirstAdmin) \cup {<<FirstAdmin, "Verifier">>, <<FirstAdmin, "PauseGuardian">>}
    /\ guardians = {}
    /\ pause = [paused |-> FALSE, autoResume |-> {}, active |-> FALSE, approvals |-> {}]
    /\ properties = << >> /\ ownerProperties = [a \in Accounts |-> << >>] /\ approvals = << >>
    /\ analytics = [count |-> 0, valuation |-> 0]
    /\ escrows = << >>
    /\ badgeVerifiers = {} /\ badges = << >> /\ badgeRequests = << >> /\ appeals = << >>
    /\ linked = {} /\ container = {}
    /\ breakers = [s \in Services |-> 0] /\ breakerCooldown = BreakerCooldown
    /\ minReputation = MinReputation
    /\ batchConfig = [size |-> 50, failures |-> 5]
    /\ fractional = {}

----
\* Authority, pause and resume

IsAdmin(a) == HasRole(a, "Admin")
MayPause(a) == IsAdmin(a) \/ a \in guardians \/ HasRole(a, "PauseGuardian")

\* The old admin keeps its roles.
ChangeAdmin(caller, new) ==
    /\ AssignRole(caller, new, "Admin")
    /\ registryAdmin' = new
    /\ UNCHANGED <<block, guardians, pause, titleVars, escrows, badgeVars, linkVars, fractional>>

GrantRole(caller, a, role) ==
    /\ AssignRole(caller, a, role)
    /\ UNCHANGED <<block, registryAdmin, guardians, pause, titleVars, escrows, badgeVars, linkVars, fractional>>

RevokeRole(caller, a, role) ==
    /\ RemoveRole(caller, a, role)
    /\ UNCHANGED <<block, registryAdmin, guardians, pause, titleVars, escrows, badgeVars, linkVars, fractional>>

SetPauseGuardian(caller, a, enabled) ==
    /\ IsAdmin(caller)
    /\ guardians' = IF enabled THEN guardians \cup {a} ELSE guardians \ {a}
    /\ UNCHANGED <<block, registryAdmin, roles, pause, titleVars, escrows, badgeVars, linkVars, fractional>>

SetPause(new) ==
    /\ pause' = new
    /\ UNCHANGED <<block, authorityVars, titleVars, escrows, badgeVars, linkVars, fractional>>

\* Mutant: a pause leaves the request and the approvals of the one before.
PausedUntil_KeepsRequest(deadline) == [pause EXCEPT !.paused = TRUE, !.autoResume = deadline]

PausedUntil(deadline) == [paused |-> TRUE, autoResume |-> deadline, active |-> FALSE, approvals |-> {}]

PauseContract(caller, duration) ==
    /\ MayPause(caller)
    /\ ~pause.paused
    /\ SetPause(PausedUntil({block + d : d \in duration}))

\* Only logs more than a pause without a duration.
EmergencyPause(caller) == PauseContract(caller, {})

\* At any time, also over a pause in force.
ForceEmergencyStop(caller) ==
    /\ HasRole(caller, "SuperAdmin")
    /\ SetPause(PausedUntil({}))

\* Mutant: not while a request to resume is open.
TryAutoResume_NotWhileAsked ==
    /\ pause.paused /\ ~pause.active
    /\ \E t \in pause.autoResume : block >= t
    /\ SetPause([pause EXCEPT !.paused = FALSE])

\* Anybody may; a request and its approvals stay until the next pause.
TryAutoResume ==
    /\ pause.paused
    /\ \E t \in pause.autoResume : block >= t
    /\ SetPause([pause EXCEPT !.paused = FALSE])

RequestResume(caller) ==
    /\ MayPause(caller)
    /\ pause.paused /\ ~pause.active
    /\ SetPause([pause EXCEPT !.active = TRUE, !.approvals = {caller}])

\* Does not ask whether the contract is still paused.
ApproveResume(caller) ==
    LET approved == pause.approvals \cup {caller} IN
    /\ MayPause(caller)
    /\ pause.active
    /\ caller \notin pause.approvals
    /\ SetPause(IF Cardinality(approved) >= RequiredApprovals
                THEN [pause EXCEPT !.paused = FALSE, !.active = FALSE, !.approvals = approved]
                ELSE [pause EXCEPT !.approvals = approved])

----
\* Services, breakers and settings

SetLinks(newLinked, newContainer) ==
    /\ linked' = newLinked /\ container' = newContainer
    /\ UNCHANGED <<block, authorityVars, pause, titleVars, escrows, badgeVars, breakers, breakerCooldown,
                   minReputation, batchConfig, fractional>>

\* The setters leave the container as it is; the oracle can only be set.
SetOracle(caller) == IsAdmin(caller) /\ SetLinks(linked \cup {"Oracle"}, container)
SetService(caller, service, on) ==
    IsAdmin(caller) /\ SetLinks(IF on THEN linked \cup {service} ELSE linked \ {service}, container)
SetFeeManager(caller, on) == SetService(caller, "FeeManager", on)
SetComplianceRegistry(caller, on) == SetService(caller, "ComplianceRegistry", on)
SetIdentityRegistry(caller, on) == SetService(caller, "IdentityRegistry", on)

RegisterService(caller, key) == IsAdmin(caller) /\ SetLinks(linked \cup {key}, container \cup {key})
UnregisterService(caller, key) == IsAdmin(caller) /\ SetLinks(linked \ {key}, container \ {key})

Available(service) == block >= breakers[service]

SetBreakers(new) ==
    /\ breakers' = new
    /\ UNCHANGED <<block, authorityVars, pause, titleVars, escrows, badgeVars, linked, container,
                   breakerCooldown, minReputation, batchConfig, fractional>>

TripBreaker(caller, service) ==
    IsAdmin(caller) /\ SetBreakers([breakers EXCEPT ![service] = block + breakerCooldown])
ResetBreaker(caller, service) == IsAdmin(caller) /\ SetBreakers([breakers EXCEPT ![service] = 0])

\* A breaker that is open keeps its time.
ConfigureBreaker(caller, cooldown) ==
    /\ IsAdmin(caller)
    /\ cooldown # 0
    /\ breakerCooldown' = cooldown
    /\ UNCHANGED <<block, authorityVars, pause, titleVars, escrows, badgeVars, linked, container, breakers,
                   minReputation, batchConfig, fractional>>

SetMinReputationThreshold(caller, threshold) ==
    /\ IsAdmin(caller)
    /\ minReputation' = threshold
    /\ UNCHANGED <<block, authorityVars, pause, titleVars, escrows, badgeVars, linked, container, breakers,
                   breakerCooldown, batchConfig, fractional>>

UpdateBatchConfig(caller, size, failures) ==
    /\ caller = registryAdmin
    /\ size \in 1..200 /\ failures \in 1..size
    /\ batchConfig' = [size |-> size, failures |-> failures]
    /\ UNCHANGED <<block, authorityVars, pause, titleVars, escrows, badgeVars, linked, container, breakers,
                   breakerCooldown, minReputation, fractional>>
----
\* Titles

\* Mutant: while the breaker is open nobody is asked.
ComplianceChecked_FailsOpen(a) ==
    ("ComplianceRegistry" \in linked /\ Available("ComplianceRegistry")) => IsCompliant(a)

ComplianceChecked(a) == "ComplianceRegistry" \in linked => Available("ComplianceRegistry") /\ IsCompliant(a)

IdentityChecked(a) ==
    "IdentityRegistry" \in linked =>
        /\ Available("IdentityRegistry")
        /\ a \in DOMAIN identities
        /\ identities[a].verified /\ identities[a].reputation >= minReputation

Total(values) == MapThenSumSet(LAMBDA i : values[i], DOMAIN values)

\* The next ids, one for each valuation. The totals are of the time of registration.
Registered(caller, values) ==
    /\ Len(properties) + Len(values) <= MaxProperties
    /\ \A i \in DOMAIN values : values[i] # 0
    /\ IdentityChecked(caller) /\ ComplianceChecked(caller)
    /\ properties' = properties \o [i \in DOMAIN values |-> [owner |-> caller, valuation |-> values[i]]]
    /\ ownerProperties' = [ownerProperties EXCEPT ![caller] = @ \o [i \in DOMAIN values |-> Len(properties) + i]]
    /\ approvals' = approvals \o [i \in DOMAIN values |-> {}]
    /\ analytics' = [count |-> analytics.count + Len(values), valuation |-> analytics.valuation + Total(values)]
    /\ UNCHANGED <<block, authorityVars, pause, escrows, badgeVars, linkVars, fractional>>

RegisterProperty(caller, valuation) == ~pause.paused /\ Registered(caller, <<valuation>>)

BatchRegisterProperties(caller, values) ==
    /\ ~pause.paused
    /\ Len(values) \in 1..batchConfig.size
    /\ Registered(caller, values)

MayTransfer(caller, id) == id \in propertyIds /\ caller \in {properties[id].owner} \cup approvals[id]

\* Both parties' reputation, if the registry may; errors are ignored.
ReportTransfer(from, to, value) ==
    IF "IdentityRegistry" \in linked /\ MayVerify(RegistryAccount)
    THEN LET one == Reputed([metrics |-> metrics, identities |-> identities], from, TRUE, value)
             both == Reputed(one, to, TRUE, value)
         IN  /\ metrics' = both.metrics /\ identities' = both.identities
             /\ UNCHANGED <<identityAdminVars, identityLogs, revocations, kycVars, deletions>>
    ELSE UNCHANGED identityVars

\* Mutant: the approval outlives the transfer.
TransferProperty_KeepsApproval(caller, id, to) ==
    LET from == properties[id].owner
        taken == [ownerProperties EXCEPT ![from] = SelectSeq(@, LAMBDA k : k # id)]
    IN
    /\ ~pause.paused
    /\ caller # to
    /\ MayTransfer(caller, id)
    /\ ComplianceChecked(to) /\ IdentityChecked(to)
    /\ ownerProperties' = [taken EXCEPT ![to] = Append(@, id)]
    /\ properties' = [properties EXCEPT ![id].owner = to]
    /\ ReportTransfer(from, to, properties[id].valuation)
    /\ UNCHANGED <<block, authorityVars, pause, approvals, analytics, escrows, badgeVars, linkVars, fractional>>

\* The property goes from the list of its owner to the end of the new owner's.
TransferProperty(caller, id, to) ==
    LET from == properties[id].owner
        taken == [ownerProperties EXCEPT ![from] = SelectSeq(@, LAMBDA k : k # id)]
    IN
    /\ ~pause.paused
    /\ caller # to
    /\ MayTransfer(caller, id)
    /\ ComplianceChecked(to) /\ IdentityChecked(to)
    /\ ownerProperties' = [taken EXCEPT ![to] = Append(@, id)]
    /\ properties' = [properties EXCEPT ![id].owner = to]
    /\ approvals' = [approvals EXCEPT ![id] = {}]
    /\ ReportTransfer(from, to, properties[id].valuation)
    /\ UNCHANGED <<block, authorityVars, pause, analytics, escrows, badgeVars, linkVars, fractional>>

\* Neither compliance nor identity are asked, and only the list of the first
\* property's owner is cleared; an id listed twice is added twice.
BatchTransferProperties(caller, ids, to) ==
    LET from == properties[ids[1]].owner
        taken == [ownerProperties EXCEPT ![from] = SelectSeq(@, LAMBDA k : k \notin Range(ids))]
    IN
    /\ ~pause.paused
    /\ Len(ids) \in 1..batchConfig.size
    /\ caller # to
    /\ \A i \in DOMAIN ids : MayTransfer(caller, ids[i])
    /\ ownerProperties' = [taken EXCEPT ![to] = @ \o ids]
    /\ properties' = [k \in propertyIds |->
           IF k \in Range(ids) THEN [properties[k] EXCEPT !.owner = to] ELSE properties[k]]
    /\ approvals' = [k \in propertyIds |-> IF k \in Range(ids) THEN {} ELSE approvals[k]]
    /\ UNCHANGED <<block, authorityVars, pause, analytics, escrows, badgeVars, linkVars, fractional>>

\* The caller's list is cleared, whoever owns the properties; of several recipients
\* of one property the last one owns it, and all of them list it.
BatchTransferPropertiesToMultiple(caller, transfers) ==
    LET ids == {transfers[i].id : i \in DOMAIN transfers}
        last(k) == CHOOSE i \in DOMAIN transfers :
                      transfers[i].id = k /\ \A j \in DOMAIN transfers : transfers[j].id = k => j <= i
        kept(a) == IF a = caller THEN SelectSeq(ownerProperties[a], LAMBDA k : k \notin ids) ELSE ownerProperties[a]
        added(a) == LET own == SelectSeq(transfers, LAMBDA t : t.to = a) IN [i \in DOMAIN own |-> own[i].id]
    IN
    /\ ~pause.paused
    /\ Len(transfers) \in 1..batchConfig.size
    /\ \A i \in DOMAIN transfers : transfers[i].to # caller /\ MayTransfer(caller, transfers[i].id)
    /\ ownerProperties' = [a \in Accounts |-> kept(a) \o added(a)]
    /\ properties' = [k \in propertyIds |->
           IF k \in ids THEN [properties[k] EXCEPT !.owner = transfers[last(k)].to] ELSE properties[k]]
    /\ approvals' = [k \in propertyIds |-> IF k \in ids THEN {} ELSE approvals[k]]
    /\ UNCHANGED <<block, authorityVars, pause, analytics, escrows, badgeVars, linkVars, fractional>>

SetProperties(new) ==
    /\ properties' = new
    /\ UNCHANGED <<block, authorityVars, pause, ownerProperties, approvals, analytics, escrows, badgeVars,
                   linkVars, fractional>>

UpdateMetadata(caller, id, valuation) ==
    /\ ~pause.paused
    /\ id \in propertyIds /\ properties[id].owner = caller
    /\ valuation # 0
    /\ SetProperties([properties EXCEPT ![id].valuation = valuation])

\* Items that fail are counted, and the batch ends when there are enough of them;
\* what has been done stays.
MetadataNext(caller, p, u) ==
    IF p.failed >= batchConfig.failures THEN p
    ELSE IF u.id \notin propertyIds \/ u.valuation = 0 THEN [p EXCEPT !.failed = @ + 1]
    ELSE IF p.all[u.id].owner # caller THEN [p EXCEPT !.failed = @ + 1]
    ELSE [p EXCEPT !.all[u.id].valuation = u.valuation]

BatchUpdateMetadata(caller, updates) ==
    LET done[i \in 0..Len(updates)] ==
            IF i = 0 THEN [all |-> properties, failed |-> 0] ELSE MetadataNext(caller, done[i - 1], updates[i])
    IN
    /\ ~pause.paused
    /\ Len(updates) \in 1..batchConfig.size
    /\ SetProperties(done[Len(updates)].all)

\* The pause does not keep the oracle's valuation out. Whatever the oracle answers is
\* stored, 0 for a property that it has never valued; an oracle that fails makes the
\* message fail, which reverts the failure recorded in the breaker.
UpdateValuationFromOracle(id, valuation) ==
    /\ "Oracle" \in linked /\ Available("Oracle")
    /\ id \in propertyIds
    /\ properties' = [properties EXCEPT ![id].valuation = valuation]
    /\ breakers' = [breakers EXCEPT !["Oracle"] = 0]
    /\ UNCHANGED <<block, authorityVars, pause, ownerProperties, approvals, analytics, escrows, badgeVars,
                   linked, container, breakerCooldown, minReputation, batchConfig, fractional>>

Approve(caller, id, to) ==
    /\ ~pause.paused
    /\ id \in propertyIds /\ properties[id].owner = caller
    /\ caller \notin to /\ Cardinality(to) <= 1
    /\ approvals' = [approvals EXCEPT ![id] = to]
    /\ UNCHANGED <<block, authorityVars, pause, properties, ownerProperties, analytics, escrows, badgeVars,
                   linkVars, fractional>>

EnableFractional(caller, id) ==
    /\ id \in propertyIds /\ caller \in {registryAdmin, properties[id].owner}
    /\ fractional' = fractional \cup {id}
    /\ UNCHANGED <<block, authorityVars, pause, titleVars, escrows, badgeVars, linkVars>>

----
\* Escrows. release_escrow transfers the property with the buyer as caller and as
\* recipient, which transfer_property refuses: it always fails and has no action.

SetEscrows(new) ==
    /\ escrows' = new
    /\ UNCHANGED <<block, authorityVars, pause, titleVars, badgeVars, linkVars, fractional>>

CreateEscrow(caller, id, buyer, amount) ==
    /\ ~pause.paused
    /\ Len(escrows) < MaxEscrows
    /\ amount # 0
    /\ id \in propertyIds /\ properties[id].owner = caller
    /\ SetEscrows(Append(escrows,
           [property |-> id, buyer |-> buyer, seller |-> caller, amount |-> amount, released |-> FALSE]))

RefundEscrow(caller, e) ==
    /\ ~pause.paused
    /\ e \in DOMAIN escrows
    /\ ~escrows[e].released
    /\ escrows[e].seller = caller
    /\ SetEscrows([escrows EXCEPT ![e].released = TRUE])

----
\* Badges

IsBadgeVerifier(a) == a \in badgeVerifiers \/ a = registryAdmin

SetBadges(newVerifiers, newBadges, newRequests, newAppeals) ==
    /\ badgeVerifiers' = newVerifiers /\ badges' = newBadges
    /\ badgeRequests' = newRequests /\ appeals' = newAppeals
    /\ UNCHANGED <<block, authorityVars, pause, titleVars, escrows, linkVars, fractional>>

SetVerifier(caller, a, authorized) ==
    /\ IsAdmin(caller)
    /\ SetBadges(IF authorized THEN badgeVerifiers \cup {a} ELSE badgeVerifiers \ {a}, badges, badgeRequests, appeals)

Issued(caller, key) == Put(badges, key, [by |-> caller, revoked |-> FALSE])
MayIssue(key) == key[1] \in propertyIds /\ (key \in DOMAIN badges => badges[key].revoked)

IssueBadge(caller, key) ==
    /\ ~pause.paused
    /\ IsBadgeVerifier(caller)
    /\ MayIssue(key)
    /\ SetBadges(badgeVerifiers, Issued(caller, key), badgeRequests, appeals)

RevokeBadge(caller, key) ==
    /\ ~pause.paused
    /\ IsBadgeVerifier(caller)
    /\ key \in DOMAIN badges /\ ~badges[key].revoked
    /\ SetBadges(badgeVerifiers, [badges EXCEPT ![key].revoked = TRUE], badgeRequests, appeals)

Asked(caller, key) == [property |-> key[1], badge |-> key[2], by |-> caller, status |-> "Pending"]
KeyOf(review) == <<review.property, review.badge>>
Decision(approved) == IF approved THEN "Approved" ELSE "Rejected"

RequestVerification(caller, key) ==
    /\ ~pause.paused
    /\ Len(badgeRequests) < MaxReviews
    /\ key[1] \in propertyIds /\ properties[key[1]].owner = caller
    /\ SetBadges(badgeVerifiers, badges, Append(badgeRequests, Asked(caller, key)), appeals)

\* A request can be reviewed again; approving it fails while the badge counts.
ReviewVerification(caller, r, approved) ==
    /\ ~pause.paused
    /\ IsBadgeVerifier(caller)
    /\ r \in DOMAIN badgeRequests
    /\ approved => MayIssue(KeyOf(badgeRequests[r]))
    /\ SetBadges(badgeVerifiers,
                 IF approved THEN Issued(caller, KeyOf(badgeRequests[r])) ELSE badges,
                 [badgeRequests EXCEPT ![r].status = Decision(approved)], appeals)

SubmitAppeal(caller, key) ==
    /\ ~pause.paused
    /\ Len(appeals) < MaxReviews
    /\ key[1] \in propertyIds /\ properties[key[1]].owner = caller
    /\ key \in DOMAIN badges /\ badges[key].revoked
    /\ SetBadges(badgeVerifiers, badges, badgeRequests, Append(appeals, Asked(caller, key)))

\* An appeal can be resolved again, and about whatever badge is there by then.
ResolveAppeal(caller, a, approved) ==
    /\ ~pause.paused
    /\ IsAdmin(caller)
    /\ a \in DOMAIN appeals
    /\ SetBadges(badgeVerifiers,
                 IF approved THEN [badges EXCEPT ![KeyOf(appeals[a])].revoked = FALSE] ELSE badges,
                 badgeRequests, [appeals EXCEPT ![a].status = Decision(approved)])
----
\* What the registry answers

HasBadge(id, badge) == <<id, badge>> \in DOMAIN badges /\ ~badges[<<id, badge>>].revoked

\* An id that is listed twice counts twice.
PortfolioSummary(a) ==
    [count |-> Len(ownerProperties[a]), valuation |-> Total([i \in DOMAIN ownerProperties[a] |->
                                                          properties[ownerProperties[a][i]].valuation])]

\* A page after a cursor, 0 for the first one; without more pages there is no cursor.
Page(cursor, limit) ==
    LET end == IF cursor + limit < Len(properties) THEN cursor + limit ELSE Len(properties)
    IN  [items |-> [i \in 1..(end - cursor) |-> cursor + i], next |-> end, more |-> end < Len(properties)]

----
\* The messages by what they are about

PauseNext ==
    \/ \E caller, a \in Accounts :
          \/ \E duration \in DurationArgs : PauseContract(caller, duration)
          \/ EmergencyPause(caller) \/ ForceEmergencyStop(caller)
          \/ RequestResume(caller) \/ ApproveResume(caller)
          \/ \E enabled \in BOOLEAN : SetPauseGuardian(caller, a, enabled)
    \/ TryAutoResume

AuthorityNext ==
    \E caller, a \in Accounts :
        \/ ChangeAdmin(caller, a)
        \/ \E role \in Roles : GrantRole(caller, a, role) \/ RevokeRole(caller, a, role)

LinkNext ==
    \E caller \in Accounts :
        \/ SetOracle(caller)
        \/ \E on \in BOOLEAN :
              SetFeeManager(caller, on) \/ SetComplianceRegistry(caller, on) \/ SetIdentityRegistry(caller, on)
        \/ \E s \in Services :
              RegisterService(caller, s) \/ UnregisterService(caller, s) \/ TripBreaker(caller, s) \/ ResetBreaker(caller, s)
        \/ \E cooldown \in CooldownArgs : ConfigureBreaker(caller, cooldown)
        \/ \E threshold \in ThresholdArgs : SetMinReputationThreshold(caller, threshold)

TitleNext ==
    \E caller \in Accounts :
        \/ \E v \in ValuationArgs : RegisterProperty(caller, v) /\ UNCHANGED identityVars
        \/ \E id \in propertyIds, to \in Accounts : TransferProperty(caller, id, to)
        \/ \E id \in propertyIds, v \in ValuationArgs : UpdateMetadata(caller, id, v) /\ UNCHANGED identityVars
        \/ \E id \in propertyIds, to \in Accounts : Approve(caller, id, {to}) /\ UNCHANGED identityVars
        \/ \E id \in propertyIds : Approve(caller, id, {}) /\ UNCHANGED identityVars
        \/ \E id \in propertyIds : EnableFractional(caller, id) /\ UNCHANGED identityVars

OracleValuationNext == \E id \in propertyIds, v \in ValuationArgs : UpdateValuationFromOracle(id, v)

BatchTransferNext ==
    \E caller \in Accounts, i, j \in propertyIds :
        \/ \E to \in Accounts : BatchTransferProperties(caller, <<i, j>>, to)
        \/ \E a, b \in Accounts :
              BatchTransferPropertiesToMultiple(caller, <<[id |-> i, to |-> a], [id |-> j, to |-> b]>>)

BatchNext ==
    \/ BatchTransferNext
    \/ \E caller \in Accounts :
        \/ \E v, w \in ValuationArgs : BatchRegisterProperties(caller, <<v, w>>)
        \/ \E i, j \in propertyIds, v, w \in ValuationArgs :
              BatchUpdateMetadata(caller, <<[id |-> i, valuation |-> v], [id |-> j, valuation |-> w]>>)
        \/ \E size \in {1, 2}, failures \in {1, 2} : UpdateBatchConfig(caller, size, failures)

EscrowNext ==
    \E caller \in Accounts :
        \/ \E id \in propertyIds, buyer \in Accounts, amount \in ValuationArgs : CreateEscrow(caller, id, buyer, amount)
        \/ \E e \in DOMAIN escrows : RefundEscrow(caller, e)

BadgeNext ==
    \E caller \in Accounts :
        \/ \E a \in Accounts, authorized \in BOOLEAN : SetVerifier(caller, a, authorized)
        \/ \E key \in propertyIds \X BadgeTypes :
              IssueBadge(caller, key) \/ RevokeBadge(caller, key) \/ RequestVerification(caller, key) \/ SubmitAppeal(caller, key)
        \/ \E r \in DOMAIN badgeRequests, approved \in BOOLEAN : ReviewVerification(caller, r, approved)
        \/ \E a \in DOMAIN appeals, approved \in BOOLEAN : ResolveAppeal(caller, a, approved)

\* What happens to the registry, whatever the registries it asks do meanwhile.
RegistryNext ==
    \/ PauseNext \/ AuthorityNext \/ LinkNext
    \/ TitleNext \/ OracleValuationNext \/ BatchNext
    \/ EscrowNext \/ BadgeNext
    \/ NextBlock /\ UNCHANGED registryVars

RegistrySpec == ChainInit /\ RegistryInit /\ [][RegistryNext]_<<block, registryVars>>

----
\* Properties

\* Whatever transfers, batches and approvals have done, every property is in the
\* list of its owner, no account is approved for its own property, the count is that
\* of the properties, the pages of any size cover them all, each once, and what is
\* said to be approved has a badge (transfer_property, batch_transfer_properties,
\* get_properties_paginated, review_verification).
RegistryBooksAgree ==
    /\ \A id \in propertyIds :
          /\ id \in Range(ownerProperties[properties[id].owner])
          /\ properties[id].owner \notin approvals[id]
    /\ analytics.count = Len(properties)
    /\ \A r \in DOMAIN badgeRequests :
          badgeRequests[r].status = "Approved" => KeyOf(badgeRequests[r]) \in DOMAIN badges
    /\ \A a \in DOMAIN appeals : KeyOf(appeals[a]) \in DOMAIN badges
    /\ \A limit \in 1..2 :
          LET walk[cursor \in 0..Len(properties)] ==
                  LET page == Page(cursor, limit)
                  IN  page.items \o (IF page.more THEN walk[page.next] ELSE << >>)
          IN  walk[0] = [id \in propertyIds |-> id]
    /\ \A a \in Accounts : PortfolioSummary(a).count >= Cardinality({id \in propertyIds : properties[id].owner = a})

\* While the registry is paused no title, approval, escrow or badge changes, and
\* the step that resumes changes none of them either: only the oracle's valuation,
\* the fractional mark and the settings do (ensure_not_paused).
PauseFreezesTitles ==
    [][pause.paused =>
        /\ [i \in DOMAIN properties' |-> properties'[i].owner] = [i \in DOMAIN properties |-> properties[i].owner]
        /\ UNCHANGED <<ownerProperties, approvals, escrows, badges, badgeRequests, appeals>>]_registryVars

\* A pause ends as TwoPersonResume promises, for guardians, admins and holders of
\* the guardian's role that come and go (approve_resume, try_auto_resume).
Promise == INSTANCE TwoPersonResume WITH
    People <- Accounts, Required <- RequiredApprovals,
    entitled <- {a \in Accounts : MayPause(a)},
    stopped <- pause.paused,
    consents <- IF pause.paused THEN pause.approvals ELSE {},
    deadline <- IF pause.paused THEN pause.autoResume ELSE {},
    time <- block
ResumeTakesTwo == Promise!Resumption

\* A pause announced with a duration ends, or a stop without one takes its place
\* (pause_contract, try_auto_resume).
TimedPausesEnd == (pause.paused /\ pause.autoResume # {}) ~> (~pause.paused \/ pause.autoResume = {})
====

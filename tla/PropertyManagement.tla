---- MODULE PropertyManagement ----
(***************************************************************************)
(* Property management: leases and their rent, maintenance requests,       *)
(* screenings of tenants, expenses paid from an operating float, inspec-   *)
(* tions, disputes with stakes of both sides in escrow, proposals, and the *)
(* figures kept per property and over all of them. Transfers to accounts   *)
(* succeed; `held` is the contract's native balance. Titles, hashes, tiers *)
(* and times that no message reads are left out.                           *)
(***************************************************************************)
EXTENDS BlockClock, SequencesExt, FiniteSetsExt, Functions

CONSTANTS
    Landlords, Tenants, Manager, PMAdmin,  \* accounts
    CompliantAccounts,                     \* what both registries answer for
    Buildings,                             \* property tokens
    Amounts, FeeRates, Deposits,           \* arguments
    PeriodsPerYear,                        \* of the one period of rent modelled
    DepositCaps,                           \* jurisdictions: a year's rent in basis points
    MaxCases                               \* bound: of each kind of record

VARIABLES
    managers, complianceSet, identitySet, feeBeneficiary,
    leases, maintenance, screenings, expenses, inspections, disputes,
    proposals, proposalCounter, proposalVotes,
    legal, analytics, operatingFloat, escrowLocked, dashboard, held

recordVars == <<leases, maintenance, screenings, expenses, inspections, disputes>>
motionVars == <<proposals, proposalCounter, proposalVotes>>
moneyVars == <<operatingFloat, escrowLocked, held>>
rightVars == <<managers, complianceSet, identitySet, feeBeneficiary, legal>>
managementVars == <<recordVars, motionVars, moneyVars, rightVars, analytics, dashboard>>

People == Landlords \cup Tenants \cup {Manager, PMAdmin}
BasisPoints == 10000

ASSUME ManagementConstants ==
    /\ CompliantAccounts \subseteq People /\ PeriodsPerYear \in Nat /\ IsFiniteSet(Buildings)
    /\ \A a \in Amounts \cup FeeRates \cup Deposits \cup DepositCaps : a \in Nat
    /\ MaxCases \in Nat

Lease == [building : Buildings, tenant : People, landlord : People, rent : Nat, paid : Nat,
          fee : 0..BasisPoints, status : {"Active", "Ended"}]
OpenStatuses == {"Submitted", "Acknowledged", "InProgress"}
MaintenanceRequest == [building : Buildings, requester : People, assigned : People \cup {"none"},
                       status : OpenStatuses \cup {"Resolved", "Cancelled"}]
TenantScreening == [building : Buildings, applicant : People, status : {"Pending", "Approved", "Rejected"}]
Expense == [building : Buildings, amount : Nat, vendor : People, status : {"Recorded", "Paid"}]
Inspection == [building : Buildings, inspector : People, status : {"Scheduled", "Passed", "Failed"}]
OpenDisputes == {"Open", "AwaitingCounterparty"}
Dispute == [building : Buildings, initiator : People, respondent : People, initiatorStake : Nat, respondentStake : Nat,
            status : OpenDisputes \cup {"ResolvedInitiator", "ResolvedRespondent", "Split"}]
PropertyAnalytics == [rent : Nat, open : Nat, resolved : Nat, expenses : Nat, inspected : Nat, disputed : Nat, approved : Nat]
Dashboard == [rent : Nat, maintenance : Nat, leases : Nat, disputes : Nat, screenings : Nat]

Down(n) == IF n = 0 THEN 0 ELSE n - 1    \* saturating_sub(1)

ManagementInit ==
    /\ managers = {} /\ complianceSet = FALSE /\ identitySet = FALSE /\ feeBeneficiary = PMAdmin
    /\ leases = << >> /\ maintenance = << >> /\ screenings = << >>
    /\ expenses = << >> /\ inspections = << >> /\ disputes = << >>
    /\ proposals = << >> /\ proposalCounter = 0 /\ proposalVotes = {}
    /\ legal = << >> /\ operatingFloat = 0 /\ escrowLocked = 0 /\ held = 0
    /\ analytics = [b \in Buildings |-> [rent |-> 0, open |-> 0, resolved |-> 0, expenses |-> 0,
                                          inspected |-> 0, disputed |-> 0, approved |-> 0]]
    /\ dashboard = [rent |-> 0, maintenance |-> 0, leases |-> 0, disputes |-> 0, screenings |-> 0]

IsStaff(caller) == caller = PMAdmin \/ caller \in managers
IsCompliant(account) == complianceSet => account \in CompliantAccounts

----
\* Rights and settings

AddManager(caller, account) ==
    /\ caller = PMAdmin
    /\ managers' = managers \cup {account}
    /\ UNCHANGED <<recordVars, motionVars, moneyVars, complianceSet, identitySet, feeBeneficiary, legal, analytics, dashboard>>

RemoveManager(caller, account) ==
    /\ caller = PMAdmin
    /\ managers' = managers \ {account}
    /\ UNCHANGED <<recordVars, motionVars, moneyVars, complianceSet, identitySet, feeBeneficiary, legal, analytics, dashboard>>

SetComplianceRegistryOf(caller, present) ==
    /\ caller = PMAdmin
    /\ complianceSet' = present
    /\ UNCHANGED <<recordVars, motionVars, moneyVars, managers, identitySet, feeBeneficiary, legal, analytics, dashboard>>

SetIdentityRegistryOf(caller, present) ==
    /\ caller = PMAdmin
    /\ identitySet' = present
    /\ UNCHANGED <<recordVars, motionVars, moneyVars, managers, complianceSet, feeBeneficiary, legal, analytics, dashboard>>

SetFeeBeneficiary(caller, account) ==
    /\ caller = PMAdmin
    /\ feeBeneficiary' = account
    /\ UNCHANGED <<recordVars, motionVars, moneyVars, managers, complianceSet, identitySet, legal, analytics, dashboard>>

SetJurisdictionCompliance(caller, building, cap) ==
    /\ IsStaff(caller)
    /\ legal' = [b \in DOMAIN legal \cup {building} |-> IF b = building THEN cap ELSE legal[b]]
    /\ UNCHANGED <<recordVars, motionVars, moneyVars, managers, complianceSet, identitySet, feeBeneficiary, analytics, dashboard>>

\* Registering changes nothing: it only demands that the identity registry vouches.
RegisterPropertyAllowed(caller) == identitySet /\ caller \in CompliantAccounts

----
\* Leases

MaxDeposit(building, rent) ==
    (Max({rent * PeriodsPerYear, rent}) * legal[building]) \div BasisPoints

CreateLease(caller, building, tenant, landlord, rent, fee, deposit) ==
    /\ caller = landlord \/ IsStaff(caller)
    /\ rent > 0 /\ fee <= BasisPoints
    /\ IsCompliant(tenant)
    /\ building \in DOMAIN legal => deposit <= MaxDeposit(building, rent)
    /\ leases' = Append(leases, [building |-> building, tenant |-> tenant, landlord |-> landlord,
                                 rent |-> rent, paid |-> 0, fee |-> fee, status |-> "Active"])
    /\ dashboard' = [dashboard EXCEPT !.leases = @ + 1]
    /\ UNCHANGED <<maintenance, screenings, expenses, inspections, disputes, motionVars, moneyVars, rightVars, analytics>>

\* What a payment of rent is divided into.
RentFee(lease) == (lease.rent * lease.fee) \div BasisPoints
LandlordShare(lease) == lease.rent - RentFee(lease)

\* The rent comes in and leaves again, the share of the landlord and the fee.
PayRent(caller, id, value) ==
    /\ id \in DOMAIN leases /\ leases[id].status = "Active"
    /\ caller = leases[id].tenant
    /\ value = leases[id].rent
    /\ held' = held + value - LandlordShare(leases[id]) - RentFee(leases[id])
    /\ leases' = [leases EXCEPT ![id].paid = @ + 1]
    /\ analytics' = [analytics EXCEPT ![leases[id].building].rent = @ + value]
    /\ dashboard' = [dashboard EXCEPT !.rent = @ + value]
    /\ UNCHANGED <<maintenance, screenings, expenses, inspections, disputes, motionVars, operatingFloat, escrowLocked, rightVars>>

EndLease(caller, id) ==
    /\ id \in DOMAIN leases /\ leases[id].status = "Active"
    /\ caller = leases[id].landlord \/ IsStaff(caller)
    /\ leases' = [leases EXCEPT ![id].status = "Ended"]
    /\ dashboard' = [dashboard EXCEPT !.leases = Down(@)]
    /\ UNCHANGED <<maintenance, screenings, expenses, inspections, disputes, motionVars, moneyVars, rightVars, analytics>>

----
\* Maintenance

SubmitMaintenanceRequest(caller, building) ==
    /\ IsCompliant(caller)
    /\ maintenance' = Append(maintenance, [building |-> building, requester |-> caller, assigned |-> "none", status |-> "Submitted"])
    /\ analytics' = [analytics EXCEPT ![building].open = @ + 1]
    /\ dashboard' = [dashboard EXCEPT !.maintenance = @ + 1]
    /\ UNCHANGED <<leases, screenings, expenses, inspections, disputes, motionVars, moneyVars, rightVars>>

\* Figures change when an open request closes, never when a closed one opens again.
Closed(request, status) ==
    IF request.status \in OpenStatuses /\ status \notin OpenStatuses
    THEN /\ analytics' = [analytics EXCEPT ![request.building].open = Down(@),
                                           ![request.building].resolved = IF status = "Resolved" THEN @ + 1 ELSE @]
         /\ dashboard' = [dashboard EXCEPT !.maintenance = Down(@)]
    ELSE UNCHANGED <<analytics, dashboard>>

UpdateMaintenanceStatus(caller, id, status, assigned) ==
    /\ IsStaff(caller) /\ id \in DOMAIN maintenance
    /\ maintenance' = [maintenance EXCEPT ![id].status = status, ![id].assigned = assigned]
    /\ Closed(maintenance[id], status)
    /\ UNCHANGED <<leases, screenings, expenses, inspections, disputes, motionVars, moneyVars, rightVars>>

ResolveMaintenance(caller, id) ==
    /\ IsStaff(caller) /\ id \in DOMAIN maintenance
    /\ maintenance' = [maintenance EXCEPT ![id].status = "Resolved"]
    /\ Closed(maintenance[id], "Resolved")
    /\ UNCHANGED <<leases, screenings, expenses, inspections, disputes, motionVars, moneyVars, rightVars>>
----
\* Screenings, expenses and inspections

SubmitScreeningApplication(caller, building) ==
    /\ IsCompliant(caller)
    /\ screenings' = Append(screenings, [building |-> building, applicant |-> caller, status |-> "Pending"])
    /\ dashboard' = [dashboard EXCEPT !.screenings = @ + 1]
    /\ UNCHANGED <<leases, maintenance, expenses, inspections, disputes, motionVars, moneyVars, rightVars, analytics>>

ReviewScreening(caller, id, approve) ==
    /\ IsStaff(caller)
    /\ id \in DOMAIN screenings /\ screenings[id].status = "Pending"
    /\ screenings' = [screenings EXCEPT ![id].status = IF approve THEN "Approved" ELSE "Rejected"]
    /\ dashboard' = [dashboard EXCEPT !.screenings = Down(@)]
    /\ analytics' = IF approve THEN [analytics EXCEPT ![screenings[id].building].approved = @ + 1] ELSE analytics
    /\ UNCHANGED <<leases, maintenance, expenses, inspections, disputes, motionVars, moneyVars, rightVars>>

RecordExpense(caller, building, amount, vendor) ==
    /\ IsStaff(caller) /\ amount > 0
    /\ expenses' = Append(expenses, [building |-> building, amount |-> amount, vendor |-> vendor, status |-> "Recorded"])
    /\ analytics' = [analytics EXCEPT ![building].expenses = @ + amount]
    /\ UNCHANGED <<leases, maintenance, screenings, inspections, disputes, motionVars, moneyVars, rightVars, dashboard>>

\* Mutant: an expense may be paid from everything the contract holds.
PayExpense_FromEscrow(caller, id) ==
    /\ IsStaff(caller)
    /\ id \in DOMAIN expenses /\ expenses[id].status = "Recorded"
    /\ held >= expenses[id].amount
    /\ operatingFloat' = Max({operatingFloat - expenses[id].amount, 0})
    /\ held' = held - expenses[id].amount
    /\ expenses' = [expenses EXCEPT ![id].status = "Paid"]
    /\ UNCHANGED <<leases, maintenance, screenings, inspections, disputes, motionVars, escrowLocked, rightVars, analytics, dashboard>>

\* Paid from the float, and never from the stakes of disputes.
PayExpense(caller, id) ==
    /\ IsStaff(caller)
    /\ id \in DOMAIN expenses /\ expenses[id].status = "Recorded"
    /\ operatingFloat >= expenses[id].amount
    /\ held - escrowLocked >= expenses[id].amount
    /\ operatingFloat' = operatingFloat - expenses[id].amount
    /\ held' = held - expenses[id].amount
    /\ expenses' = [expenses EXCEPT ![id].status = "Paid"]
    /\ UNCHANGED <<leases, maintenance, screenings, inspections, disputes, motionVars, escrowLocked, rightVars, analytics, dashboard>>

FundOperatingFloat(value) ==
    /\ operatingFloat' = operatingFloat + value
    /\ held' = held + value
    /\ UNCHANGED <<recordVars, motionVars, escrowLocked, rightVars, analytics, dashboard>>

ScheduleInspection(caller, building, inspector) ==
    /\ IsStaff(caller)
    /\ inspections' = Append(inspections, [building |-> building, inspector |-> inspector, status |-> "Scheduled"])
    /\ UNCHANGED <<leases, maintenance, screenings, expenses, disputes, motionVars, moneyVars, rightVars, analytics, dashboard>>

CompleteInspection(caller, id, passed) ==
    /\ id \in DOMAIN inspections /\ inspections[id].status = "Scheduled"
    /\ caller = inspections[id].inspector \/ IsStaff(caller)
    /\ inspections' = [inspections EXCEPT ![id].status = IF passed THEN "Passed" ELSE "Failed"]
    /\ analytics' = [analytics EXCEPT ![inspections[id].building].inspected = @ + 1]
    /\ UNCHANGED <<leases, maintenance, screenings, expenses, disputes, motionVars, moneyVars, rightVars, dashboard>>

----
\* Disputes: both sides stake the same, the admin releases both stakes

OpenDispute(caller, building, respondent, stake) ==
    /\ IsCompliant(caller) /\ stake > 0
    /\ disputes' = Append(disputes, [building |-> building, initiator |-> caller, respondent |-> respondent,
                                     initiatorStake |-> stake, respondentStake |-> 0, status |-> "AwaitingCounterparty"])
    /\ held' = held + stake
    /\ escrowLocked' = escrowLocked + stake
    /\ dashboard' = [dashboard EXCEPT !.disputes = @ + 1]
    /\ analytics' = [analytics EXCEPT ![building].disputed = @ + 1]
    /\ UNCHANGED <<leases, maintenance, screenings, expenses, inspections, motionVars, operatingFloat, rightVars>>

CounterpartyStakeDispute(caller, id, value) ==
    /\ id \in DOMAIN disputes /\ caller = disputes[id].respondent
    /\ disputes[id].status = "AwaitingCounterparty"
    /\ value = disputes[id].initiatorStake
    /\ disputes' = [disputes EXCEPT ![id].respondentStake = value, ![id].status = "Open"]
    /\ held' = held + value
    /\ escrowLocked' = escrowLocked + value
    /\ UNCHANGED <<leases, maintenance, screenings, expenses, inspections, motionVars, operatingFloat, rightVars, analytics, dashboard>>

\* What each side of a dispute gets of the stakes; an odd unit goes to the initiator.
Stakes(d) == d.initiatorStake + d.respondentStake
InitiatorShare(d, outcome) ==
    CASE outcome = "ResolvedInitiator" -> Stakes(d)
      [] outcome = "ResolvedRespondent" -> 0
      [] OTHER -> Stakes(d) - Stakes(d) \div 2
RespondentShare(d, outcome) ==
    CASE outcome = "ResolvedInitiator" -> 0
      [] outcome = "ResolvedRespondent" -> Stakes(d)
      [] OTHER -> Stakes(d) \div 2

ResolveDispute(caller, id, outcome) ==
    /\ caller = PMAdmin
    /\ id \in DOMAIN disputes /\ disputes[id].status = "Open"
    /\ held' = held - InitiatorShare(disputes[id], outcome) - RespondentShare(disputes[id], outcome)
    /\ escrowLocked' = escrowLocked - Stakes(disputes[id])
    /\ disputes' = [disputes EXCEPT ![id].status = outcome]
    /\ dashboard' = [dashboard EXCEPT !.disputes = Down(@)]
    /\ UNCHANGED <<leases, maintenance, screenings, expenses, inspections, motionVars, operatingFloat, rightVars, analytics>>

----
\* Proposals: a vote creates the one it names if it does not exist yet, and
\* creating that one later starts its count again.

CreateManagementProposal(caller) ==
    /\ IsStaff(caller)
    /\ proposalCounter' = proposalCounter + 1
    /\ proposals' = [i \in DOMAIN proposals \cup {proposalCounter + 1} |->
                        IF i = proposalCounter + 1 THEN [for |-> 0, against |-> 0] ELSE proposals[i]]
    /\ UNCHANGED <<recordVars, proposalVotes, moneyVars, rightVars, analytics, dashboard>>

Votes(id) == IF id \in DOMAIN proposals THEN proposals[id] ELSE [for |-> 0, against |-> 0]

VoteOnManagementProposal(caller, id, support) ==
    /\ <<id, caller>> \notin proposalVotes
    /\ proposals' = [i \in DOMAIN proposals \cup {id} |->
                        IF i # id THEN proposals[i]
                        ELSE IF support THEN [Votes(id) EXCEPT !.for = @ + 1] ELSE [Votes(id) EXCEPT !.against = @ + 1]]
    /\ proposalVotes' = proposalVotes \cup {<<id, caller>>}
    /\ UNCHANGED <<recordVars, proposalCounter, moneyVars, rightVars, analytics, dashboard>>

----
Room(records) == Len(records) < MaxCases

TenancyNext ==
    \E caller \in People :
        \/ \E b \in Buildings, t \in Tenants, l \in Landlords, rent \in Amounts, fee \in FeeRates, deposit \in Deposits :
              Room(leases) /\ CreateLease(caller, b, t, l, rent, fee, deposit)
        \/ \E id \in DOMAIN leases :
              \/ leases[id].paid < MaxCases /\ PayRent(caller, id, leases[id].rent)
              \/ EndLease(caller, id)
        \/ \E b \in Buildings : Room(screenings) /\ SubmitScreeningApplication(caller, b)
        \/ \E id \in DOMAIN screenings, approve \in BOOLEAN : ReviewScreening(caller, id, approve)
        \/ \E b \in Buildings, cap \in DepositCaps : SetJurisdictionCompliance(caller, b, cap)
        \/ \E present \in BOOLEAN : SetComplianceRegistryOf(caller, present) \/ SetIdentityRegistryOf(caller, present)

UpkeepNext ==
    \E caller \in People :
        \/ \E account \in {Manager} : AddManager(caller, account) \/ RemoveManager(caller, account)
        \/ \E b \in Buildings : Room(maintenance) /\ SubmitMaintenanceRequest(caller, b)
        \/ \E id \in DOMAIN maintenance :
              \/ \E status \in OpenStatuses \cup {"Resolved", "Cancelled"}, assigned \in {Manager} :
                    UpdateMaintenanceStatus(caller, id, status, assigned)
              \/ ResolveMaintenance(caller, id)
        \/ \E b \in Buildings : Room(inspections) /\ ScheduleInspection(caller, b, Manager)
        \/ \E id \in DOMAIN inspections, passed \in BOOLEAN : CompleteInspection(caller, id, passed)

MoneyNext ==
    \/ \E value \in Amounts : operatingFloat = 0 /\ FundOperatingFloat(value)
    \/ \E caller \in People :
          \/ \E account \in Landlords : SetFeeBeneficiary(caller, account)
          \/ \E b \in Buildings, amount \in Amounts, vendor \in Landlords : Room(expenses) /\ RecordExpense(caller, b, amount, vendor)
          \/ \E id \in DOMAIN expenses : PayExpense(caller, id)
          \/ \E b \in Buildings, r \in Landlords, stake \in Amounts : Room(disputes) /\ OpenDispute(caller, b, r, stake)
          \/ \E id \in DOMAIN disputes :
                \/ CounterpartyStakeDispute(caller, id, disputes[id].initiatorStake)
                \/ \E outcome \in {"ResolvedInitiator", "ResolvedRespondent", "Split"} : ResolveDispute(caller, id, outcome)

MotionNext ==
    \E caller \in People :
        \/ proposalCounter < MaxCases /\ CreateManagementProposal(caller)
        \/ \E id \in 1..MaxCases, support \in BOOLEAN : VoteOnManagementProposal(caller, id, support)

ManagementNext == TenancyNext \/ UpkeepNext \/ MoneyNext \/ MotionNext

----
\* Properties

ManagementTypeOK ==
    /\ leases \in Seq(Lease) /\ maintenance \in Seq(MaintenanceRequest) /\ screenings \in Seq(TenantScreening)
    /\ expenses \in Seq(Expense) /\ inspections \in Seq(Inspection) /\ disputes \in Seq(Dispute)
    /\ analytics \in [Buildings -> PropertyAnalytics] /\ dashboard \in Dashboard
    /\ operatingFloat \in Nat /\ escrowLocked \in Nat /\ held \in Nat

Unresolved == {i \in DOMAIN disputes : disputes[i].status \in OpenDisputes}
Standing(records, status) == {i \in DOMAIN records : records[i].status = status}
PaidFor(b) == {i \in DOMAIN expenses : expenses[i].building = b /\ expenses[i].status = "Paid"}

\* The contract holds exactly its float and the stakes of the disputes that are not
\* resolved, the dashboard and the figures of the properties count what is stored, a
\* request is counted as open only if it is, and nobody's vote counts twice
\* (open_dispute, finish_dispute, pay_expense, update_maintenance_status, vote).
ManagementBooksAgree ==
    /\ ManagementTypeOK
    /\ held = operatingFloat + escrowLocked
    /\ escrowLocked = SumFunctionOnSet([i \in DOMAIN disputes |-> Stakes(disputes[i])], Unresolved)
    /\ dashboard.leases = Cardinality(Standing(leases, "Active"))
    /\ dashboard.screenings = Cardinality(Standing(screenings, "Pending"))
    /\ dashboard.disputes = Cardinality(Unresolved)
    /\ dashboard.rent = SumFunctionOnSet([b \in Buildings |-> analytics[b].rent], Buildings)
    /\ dashboard.rent = SumFunctionOnSet([i \in DOMAIN leases |-> leases[i].rent * leases[i].paid], DOMAIN leases)
    /\ dashboard.maintenance <= Cardinality({i \in DOMAIN maintenance : maintenance[i].status \in OpenStatuses})
    /\ \A b \in Buildings : analytics[b].expenses >= SumFunctionOnSet([i \in DOMAIN expenses |-> expenses[i].amount], PaidFor(b))
    /\ \A id \in DOMAIN proposals : proposals[id].for + proposals[id].against <= Cardinality({v \in proposalVotes : v[1] = id})
====

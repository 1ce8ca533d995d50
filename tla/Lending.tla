---- MODULE Lending ----
(***************************************************************************)
(* Loans against property: applications, underwriting by credit score and  *)
(* loan-to-value, servicing, restructuring by both parties, liquidation,   *)
(* the marketplace of listings and offers, pools, and votes                *)
(* (contracts/lending/src/lib.rs).                                         *)
(*                                                                         *)
(* Left out are fields no message reads: approved, credit_score and kind   *)
(* of a loan, the lender of an offer, borrower_loans, total_borrowed and   *)
(* base_rate. start_block is None in every loan the code makes, so that no *)
(* fixed-rate loan ever expires. Time is counted in blocks.                *)
(***************************************************************************)
EXTENDS BlockClock, U32, SequencesExt, FiniteSetsExt

CONSTANTS
    Accounts,
    LendingAdmin,       \* the admin of the constructor
    RotationCooldown, RotationExpiry,
    Properties,         \* property identifiers, 0 for none
    ValueArgs,          \* values, prices and amounts an argument may name
    RatioArgs,          \* pairs of an LTV ratio and a liquidation threshold
    TermArgs, RateArgs,
    ScheduleArgs,       \* schedule types, with the payment of a custom one and an interval
    MonthBlocks,        \* the blocks of a month
    ScheduleScale,      \* the blocks of a year times 10000
    InterestScale,      \* the seconds of a year times 10000, in blocks
    MinScore, MaxLtv,
    BaseScore, RepaymentBonus, MaxBonus, DefaultPenalty, MaxDefaultPenalty, LoanPenalty, MaxLoanPenalty,
    MaxLoans,           \* bound: loans of a behaviour
    MaxOffers,          \* bound: listings, and offers, of a behaviour
    MaxRecords,         \* bound: credit entries of a kind of one account
    MaxPools,           \* bound: pools, servicers, schedules and proposals
    MaxDeposits         \* bound: deposits and stakes

ASSUME LendingConstants ==
    /\ IsFiniteSet(Accounts) /\ LendingAdmin \in Accounts
    /\ Properties \cup ValueArgs \cup TermArgs \cup RateArgs \subseteq Nat
    /\ RatioArgs \subseteq Nat \X Nat
    /\ ScheduleArgs \subseteq [type : {"Bullet", "Annuity", "Linear", "Custom"}, payment : Nat, interval : Nat]
    /\ \A s \in ScheduleArgs : s.type = "Custom" \/ s.payment = 0
    /\ {MonthBlocks, ScheduleScale, InterestScale} \subseteq Nat \ {0}
    /\ {RotationCooldown, RotationExpiry, MinScore, MaxLtv, BaseScore, RepaymentBonus, MaxBonus,
        DefaultPenalty, MaxDefaultPenalty, LoanPenalty, MaxLoanPenalty, MaxLoans, MaxOffers,
        MaxRecords, MaxPools, MaxDeposits} \subseteq Nat

BasisPoints == 10000

VARIABLES
    lendingAdmin, lendingRotation,
    collateral,         \* collateral_records, a function on the assessed properties
    loans,              \* loan_applications, by loan id
    pledged,            \* loan_collaterals, by loan id, whether or not there is a loan
    restructurings,     \* loan_restructurings, a function on loan ids
    profiles,           \* credit_profiles
    servicers,          \* loan_servicers
    schedules,          \* payment_schedules
    loanSchedule,       \* loan_payment_schedule, a function on loan ids
    listings,           \* marketplace_listings
    offers,             \* marketplace_offers
    pools, positions,   \* pools and margin_positions
    yieldStakes, totalYield,
    proposals

adminVars == <<lendingAdmin, lendingRotation>>
serviceVars == <<servicers, schedules, loanSchedule>>
marketVars == <<listings, offers>>
poolVars == <<pools, positions, yieldStakes, totalYield, proposals>>
loanVars == <<collateral, loans, pledged, restructurings, profiles>>
lendingVars == <<block, adminVars, loanVars, serviceVars, marketVars, poolVars>>

AdminKey == INSTANCE AdminRotation WITH admin <- lendingAdmin, rotation <- lendingRotation

LoanStatus == {"Pending", "Active", "RestructuringProposed", "Restructured", "Liquidated"}

Loan ==
    [applicant : Accounts, property : Properties, amount : Nat \ {0}, collateralValue : Nat,
     servicer : SUBSET Nat, servicing : {"Pending", "Boarded", "Originated", "Reported"},
     term : Nat, rate : Nat, fixed : BOOLEAN, status : LoanStatus, accrued : Nat, last : Nat]

Restructuring == [term : Nat \ {0}, rate : Nat \ {0}, borrower : BOOLEAN, lender : BOOLEAN]

Listing ==
    [borrower : Accounts, property : Properties, maxRate : Nat,
     status : {"Open", "Originated", "Cancelled"}, accepted : SUBSET Nat]

Offer == [listing : Nat, amount : Nat \ {0}, rate : Nat, term : Nat, accepted : BOOLEAN]

LendingTypeOK ==
    /\ AdminKey!RotationTypeOK
    /\ DOMAIN collateral \subseteq Properties
    /\ \A p \in DOMAIN collateral : collateral[p] \in [value : Nat, ltv : Nat, threshold : Nat]
    /\ loans \in Seq(Loan)
    /\ pledged \in [1..MaxLoans -> SUBSET DOMAIN collateral]
    /\ DOMAIN restructurings \subseteq DOMAIN loans
    /\ \A id \in DOMAIN restructurings : restructurings[id] \in Restructuring
    /\ profiles \in [Accounts -> [repaid : Nat, defaults : Nat, active : Nat]]
    /\ servicers \in Seq([account : Accounts, active : BOOLEAN])
    /\ \A id \in DOMAIN loans : loans[id].servicer \subseteq DOMAIN servicers
    /\ schedules \in Seq([loan : 1..Len(loans), installment : Nat, count : Nat \ {0}, next : Nat])
    /\ \A id \in DOMAIN loanSchedule :
          loanSchedule[id] \in DOMAIN schedules /\ schedules[loanSchedule[id]].loan = id
    /\ listings \in Seq(Listing)
    /\ offers \in Seq(Offer)
    /\ pools \in Seq([deposits : Nat, borrows : Nat])
    /\ \A p \in DOMAIN pools : pools[p].borrows <= pools[p].deposits
    /\ positions \in Seq(Accounts)
    /\ yieldStakes \in [Accounts -> Nat] /\ totalYield = SumFunctionOnSet(yieldStakes, Accounts)
    /\ proposals \in Seq([for : Nat, against : Nat, executed : BOOLEAN])

NoEntries == [x \in {} |-> x]

LendingInit ==
    /\ lendingAdmin = LendingAdmin /\ lendingRotation = {}
    /\ collateral = NoEntries /\ loans = << >> /\ pledged = [id \in 1..MaxLoans |-> {}]
    /\ restructurings = NoEntries
    /\ profiles = [a \in Accounts |-> [repaid |-> 0, defaults |-> 0, active |-> 0]]
    /\ servicers = << >> /\ schedules = << >> /\ loanSchedule = NoEntries
    /\ listings = << >> /\ offers = << >>
    /\ pools = << >> /\ positions = << >> /\ proposals = << >>
    /\ yieldStakes = [a \in Accounts |-> 0] /\ totalYield = 0
----
\* Pure functions

AtMost(n, bound) == IF n > bound THEN bound ELSE n
Minus(a, b) == IF a > b THEN a - b ELSE 0
AtLeastOne(n) == IF n = 0 THEN 1 ELSE n

\* compute_credit_score
Score(profile) ==
    Minus(Minus(BaseScore + AtMost(profile.repaid * RepaymentBonus, MaxBonus),
                AtMost(profile.defaults * DefaultPenalty, MaxDefaultPenalty)),
          AtMost(profile.active * LoanPenalty, MaxLoanPenalty))

\* A ratio of two amounts in basis points.
Ltv(debt, value) == (debt * BasisPoints) \div AtLeastOne(value)

\* compute_accrued_interest
Interest(amount, rate, elapsed) == (amount * rate * elapsed) \div InterestScale

\* Schedule::installment. Annuity and linear schedules differ in name only.
Installment(loan, schedule) ==
    LET n == (loan.term * MonthBlocks) \div schedule.interval
        interest == (loan.amount * loan.rate * schedule.interval) \div ScheduleScale
    IN  CASE schedule.type = "Custom" /\ schedule.payment > 0 -> schedule.payment
          [] schedule.type = "Bullet" \/ (n = 0 /\ schedule.payment = 0) -> loan.amount
          [] schedule.type = "Custom" /\ schedule.payment = 0 /\ n > 0 -> loan.amount \div n
          [] schedule.type \in {"Annuity", "Linear"} /\ n > 0 -> loan.amount \div n + interest

\* update_interest_snapshot, by the loan it stores.
Snapshot(loan) ==
    IF loan.last = 0 THEN [loan EXCEPT !.last = block]
    ELSE [loan EXCEPT !.accrued = @ + Interest(loan.amount, loan.rate, block - loan.last),
                      !.last = block]

SetLoan(id, loan) == loans' = [loans EXCEPT ![id] = loan]

----
\* Collateral and applications

AssessCollateral(caller, property, value, ratios) ==
    /\ caller = lendingAdmin
    /\ collateral' = [p \in DOMAIN collateral \cup {property} |->
           IF p = property THEN [value |-> value, ltv |-> ratios[1], threshold |-> ratios[2]]
           ELSE collateral[p]]
    /\ UNCHANGED <<block, adminVars, loans, pledged, restructurings, profiles, serviceVars,
                   marketVars, poolVars>>

PledgeAdditionalCollateral(id, property) ==
    /\ property \in DOMAIN collateral
    /\ id \in 1..MaxLoans
    /\ pledged' = [pledged EXCEPT ![id] = @ \cup {property}]
    /\ UNCHANGED <<block, adminVars, collateral, loans, restructurings, profiles, serviceVars,
                   marketVars, poolVars>>

NewLoan(caller, property, amount, value, term, rate, fixed) ==
    [applicant |-> caller, property |-> property, amount |-> amount, collateralValue |-> value,
     servicer |-> {}, servicing |-> "Pending", term |-> term, rate |-> rate, fixed |-> fixed,
     status |-> "Pending", accrued |-> 0, last |-> 0]

\* The two unsecured applications, which differ in the type of the loan.
ApplyForLoan(caller, property, amount, value, term, rate, fixed) ==
    /\ Len(loans) < MaxLoans
    /\ 0 \notin {amount, value, term, rate}
    /\ loans' = Append(loans, NewLoan(caller, property, amount, value, term, rate, fixed))
    /\ UNCHANGED <<block, adminVars, collateral, pledged, restructurings, profiles, serviceVars,
                   marketVars, poolVars>>

\* What was pledged to the identifier before is forgotten.
ApplyForPropertyBackedLoan(caller, property, amount, term, rate) ==
    /\ Len(loans) < MaxLoans
    /\ property \in DOMAIN collateral
    /\ LET record == collateral[property]
       IN  /\ 0 \notin {amount, term, rate}
           /\ amount <= (record.value * record.ltv) \div BasisPoints
           /\ loans' = Append(loans, NewLoan(caller, property, amount, record.value, term, rate, FALSE))
    /\ pledged' = [pledged EXCEPT ![Len(loans) + 1] = {property}]
    /\ UNCHANGED <<block, adminVars, collateral, restructurings, profiles, serviceVars, marketVars,
                   poolVars>>

\* The status of the loan is not looked at: a loan of any status, a liquidated one
\* too, becomes Active or Pending.
UnderwriteLoan(caller, id) ==
    /\ caller = lendingAdmin
    /\ id \in DOMAIN loans
    /\ LET loan == loans[id]
           approved == /\ Score(profiles[loan.applicant]) >= MinScore
                       /\ Ltv(loan.amount, loan.collateralValue) <= MaxLtv
       IN  \/ /\ approved
              /\ profiles[loan.applicant].active < MaxRecords
              /\ profiles' = [profiles EXCEPT ![loan.applicant].active = @ + 1]
              /\ SetLoan(id, [loan EXCEPT !.accrued = 0, !.last = block, !.status = "Active"])
           \/ /\ ~approved
              /\ SetLoan(id, [loan EXCEPT !.status = "Pending"])
              /\ UNCHANGED profiles
    /\ UNCHANGED <<block, adminVars, collateral, pledged, restructurings, serviceVars, marketVars,
                   poolVars>>

RecordCredit(borrower, entry) ==
    /\ profiles[borrower][entry] < MaxRecords
    /\ profiles' = [profiles EXCEPT ![borrower][entry] = @ + 1, ![borrower].active = Minus(@, 1)]
    /\ UNCHANGED <<block, adminVars, collateral, loans, pledged, restructurings, serviceVars,
                   marketVars, poolVars>>

RecordRepayment(caller, borrower) == caller = lendingAdmin /\ RecordCredit(borrower, "repaid")
RecordDefault(caller, borrower) == caller = lendingAdmin /\ RecordCredit(borrower, "defaults")

----
\* Servicing

RegisterLoanServicer(caller, account) ==
    /\ Len(servicers) < MaxPools
    /\ caller = lendingAdmin
    /\ servicers' = Append(servicers, [account |-> account, active |-> TRUE])
    /\ UNCHANGED <<block, adminVars, loanVars, schedules, loanSchedule, marketVars, poolVars>>

SetLoanServicerActive(caller, s, active) ==
    /\ caller = lendingAdmin
    /\ s \in DOMAIN servicers
    /\ servicers' = [servicers EXCEPT ![s].active = active]
    /\ UNCHANGED <<block, adminVars, loanVars, schedules, loanSchedule, marketVars, poolVars>>

AssignLoanServicer(caller, id, s) ==
    /\ caller = lendingAdmin
    /\ s \in DOMAIN servicers /\ servicers[s].active
    /\ id \in DOMAIN loans
    /\ SetLoan(id, [loans[id] EXCEPT !.servicer = {s}, !.servicing = "Boarded"])
    /\ UNCHANGED <<block, adminVars, collateral, pledged, restructurings, profiles, serviceVars,
                   marketVars, poolVars>>

\* The snapshot taken first is overwritten by the loan read before it: only the
\* servicing status changes.
UpdateServicingStatus(caller, id) ==
    /\ id \in DOMAIN loans
    /\ \E s \in loans[id].servicer : caller \in {lendingAdmin, servicers[s].account}
    /\ SetLoan(id, [loans[id] EXCEPT !.servicing = "Reported"])
    /\ UNCHANGED <<block, adminVars, collateral, pledged, restructurings, profiles, serviceVars,
                   marketVars, poolVars>>

\* The number of installments is converted to a u32, so that of a long term in short
\* intervals the low bits are left.
CreatePaymentSchedule(caller, id, schedule) ==
    /\ Len(schedules) < MaxPools
    /\ id \in DOMAIN loans
    /\ caller \in {lendingAdmin, loans[id].applicant}
    /\ schedule.interval # 0
    /\ schedules' = Append(schedules,
           [loan |-> id, installment |-> Installment(loans[id], schedule),
            count |-> AtLeastOne(AsU32((loans[id].term * MonthBlocks) \div schedule.interval)),
            next |-> block + schedule.interval])
    /\ loanSchedule' = [k \in DOMAIN loanSchedule \cup {id} |->
           IF k = id THEN Len(schedules) + 1 ELSE loanSchedule[k]]
    /\ UNCHANGED <<block, adminVars, loanVars, servicers, marketVars, poolVars>>

----
\* Restructuring and liquidation

ProposeLoanRestructuring(caller, id, term, rate) ==
    /\ 0 \notin {term, rate}
    /\ id \in DOMAIN loans
    /\ loans[id].status \in {"Active", "Restructured"}
    /\ caller \in {loans[id].applicant, lendingAdmin}
    /\ SetLoan(id, [loans[id] EXCEPT !.status = "RestructuringProposed"])
    /\ restructurings' = [k \in DOMAIN restructurings \cup {id} |->
           IF k = id THEN [term |-> term, rate |-> rate, borrower |-> caller = loans[id].applicant,
                           lender |-> caller = lendingAdmin]
           ELSE restructurings[k]]
    /\ UNCHANGED <<block, adminVars, collateral, pledged, profiles, serviceVars, marketVars, poolVars>>

\* Mutant: the new rate is stored before the interest is accrued.
Restructured_RateFirst(loan, r) ==
    [Snapshot([loan EXCEPT !.rate = r.rate]) EXCEPT !.term = r.term, !.status = "Restructured"]

\* The loan with the new terms: interest is accrued at the old rate first.
Restructured(loan, r) ==
    [Snapshot(loan) EXCEPT !.term = r.term, !.rate = r.rate, !.status = "Restructured"]

\* Mutant: either party's approval is enough.
ApproveLoanRestructuring_OneSided(caller, id) ==
    /\ id \in DOMAIN restructurings
    /\ caller \in {loans[id].applicant, lendingAdmin}
    /\ SetLoan(id, Restructured(loans[id], restructurings[id]))
    /\ restructurings' = [k \in DOMAIN restructurings \ {id} |-> restructurings[k]]
    /\ UNCHANGED <<block, adminVars, collateral, pledged, profiles, serviceVars, marketVars, poolVars>>

\* An applicant who is the admin gives the borrower's approval only. The status of
\* the loan is not looked at.
ApproveLoanRestructuring(caller, id) ==
    /\ id \in DOMAIN restructurings
    /\ caller \in {loans[id].applicant, lendingAdmin}
    /\ LET byBorrower == caller = loans[id].applicant
           r == [restructurings[id] EXCEPT !.borrower = @ \/ byBorrower,
                                           !.lender = @ \/ ~byBorrower]
       IN  \/ /\ r.borrower /\ r.lender
              /\ SetLoan(id, Restructured(loans[id], r))
              /\ restructurings' = [k \in DOMAIN restructurings \ {id} |-> restructurings[k]]
           \/ /\ ~(r.borrower /\ r.lender)
              /\ restructurings' = [restructurings EXCEPT ![id] = r]
              /\ UNCHANGED loans
    /\ UNCHANGED <<block, adminVars, collateral, pledged, profiles, serviceVars, marketVars, poolVars>>

\* The collateral a liquidation looks at: the property of the loan if nothing is pledged.
Backing(id) ==
    IF pledged[id] = {} /\ loans[id].property # 0 THEN {loans[id].property} ELSE pledged[id]

\* The debt exceeds the threshold weighted by the assessed values; prices are what
\* the caller says the collateral is worth.
Unhealthy(debt, backing, prices) ==
    LET assessed == MapThenSumSet(LAMBDA p : collateral[p].value, backing)
        weighted == MapThenSumSet(LAMBDA p : collateral[p].value * collateral[p].threshold, backing)
        current  == MapThenSumSet(LAMBDA p : prices[p], backing)
    IN  assessed # 0 /\ Ltv(debt, current) > weighted \div assessed

\* The snapshot is overwritten, and the debt is the one before it.
LiquidateLoan(id, prices) ==
    /\ id \in DOMAIN loans
    /\ loans[id].status = "Active"
    /\ Backing(id) \subseteq DOMAIN collateral
    /\ Unhealthy(loans[id].amount + loans[id].accrued, Backing(id), prices)
    /\ SetLoan(id, [loans[id] EXCEPT !.status = "Liquidated"])
    /\ pledged' = [pledged EXCEPT ![id] = Backing(id)]
    /\ UNCHANGED <<block, adminVars, collateral, restructurings, profiles, serviceVars, marketVars,
                   poolVars>>

----
\* The marketplace

CreateLoanListing(caller, property, amount, maxRate, term) ==
    /\ Len(listings) < MaxOffers
    /\ 0 \notin {amount, maxRate, term}
    /\ listings' = Append(listings, [borrower |-> caller, property |-> property, maxRate |-> maxRate,
                                     status |-> "Open", accepted |-> {}])
    /\ UNCHANGED <<block, adminVars, loanVars, serviceVars, offers, poolVars>>

SubmitLoanOffer(l, amount, rate, term) ==
    /\ Len(offers) < MaxOffers
    /\ l \in DOMAIN listings /\ listings[l].status = "Open"
    /\ rate <= listings[l].maxRate
    /\ 0 \notin {amount, term}
    /\ offers' = Append(offers, [listing |-> l, amount |-> amount, rate |-> rate, term |-> term,
                                 accepted |-> FALSE])
    /\ UNCHANGED <<block, adminVars, loanVars, serviceVars, listings, poolVars>>

AcceptLoanOffer(caller, o) ==
    /\ Len(loans) < MaxLoans
    /\ o \in DOMAIN offers
    /\ LET offer == offers[o]
           listing == listings[offer.listing]
       IN  /\ listing.borrower = caller
           /\ listing.status = "Open"
           /\ ~offer.accepted
           /\ loans' = Append(loans,
                 [NewLoan(caller, listing.property, offer.amount, offer.amount, offer.term, offer.rate,
                          FALSE) EXCEPT !.servicing = "Originated", !.status = "Active", !.last = block])
           /\ offers' = [offers EXCEPT ![o].accepted = TRUE]
           /\ listings' = [listings EXCEPT ![offer.listing].status = "Originated",
                                           ![offer.listing].accepted = {o}]
    /\ UNCHANGED <<block, adminVars, collateral, pledged, restructurings, profiles, serviceVars, poolVars>>

CancelLoanListing(caller, l) ==
    /\ l \in DOMAIN listings
    /\ listings[l].borrower = caller
    /\ listings[l].status = "Open"
    /\ listings' = [listings EXCEPT ![l].status = "Cancelled"]
    /\ UNCHANGED <<block, adminVars, loanVars, serviceVars, offers, poolVars>>

----
\* Pools, positions, yield and votes

CreatePool(caller) ==
    /\ Len(pools) < MaxPools
    /\ caller = lendingAdmin
    /\ pools' = Append(pools, [deposits |-> 0, borrows |-> 0])
    /\ UNCHANGED <<block, adminVars, loanVars, serviceVars, marketVars, positions, yieldStakes,
                   totalYield, proposals>>

Deposit(p, amount) ==
    /\ p \in DOMAIN pools
    /\ pools[p].deposits + amount <= MaxDeposits
    /\ pools' = [pools EXCEPT ![p].deposits = @ + amount]
    /\ UNCHANGED <<block, adminVars, loanVars, serviceVars, marketVars, positions, yieldStakes,
                   totalYield, proposals>>

Borrow(p, amount) ==
    /\ p \in DOMAIN pools
    /\ pools[p].borrows + amount <= pools[p].deposits
    /\ pools' = [pools EXCEPT ![p].borrows = @ + amount]
    /\ UNCHANGED <<block, adminVars, loanVars, serviceVars, marketVars, positions, yieldStakes,
                   totalYield, proposals>>

\* A position is only stored.
OpenPosition(caller) ==
    /\ Len(positions) < MaxPools
    /\ positions' = Append(positions, caller)
    /\ UNCHANGED <<block, adminVars, loanVars, serviceVars, marketVars, pools, yieldStakes, totalYield,
                   proposals>>

StakeYield(caller, amount) ==
    /\ totalYield + amount <= MaxDeposits
    /\ yieldStakes' = [yieldStakes EXCEPT ![caller] = @ + amount]
    /\ totalYield' = totalYield + amount
    /\ UNCHANGED <<block, adminVars, loanVars, serviceVars, marketVars, pools, positions, proposals>>

Propose ==
    /\ Len(proposals) < MaxPools
    /\ proposals' = Append(proposals, [for |-> 0, against |-> 0, executed |-> FALSE])
    /\ UNCHANGED <<block, adminVars, loanVars, serviceVars, marketVars, pools, positions, yieldStakes,
                   totalYield>>

\* Anybody votes as often as they like, also after the execution.
VoteOnLending(p, inFavour) ==
    /\ p \in DOMAIN proposals
    /\ proposals[p].for + proposals[p].against < MaxRecords
    /\ proposals' = [proposals EXCEPT ![p].for = @ + (IF inFavour THEN 1 ELSE 0),
                                      ![p].against = @ + (IF inFavour THEN 0 ELSE 1)]
    /\ UNCHANGED <<block, adminVars, loanVars, serviceVars, marketVars, pools, positions, yieldStakes,
                   totalYield>>

ExecuteLendingProposal(p) ==
    /\ p \in DOMAIN proposals
    /\ proposals[p].for > proposals[p].against
    /\ ~proposals[p].executed
    /\ proposals' = [proposals EXCEPT ![p].executed = TRUE]
    /\ UNCHANGED <<block, adminVars, loanVars, serviceVars, marketVars, pools, positions, yieldStakes,
                   totalYield>>

----
\* The next-state relation

ids == 1..MaxLoans

CollateralNext ==
    \E p \in Properties :
        \/ \E a \in Accounts, value \in ValueArgs, ratios \in RatioArgs : AssessCollateral(a, p, value, ratios)
        \/ \E id \in ids : PledgeAdditionalCollateral(id, p)

ApplyNext ==
    \E a \in Accounts, p \in Properties, amount \in ValueArgs, term \in TermArgs, rate \in RateArgs :
        \/ \E value \in ValueArgs, fixed \in BOOLEAN : ApplyForLoan(a, p, amount, value, term, rate, fixed)
        \/ ApplyForPropertyBackedLoan(a, p, amount, term, rate)

CreditNext ==
    \E a, b \in Accounts : RecordRepayment(a, b) \/ RecordDefault(a, b)

UnderwriteNext == \E a \in Accounts, id \in ids : UnderwriteLoan(a, id)

ServicingNext ==
    \E a \in Accounts :
        \/ \E b \in Accounts : RegisterLoanServicer(a, b)
        \/ \E s \in DOMAIN servicers, active \in BOOLEAN : SetLoanServicerActive(a, s, active)
        \/ \E id \in ids, s \in DOMAIN servicers : AssignLoanServicer(a, id, s)
        \/ \E id \in ids : UpdateServicingStatus(a, id)
        \/ \E id \in ids, s \in ScheduleArgs : CreatePaymentSchedule(a, id, s)

ProposeRestructuringNext ==
    \E a \in Accounts, id \in ids, term \in TermArgs, rate \in RateArgs :
        ProposeLoanRestructuring(a, id, term, rate)

ApproveRestructuringNext == \E a \in Accounts, id \in ids : ApproveLoanRestructuring(a, id)

\* What a caller may say the properties are worth; what is not said is as assessed.
Prices ==
    UNION {{said @@ [p \in DOMAIN collateral |-> collateral[p].value] : said \in [S -> ValueArgs]} :
           S \in SUBSET Properties}

LiquidateNext == \E id \in ids, prices \in Prices : LiquidateLoan(id, prices)

ListingNext ==
    \E a \in Accounts :
        \/ \E p \in Properties, amount \in ValueArgs, rate \in RateArgs, term \in TermArgs :
              CreateLoanListing(a, p, amount, rate, term)
        \/ \E l \in DOMAIN listings : CancelLoanListing(a, l)

\* Anybody offers.
OfferNext ==
    \E l \in DOMAIN listings, amount \in ValueArgs, rate \in RateArgs, term \in TermArgs :
        SubmitLoanOffer(l, amount, rate, term)

AcceptNext == \E a \in Accounts, o \in DOMAIN offers : AcceptLoanOffer(a, o)

LendingPoolNext ==
    \/ \E a \in Accounts :
          CreatePool(a) \/ OpenPosition(a) \/ (\E amount \in ValueArgs : StakeYield(a, amount))
    \/ \E p \in DOMAIN pools, amount \in ValueArgs : Deposit(p, amount) \/ Borrow(p, amount)

LendingVoteNext ==
    \/ Propose
    \/ \E p \in DOMAIN proposals :
          (\E inFavour \in BOOLEAN : VoteOnLending(p, inFavour)) \/ ExecuteLendingProposal(p)

LendingRotationNext ==
    AdminKey!RotationNext /\ UNCHANGED <<loanVars, serviceVars, marketVars, poolVars>>

LendingTimeNext ==
    NextBlock /\ UNCHANGED <<adminVars, loanVars, serviceVars, marketVars, poolVars>>

LendingNext ==
    \/ CollateralNext
    \/ ApplyNext
    \/ UnderwriteNext
    \/ CreditNext
    \/ ServicingNext
    \/ ProposeRestructuringNext
    \/ ApproveRestructuringNext
    \/ LiquidateNext
    \/ ListingNext
    \/ OfferNext
    \/ AcceptNext
    \/ LendingPoolNext
    \/ LendingVoteNext
    \/ LendingRotationNext
    \/ LendingTimeNext

LendingSpec == ChainInit /\ LendingInit /\ [][LendingNext]_lendingVars
====

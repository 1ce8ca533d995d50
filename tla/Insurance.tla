---- MODULE Insurance ----
(***************************************************************************)
(* Risk pools that insure properties: policies against a premium, claims   *)
(* an assessor decides or an oracle triggers, payouts under a circuit      *)
(* breaker, reinsurance, parametric policies, and a market of policies     *)
(* (contracts/insurance/src/lib.rs, premium_engine.rs).                    *)
(*                                                                         *)
(* A refused payout also trips the circuit breaker, but it returns Err,    *)
(* which reverts the trip: circuit_breaker_active is never stored as TRUE, *)
(* and its reset changes nothing. Left out are records only getters and    *)
(* statistics read (underwriting criteria, property risk models, fraud     *)
(* assessments, oracle data, the indices of policies and claims by         *)
(* property and policy) and is_active of a pool, which no message clears.  *)
(* Time stamps are blocks after the Epoch. No message pays anything out:   *)
(* a payout is an event and an entry.                                      *)
(***************************************************************************)
EXTENDS BlockClock, SequencesExt, FiniteSetsExt

CONSTANTS
    Insured,            \* accounts
    InsuranceAdmin,     \* the admin of the constructor
    InsuranceCooldown, InsuranceExpiry,     \* of the rotation of the admin
    Houses,             \* identifiers of properties
    CoverageTypes,
    TypeRate,           \* coverage_type_base_rate
    TypeMultiplier,     \* coverage_type_multiplier
    PremiumScale,       \* what the product of the premium's factors is divided by
    Epoch,              \* the time before the first block
    FirstClaimCooldown, FirstWindow, FirstFee, MaxFee,
    MoneyArgs,          \* premiums, coverages, claims and prices an argument may name
    ScoreArgs,          \* scores of location, construction, age and claims history
    ExposureArgs,       \* pairs of max_coverage_ratio and reinsurance_threshold
    SpanArgs,           \* durations, cooldowns and windows
    TreatyArgs,         \* type, coverage limit, retention limit and ceded rate
    PayoutArgs,         \* payout modes with their value
    Thresholds,         \* of triggers and parametric policies
    Readings,           \* what an oracle may report
    ReadingSpan,        \* the number of values of an integer, 2^128 in the code
    Metrics,
    BreakerArgs,        \* pairs of a single and a daily limit
    MaxRiskPools,       \* bound: pools of a behaviour
    MaxPolicies,        \* bound: policies, and parametric ones, of a behaviour
    MaxClaims,          \* bound: claims
    MaxTriggers,        \* bound: triggers, treaties and actuarial models
    MaxCessions,        \* bound: cessions, and recoveries
    MaxCapital          \* bound: the capital and premiums of a pool

ASSUME InsuranceConstants ==
    /\ InsuranceAdmin \in Insured /\ IsFiniteSet(Insured)
    /\ {TypeRate, TypeMultiplier} \subseteq [CoverageTypes -> Nat]
    /\ {PremiumScale, ReadingSpan} \subseteq Nat \ {0}
    /\ MoneyArgs \cup SpanArgs \cup Readings \subseteq Nat
    /\ Thresholds \subseteq Int
    /\ ScoreArgs \subseteq Nat \X Nat \X Nat \X Nat
    /\ ExposureArgs \cup BreakerArgs \subseteq Nat \X Nat
    /\ TreatyArgs \subseteq [type : {"ExcessOfLoss", "QuotaShare", "Surplus"}, limit : Nat,
                             retention : Nat, rate : Nat]
    /\ PayoutArgs \subseteq [mode : {"Fixed", "Percent", "Full"}, value : Nat]
    /\ {InsuranceCooldown, InsuranceExpiry, Epoch, FirstClaimCooldown, FirstWindow, FirstFee, MaxFee,
        MaxRiskPools, MaxPolicies, MaxClaims, MaxTriggers, MaxCessions, MaxCapital} \subseteq Nat
    /\ FirstFee <= MaxFee /\ FirstWindow > 0

VARIABLES
    insuranceAdmin, insuranceRotation,
    dataOracles, assessors,     \* authorized_oracles, authorized_assessors
    settings,           \* platform_fee_rate, claim_cooldown_period, circuit_breaker_config
    riskPools,          \* pools
    capital,            \* liquidity_providers, what each has deposited in a pool
    assessments,        \* risk_assessments, {} or a singleton
    models,             \* actuarial_models
    policies,
    portfolio,          \* policyholder_policies
    tokens,             \* insurance_tokens; policy p has token p
    tokenListings,      \* token_listings
    claims,
    claimTimes,         \* claim_cooldowns, 0 for none
    windows,            \* pool_window_start and pool_window_payouts
    triggers,           \* claim_triggers
    treaties,           \* reinsurance_agreements
    cessions,           \* premium_cessions
    recoveries,         \* loss_recoveries
    parametric          \* parametric_policies

officeVars == <<insuranceAdmin, insuranceRotation, dataOracles, assessors, settings>>
policyVars == <<policies, portfolio, tokens, tokenListings>>
underwritingVars == <<assessments, models>>
claimVars == <<claims, claimTimes, windows>>
treatyVars == <<treaties, cessions, recoveries>>
insuranceState == <<officeVars, riskPools, capital, underwritingVars, policyVars, claimVars, triggers,
                    treatyVars, parametric>>

OfficeKey ==
    INSTANCE AdminRotation WITH Accounts <- Insured, admin <- insuranceAdmin,
        rotation <- insuranceRotation, RotationCooldown <- InsuranceCooldown,
        RotationExpiry <- InsuranceExpiry

RiskPool ==
    [type : CoverageTypes, capital : Nat, available : Nat, premiums : Nat, paid : Nat,
     policies : Nat, ratio : Nat, threshold : Nat]

Policy ==
    [house : Houses, holder : Insured, coverage : Nat, deductible : Nat, end : Nat, pool : Nat,
     status : {"Active", "Claimed", "Cancelled"}, claimed : Nat]

Claim ==
    [policy : Nat, claimant : Insured, amount : Nat, payout : Nat,
     status : {"Pending", "Approved", "Paid", "Rejected"}]

Trigger ==
    [policy : Nat, atLeast : BOOLEAN, threshold : Int, mode : PayoutArgs, active : BOOLEAN,
     claim : Nat]            \* triggering_claim_id, 0 until it is triggered

Treaty ==
    [terms : TreatyArgs, end : Nat, active : BOOLEAN, ceded : Nat, cessions : Nat,
     recovered : Nat, recoveries : Nat]

Parametric ==
    [house : Houses, holder : Insured, metric : Metrics, atLeast : BOOLEAN, threshold : Int,
     coverage : Nat, pool : Nat, end : Nat, status : {"Active", "Triggered", "Cancelled"}]

riskPoolIds == 1..MaxRiskPools

InsuranceTypeOK ==
    /\ OfficeKey!RotationTypeOK
    /\ dataOracles \subseteq Insured /\ assessors \subseteq Insured
    /\ settings \in [fee : 0..MaxFee, cooldown : Nat, single : Nat, daily : Nat, window : Nat \ {0}]
    /\ riskPools \in Seq(RiskPool)
    /\ capital \in [riskPoolIds -> [Insured -> Nat]]
    /\ \A h \in Houses : assessments[h] \subseteq [scores : ScoreArgs, until : Nat]
    /\ models \in Seq([type : CoverageTypes, rate : Nat])
    /\ policies \in Seq(Policy)
    /\ portfolio \in [Insured -> Seq(DOMAIN policies)]
    /\ tokens \in Seq([owner : Insured, price : SUBSET Nat])
    /\ tokenListings \subseteq DOMAIN tokens
    /\ claims \in Seq(Claim)
    /\ claimTimes \in [Houses -> Nat]
    /\ windows \in [riskPoolIds -> [start : Nat, total : Nat]]
    /\ triggers \in Seq(Trigger)
    /\ treaties \in Seq(Treaty)
    /\ cessions \in Seq([treaty : DOMAIN treaties, amount : Nat \ {0}])
    /\ recoveries \in Seq([treaty : DOMAIN treaties, claim : DOMAIN claims, amount : Nat \ {0}])
    /\ parametric \in Seq(Parametric)

InsuranceInit ==
    /\ insuranceAdmin = InsuranceAdmin /\ insuranceRotation = {}
    /\ dataOracles = {} /\ assessors = {}
    /\ settings = [fee |-> FirstFee, cooldown |-> FirstClaimCooldown, single |-> 0, daily |-> 0,
                   window |-> FirstWindow]
    /\ riskPools = << >> /\ capital = [p \in riskPoolIds |-> [a \in Insured |-> 0]]
    /\ assessments = [h \in Houses |-> {}] /\ models = << >>
    /\ policies = << >> /\ portfolio = [a \in Insured |-> << >>]
    /\ tokens = << >> /\ tokenListings = {}
    /\ claims = << >> /\ claimTimes = [h \in Houses |-> 0]
    /\ windows = [p \in riskPoolIds |-> [start |-> 0, total |-> 0]]
    /\ triggers = << >> /\ treaties = << >> /\ cessions = << >> /\ recoveries = << >>
    /\ parametric = << >>

now == Epoch + block
----
\* Pure functions

\* saturating_sub, and a rate in basis points.
Above(a, b) == IF a > b THEN a - b ELSE 0
Bps(amount, rate) == (amount * rate) \div 10000
Least(a, b) == IF a < b THEN a ELSE b

Overall(s) == (s[1] + s[2] + s[3] + s[4]) \div 4
Weighted(s) == (30 * s[1] + 25 * s[2] + 20 * s[3] + 25 * s[4]) \div 100

\* The value of the first step that x reaches, the last value past all of them.
Step(steps, values, x) ==
    values[Min({i \in DOMAIN steps : x <= steps[i]} \cup {Len(values)})]

RiskMultiplier(s) ==
    Step(<<10, 20, 30, 40, 50, 60, 70, 80, 90>>, <<400, 350, 300, 250, 200, 170, 140, 110, 85, 60>>,
         Weighted(s))

UtilizationMultiplier(p) ==
    IF p.capital = 0 THEN 200
    ELSE Step(<<30, 50, 70, 85>>, <<90, 100, 115, 135, 160>>,
              (Above(p.capital, p.available) * 100) \div p.capital)

\* The first active pool of the type, or the first one: not the pool that insures.
FindPoolForCoverage(type) ==
    LET matching == {p \in DOMAIN riskPools : riskPools[p].type = type}
    IN  riskPools[Min(IF matching = {} THEN DOMAIN riskPools ELSE matching)]

\* The first model of the type: a later one is never used.
Rate(type) ==
    LET matching == {m \in DOMAIN models : models[m].type = type}
    IN  IF matching = {} THEN TypeRate[type] ELSE models[Min(matching)].rate

\* calculate_premium: one year, without discounts and without recent claims.
Premium(coverage, type, s) ==
    (coverage * Rate(type) * RiskMultiplier(s) * TypeMultiplier[type]
         * UtilizationMultiplier(FindPoolForCoverage(type))) \div PremiumScale

Deductible(coverage, s) ==
    Bps(coverage, 500 + Step(<<20, 40, 60, 80>>, <<200, 150, 100, 75, 50>>, Overall(s)))

\* An unsigned reading taken for a signed one.
Signed(reading) == IF 2 * reading >= ReadingSpan THEN reading - ReadingSpan ELSE reading

Meets(reading, atLeast, threshold) ==
    IF atLeast THEN reading >= threshold ELSE reading <= threshold

ClaimAmount(mode, remaining) ==
    CASE mode.mode = "Fixed" -> Least(mode.value, remaining)
      [] mode.mode = "Percent" -> Bps(remaining, mode.value)
      [] mode.mode = "Full" -> remaining

\* What a treaty bears of a loss.
Excess(terms, loss) == Least(Above(loss, terms.retention), terms.limit)
Recovered(terms, loss) ==
    IF terms.type = "QuotaShare" THEN Bps(loss, terms.rate) ELSE Excess(terms, loss)

\* And what it takes of a premium.
Ceded(terms, premium) ==
    IF terms.type = "Surplus" THEN Excess(terms, premium) ELSE Bps(premium, terms.rate)

----
\* Pools, risk, and policies

CreateRiskPool(caller, type, exposure) ==
    /\ Len(riskPools) < MaxRiskPools
    /\ caller = insuranceAdmin
    /\ riskPools' = Append(riskPools,
           [type |-> type, capital |-> 0, available |-> 0, premiums |-> 0, paid |-> 0, policies |-> 0,
            ratio |-> exposure[1], threshold |-> exposure[2]])
    /\ UNCHANGED <<block, officeVars, capital, underwritingVars, policyVars, claimVars, triggers,
                   treatyVars, parametric>>

ProvidePoolLiquidity(caller, p, amount) ==
    /\ p \in DOMAIN riskPools
    /\ riskPools[p].capital + amount <= MaxCapital
    /\ riskPools' = [riskPools EXCEPT ![p].capital = @ + amount, ![p].available = @ + amount]
    /\ capital' = [capital EXCEPT ![p][caller] = @ + amount]
    /\ UNCHANGED <<block, officeVars, underwritingVars, policyVars, claimVars, triggers, treatyVars,
                   parametric>>

UpdateRiskAssessment(caller, house, scores, span) ==
    /\ caller \in dataOracles \cup {insuranceAdmin}
    /\ assessments' = [assessments EXCEPT ![house] = {[scores |-> scores, until |-> now + span]}]
    /\ UNCHANGED <<block, officeVars, riskPools, capital, models, policyVars, claimVars, triggers,
                   treatyVars, parametric>>

UpdateActuarialModel(caller, type, rate) ==
    /\ Len(models) < MaxTriggers
    /\ caller \in dataOracles \cup {insuranceAdmin}
    /\ models' = Append(models, [type |-> type, rate |-> rate])
    /\ UNCHANGED <<block, officeVars, riskPools, capital, assessments, policyVars, claimVars, triggers,
                   treatyVars, parametric>>

\* What a pool may promise: each policy by itself, not all of them together.
Insurable(p, coverage) ==
    p \in DOMAIN riskPools /\ coverage <= Bps(riskPools[p].available, riskPools[p].ratio)

\* The premium, less the platform's fee, and the policy are the pool's.
Underwritten(p, paid) ==
    LET pooled == Above(paid, Bps(paid, settings.fee))
    IN  /\ riskPools[p].premiums + pooled <= MaxCapital
        /\ riskPools' = [riskPools EXCEPT ![p].premiums = @ + pooled, ![p].available = @ + pooled,
                                          ![p].policies = @ + 1]

CreatePolicy(caller, house, type, coverage, p, span, paid) ==
    /\ Len(policies) < MaxPolicies
    /\ Insurable(p, coverage)
    /\ \E a \in assessments[house] :
          /\ now <= a.until
          /\ paid >= Premium(coverage, type, a.scores)
          /\ policies' = Append(policies,
                 [house |-> house, holder |-> caller, coverage |-> coverage,
                  deductible |-> Deductible(coverage, a.scores), end |-> now + span, pool |-> p,
                  status |-> "Active", claimed |-> 0])
    /\ Underwritten(p, paid)
    /\ portfolio' = [portfolio EXCEPT ![caller] = Append(@, Len(policies'))]
    /\ tokens' = Append(tokens, [owner |-> caller, price |-> {}])
    /\ UNCHANGED <<block, officeVars, capital, underwritingVars, tokenListings, claimVars, triggers,
                   treatyVars, parametric>>

\* Claims that wait, and triggers, are left as they are.
CancelPolicy(caller, n) ==
    /\ n \in DOMAIN policies
    /\ caller \in {policies[n].holder, insuranceAdmin}
    /\ policies[n].status = "Active"
    /\ policies' = [policies EXCEPT ![n].status = "Cancelled"]
    /\ riskPools' = [riskPools EXCEPT ![policies[n].pool].policies = Above(@, 1)]
    /\ UNCHANGED <<block, officeVars, capital, underwritingVars, portfolio, tokens, tokenListings,
                   claimVars, triggers, treatyVars, parametric>>
----
\* Payouts

\* The limits of one payout and of a pool's window, which starts with the first
\* payout after the last one is over.
WithinBreaker(p, amount) ==
    LET fresh == now - windows[p].start >= settings.window
        total == amount + (IF fresh THEN 0 ELSE windows[p].total)
    IN  /\ settings.single = 0 \/ amount <= settings.single
        /\ \/ settings.daily = 0 /\ UNCHANGED windows
           \/ /\ 0 < settings.daily /\ total <= settings.daily
              /\ windows' = [windows EXCEPT ![p] = [start |-> IF fresh THEN now ELSE @.start,
                                                    total |-> total]]

\* A share of the loss, on the books of the treaty only: no pool gets it.
Recover(t, c, amount) ==
    /\ Len(recoveries) < MaxCessions
    /\ treaties' = [treaties EXCEPT ![t].recovered = @ + amount, ![t].recoveries = @ + 1]
    /\ recoveries' = Append(recoveries, [treaty |-> t, claim |-> c, amount |-> amount])

\* The first treaty in force that bears a part of a loss beyond the pool's threshold.
TryReinsuranceRecovery(p, c, amount) ==
    LET bearing == {t \in DOMAIN treaties :
                       /\ treaties[t].active /\ now <= treaties[t].end
                       /\ Recovered(treaties[t].terms, amount) > 0}
        first == Min(bearing)
    IN  IF amount > riskPools[p].threshold /\ bearing # {}
        THEN Recover(first, c, Recovered(treaties[first].terms, amount))
        ELSE UNCHANGED <<treaties, recoveries>>

\* A policy that pays: also a cancelled one, which then is Claimed.
Charged(policy, amount) ==
    LET claimed == policy.claimed + amount
    IN  [policy EXCEPT !.claimed = claimed,
                       !.status = IF claimed >= policy.coverage THEN "Claimed" ELSE @]

\* The payout of a decided claim. Nothing is paid, and the claim stays Approved, if
\* the deductible is not exceeded.
ExecutePayout(decided, c, amount) ==
    LET n == decided[c].policy
        p == policies[n].pool
    IN  \/ /\ amount = 0
           /\ claims' = decided
           /\ UNCHANGED <<riskPools, policies, claimTimes, windows, treatyVars>>
        \/ /\ amount > 0
           /\ WithinBreaker(p, amount)
           /\ TryReinsuranceRecovery(p, c, amount)
           /\ amount <= riskPools[p].available
           /\ riskPools' = [riskPools EXCEPT ![p].available = @ - amount, ![p].paid = @ + amount]
           /\ policies' = [policies EXCEPT ![n] = Charged(@, amount)]
           /\ claimTimes' = [claimTimes EXCEPT ![policies[n].house] = now]
           /\ claims' = [decided EXCEPT ![c].status = "Paid"]
           /\ UNCHANGED cessions

----
\* Claims and triggers

InForce(n) == policies[n].status = "Active" /\ now <= policies[n].end

\* The last payout of the house was long enough ago.
CooledDown(house) == now - claimTimes[house] >= settings.cooldown

Remaining(n) == Above(policies[n].coverage, policies[n].claimed)

\* Claims that wait neither count against the coverage nor start the cooldown.
SubmitClaim(caller, n, amount) ==
    /\ Len(claims) < MaxClaims
    /\ n \in DOMAIN policies
    /\ policies[n].holder = caller
    /\ InForce(n)
    /\ amount <= Remaining(n)
    /\ CooledDown(policies[n].house)
    /\ claims' = Append(claims, [policy |-> n, claimant |-> caller, amount |-> amount, payout |-> 0,
                                 status |-> "Pending"])
    /\ UNCHANGED <<block, officeVars, riskPools, capital, underwritingVars, policyVars, claimTimes,
                   windows, triggers, treatyVars, parametric>>

\* Of the policy only the deductible is looked at: not whether it is still active,
\* what remains of its coverage, or when the house was last paid for.
ProcessClaim(caller, c, approved) ==
    /\ caller \in assessors \cup {insuranceAdmin}
    /\ c \in DOMAIN claims
    /\ claims[c].status = "Pending"
    /\ \/ /\ approved
          /\ LET payout == Above(claims[c].amount, policies[claims[c].policy].deductible)
             IN  ExecutePayout([claims EXCEPT ![c].status = "Approved", ![c].payout = payout], c, payout)
       \/ /\ ~approved
          /\ claims' = [claims EXCEPT ![c].status = "Rejected"]
          /\ UNCHANGED <<riskPools, policies, claimTimes, windows, treatyVars>>
    /\ UNCHANGED <<block, officeVars, capital, underwritingVars, portfolio, tokens, tokenListings,
                   triggers, parametric>>

RegisterClaimTrigger(caller, n, atLeast, threshold, mode) ==
    /\ Len(triggers) < MaxTriggers
    /\ n \in DOMAIN policies
    /\ caller \in {policies[n].holder, insuranceAdmin}
    /\ policies[n].status = "Active"
    /\ mode.mode = "Full" \/ mode.value > 0
    /\ mode.mode = "Percent" => mode.value <= 10000
    /\ triggers' = Append(triggers, [policy |-> n, atLeast |-> atLeast, threshold |-> threshold,
                                     mode |-> mode, active |-> TRUE, claim |-> 0])
    /\ UNCHANGED <<block, officeVars, riskPools, capital, underwritingVars, policyVars, claimVars,
                   treatyVars, parametric>>

\* A trigger that fired is still active and can be deactivated.
DeactivateClaimTrigger(caller, t) ==
    /\ t \in DOMAIN triggers
    /\ triggers[t].active
    /\ caller \in {policies[triggers[t].policy].holder, insuranceAdmin}
    /\ triggers' = [triggers EXCEPT ![t].active = FALSE]
    /\ UNCHANGED <<block, officeVars, riskPools, capital, underwritingVars, policyVars, claimVars,
                   treatyVars, parametric>>

\* A reading that does not meet the condition leaves a note on the trigger only.
\* One that does makes, approves and pays a claim, or is refused.
ReportOracleEvent(caller, t, reading) ==
    /\ Len(claims) < MaxClaims
    /\ caller \in dataOracles \cup {insuranceAdmin}
    /\ t \in DOMAIN triggers
    /\ triggers[t].active /\ triggers[t].claim = 0
    /\ Meets(Signed(reading), triggers[t].atLeast, triggers[t].threshold)
    /\ LET n == triggers[t].policy
           amount == ClaimAmount(triggers[t].mode, Remaining(n))
           payout == Above(amount, policies[n].deductible)
       IN  /\ InForce(n)
           /\ CooledDown(policies[n].house)
           /\ Remaining(n) > 0 /\ amount > 0
           /\ ExecutePayout(
                  Append(claims, [policy |-> n, claimant |-> policies[n].holder, amount |-> amount,
                                  payout |-> payout, status |-> "Approved"]), Len(claims) + 1, payout)
    /\ triggers' = [triggers EXCEPT ![t].claim = Len(claims')]
    /\ UNCHANGED <<block, officeVars, capital, underwritingVars, portfolio, tokens, tokenListings,
                   parametric>>
----
\* Reinsurance

\* Both messages: register_reinsurance makes an ExcessOfLoss treaty.
RegisterReinsurance(caller, terms, span) ==
    /\ Len(treaties) < MaxTriggers
    /\ caller = insuranceAdmin
    /\ treaties' = Append(treaties, [terms |-> terms, end |-> now + span, active |-> TRUE, ceded |-> 0,
                                     cessions |-> 0, recovered |-> 0, recoveries |-> 0])
    /\ UNCHANGED <<block, officeVars, riskPools, capital, underwritingVars, policyVars, claimVars,
                   triggers, cessions, recoveries, parametric>>

DeactivateReinsurance(caller, t) ==
    /\ caller = insuranceAdmin
    /\ t \in DOMAIN treaties
    /\ treaties' = [treaties EXCEPT ![t].active = FALSE]
    /\ UNCHANGED <<block, officeVars, riskPools, capital, underwritingVars, policyVars, claimVars,
                   triggers, cessions, recoveries, parametric>>

\* No pool pays what is ceded.
CedePremium(caller, t, premium) ==
    /\ Len(cessions) < MaxCessions
    /\ caller = insuranceAdmin
    /\ t \in DOMAIN treaties
    /\ treaties[t].active /\ now <= treaties[t].end
    /\ LET amount == Ceded(treaties[t].terms, premium)
       IN  /\ amount > 0
           /\ cessions' = Append(cessions, [treaty |-> t, amount |-> amount])
           /\ treaties' = [treaties EXCEPT ![t].ceded = @ + amount, ![t].cessions = @ + 1]
    /\ UNCHANGED <<block, officeVars, riskPools, capital, underwritingVars, policyVars, claimVars,
                   triggers, recoveries, parametric>>

\* Of any loss, for any claim, whatever its status, also one recovered already, and
\* also after the treaty's end.
RecordLossRecovery(caller, t, c, loss) ==
    /\ caller = insuranceAdmin
    /\ t \in DOMAIN treaties
    /\ treaties[t].active
    /\ c \in DOMAIN claims
    /\ Recovered(treaties[t].terms, loss) > 0
    /\ Recover(t, c, Recovered(treaties[t].terms, loss))
    /\ UNCHANGED <<block, officeVars, riskPools, capital, underwritingVars, policyVars, claimVars,
                   triggers, cessions, parametric>>

----
\* The market of policies

ListTokenForSale(caller, n, price) ==
    /\ n \in DOMAIN tokens
    /\ tokens[n].owner = caller
    /\ tokens' = [tokens EXCEPT ![n].price = {price}]
    /\ tokenListings' = tokenListings \cup {n}
    /\ UNCHANGED <<block, officeVars, riskPools, capital, underwritingVars, policies, portfolio,
                   claimVars, triggers, treatyVars, parametric>>

\* The policies of a list that are not n, in their order (retain).
Without(list, n) ==
    LET kept[k \in 0..Len(list)] ==
            IF k = 0 THEN << >> ELSE IF list[k] = n THEN kept[k - 1] ELSE Append(kept[k - 1], list[k])
    IN  kept[Len(list)]

\* Mutant: the buyer's list is read before the seller's is stored.
Handed_Stale(lists, seller, buyer, n) ==
    [lists EXCEPT ![seller] = Without(@, n), ![buyer] = Append(lists[buyer], n)]

\* The lists of policies after n went from the seller to the buyer, who may be one.
Handed(lists, seller, buyer, n) ==
    LET without == [lists EXCEPT ![seller] = Without(@, n)]
    IN  [without EXCEPT ![buyer] = Append(@, n)]

\* The price stays with the contract. Claims that wait stay the seller's.
PurchaseToken(caller, n, paid) ==
    /\ n \in DOMAIN tokens
    /\ \E price \in tokens[n].price : paid >= price
    /\ policies[n].status = "Active"
    /\ policies' = [policies EXCEPT ![n].holder = caller]
    /\ portfolio' = Handed(portfolio, tokens[n].owner, caller, n)
    /\ tokens' = [tokens EXCEPT ![n] = [owner |-> caller, price |-> {}]]
    /\ tokenListings' = tokenListings \ {n}
    /\ UNCHANGED <<block, officeVars, riskPools, capital, underwritingVars, claimVars, triggers,
                   treatyVars, parametric>>

----
\* Parametric policies

CreateParametricPolicy(caller, house, metric, threshold, atLeast, coverage, p, span, paid) ==
    /\ Len(parametric) < MaxPolicies
    /\ paid > 0
    /\ Insurable(p, coverage)
    /\ Underwritten(p, paid)
    /\ parametric' = Append(parametric,
           [house |-> house, holder |-> caller, metric |-> metric, atLeast |-> atLeast,
            threshold |-> threshold, coverage |-> coverage, pool |-> p, end |-> now + span,
            status |-> "Active"])
    /\ UNCHANGED <<block, officeVars, capital, underwritingVars, policyVars, claimVars, triggers,
                   treatyVars>>

CancelParametricPolicy(caller, n) ==
    /\ n \in DOMAIN parametric
    /\ caller \in {parametric[n].holder, insuranceAdmin}
    /\ parametric[n].status = "Active"
    /\ parametric' = [parametric EXCEPT ![n].status = "Cancelled"]
    /\ riskPools' = [riskPools EXCEPT ![parametric[n].pool].policies = Above(@, 1)]
    /\ UNCHANGED <<block, officeVars, capital, underwritingVars, policyVars, claimVars, triggers,
                   treatyVars>>

\* One policy after the other, out of what the ones before it left; a pool that has
\* not enough is passed over. Neither the circuit breaker nor reinsurance is asked.
ParametricPayout(books, n) ==
    LET d == books.parametric[n]
    IN  IF books.pools[d.pool].available < d.coverage THEN books
        ELSE [parametric |-> [books.parametric EXCEPT ![n].status = "Triggered"],
              pools |-> [books.pools EXCEPT ![d.pool].available = @ - d.coverage,
                                            ![d.pool].paid = @ + d.coverage,
                                            ![d.pool].policies = Above(@, 1)]]

\* The parametric policies a reading triggers, and the books after each of them was paid in turn.
Due(house, metric, reading) ==
    {n \in DOMAIN parametric :
        /\ parametric[n].status = "Active" /\ now <= parametric[n].end
        /\ parametric[n].house = house /\ parametric[n].metric = metric
        /\ Meets(reading, parametric[n].atLeast, parametric[n].threshold)}

AfterPayouts(due) ==
    LET books[n \in 0..Len(parametric)] ==
            IF n = 0 THEN [parametric |-> parametric, pools |-> riskPools]
            ELSE IF n \in due THEN ParametricPayout(books[n - 1], n) ELSE books[n - 1]
    IN  books[Len(parametric)]

SubmitOracleData(caller, house, metric, reading) ==
    /\ caller \in dataOracles \cup {insuranceAdmin}
    /\ LET books == AfterPayouts(Due(house, metric, reading))
       IN  parametric' = books.parametric /\ riskPools' = books.pools
    /\ UNCHANGED <<block, officeVars, capital, underwritingVars, policyVars, claimVars, triggers,
                   treatyVars>>

----
\* Roles and settings

SettingsChange(newSettings) ==
    /\ settings' = newSettings
    /\ UNCHANGED <<block, insuranceAdmin, insuranceRotation, dataOracles, assessors, riskPools, capital,
                   underwritingVars, policyVars, claimVars, triggers, treatyVars, parametric>>

AuthorizeOracle(caller, oracle) ==
    /\ caller = insuranceAdmin
    /\ dataOracles' = dataOracles \cup {oracle}
    /\ UNCHANGED <<block, insuranceAdmin, insuranceRotation, assessors, settings, riskPools, capital,
                   underwritingVars, policyVars, claimVars, triggers, treatyVars, parametric>>

AuthorizeAssessor(caller, assessor) ==
    /\ caller = insuranceAdmin
    /\ assessors' = assessors \cup {assessor}
    /\ UNCHANGED <<block, insuranceAdmin, insuranceRotation, dataOracles, settings, riskPools, capital,
                   underwritingVars, policyVars, claimVars, triggers, treatyVars, parametric>>

SetPlatformFeeRate(caller, fee) ==
    /\ caller = insuranceAdmin
    /\ fee <= MaxFee
    /\ SettingsChange([settings EXCEPT !.fee = fee])

SetClaimCooldown(caller, span) ==
    /\ caller = insuranceAdmin
    /\ SettingsChange([settings EXCEPT !.cooldown = span])

\* Windows that are open go on, under the new limits.
SetCircuitBreakerParams(caller, limits, span) ==
    /\ caller = insuranceAdmin
    /\ span > 0
    /\ SettingsChange([settings EXCEPT !.single = limits[1], !.daily = limits[2], !.window = span])

----
\* The next-state relation

PolicyNext ==
    \E a \in Insured :
        \/ \E type \in CoverageTypes, exposure \in ExposureArgs : CreateRiskPool(a, type, exposure)
        \/ \E p \in riskPoolIds, amount \in MoneyArgs : ProvidePoolLiquidity(a, p, amount)
        \/ \E house \in Houses, scores \in ScoreArgs, span \in SpanArgs :
              UpdateRiskAssessment(a, house, scores, span)
        \/ \E type \in CoverageTypes, rate \in {TypeRate[t] : t \in CoverageTypes} :
              UpdateActuarialModel(a, type, rate)
        \/ \E house \in Houses, type \in CoverageTypes, p \in riskPoolIds, span \in SpanArgs :
              \E coverage, paid \in MoneyArgs : CreatePolicy(a, house, type, coverage, p, span, paid)
        \/ \E n \in DOMAIN policies : CancelPolicy(a, n)

ClaimNext ==
    \E a \in Insured :
        \/ \E n \in DOMAIN policies, amount \in MoneyArgs : SubmitClaim(a, n, amount)
        \/ \E c \in DOMAIN claims, approved \in BOOLEAN : ProcessClaim(a, c, approved)

TriggerNext ==
    \E a \in Insured :
        \/ \E n \in DOMAIN policies, atLeast \in BOOLEAN, threshold \in Thresholds, mode \in PayoutArgs :
              RegisterClaimTrigger(a, n, atLeast, threshold, mode)
        \/ \E t \in DOMAIN triggers :
              \/ DeactivateClaimTrigger(a, t)
              \/ \E reading \in Readings : ReportOracleEvent(a, t, reading)

TreatyNext ==
    \E a \in Insured :
        \/ \E terms \in TreatyArgs, span \in SpanArgs : RegisterReinsurance(a, terms, span)
        \/ \E t \in DOMAIN treaties :
              \/ DeactivateReinsurance(a, t)
              \/ \E premium \in MoneyArgs : CedePremium(a, t, premium)
              \/ \E c \in DOMAIN claims, loss \in MoneyArgs : RecordLossRecovery(a, t, c, loss)

TokenNext ==
    \E a \in Insured, n \in DOMAIN tokens, price \in MoneyArgs :
        ListTokenForSale(a, n, price) \/ PurchaseToken(a, n, price)

ParametricNext ==
    \E a \in Insured :
        \/ \E house \in Houses, metric \in Metrics, p \in riskPoolIds, span \in SpanArgs :
              \E threshold \in Thresholds, atLeast \in BOOLEAN, coverage \in MoneyArgs, paid \in MoneyArgs :
                  CreateParametricPolicy(a, house, metric, threshold, atLeast, coverage, p, span, paid)
        \/ \E n \in DOMAIN parametric : CancelParametricPolicy(a, n)
        \/ \E house \in Houses, metric \in Metrics, reading \in Readings :
              SubmitOracleData(a, house, metric, reading)

OfficeNext ==
    \/ /\ OfficeKey!RotationNext
       /\ UNCHANGED <<dataOracles, assessors, settings, riskPools, capital, underwritingVars, policyVars,
                      claimVars, triggers, treatyVars, parametric>>
    \/ \E a, other \in Insured : AuthorizeOracle(a, other) \/ AuthorizeAssessor(a, other)
    \/ \E a \in Insured, span \in SpanArgs :
          SetClaimCooldown(a, span) \/ \E limits \in BreakerArgs : SetCircuitBreakerParams(a, limits, span)
    \/ \E a \in Insured, fee \in MoneyArgs : SetPlatformFeeRate(a, fee)

InsuranceNext ==
    \/ PolicyNext \/ ClaimNext \/ TriggerNext \/ TreatyNext \/ TokenNext \/ ParametricNext \/ OfficeNext
    \/ NextBlock /\ UNCHANGED insuranceState

InsuranceSpec ==
    ChainInit /\ InsuranceInit /\ [][InsuranceNext]_<<block, insuranceState>>
====

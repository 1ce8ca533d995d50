---- MODULE MCFinance ----
(***************************************************************************)
(* Model checking of Lending, Crowdfunding, Fractional and Insurance,      *)
(* aspect by aspect (focus): every step is a step of LendingNext,          *)
(* CrowdfundingNext, FractionalNext or InsuranceNext, and leaves the other *)
(* contracts alone. Ledgers follow what a loan's parties agreed to, what   *)
(* interest its rate adds up to, block by block, which loans were applied  *)
(* for, and what investors were told they get back.                        *)
(***************************************************************************)
EXTENDS Lending, Crowdfunding, Fractional, Insurance

CONSTANTS A, B, C

VARIABLES
    focus,
    consents,   \* who agreed to which terms since they were proposed
    owed,       \* by loan: interest before division, and the divisions made
    applied,    \* the loans that come from applications
    paidOut     \* by campaign and investor

loanLedgers == <<consents, owed, applied>>
ledgers == <<loanLedgers, paidOut>>
lendingState == <<adminVars, loanVars, serviceVars, marketVars, poolVars>>
crowdfundingState == <<fundingVars, milestoneVars, ballotVars, shareVars>>
fractionalState == <<fractionalAdminVars, lastPrice, shares, totalShares, shareOffers, pool, lpShares,
                     auctions>>
mcVars == <<block, lendingState, crowdfundingState, fractionalState, insuranceState, focus, ledgers>>

MCAccounts == {A, B, C}
MCRiskArgs == {<<59, 75, 14>>, <<60, 75, 14>>, <<80, 50, 29>>}
MCRatioArgs == {<<7000, 9000>>}
MCScheduleArgs ==
    {[type |-> "Bullet", payment |-> 0, interval |-> 2], [type |-> "Annuity", payment |-> 0, interval |-> 0],
     [type |-> "Linear", payment |-> 0, interval |-> 1], [type |-> "Custom", payment |-> 0, interval |-> 1],
     [type |-> "Custom", payment |-> 5, interval |-> 3]}

MCScoreArgs == {<<10, 20, 15, 20>>, <<75, 80, 85, 90>>}
MCExposureArgs == {<<10000, 10>>, <<5000, 0>>}
MCBreakerArgs == {<<0, 20>>, <<15, 0>>}
MCTypeRate == [type \in {"Fire", "Flood"} |-> IF type = "Fire" THEN 12 ELSE 20]
MCTypeMultiplier == [type \in {"Fire", "Flood"} |-> IF type = "Fire" THEN 10 ELSE 15]
MCTreatyArgs ==
    {[type |-> "ExcessOfLoss", limit |-> 5, retention |-> 10, rate |-> 1000],
     [type |-> "QuotaShare", limit |-> 0, retention |-> 0, rate |-> 5000],
     [type |-> "Surplus", limit |-> 20, retention |-> 15, rate |-> 0]}
MCPayoutArgs ==
    {[mode |-> "Fixed", value |-> 10], [mode |-> "Percent", value |-> 5000], [mode |-> "Full", value |-> 0]}

NoDebt == [sum |-> 0, rounded |-> 0]

MCInit ==
    /\ ChainInit
    /\ LendingInit
    /\ CrowdfundingInit
    /\ FractionalInit
    /\ InsuranceInit
    /\ focus \in {"restructure", "credit", "collateral", "market", "servicing", "pools", "votes", "rotation", "funding", "milestones", "ballots", "campaignShares", "shares", "amm", "auctions", "holderRotation", "underwriting", "claims", "triggers", "treaties", "tokens", "parametric", "breaker", "offices"}
    /\ consents = {}
    /\ paidOut = [c \in campaignIds |-> [a \in Investors |-> 0]]
    /\ owed = [id \in 1..MaxLoans |-> NoDebt]
    /\ applied = 0

Consent(caller, id, term, rate) ==
    {[loan |-> id, role |-> role, term |-> term, rate |-> rate] :
        role \in (IF caller = loans[id].applicant THEN {"borrower"} ELSE {})
                 \cup (IF caller = lendingAdmin THEN {"lender"} ELSE {})}

ProposeByConsent(caller, id, term, rate) ==
    /\ ProposeLoanRestructuring(caller, id, term, rate)
    /\ consents' = {c \in consents : c.loan # id} \cup Consent(caller, id, term, rate)
    /\ UNCHANGED <<owed, applied>>

ApproveByConsent(caller, id) ==
    /\ ApproveLoanRestructuring(caller, id)
    /\ consents' = consents \cup Consent(caller, id, restructurings[id].term, restructurings[id].rate)
    /\ owed' = IF id \in DOMAIN restructurings' \/ loans[id].last = block THEN owed
               ELSE [owed EXCEPT ![id].rounded = @ + 1]
    /\ UNCHANGED applied

ConsentStep ==
    \/ \E caller \in Accounts, id \in ids, term \in TermArgs \ {1}, rate \in RateArgs \ {0} :
          ProposeByConsent(caller, id, term, rate)
    \/ \E caller \in Accounts, id \in DOMAIN restructurings : ApproveByConsent(caller, id)

\* Interest is owed from the underwriting on, at the rate of each block.
UnderwriteAndCharge(caller, id) ==
    /\ UnderwriteLoan(caller, id)
    /\ owed' = IF profiles' = profiles THEN owed ELSE [owed EXCEPT ![id] = NoDebt]
    /\ UNCHANGED <<consents, applied>>

BlockCharged ==
    /\ LendingTimeNext
    /\ owed' = [id \in 1..MaxLoans |->
           IF id \in DOMAIN loans
           THEN [owed[id] EXCEPT !.sum = @ + loans[id].amount * loans[id].rate] ELSE owed[id]]
    /\ UNCHANGED <<consents, applied>>

InterestStep ==
    \/ \E caller \in Accounts, id \in DOMAIN loans : UnderwriteAndCharge(caller, id)
    \/ BlockCharged

\* One loan, restructured and underwritten again and again.
RestructureStep ==
    \/ loans = << >> /\ \E a \in {A, B} : ApplyForLoan(a, 0, 10, 15, 1, 1, FALSE)
    \/ \E id \in DOMAIN loans :
          profiles[loans[id].applicant].repaid = 0 /\ RecordRepayment(A, loans[id].applicant)
    \/ loans # << >> /\ LendingRotationNext /\ \A r \in lendingRotation' : r.new = B

\* The credit of one borrower, with other loans.
CreditStep ==
    \/ \E amount \in ValueArgs : ApplyForLoan(B, 0, amount, 15, 1, 1, TRUE)
    \/ CreditNext /\ profiles'[A] = profiles[A] /\ profiles'[C] = profiles[C]

\* A property-backed loan, pledges made early and late, liquidation.
CollateralStep ==
    \/ CollateralNext /\ pledged'[2] = {}
    \/ /\ loans = << >>
       /\ \/ ApplyForLoan(B, 1, 10, 15, 1, 1, FALSE)
          \/ \E amount \in ValueArgs : ApplyForPropertyBackedLoan(B, 1, amount, 1, 1)
    \/ profiles[B].repaid = 0 /\ RecordRepayment(A, B)
    \/ LiquidateNext

\* The first listing is B's: B and C differ in nothing before it.
MarketStep ==
    \/ \E a \in {B, C} : (a = B \/ listings # << >>) /\ CreateLoanListing(a, 0, 10, 1, 1)
    \/ OfferNext
    \/ \E l \in DOMAIN listings : CancelLoanListing(B, l)
    \/ AcceptNext

ServicingStep ==
    \/ Len(loans) < 1 /\ ApplyForLoan(B, 0, 10, 15, 1, 1, FALSE)
    \/ ServicingNext

QuietStep ==
    \/ focus = "restructure" /\ RestructureStep
    \/ focus = "credit" /\ CreditStep
    \/ focus = "collateral" /\ CollateralStep
    \/ focus = "market" /\ MarketStep
    \/ focus = "servicing" /\ ServicingStep
    \/ focus = "pools" /\ LendingPoolNext
    \/ focus = "votes" /\ LendingVoteNext
    \/ focus = "rotation" /\ LendingRotationNext

\* One campaign of B's, with all its investors, or with accredited ones only.
CampaignStep(target) == campaigns = << >> /\ CreateCampaign(B, target)

AccreditedStep ==
    \/ \E a \in {B, C} : accreditation[a] = "Unknown" /\ OnboardInvestor(a, TRUE)
    \/ \E a \in {B, C}, amount \in PaymentArgs \ {0} : Invest(a, 1, amount)
    \/ campaigns # << >> /\ campaigns[1].status = "Draft" /\ ActivateCampaign(B, 1)

FundingStep ==
    \/ \E target \in PaymentArgs : CampaignStep(target)
    \/ FundingNext /\ Len(campaigns') <= 1 /\ accreditation'[A] = "Unknown"

RefundStep ==
    \E a \in Investors, c \in campaignIds :
        /\ ClaimRefund(a, c)
        /\ paidOut' = [paidOut EXCEPT ![c][a] = @ + investments[c][a]]

CrowdfundingStep ==
    \/ focus = "funding" /\ FundingStep
    \/ focus = "milestones" /\ (CampaignStep(10) \/ MilestoneNext)
    \/ focus = "ballots" /\ (CampaignStep(10) \/ BallotNext)
    \/ focus = "campaignShares" /\ (CampaignStep(15) \/ AccreditedStep \/ CampaignSharesNext)

\* Sales of shares no longer held make more of them: a bound.
HeldAtMost(most) == \A t \in Tokens : MapThenSumSet(LAMBDA a : shares'[t][a], Holders) <= most

FractionalStep ==
    \/ focus = "shares" /\ ShareNext /\ HeldAtMost(4)
          /\ \A k \in DOMAIN shareOffers' : shareOffers'[k].price = 1 /\ k[1] # C
    \/ focus = "amm" /\ (\E a \in {B, C}, t \in Tokens : MintShares(a, t, 4))
    \/ focus = "amm" /\ PoolNext
    \/ focus = "auctions" /\ (\E t \in Tokens : MintShares(B, t, 2) \/ RedeemShares(B, t, 1))
    \/ focus = "auctions" /\ AuctionNext /\ HeldAtMost(4)
          /\ \A n \in DOMAIN auctions' : LET d == auctions'[n] IN
                d.shares = 2 /\ <<d.start, d.end>> = (IF n = 1 THEN <<4, 1>> ELSE <<1, 2>>)
    \/ focus = "auctions" /\ NextBlock /\ UNCHANGED fractionalState
    \/ focus = "holderRotation" /\ FractionalRotationNext
    \/ focus = "holderRotation" /\ NextBlock /\ UNCHANGED fractionalState

\* One pool of C's capital, one house, and policies of B's.
FundedStep(most) ==
    \/ riskPools = << >> /\ CreateRiskPool(A, "Fire", <<10000, 10>>)
    \/ capital[1][C] < most /\ ProvidePoolLiquidity(C, 1, 20)

InsuredStep ==
    \/ FundedStep(40)
    \/ /\ assessments[1] = {} /\ riskPools # << >>
       /\ UpdateRiskAssessment(A, 1, <<10, 20, 15, 20>>, 2)
    \/ policies = << >> /\ CreatePolicy(B, 1, "Fire", 20, 1, 3, 10)

SecondPolicy == policies # << >> /\ CreatePolicy(B, 1, "Fire", 10, 1, 2, 10)
OneClaim == claims = << >> /\ \E a \in {B, C} : SubmitClaim(a, 1, 20)

\* Of two pools, premiums are quoted by the one of the type and paid to either.
UnderwritingStep ==
    \/ Len(riskPools) = 0 /\ CreateRiskPool(A, "Flood", <<5000, 0>>)
    \/ Len(riskPools) = 1 /\ CreateRiskPool(A, "Fire", <<10000, 10>>)
    \/ \E p \in riskPoolIds : capital[p][C] < 20 /\ ProvidePoolLiquidity(C, p, 20)
    \/ \E a \in {A, B}, scores \in ScoreArgs : UpdateRiskAssessment(a, 1, scores, 1)
    \/ \E rate \in {12, 20} : riskPools # << >> /\ UpdateActuarialModel(A, "Fire", rate)
    \/ \E type \in CoverageTypes, p \in riskPoolIds, coverage \in {10, 20}, paid \in {0, 10} :
          policies = << >> /\ CreatePolicy(B, 1, type, coverage, p, 2, paid)
    \/ \E a \in {A, C} : CancelPolicy(a, 1)

ClaimStep ==
    \/ InsuredStep \/ ClaimNext \/ SecondPolicy
    \/ \E n \in DOMAIN policies : CancelPolicy(B, n)

TreatyStep ==
    \/ InsuredStep /\ capital'[1][C] <= 20
    \/ OneClaim \/ ProcessClaim(A, 1, TRUE)
    \/ TreatyNext /\ \A t \in DOMAIN treaties' :
          /\ treaties'[t].end # now /\ Len(cessions') + treaties'[t].recoveries <= 2
          /\ t = 1 <=> treaties'[t].terms.type # "Surplus"
          /\ treaties' # treaties => claims # << >>

TokenStep ==
    \/ TokenNext /\ \A n \in DOMAIN tokens' : tokens'[n].price \subseteq {10}
    \/ InsuredStep \/ SecondPolicy \/ OneClaim \/ ProcessClaim(A, 1, TRUE)
    \/ \E a \in {B, C} : CancelPolicy(a, 1)

ParametricStep ==
    \/ FundedStep(20)
    \/ \E metric \in Metrics, atLeast \in BOOLEAN, coverage \in {10, 20} :
          CreateParametricPolicy(B, 1, metric, 4, atLeast, coverage, 1, 2, 10)
    \/ \E a \in {A, B, C}, n \in DOMAIN parametric : CancelParametricPolicy(a, n)
    \/ \E a \in {A, B}, house \in Houses, metric \in Metrics, reading \in Readings :
          SubmitOracleData(a, house, metric, reading)

BreakerStep ==
    \/ InsuredStep \/ SetClaimCooldown(A, 0)
    \/ \E limits \in BreakerArgs : SetCircuitBreakerParams(A, limits, 2)
    \/ \E amount \in {10, 20} : SubmitClaim(B, 1, amount)
    \/ \E c \in DOMAIN claims : ProcessClaim(A, c, TRUE)

InsuranceStep ==
    \/ focus = "underwriting" /\ UnderwritingStep
    \/ focus = "claims" /\ ClaimStep
    \/ focus = "triggers" /\ (InsuredStep \/ TriggerNext)
    \/ focus = "treaties" /\ TreatyStep
    \/ focus = "tokens" /\ TokenStep
    \/ focus = "parametric" /\ ParametricStep
    \/ focus = "breaker" /\ BreakerStep
    \/ focus = "offices" /\ OfficeNext /\ dataOracles' \cup assessors' \subseteq {B} /\ settings'.single = 0
    \/ /\ focus \in {"underwriting", "claims", "triggers", "treaties", "tokens", "parametric", "breaker", "offices"}
       /\ NextBlock /\ UNCHANGED insuranceState

MCNext ==
    /\ UNCHANGED focus
    /\ \/ /\ UNCHANGED <<crowdfundingState, fractionalState, insuranceState, paidOut>>
          /\ \/ /\ QuietStep
                /\ UNCHANGED <<consents, owed>>
                /\ applied' = applied + (IF listings' = listings THEN Len(loans') - Len(loans) ELSE 0)
             \/ focus \in {"restructure", "credit", "collateral", "market", "servicing", "rotation"} /\ InterestStep
             \/ focus = "restructure" /\ ConsentStep
       \/ /\ UNCHANGED <<lendingState, fractionalState, insuranceState, loanLedgers>>
          /\ \/ CrowdfundingStep /\ UNCHANGED paidOut
             \/ focus = "funding" /\ RefundStep
       \/ FractionalStep /\ UNCHANGED <<lendingState, crowdfundingState, insuranceState, ledgers>>
       \/ InsuranceStep /\ UNCHANGED <<lendingState, crowdfundingState, fractionalState, ledgers>>

MCSpec == MCInit /\ [][MCNext]_mcVars

----
\* Every message with its entry in the ledgers, without foci and bounds.

LendingLedgerNext ==
    \/ \E caller \in Accounts, id \in ids, term \in TermArgs, rate \in RateArgs :
          ProposeByConsent(caller, id, term, rate)
    \/ \E caller \in Accounts, id \in ids : ApproveByConsent(caller, id)
    \/ \E caller \in Accounts, id \in ids : UnderwriteAndCharge(caller, id)
    \/ BlockCharged
    \/ ApplyNext /\ applied' = applied + 1 /\ UNCHANGED <<consents, owed>>
    \/ /\ \/ CollateralNext \/ CreditNext \/ ServicingNext \/ LiquidateNext
          \/ ListingNext \/ OfferNext \/ AcceptNext
          \/ LendingPoolNext \/ LendingVoteNext \/ LendingRotationNext
       /\ UNCHANGED loanLedgers

LendingLedgerSpec ==
    /\ ChainInit /\ LendingInit
    /\ consents = {} /\ owed = [id \in 1..MaxLoans |-> NoDebt] /\ applied = 0
    /\ [][LendingLedgerNext]_<<lendingVars, loanLedgers>>

CampaignLedgerNext ==
    \/ RefundStep
    \/ (FundingNext \/ MilestoneNext \/ BallotNext \/ CampaignSharesNext) /\ UNCHANGED paidOut

ShareLedgerNext ==
    \/ CampaignLedgerNext /\ UNCHANGED fractionalState
    \/ FractionalNext /\ UNCHANGED <<crowdfundingState, paidOut>>

ShareLedgerSpec ==
    /\ ChainInit /\ CrowdfundingInit /\ FractionalInit
    /\ paidOut = [c \in campaignIds |-> [a \in Investors |-> 0]]
    /\ [][ShareLedgerNext]_<<block, crowdfundingState, fractionalState, paidOut>>

----
\* Properties

\* A loan in force gets other terms only if its borrower and a lender have both
\* agreed to those very terms since they were proposed, whatever underwriting,
\* second proposals and changes of the admin come in between
\* (propose_loan_restructuring, approve_loan_restructuring).
TermsByConsent ==
    [][\A id \in DOMAIN loans :
          \/ loans'[id].term = loans[id].term /\ loans'[id].rate = loans[id].rate
          \/ {[loan |-> id, role |-> role, term |-> loans'[id].term, rate |-> loans'[id].rate] :
                 role \in {"borrower", "lender"}} \subseteq consents']_<<loans, consents>>

\* Interest is charged for each block once and at the rate the loan had then: what
\* was accrued and what runs since the last snapshot is what the rates add up to,
\* less than one unit of rounding for each snapshot kept (update_interest_snapshot
\* and the messages that write a loan back after it).
InterestChargedOnce ==
    \A id \in DOMAIN loans :
        LET l == loans[id]
            charged == l.accrued * InterestScale + l.amount * l.rate * (block - l.last)
        IN  l.last # 0 => /\ charged <= owed[id].sum
                          /\ owed[id].sum <= charged + owed[id].rounded * (InterestScale - 1)

\* A listing makes one loan at most: it is Originated exactly if it names the one
\* offer of it that is accepted, within the borrower's maximal rate, and the loans
\* are those applied for and as many more as there are originated listings
\* (accept_loan_offer).
ListingsOriginateOnce ==
    /\ \A l \in DOMAIN listings :
          /\ listings[l].accepted = {o \in DOMAIN offers : offers[o].listing = l /\ offers[o].accepted}
          /\ listings[l].status = "Originated" <=> Cardinality(listings[l].accepted) = 1
          /\ \A o \in listings[l].accepted : offers[o].rate <= listings[l].maxRate
    /\ Len(loans) = applied + Cardinality({l \in DOMAIN listings : listings[l].status = "Originated"})

\* A loan is made once and charged once: no listing is originated twice, no block's
\* interest is accrued twice. The state of lending has its types: loans name
\* servicers and schedules there are, no pool lends more than it holds, and the
\* total of the yield is that of the stakes.
LoansAreOriginatedAndChargedOnce == LendingTypeOK /\ InterestChargedOnce /\ ListingsOriginateOnce

\* The records of a campaign agree: what it raised is the sum of its investments,
\* Funded campaigns have their target, every investor is counted, the released
\* capital covers the released milestones, and nobody is told to get back more than
\* they invested, whatever activations and failures come in between (invest,
\* activate_campaign, fail_campaign, claim_refund, release_milestone).
CampaignBooksAgree ==
    \A c \in DOMAIN campaigns :
        LET released == {m \in DOMAIN milestones :
                            milestones[m].campaign = c /\ milestones[m].status = "Released"}
        IN  /\ campaigns[c].raised = SumFunctionOnSet(investments[c], Investors)
            /\ campaigns[c].status = "Funded" => campaigns[c].raised >= campaigns[c].target
            /\ campaigns[c].investors >= Cardinality({a \in Investors : investments[c][a] > 0})
            /\ releases[c].count >= Cardinality(released)
            /\ releases[c].capital >= SumFunctionOnSet([m \in released |-> milestones[m].amount], released)
            /\ \A a \in Investors : paidOut[c][a] <= investments[c][a]

\* What one share of liquidity is worth, by the product of the reserves, never
\* falls, neither by what others add or remove nor by swaps, all of which round;
\* the first one is the integer root of what it puts in (add_liquidity,
\* remove_liquidity, swap_shares_for_value, isqrt).
LiquidityNotDiluted ==
    [][\A t \in Tokens : \A q \in pool'[t] :
          /\ \A p \in pool[t] :
                0 \in {p.lp, q.lp} \/ q.shares * q.value * p.lp * p.lp >= p.shares * p.value * q.lp * q.lp
          /\ pool[t] = {} =>
                q.shares * q.value \in (q.lp * q.lp)..((q.lp + 1) * (q.lp + 1) - 1)]_pool

\* No share of the total is lost: accounts and pool hold at least as many as are
\* counted, whoever sold what they no longer had, and the pool's liquidity is all
\* held by accounts (buy_shares, bid_dutch_auction, add_liquidity, remove_liquidity).
SharesAccountedFor ==
    \A t \in Tokens :
        /\ totalShares[t] <= SumFunctionOnSet(shares[t], Holders)
                                + SumFunctionOnSet([p \in pool[t] |-> p.shares], pool[t])
        /\ SumFunctionOnSet([p \in pool[t] |-> p.lp], pool[t]) = SumFunctionOnSet(lpShares[t], Holders)
        /\ \A n \in DOMAIN auctions :
              auctions[n].status = "Bid" => auctions[n].paid >= auctions[n].shares * LessOf(auctions[n].start, auctions[n].end)

\* The books of campaigns and of fractional properties agree, and have their types.
ShareBooksAgree == CrowdfundingTypeOK /\ FractionalTypeOK /\ CampaignBooksAgree /\ SharesAccountedFor

\* What was paid on the claims of some policies, and what the records of a treaty sum to.
PaidClaims(numbers) == {c \in DOMAIN claims : claims[c].status = "Paid" /\ claims[c].policy \in numbers}
Payouts(numbers) ==
    SumFunctionOnSet([c \in PaidClaims(numbers) |-> claims[c].payout], PaidClaims(numbers))

Amounts(records, t) ==
    LET its == {i \in DOMAIN records : records[i].treaty = t}
    IN  SumFunctionOnSet([i \in its |-> records[i].amount], its)

\* The books of the insurance agree, in whatever order policies are cancelled, sold
\* and claimed on: a pool has what it took in less what it paid; it paid exactly the
\* Paid claims and the triggered parametric policies, each once; a policy was charged
\* all its Paid claims; policies that can still be paid are counted; treaties sum up
\* their records; a trigger has one claim of its own, within the coverage
\* (execute_payout, execute_parametric_payout, cancel_policy, try_reinsurance_recovery).
InsuranceBooksAgree ==
    /\ \A p \in DOMAIN riskPools :
          LET its == {n \in DOMAIN policies : policies[n].pool = p}
              ofPool(status) == {n \in DOMAIN parametric : parametric[n].pool = p /\ parametric[n].status = status}
              live(statuses) == Cardinality({n \in its : policies[n].status \in statuses})
                                    + Cardinality(ofPool("Active"))
          IN  /\ riskPools[p].available + riskPools[p].paid = riskPools[p].capital + riskPools[p].premiums
              /\ riskPools[p].capital = SumFunctionOnSet(capital[p], Insured)
              /\ riskPools[p].paid =
                     Payouts(its)
                         + SumFunctionOnSet([n \in ofPool("Triggered") |-> parametric[n].coverage], ofPool("Triggered"))
              /\ live({"Active"}) <= riskPools[p].policies
              /\ riskPools[p].policies <= live({"Active", "Claimed"})
    /\ \A n \in DOMAIN policies :
          /\ policies[n].claimed = Payouts({n})
          /\ policies[n].status = "Claimed" => policies[n].claimed >= policies[n].coverage
    /\ \A t \in DOMAIN treaties :
          treaties[t].recovered = Amounts(recoveries, t) /\ treaties[t].ceded = Amounts(cessions, t)
    /\ \A t \in DOMAIN triggers : triggers[t].claim # 0 =>
          LET c == claims[triggers[t].claim]
          IN  /\ c.policy = triggers[t].policy /\ c.status \in {"Approved", "Paid"}
              /\ c.amount <= policies[c.policy].coverage
              /\ \A u \in DOMAIN triggers \ {t} : triggers[u].claim # triggers[t].claim

\* A policy is held once, by the owner of its token: it is on that account's list
\* once and on no other, also after a holder bought from themselves, and the tokens
\* listed are those with a price (create_policy, list_token_for_sale, purchase_token).
PoliciesHeldOnce ==
    /\ \A n \in DOMAIN policies :
          /\ tokens[n].owner = policies[n].holder
          /\ \A a \in Insured :
                Cardinality({i \in DOMAIN portfolio[a] : portfolio[a][i] = n}) = (IF a = policies[n].holder THEN 1 ELSE 0)
    /\ tokenListings = {n \in DOMAIN tokens : tokens[n].price # {}}

\* The books of the insurance agree, and have their types, and every policy has one
\* holder.
PolicyBooksAgree == InsuranceTypeOK /\ InsuranceBooksAgree /\ PoliciesHeldOnce
====

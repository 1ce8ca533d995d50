---- MODULE Crowdfunding ----
(***************************************************************************)
(* Campaigns that raise money for a property: investments and refunds,     *)
(* milestones released after an approval and an oracle's word, votes, and  *)
(* a market of shares (contracts/crowdfunding/src/lib.rs).                 *)
(*                                                                         *)
(* Left out are KYC, which is Approved for whoever has a profile, the      *)
(* blocked jurisdictions and the voting weights, which no message writes   *)
(* (so that each vote weighs 1), titles, prices of shares, which only name *)
(* what a buyer is told to pay, and two records of getters: the list of    *)
(* a campaign's investors, which is as long as its investor count, and the *)
(* number of its milestones.                                               *)
(***************************************************************************)
EXTENDS BlockClock, SequencesExt, FiniteSetsExt

CONSTANTS
    Investors,          \* accounts
    CampaignAdmin,
    PaymentArgs,        \* amounts and targets an argument may name
    RiskArgs,           \* triples of loan-to-value, developer score, volatility
    ShareUnit,          \* the amount that buys one share, 1000 in the code
    MaxCampaigns,       \* bound: campaigns of a behaviour
    MaxMilestones,      \* bound: milestones, ballots and share listings of a behaviour
    MaxRaised,          \* bound: the investments of a campaign
    MaxInvestors        \* bound: the investors a campaign counts, and its releases

ASSUME CrowdfundingConstants ==
    /\ IsFiniteSet(Investors) /\ CampaignAdmin \in Investors
    /\ PaymentArgs \subseteq Nat
    /\ RiskArgs \subseteq Nat \X Nat \X Nat
    /\ ShareUnit \in Nat \ {0}
    /\ {MaxCampaigns, MaxMilestones, MaxRaised, MaxInvestors} \subseteq Nat

VARIABLES
    campaigns,
    accreditation,      \* investor_profiles, by what is known of the account
    investments,        \* by campaign and investor
    refunded,           \* refunds_issued
    milestones,
    releases,           \* released_milestone_counts and released_capital
    oracles,            \* authorized_oracles
    ballots, ballotVotes,   \* proposals, votes_cast
    holdings,           \* share_holdings
    shareListings,      \* listings, the removed ones not open
    risk                \* risk_profiles, by rating

fundingVars == <<campaigns, accreditation, investments, refunded>>
milestoneVars == <<milestones, releases, oracles>>
ballotVars == <<ballots, ballotVotes, risk>>
shareVars == <<holdings, shareListings>>
crowdfundingVars == <<block, fundingVars, milestoneVars, ballotVars, shareVars>>

campaignIds == 1..MaxCampaigns

Campaign ==
    [creator : Investors, target : Nat, raised : Nat, investors : Nat,
     status : {"Draft", "Active", "Funded", "Closed", "Cancelled"}]

Milestone ==
    [campaign : campaignIds, amount : Nat, status : {"Pending", "Approved", "Released"},
     verified : BOOLEAN]

CrowdfundingTypeOK ==
    /\ campaigns \in Seq(Campaign)
    /\ accreditation \in [Investors -> {"Unknown", "Onboarded", "Accredited"}]
    /\ investments \in [campaignIds -> [Investors -> Nat]]
    /\ refunded \subseteq campaignIds \X Investors
    /\ milestones \in Seq(Milestone)
    /\ releases \in [campaignIds -> [count : Nat, capital : Nat]]
    /\ oracles \subseteq Investors
    /\ ballots \in Seq([campaign : campaignIds, for : Nat, against : Nat,
                        status : {"Active", "Passed", "Rejected"}])
    /\ ballotVotes \subseteq (DOMAIN ballots) \X Investors
    /\ holdings \in [campaignIds -> [Investors -> Nat]]
    /\ shareListings \in Seq([campaign : campaignIds, seller : Investors, shares : Nat, open : BOOLEAN])
    /\ risk \in [campaignIds -> {"Unrated", "Low", "Medium", "High"}]

CrowdfundingInit ==
    /\ campaigns = << >> /\ accreditation = [a \in Investors |-> "Unknown"]
    /\ investments = [c \in campaignIds |-> [a \in Investors |-> 0]] /\ refunded = {}
    /\ milestones = << >> /\ releases = [c \in campaignIds |-> [count |-> 0, capital |-> 0]]
    /\ oracles = {}
    /\ ballots = << >> /\ ballotVotes = {}
    /\ holdings = [c \in campaignIds |-> [a \in Investors |-> 0]] /\ shareListings = << >>
    /\ risk = [c \in campaignIds |-> "Unrated"]

Runs(caller, c) == caller \in {campaigns[c].creator, CampaignAdmin}

----
\* Campaigns, investors, investments and refunds

CreateCampaign(caller, target) ==
    /\ Len(campaigns) < MaxCampaigns
    /\ campaigns' = Append(campaigns, [creator |-> caller, target |-> target, raised |-> 0,
                                       investors |-> 0, status |-> "Draft"])
    /\ UNCHANGED <<block, accreditation, investments, refunded, milestoneVars, ballotVars, shareVars>>

\* Whatever the status is: a funded or a cancelled campaign becomes active again.
ActivateCampaign(caller, c) ==
    /\ c \in DOMAIN campaigns
    /\ Runs(caller, c)
    /\ campaigns' = [campaigns EXCEPT ![c].status = "Active"]
    /\ UNCHANGED <<block, accreditation, investments, refunded, milestoneVars, ballotVars, shareVars>>

\* Investors say themselves whether they are accredited, and may take it back.
OnboardInvestor(caller, accredited) ==
    /\ accreditation' = [accreditation EXCEPT ![caller] =
                             IF accredited THEN "Accredited" ELSE "Onboarded"]
    /\ UNCHANGED <<block, campaigns, investments, refunded, milestoneVars, ballotVars, shareVars>>

VerifyAccreditation(caller, investor) ==
    /\ caller = CampaignAdmin
    /\ accreditation[investor] # "Unknown"
    /\ accreditation' = [accreditation EXCEPT ![investor] = "Accredited"]
    /\ UNCHANGED <<block, campaigns, investments, refunded, milestoneVars, ballotVars, shareVars>>

\* An investment of nothing makes the caller one more investor each time.
Invest(caller, c, amount) ==
    /\ accreditation[caller] = "Accredited"
    /\ c \in DOMAIN campaigns
    /\ campaigns[c].status = "Active"
    /\ campaigns[c].raised + amount <= MaxRaised
    /\ campaigns[c].investors < MaxInvestors
    /\ LET raised == campaigns[c].raised + amount
       IN  campaigns' = [campaigns EXCEPT
               ![c].raised = raised,
               ![c].investors = @ + (IF investments[c][caller] = 0 THEN 1 ELSE 0),
               ![c].status = IF raised >= campaigns[c].target THEN "Funded" ELSE @]
    /\ investments' = [investments EXCEPT ![c][caller] = @ + amount]
    /\ holdings' = [holdings EXCEPT ![c][caller] = @ + amount \div ShareUnit]
    /\ UNCHANGED <<block, accreditation, refunded, milestoneVars, ballotVars, shareListings>>

FailCampaign(caller, c) ==
    /\ caller = CampaignAdmin
    /\ c \in DOMAIN campaigns
    /\ campaigns' = [campaigns EXCEPT ![c].status = "Cancelled"]
    /\ UNCHANGED <<block, accreditation, investments, refunded, milestoneVars, ballotVars, shareVars>>

\* The caller is told the amount of the investment, which stays on the books.
ClaimRefund(caller, c) ==
    /\ c \in DOMAIN campaigns
    /\ campaigns[c].status = "Cancelled"
    /\ <<c, caller>> \notin refunded
    /\ investments[c][caller] > 0
    /\ refunded' = refunded \cup {<<c, caller>>}
    /\ UNCHANGED <<block, campaigns, accreditation, investments, milestoneVars, ballotVars, shareVars>>

----
\* Milestones

AddMilestone(caller, c, amount) ==
    /\ Len(milestones) < MaxMilestones
    /\ c \in DOMAIN campaigns
    /\ Runs(caller, c)
    /\ milestones' = Append(milestones, [campaign |-> c, amount |-> amount, status |-> "Pending",
                                         verified |-> FALSE])
    /\ UNCHANGED <<block, fundingVars, releases, oracles, ballotVars, shareVars>>

\* Whatever the status is: a released milestone is approved, and released, again.
ApproveMilestone(caller, m) ==
    /\ caller = CampaignAdmin
    /\ m \in DOMAIN milestones
    /\ milestones' = [milestones EXCEPT ![m].status = "Approved"]
    /\ UNCHANGED <<block, fundingVars, releases, oracles, ballotVars, shareVars>>

\* Neither the caller, the campaign's status nor what it raised is looked at.
ReleaseMilestone(m) ==
    /\ m \in DOMAIN milestones
    /\ milestones[m].status = "Approved"
    /\ milestones[m].verified
    /\ LET c == milestones[m].campaign
       IN  /\ releases[c].count < MaxInvestors
           /\ releases' = [releases EXCEPT ![c].count = @ + 1, ![c].capital = @ + milestones[m].amount]
    /\ milestones' = [milestones EXCEPT ![m].status = "Released"]
    /\ UNCHANGED <<block, fundingVars, oracles, ballotVars, shareVars>>

OracleVerifyMilestone(caller, m) ==
    /\ caller \in oracles \cup {CampaignAdmin}
    /\ m \in DOMAIN milestones
    /\ milestones' = [milestones EXCEPT ![m].verified = TRUE]
    /\ UNCHANGED <<block, fundingVars, releases, oracles, ballotVars, shareVars>>

AddOracle(caller, oracle) ==
    /\ caller = CampaignAdmin
    /\ oracles' = oracles \cup {oracle}
    /\ UNCHANGED <<block, fundingVars, milestones, releases, ballotVars, shareVars>>

----
\* Votes, shares and risk

CreateBallot(c) ==
    /\ Len(ballots) < MaxMilestones
    /\ c \in DOMAIN campaigns
    /\ ballots' = Append(ballots, [campaign |-> c, for |-> 0, against |-> 0, status |-> "Active"])
    /\ UNCHANGED <<block, fundingVars, milestoneVars, ballotVotes, risk, shareVars>>

VoteOnBallot(caller, b, inFavour) ==
    /\ b \in DOMAIN ballots
    /\ <<b, caller>> \notin ballotVotes
    /\ ballots[b].status = "Active"
    /\ ballots' = [ballots EXCEPT ![b].for = @ + (IF inFavour THEN 1 ELSE 0),
                                  ![b].against = @ + (IF inFavour THEN 0 ELSE 1)]
    /\ ballotVotes' = ballotVotes \cup {<<b, caller>>}
    /\ UNCHANGED <<block, fundingVars, milestoneVars, risk, shareVars>>

\* Anybody, at any time.
FinalizeBallot(b) ==
    /\ b \in DOMAIN ballots
    /\ ballots' = [ballots EXCEPT ![b].status =
                       IF ballots[b].for > ballots[b].against THEN "Passed" ELSE "Rejected"]
    /\ UNCHANGED <<block, fundingVars, milestoneVars, ballotVotes, risk, shareVars>>

\* What is listed is not set aside: it can be listed again and sold elsewhere.
ListCampaignShares(caller, c, shares) ==
    /\ Len(shareListings) < MaxMilestones
    /\ c \in campaignIds
    /\ shares <= holdings[c][caller]
    /\ shareListings' = Append(shareListings, [campaign |-> c, seller |-> caller, shares |-> shares,
                                               open |-> TRUE])
    /\ UNCHANGED <<block, fundingVars, milestoneVars, ballotVars, holdings>>

\* The holdings after a sale: a seller who has less is left with nothing, and the
\* buyer gets all the same.
Sold(held, seller, buyer, shares) ==
    LET left == [held EXCEPT ![seller] = IF @ > shares THEN @ - shares ELSE 0]
    IN  [left EXCEPT ![buyer] = @ + shares]

BuyCampaignShares(caller, l) ==
    /\ l \in DOMAIN shareListings
    /\ shareListings[l].open
    /\ LET c == shareListings[l].campaign
       IN  holdings' = [holdings EXCEPT ![c] =
                            Sold(@, shareListings[l].seller, caller, shareListings[l].shares)]
    /\ shareListings' = [shareListings EXCEPT ![l].open = FALSE]
    /\ UNCHANGED <<block, fundingVars, milestoneVars, ballotVars>>

Rating(measures) ==
    LET within(ltv, score, volatility) ==
            measures[1] < ltv /\ measures[2] >= score /\ measures[3] < volatility
    IN  IF within(60, 75, 15) THEN "Low" ELSE IF within(80, 50, 30) THEN "Medium" ELSE "High"

\* The campaign need not exist.
AssessRisk(caller, c, measures) ==
    /\ caller = CampaignAdmin
    /\ risk' = [risk EXCEPT ![c] = Rating(measures)]
    /\ UNCHANGED <<block, fundingVars, milestoneVars, ballots, ballotVotes, shareVars>>

----
\* The next-state relation

FundingNext ==
    \E a \in Investors :
        \/ \E target \in PaymentArgs : CreateCampaign(a, target)
        \/ \E accredited \in BOOLEAN : OnboardInvestor(a, accredited)
        \/ \E investor \in Investors : VerifyAccreditation(a, investor)
        \/ \E c \in campaignIds :
              \/ ActivateCampaign(a, c)
              \/ FailCampaign(a, c)
              \/ \E amount \in PaymentArgs : Invest(a, c, amount)

RefundNext == \E a \in Investors, c \in campaignIds : ClaimRefund(a, c)

MilestoneNext ==
    \/ \E a \in Investors :
          \/ \E c \in campaignIds, amount \in PaymentArgs : AddMilestone(a, c, amount)
          \/ \E m \in DOMAIN milestones : ApproveMilestone(a, m) \/ OracleVerifyMilestone(a, m)
          \/ \E oracle \in Investors : AddOracle(a, oracle)
    \/ \E m \in DOMAIN milestones : ReleaseMilestone(m)

BallotNext ==
    \/ \E c \in campaignIds : CreateBallot(c)
    \/ \E b \in DOMAIN ballots :
          (\E a \in Investors, inFavour \in BOOLEAN : VoteOnBallot(a, b, inFavour)) \/ FinalizeBallot(b)
    \/ \E a \in Investors, c \in campaignIds, measures \in RiskArgs : AssessRisk(a, c, measures)

CampaignSharesNext ==
    \E a \in Investors :
        \/ \E c \in campaignIds, shares \in 0..MaxRaised : ListCampaignShares(a, c, shares)
        \/ \E l \in DOMAIN shareListings : BuyCampaignShares(a, l)

CrowdfundingNext ==
    FundingNext \/ RefundNext \/ MilestoneNext \/ BallotNext \/ CampaignSharesNext

CrowdfundingSpec == ChainInit /\ CrowdfundingInit /\ [][CrowdfundingNext]_crowdfundingVars
====

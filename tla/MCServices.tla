---- MODULE MCServices ----
(***************************************************************************)
(* Model checking of contracts around the core, one aspect at a time       *)
(* (focus): the oracle, with its arithmetic on every short sequence of     *)
(* prices; property management with its money; fees with auctions. Ledgers *)
(* follow who changed the oracle's sources, and how many updates a source  *)
(* has been silent for.                                                    *)
(***************************************************************************)
EXTENDS Oracle, PropertyManagement, Fees

CONSTANTS A, B, C, Foci, PriceArgs, SampleLength

VARIABLES focus, sample, cause, silence

ledgers == <<cause, silence>>
serviceVars == <<managementVars, feeVars>>
mcVars == <<block, oracleVars, serviceVars, focus, sample, ledgers>>

Accounts == {A, B, C}
MCParams == [minSources |-> 2, maxStaleness |-> 1, volatility |-> 20, outliers |-> 2]
MCSlashArgs == {[staleness |-> FALSE, staleAfter |-> 1, silence |-> TRUE, count |-> 2],
                [staleness |-> TRUE, staleAfter |-> 1, silence |-> TRUE, count |-> 1]}
MCPenaltyArgs == {[minor |-> 350, moderate |-> 200]}

MCFirstFeeArgs == {[base |-> 1000, min |-> 100, max |-> 1040], [base |-> 10, min |-> 20, max |-> 5]}
MCFeeConfigArgs == {[base |-> 10, min |-> 10, max |-> 20, sensitivity |-> 80, demand |-> 0, method |-> m] : m \in {"Fixed", "Tiered", "Exponential"}}
MCRateConfigArgs == {[base |-> 30, multiplier |-> 300, max |-> 80], [base |-> 200, multiplier |-> 520, max |-> 250]}

MCInit ==
    /\ ChainInit
    /\ OracleInit /\ ManagementInit /\ FeesInit
    /\ focus \in Foci
    /\ focus \in {"rates", "funds", "auctions"} \/ InOrder(defaultConfig)
    /\ sample = [prices |-> << >>, weights |-> << >>]
    /\ cause = "none"
    /\ silence = [s \in SourceIds |-> 0]

Feed(s, weight) == AddOracleSource(A, s, [type |-> "Feed", weight |-> weight, active |-> TRUE])
TwoFeeds == \E s \in {"s1", "s2"} \ DOMAIN sources : Feed(s, 1)

\* Two sources of any kind and weight, one property.
UpdateStep ==
    \/ \E type \in {"Feed", "Manual"} :
          "s1" \notin DOMAIN sources /\ AddOracleSource(A, "s1", [type |-> type, weight |-> 1, active |-> TRUE])
    \/ \E type \in {"Feed", "AIModel"} :
          "s2" \notin DOMAIN sources /\ AddOracleSource(A, "s2", [type |-> type, weight |-> 3, active |-> TRUE])
    \/ SetBatchAggregation(A, ~batched)
    \/ ~aiContract /\ SetAiValuationContract(A)
    \/ ValuationsNext /\ DOMAIN valuations' \subseteq {1}

\* Sources that answer or not, are asked or not, and are punished for it.
SlashStep ==
    \/ TwoFeeds
    \/ Feed("s3", 1)
    \/ \E config \in SlashArgs : SetAutoSlashConfig(A, config)
    \/ \E config \in PenaltyArgs : SetSlashingConfig(A, config)
SilentUpdate ==
    \E p \in OracleProperties, S \in SUBSET DOMAIN sources :
        /\ UpdateValuationFromSources(A, p, [s \in DOMAIN sources |-> IF s \in S THEN 100 ELSE 0])
        /\ silence' = [s \in SourceIds |->
               IF s \notin Range(activeSources) THEN silence[s]
               ELSE IF s \in S /\ ~Throttled(s) THEN 0 ELSE silence[s] + 1]

SourceStep ==
    /\ \/ SourcesNext /\ cause' = "admin"
       \/ ReputationsNext /\ cause' = "reputation"
    /\ \A s \in DOMAIN sources' : s \in {"s1", "s2"} /\ sources'[s].type = "Feed"
    /\ \A s \in DOMAIN reputations' : s = "s1" /\ reputations'[s] <= 510

\* B and C are signers at times; the admin proposes without being one.
SignerStep ==
    /\ \/ SignersNext /\ cause' = "signers"
       \/ AddOracleSource(A, "s1", [type |-> "Feed", weight |-> 0, active |-> TRUE]) /\ cause' = "admin"
    /\ A \notin signers' /\ Len(multisigProposals') <= 1 /\ Len(multisigProposals') + Len(sourceProposals') <= 2
    /\ \A s \in DOMAIN sources' : s = "s1" /\ sources'[s].type = "Feed" /\ sources'[s].active
    /\ \A i \in DOMAIN sourceProposals' :
          LET p == sourceProposals'[i] IN
          p.id = "s1" /\ (p.source.weight = 3) = (p.action = "Add") /\ p.source.active = (p.action = "Add")

VoteStep ==
    /\ \/ VotesNext /\ cause' = "votes"
       \/ TwoFeeds /\ cause' = "admin"
       \/ ~batched /\ SetBatchAggregation(A, TRUE) /\ cause' = "admin"
       \/ valuations = << >> /\ (\E i \in DOMAIN oracleVotes : oracleVotes[i].executed)
          /\ UpdateValuationFromSources(A, 1, [s \in DOMAIN sources |-> 100]) /\ cause' = "reputation"
    /\ A \notin DOMAIN power' /\ Len(oracleVotes') <= 1
    /\ \A i \in DOMAIN oracleVotes' :
          LET v == oracleVotes'[i] IN
          v.for + v.against <= 4 /\ v.action.id # "s2" /\ (v.action.kind \in {"AddSource", "RemoveSource"} => (v.action.value = 0) = (v.action.kind = "RemoveSource"))

HistoryStep ==
    \/ \E value \in ValueArgs, at \in {1, block} : UpdatePropertyValuation(A, 1, [value |-> value, at |-> at])
    \/ SettingsNext /\ params' = params /\ autoSlash' = autoSlash /\ penalties' = penalties /\ aiContract' = aiContract

FallbackStep ==
    \/ FallbacksNext /\ DOMAIN fallbacks' \subseteq {"s1", "s2"} /\ DOMAIN lastUpdate' \subseteq {"s1"}
    \/ Len(activeSources) = 0 /\ Feed("s1", 1)
    \/ UpdatePropertyValuation(A, 1, [value |-> 100, at |-> block])

RequestStep ==
    \/ RequestsNext
    \/ TwoFeeds
    \/ \E p \in OracleProperties : UpdateValuationFromSources(A, p, [s \in DOMAIN sources |-> 100])

\* In "upkeep" no request is the admin's, and two are resolved of a building.
ManagementStep ==
    /\ \/ focus = "tenancy" /\ TenancyNext /\ Len(leases') + Len(screenings') <= 2 /\ DOMAIN legal' \subseteq {1}
       \/ focus = "upkeep" /\ UpkeepNext /\ Len(maintenance') + Len(inspections') <= 2
          /\ (\A b \in Buildings : analytics'[b].resolved <= 2) /\ (\A i \in DOMAIN maintenance' : maintenance'[i].requester # A)
       \/ focus = "money" /\ MoneyNext
       \/ focus = "motions" /\ MotionNext
    /\ UNCHANGED feeVars

FeeStep ==
    /\ \/ focus = "rates" /\ (FeeSettingsNext \/ RecordFeeCollected(0))
          /\ validatorList' = validatorList /\ validatorShare' = validatorShare /\ DOMAIN operationConfig' \subseteq {"PremiumListingBid"}
       \/ focus = "funds" /\ (FundsNext \/ FeeSettingsNext)
          /\ operationConfig' = operationConfig /\ defaultConfig' = defaultConfig /\ rateConfig' = rateConfig
       \/ focus = "auctions" /\ AuctionsNext
    /\ UNCHANGED managementVars

TimedFoci == {"updates", "slashing", "votes", "history", "fallbacks", "requests", "rates", "auctions"}
MCTick == focus \in TimedFoci /\ NextBlock /\ UNCHANGED <<oracleVars, serviceVars, focus, sample, ledgers>>

\* One more price and its weight, up to the length of a sample.
SampleStep ==
    /\ Len(sample.prices) < SampleLength
    /\ \E price \in PriceArgs, weight \in {0, 1, 3} :
          sample' = [prices |-> Append(sample.prices, price), weights |-> Append(sample.weights, weight)]

OracleStep ==
    \/ focus = "updates" /\ UpdateStep /\ UNCHANGED ledgers
    \/ focus = "slashing" /\ ((SlashStep /\ UNCHANGED silence) \/ SilentUpdate) /\ UNCHANGED cause
    \/ focus = "sources" /\ SourceStep /\ UNCHANGED silence
    \/ focus = "signers" /\ SignerStep /\ UNCHANGED silence
    \/ focus = "votes" /\ VoteStep /\ UNCHANGED silence
    \/ focus = "settings" /\ SettingsNext /\ UNCHANGED ledgers
    \/ focus = "history" /\ HistoryStep /\ UNCHANGED ledgers
    \/ focus = "fallbacks" /\ FallbackStep /\ UNCHANGED ledgers
    \/ focus = "requests" /\ RequestStep /\ UNCHANGED ledgers

MCNext ==
    \/ MCTick
    \/ focus = "arithmetic" /\ SampleStep /\ UNCHANGED <<block, oracleVars, serviceVars, focus, ledgers>>
    \/ OracleStep /\ UNCHANGED <<serviceVars, focus, sample>>
    \/ (ManagementStep \/ FeeStep) /\ UNCHANGED <<block, oracleVars, focus, sample, ledgers>>

MCOracleSpec == MCInit /\ [][MCNext]_mcVars

Settle(id) ==
    /\ focus = "auctions" /\ SettleAuction(id)
    /\ UNCHANGED <<block, managementVars, oracleVars, focus, sample, ledgers>>

\* Blocks are produced, and sellers settle their auctions.
Fairness ==
    /\ WF_mcVars(MCTick)
    /\ \A id \in 1..MaxAuctions : WF_mcVars(Settle(id))

MCSpec == MCInit /\ [][MCNext]_mcVars /\ Fairness

----
(***************************************************************************)
(* Both services and the oracle on their own, with every account and every *)
(* argument. Who changes the sources is written down as they change; an    *)
(* update of a valuation counts as a judgement of reputations.             *)
(***************************************************************************)
SourceLedgerNext ==
    \/ SourcesNext /\ cause' = "admin"
    \/ (ReputationsNext \/ ValuationsNext) /\ cause' = "reputation"
    \/ SignersNext /\ cause' = "signers"
    \/ VotesNext /\ cause' = "votes"
    \/ (FallbacksNext \/ RequestsNext \/ SettingsNext) /\ UNCHANGED cause
    \/ NextBlock /\ UNCHANGED <<oracleVars, cause>>

SourceLedgerSpec ==
    /\ ChainInit /\ OracleInit /\ cause = "none"
    /\ [][SourceLedgerNext]_<<block, oracleVars, cause>>

ServicesNext ==
    \/ ManagementNext /\ UNCHANGED <<block, feeVars>>
    \/ (\E value \in Amounts : FundOperatingFloat(value)) /\ UNCHANGED <<block, feeVars>>
    \/ FeesNext /\ UNCHANGED <<block, managementVars>>
    \/ NextBlock /\ UNCHANGED serviceVars

ServicesSpec == ChainInit /\ ManagementInit /\ FeesInit /\ [][ServicesNext]_<<block, serviceVars>>

----
\* Properties

\* What the code computes from prices and from a history is in their range, for every
\* short sequence of prices and weights.
ArithmeticSound ==
    sample.prices # << >> => AggregationSound(sample.prices, sample.weights, 2) /\ HistorySound(sample.prices)

OracleSound == OracleBooksAgree /\ ArithmeticSound

\* Sources and their weights change only by the admin, by a reputation that is too low,
\* by a proposal that is executed once and for which as many different accounts as the
\* threshold asks for have spoken, or by a vote that is over and has carried; and only
\* by a vote does a source get a weight above 100 (add_oracle_source,
\* propose_add_oracle_source, approve_source_proposal, execute_governance_proposal).
SourcesChangeByRight ==
    [][/\ (sources' # sources) =>
            \/ cause' \in {"admin", "reputation"} \/ focus \notin {"sources", "signers", "votes"}
            \/ cause' = "signers" /\ signers = {}
            \/ /\ cause' = "signers"
               /\ \E i \in DOMAIN sourceProposals' :
                     /\ sourceProposals'[i].executed
                     /\ (i \in DOMAIN sourceProposals => ~sourceProposals[i].executed)
                     /\ Cardinality(Range(sourceProposals'[i].approvals)) >= multisigThreshold
            \/ cause' = "votes" /\ \E i \in DOMAIN oracleVotes : ~oracleVotes[i].executed /\ Carried(oracleVotes[i]) /\ oracleVotes'[i].executed
       /\ \A s \in DOMAIN sources' : sources'[s].weight > MaxWeight =>
            (s \in DOMAIN sources /\ sources[s].weight = sources'[s].weight) \/ cause' = "votes"
       /\ \A i \in DOMAIN sourceProposals : sourceProposals[i].executed => sourceProposals'[i] = sourceProposals[i]]_mcVars

\* An update costs a source reputation only if its own price was missing from as many
\* updates as are allowed, or its last one is older than is allowed
\* (run_auto_slash_checks).
SlashedForSilence ==
    [][(focus = "slashing") => \A s \in DOMAIN reputations' : reputations'[s] < Reputation(s) =>
        \/ autoSlash.silence /\ silence'[s] >= autoSlash.count
        \/ autoSlash.staleness /\ s \in DOMAIN lastReport /\ block - lastReport[s] > autoSlash.staleAfter]_mcVars

\* Every request that is numbered is the only one of its property until it is answered
\* or has grown old, in one batch too (request_property_valuation).
RequestsAreSpaced ==
    [][LET fresh == {p \in DOMAIN pending' : p \notin DOMAIN pending \/ pending'[p] # pending[p]} IN
        /\ requestCounter' - requestCounter = Cardinality(fresh)
        /\ \A p \in fresh \cap DOMAIN pending : pending'[p] - pending[p] >= params.maxStaleness]_mcVars

\* Neither a source nor a request is treated as silent or old before it is
\* (run_auto_slash_checks, request_property_valuation).
OracleActsWhenDue == SlashedForSilence /\ RequestsAreSpaced

\* The books of both services agree with what they store, and fees are within limits.
ServiceBooksAgree == ManagementBooksAgree /\ FeeBooksAgree /\ FeesWithinLimits
====

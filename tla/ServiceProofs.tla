---- MODULE ServiceProofs ----
(***************************************************************************)
(* Theorems about the oracle, property management and the fee manager, for *)
(* all values of their constants: the sources of the oracle change only by *)
(* right, and the books of the two services agree with their records.      *)
(***************************************************************************)
EXTENDS MCServices, Sums, SequenceTheorems

----
(***************************************************************************)
(* The sources of the oracle change only by right. A proposal's approvals  *)
(* are of different accounts, since nobody approves twice, so that their   *)
(* number is a number of accounts; a proposal or a vote that is executed   *)
(* was not executed before. What is added or proposed has a weight of 100  *)
(* at most.                                                                *)
(***************************************************************************)
LightSource == {source \in Source : source.weight <= MaxWeight}
SourceProposal == [action : {"Add", "Remove"}, id : SourceIds, source : LightSource, approvals : Seq(Voters), executed : BOOLEAN]
OracleVote == [action : VoteActions, for : Nat, against : Nat, until : Nat, executed : BOOLEAN]

\* Nobody's approval counts twice.
Heard(p) == IsFiniteSet(Range(p.approvals)) /\ Cardinality(Range(p.approvals)) = Len(p.approvals)

ProposalsGood ==
    /\ sourceProposals \in Seq(SourceProposal) /\ signers \subseteq Voters
    /\ \A i \in DOMAIN sourceProposals : Heard(sourceProposals[i])
VotesGood == block \in Nat /\ power \in [DOMAIN power -> Nat] /\ oracleVotes \in Seq(OracleVote)
SourcesGood == \A s \in DOMAIN sources : sources[s] \in Source
SourcesInv == ProposalsGood /\ VotesGood /\ SourcesGood

\* What a step may do with proposals and votes.
Executes(i) ==
    /\ sourceProposals'[i].executed
    /\ (i \in DOMAIN sourceProposals => ~sourceProposals[i].executed)
    /\ Cardinality(Range(sourceProposals'[i].approvals)) >= multisigThreshold
ProposalsFinal == \A i \in DOMAIN sourceProposals : sourceProposals[i].executed => sourceProposals'[i] = sourceProposals[i]
BySigners == signers = {} \/ \E i \in DOMAIN sourceProposals' : Executes(i)
WeightsKept ==
    \A s \in DOMAIN sources' : sources'[s].weight > MaxWeight => s \in DOMAIN sources /\ sources[s].weight = sources'[s].weight
ByVotes == \E i \in DOMAIN oracleVotes : ~oracleVotes[i].executed /\ Carried(oracleVotes[i]) /\ oracleVotes'[i].executed
Rightful ==
    /\ (sources' # sources) =>
         \/ cause' \in {"admin", "reputation"} \/ focus \notin {"sources", "signers", "votes"}
         \/ cause' = "signers" /\ signers = {}
         \/ cause' = "signers" /\ \E i \in DOMAIN sourceProposals' : Executes(i)
         \/ cause' = "votes" /\ ByVotes
    /\ \A s \in DOMAIN sources' : sources'[s].weight > MaxWeight =>
         (s \in DOMAIN sources /\ sources[s].weight = sources'[s].weight) \/ cause' = "votes"
    /\ ProposalsFinal

\* One more account approves that has not approved.
LEMMA OneMoreVoice ==
    ASSUME NEW s \in Seq(Voters), IsFiniteSet(Range(s)), Cardinality(Range(s)) = Len(s), NEW a \in Voters, ~Contains(s, a)
    PROVE  /\ Append(s, a) \in Seq(Voters) /\ Len(Append(s, a)) = Len(s) + 1
           /\ IsFiniteSet(Range(Append(s, a))) /\ Cardinality(Range(Append(s, a))) = Len(s) + 1
<1> DEFINE t == Append(s, a)
<1>1. /\ t \in Seq(Voters) /\ Len(t) = Len(s) + 1 /\ Len(s) \in Nat /\ DOMAIN s = 1..Len(s)
      /\ DOMAIN t = DOMAIN s \cup {Len(s) + 1} /\ t[Len(s) + 1] = a /\ \A m \in DOMAIN s : t[m] = s[m]
  BY SeqAppended
<1> HIDE DEF t
<1> DEFINE k == Len(s) + 1
<1> HIDE DEF k
<1>2. Range(t) = Range(s) \cup {a}
  <2>1. DOMAIN t = DOMAIN s \cup {k} /\ t[k] = a
    BY <1>1 DEF k
  <2>2. \A m \in DOMAIN s : t[m] = s[m]
    BY <1>1
  <2>3. \A x \in Range(t) : x \in Range(s) \cup {a}
    BY <2>1, <2>2, Zenon DEF Range
  <2>4. \A x \in Range(s) : x \in Range(t)
    BY <2>1, <2>2, Zenon DEF Range
  <2>5. a \in Range(t)
    BY <2>1, Zenon DEF Range
  <2> QED
    BY <2>3, <2>4, <2>5
<1>3. a \notin Range(s)
  BY <1>1 DEF Contains, Range
<1>4. IsFiniteSet(Range(s) \cup {a}) /\ Cardinality(Range(s) \cup {a}) = Cardinality(Range(s)) + 1
  BY <1>3, FS_AddElement
<1> QED
  BY <1>1, <1>2, <1>4 DEF t

\* The proposer's approval is the first.
LEMMA FirstVoice ==
    ASSUME NEW a \in Voters
    PROVE  /\ <<a>> \in Seq(Voters) /\ Len(<<a>>) = 1
           /\ IsFiniteSet(Range(<<a>>)) /\ Cardinality(Range(<<a>>)) = 1
<1>1. <<a>> \in Seq(Voters) /\ Len(<<a>>) = 1 /\ DOMAIN <<a>> = {1} /\ <<a>>[1] = a
  OBVIOUS
<1>2. Range(<<a>>) = {a}
  BY <1>1 DEF Range
<1> QED
  BY <1>1, <1>2, FS_Singleton

\* A proposal is stored with its proposer's approval; it changes the sources only if that one
\* is enough (propose_add_oracle_source, propose_remove_oracle_source).
LEMMA SubmitKeeps ==
    ASSUME ProposalsGood, NEW a \in Voters, NEW action \in {"Add", "Remove"}, NEW s \in SourceIds, NEW source \in LightSource,
           SubmitProposal(a, action, s, source)
    PROVE  ProposalsGood' /\ ProposalsFinal /\ (sources' # sources => BySigners)
<1> DEFINE p == [action |-> action, id |-> s, source |-> source, approvals |-> <<a>>, executed |-> 1 >= multisigThreshold]
           k == Len(sourceProposals) + 1
<1>1. p \in SourceProposal /\ Heard(p) /\ p.approvals = <<a>> /\ p.executed = (1 >= multisigThreshold)
  BY FirstVoice DEF SourceProposal, Heard
<1>2. /\ sourceProposals' = Append(sourceProposals, p) /\ signers' = signers
      /\ (~p.executed => sources' = sources)
  BY DEF SubmitProposal, sourceVars
<1> HIDE DEF p
<1>3. /\ sourceProposals' \in Seq(SourceProposal) /\ DOMAIN sourceProposals' = DOMAIN sourceProposals \cup {k}
      /\ k \notin DOMAIN sourceProposals /\ sourceProposals'[k] = p
      /\ \A m \in DOMAIN sourceProposals : sourceProposals'[m] = sourceProposals[m]
  BY <1>1, <1>2, SeqAppended DEF ProposalsGood
<1>4. ProposalsGood'
  BY <1>1, <1>2, <1>3 DEF ProposalsGood, Heard
<1>5. p.executed => Executes(k)
  <2>1. Cardinality(Range(p.approvals)) = 1
    BY <1>1, FirstVoice
  <2> QED
    BY <1>1, <1>3, <2>1 DEF Executes
<1> QED
  BY <1>2, <1>3, <1>4, <1>5 DEF ProposalsFinal, BySigners

\* An approval executes a proposal when it makes as many accounts as the threshold asks for
\* (approve_source_proposal).
LEMMA ApproveSourceKeeps ==
    ASSUME ProposalsGood, NEW a \in Voters, NEW i \in DOMAIN sourceProposals, ApproveSourceProposal(a, i)
    PROVE  ProposalsGood' /\ ProposalsFinal /\ (sources' # sources => BySigners)
<1> DEFINE o == sourceProposals[i]
           p == Approved(o, a)
<1>1. o \in SourceProposal /\ Heard(o)
  BY DEF ProposalsGood
<1>2. ~o.executed /\ ~Contains(o.approvals, a)
  BY DEF ApproveSourceProposal, MayApprove
<1>3. /\ sourceProposals' = Written(sourceProposals, i, p) /\ signers' = signers
      /\ (~p.executed => sources' = sources)
  BY DEF ApproveSourceProposal, sourceVars, Written
<1> HIDE DEF o
<1>4. /\ p \in SourceProposal /\ Heard(p) /\ p.executed = (Len(o.approvals) + 1 >= multisigThreshold)
      /\ Cardinality(Range(p.approvals)) = Len(o.approvals) + 1
  <2> DEFINE t == Append(o.approvals, a)
             enough == Len(o.approvals) + 1 >= multisigThreshold
  <2>1. /\ t \in Seq(Voters) /\ Len(t) = Len(o.approvals) + 1
        /\ IsFiniteSet(Range(t)) /\ Cardinality(Range(t)) = Len(o.approvals) + 1
    BY <1>1, <1>2, OneMoreVoice DEF Heard, SourceProposal
  <2>2. p = [o EXCEPT !.approvals = t, !.executed = enough] /\ enough \in BOOLEAN
    BY DEF Approved
  <2> HIDE DEF t, p, enough
  <2>3. p \in SourceProposal /\ p.approvals = t /\ p.executed = enough
    BY <1>1, <2>1, <2>2 DEF SourceProposal
  <2> QED
    BY <2>1, <2>3 DEF Heard, enough
<1> HIDE DEF p
<1>5. /\ sourceProposals' \in Seq(SourceProposal) /\ DOMAIN sourceProposals' = DOMAIN sourceProposals /\ sourceProposals'[i] = p
      /\ \A m \in DOMAIN sourceProposals \ {i} : sourceProposals'[m] = sourceProposals[m]
  BY <1>3, <1>4, SeqWritten DEF ProposalsGood
<1>6. ProposalsGood'
  BY <1>3, <1>4, <1>5 DEF ProposalsGood, Heard
<1>7. p.executed => Executes(i)
  BY <1>2, <1>4, <1>5 DEF Executes, o
<1> QED
  BY <1>2, <1>3, <1>5, <1>6, <1>7 DEF ProposalsFinal, BySigners, o

\* What neither signers nor voters do leaves proposals and votes alone; only who manages sources
\* or judges them changes those (add_oracle_source, update_source_reputation,
\* update_valuation_from_sources).
LEMMA SourcesFrame == SourcesNext => UNCHANGED <<block, signerVars, voteVars>>
<1>1. ASSUME NEW a, NEW s, NEW source, AddOracleSource(a, s, source)
      PROVE  UNCHANGED <<block, signerVars, voteVars>>
  BY <1>1, Zenon DEF AddOracleSource
<1>2. ASSUME NEW a, NEW s, RemoveSource(a, s)
      PROVE  UNCHANGED <<block, signerVars, voteVars>>
  BY <1>2, Zenon DEF RemoveSource
<1>3. ASSUME NEW a, NEW enabled, SetBatchAggregation(a, enabled)
      PROVE  UNCHANGED <<block, signerVars, voteVars>>
  BY <1>3, Zenon DEF SetBatchAggregation
<1> QED
  BY <1>1, <1>2, <1>3, Zenon DEF SourcesNext

LEMMA ReputationsFrame == ReputationsNext => UNCHANGED <<block, signerVars, voteVars>>
  BY DEF UpdateSourceReputation, ReputationsNext, SlashSource

LEMMA ValuationsFrame == ValuationsNext => UNCHANGED <<block, signerVars, voteVars>>
<1>1. ASSUME NEW a, NEW p, NEW value, UpdatePropertyValuation(a, p, value)
      PROVE  UNCHANGED <<block, signerVars, voteVars>>
  BY <1>1, Zenon DEF UpdatePropertyValuation
<1>2. ASSUME NEW a, NEW p, NEW answers, UpdateValuationFromSources(a, p, answers)
      PROVE  UNCHANGED <<block, signerVars, voteVars>>
  BY <1>2, Zenon DEF UpdateValuationFromSources
<1> QED
  BY <1>1, <1>2, Zenon DEF ValuationsNext

\* Queries, requests and settings leave the sources alone (query_with_fallback,
\* request_property_valuation, set_auto_slash_config).
LEMMA FallbacksFrame == FallbacksNext => UNCHANGED <<block, sourceVars, signerVars, voteVars>>
<1>1. ASSUME NEW p, NEW answers, QueryWithFallback(p, answers)
      PROVE  UNCHANGED <<block, sourceVars, signerVars, voteVars>>
  BY <1>1, Zenon DEF QueryWithFallback
<1>2. ASSUME NEW a, NEW f, NEW priority, NEW active, AddFallbackSource(a, f, priority, active)
      PROVE  UNCHANGED <<block, sourceVars, signerVars, voteVars>>
  BY <1>2, Zenon DEF AddFallbackSource, SetFallbacks
<1>3. ASSUME NEW a, NEW f, RemoveFallbackSource(a, f)
      PROVE  UNCHANGED <<block, sourceVars, signerVars, voteVars>>
  BY <1>3, Zenon DEF RemoveFallbackSource, SetFallbacks
<1>4. ASSUME NEW a, NEW attempts, SetFallbackConfig(a, attempts)
      PROVE  UNCHANGED <<block, sourceVars, signerVars, voteVars>>
  BY <1>4, Zenon DEF SetFallbackConfig
<1> QED
  BY <1>1, <1>2, <1>3, <1>4, Zenon DEF FallbacksNext

LEMMA RequestsFrame == RequestsNext => UNCHANGED <<block, sourceVars, signerVars, voteVars>>
<1>1. ASSUME NEW p, RequestPropertyValuation(p)
      PROVE  UNCHANGED <<block, sourceVars, signerVars, voteVars>>
  BY <1>1, Zenon DEF RequestPropertyValuation
<1>2. ASSUME NEW properties, BatchRequestValuations(properties)
      PROVE  UNCHANGED <<block, sourceVars, signerVars, voteVars>>
  BY <1>2, Zenon DEF BatchRequestValuations
<1> QED
  BY <1>1, <1>2, Zenon DEF RequestsNext

LEMMA SettingsFrame == SettingsNext => UNCHANGED <<block, sourceVars, signerVars, voteVars>>
  BY DEF SetVolatilityThreshold, SetAutoSlashConfig, SetSlashingConfig, SetEmaAlpha, SetAiValuationContract,
     SetHistoryTrackingEnabled, SetHistoryRetention, SettingsNext, SettingsOnly

\* Whatever signers and the admin do with proposals, the approvals of one are of different
\* accounts, and the sources change only by one that is executed now
\* (approve_source_proposal, execute_source_proposal).
LEMMA SignersKeep ==
    ASSUME ProposalsGood, SignersNext
    PROVE  ProposalsGood' /\ ProposalsFinal /\ (sources' # sources => BySigners)
<1> DEFINE Goal == ProposalsGood' /\ ProposalsFinal /\ (sources' # sources => BySigners)
<1>1. ASSUME UNCHANGED sourceProposals, signers' \subseteq Voters, sources' # sources => signers = {}
      PROVE  Goal
  BY <1>1 DEF ProposalsGood, ProposalsFinal, BySigners, Heard
<1>2. ASSUME NEW a \in Voters, NEW b \in Voters, AddMultisigSigner(a, b) \/ RemoveMultisigSigner(a, b)
      PROVE  Goal
  BY <1>2, <1>1 DEF AddMultisigSigner, RemoveMultisigSigner, ProposalsGood, sourceVars
<1>3. ASSUME NEW a, NEW x,
             SetMultisigThreshold(a, x) \/ ProposeMultisigAction(a) \/ ApproveMultisigProposal(a, x)
      PROVE  Goal
  BY <1>3, <1>1 DEF SetMultisigThreshold, ProposeMultisigAction, ApproveMultisigProposal, sourceVars, ProposalsGood
<1>4. ASSUME NEW a \in Voters, NEW s \in SourceIds, ProposeRemoveOracleSource(a, s)
      PROVE  Goal
  <2>1. CASE signers = {}
    BY <1>4, <2>1, <1>1 DEF ProposeRemoveOracleSource, signerVars, ProposalsGood
  <2>2. CASE signers # {}
    <3> DEFINE source == [type |-> "Feed", weight |-> 0, active |-> FALSE]
    <3>1. SubmitProposal(a, "Remove", s, source)
      BY <1>4, <2>2, Zenon DEF ProposeRemoveOracleSource
    <3>2. source \in LightSource
      BY WordConstants DEF Source, LightSource, Word, MaxWeight
    <3> HIDE DEF source
    <3> QED
      BY <3>1, <3>2, SubmitKeeps
  <2> QED
    BY <2>1, <2>2
<1>5. ASSUME NEW a \in Voters, NEW s \in SourceIds, NEW source \in SourceArgs, ProposeAddOracleSource(a, s, source)
      PROVE  Goal
  <2>1. CASE signers = {}
    BY <1>5, <2>1, <1>1 DEF ProposeAddOracleSource, signerVars, ProposalsGood
  <2>2. CASE signers # {}
    <3>1. SubmitProposal(a, "Add", s, source)
      BY <1>5, <2>2, Zenon DEF ProposeAddOracleSource
    <3>2. source \in LightSource
      BY <1>5, OracleConstants DEF Source, SourceArgs, LightSource, ProposeAddOracleSource
    <3> QED
      BY <3>1, <3>2, SubmitKeeps
  <2> QED
    BY <2>1, <2>2
<1>6. ASSUME NEW a \in Voters, NEW i \in DOMAIN sourceProposals, ApproveSourceProposal(a, i)
      PROVE  Goal
  BY <1>6, ApproveSourceKeeps
<1> QED
  BY <1>2, <1>3, <1>4, <1>5, <1>6, Zenon DEF SignersNext

\* A vote is opened, counted and carried out once, and touches the sources only when it is
\* carried out (propose_governance_action, vote_on_governance_proposal,
\* execute_governance_proposal).
LEMMA VotesKeep ==
    ASSUME VotesGood, VotesNext
    PROVE  VotesGood' /\ UNCHANGED signerVars /\ (sources' # sources => ByVotes)
<1> DEFINE Goal == VotesGood' /\ UNCHANGED signerVars /\ (sources' # sources => ByVotes)
<1>1. \A a : VotingPower(a) \in Nat
  BY DEF VotesGood, VotingPower, Get
<1>2. ASSUME NEW a \in Voters, NEW b \in Voters, NEW amount \in PowerArgs, SetGovernanceVotingPower(a, b, amount)
      PROVE  Goal
  BY <1>2, OracleConstants DEF SetGovernanceVotingPower, UnchangedByVotes, VotesGood, Put, sourceVars
<1>3. ASSUME NEW a \in Voters, NEW action \in VoteActions, ProposeGovernanceAction(a, action)
      PROVE  Goal
  BY <1>3, OracleConstants, SeqAppended DEF ProposeGovernanceAction, UnchangedByVotes, VotesGood, OracleVote,
     sourceVars
<1>4. ASSUME NEW a \in Voters, NEW i \in DOMAIN oracleVotes, NEW support \in BOOLEAN, VoteOnGovernanceProposal(a, i, support)
      PROVE  Goal
  <2> DEFINE o == oracleVotes[i]
             n == VotingPower(a)
             v == IF support THEN [o EXCEPT !.for = o.for + n] ELSE [o EXCEPT !.against = o.against + n]
  <2>1. UNCHANGED <<power, sourceVars, block, signerVars>>
    BY <1>4, Zenon DEF VoteOnGovernanceProposal, UnchangedByVotes
  <2>2. oracleVotes' = Written(oracleVotes, i, v)
    BY <1>4 DEF VoteOnGovernanceProposal, Written
  <2>3. o \in OracleVote /\ n \in Nat
    BY <1>1 DEF VotesGood
  <2> HIDE DEF o, n
  <2>4. v \in OracleVote
    BY <2>3 DEF OracleVote
  <2> HIDE DEF v
  <2>5. oracleVotes' \in Seq(OracleVote)
    BY <2>2, <2>4, SeqWritten DEF VotesGood
  <2> QED
    BY <2>1, <2>5 DEF VotesGood, sourceVars
<1>5. ASSUME NEW i \in DOMAIN oracleVotes, ExecuteGovernanceProposal(i)
      PROVE  Goal
  <2> DEFINE o == oracleVotes[i]
             v == [o EXCEPT !.executed = TRUE]
  <2>1. UNCHANGED <<power, block, signerVars>> /\ ~o.executed /\ Carried(o)
    BY <1>5, Zenon DEF ExecuteGovernanceProposal, UnchangedByVotes
  <2>2. oracleVotes' = Written(oracleVotes, i, v)
    BY <1>5 DEF ExecuteGovernanceProposal, Written
  <2>3. o \in OracleVote
    BY DEF VotesGood
  <2>4. v \in OracleVote /\ v.executed
    BY <2>3 DEF OracleVote
  <2> HIDE DEF v
  <2>5. oracleVotes' \in Seq(OracleVote) /\ oracleVotes'[i] = v
    BY <2>2, <2>4, SeqWritten DEF VotesGood
  <2>6. ByVotes
    BY <2>1, <2>4, <2>5, Zenon DEF ByVotes
  <2> QED
    BY <2>1, <2>5, <2>6 DEF VotesGood
<1> QED
  BY <1>2, <1>3, <1>4, <1>5, Zenon DEF VotesNext

\* A source that is listed is light if what is listed is, and the others stay as they are
\* (the three ways to write the list of sources).
LEMMA SourceEnlisted ==
    ASSUME SourcesGood, NEW s, NEW source \in Source, NEW repack, Enlist(s, source, repack)
    PROVE  SourcesGood' /\ (source \in LightSource => WeightsKept)
<1>1. sources' = Put(sources, s, source)
  BY Zenon DEF Enlist, SetSources
<1>2. source \in LightSource => ~(source.weight > MaxWeight)
  BY WordConstants DEF LightSource, Source, Word, MaxWeight
<1> QED
  BY <1>1, <1>2 DEF Put, SourcesGood, WeightsKept

LEMMA SourceStruck ==
    ASSUME SourcesGood, NEW s, NEW repack, Strike(s, repack)
    PROVE  SourcesGood' /\ WeightsKept
<1>1. sources' = Restrict(sources, DOMAIN sources \ {s})
  BY Zenon DEF Strike, SetSources
<1> QED
  BY <1>1 DEF Restrict, SourcesGood, WeightsKept

LEMMA SourcesDeactivated ==
    ASSUME SourcesGood, NEW S, Deactivate(S)
    PROVE  SourcesGood' /\ WeightsKept
<1>1. sources' = [s \in DOMAIN sources |-> [sources[s] EXCEPT !.active = sources[s].active /\ s \notin S]]
  BY DEF Deactivate, SetSources
<1>2. ASSUME NEW s \in DOMAIN sources
      PROVE  sources'[s] \in Source /\ sources'[s].weight = sources[s].weight
  BY <1>1 DEF SourcesGood, Source
<1>3. DOMAIN sources' = DOMAIN sources
  BY <1>1
<1> QED
  BY <1>2, <1>3 DEF SourcesGood, WeightsKept

LEMMA ProposalCarriedOut ==
    ASSUME SourcesGood, NEW p \in SourceProposal, ExecuteSourceProposal(p)
    PROVE  SourcesGood' /\ WeightsKept
<1>1. p.source \in LightSource /\ p.source \in Source
  BY DEF SourceProposal, LightSource
<1> QED
  BY <1>1, SourceEnlisted, SourceStruck, Zenon DEF ExecuteSourceProposal

\* What the admin, a reputation or signers list has a weight of 100 at most
\* (add_oracle_source, propose_add_oracle_source).
LEMMA SourcesStayGood ==
    ASSUME SourcesInv, SourcesNext \/ ReputationsNext \/ ValuationsNext \/ SignersNext
    PROVE  SourcesGood' /\ WeightsKept
<1> DEFINE Goal == SourcesGood' /\ WeightsKept
<1> USE DEF SourcesInv
<1>1. ASSUME UNCHANGED sources PROVE Goal
  BY <1>1 DEF SourcesGood, WeightsKept
<1>2. ASSUME NEW source \in SourceArgs, source.weight <= MaxWeight
      PROVE  source \in LightSource /\ source \in Source
  BY <1>2, OracleConstants DEF SourceArgs, Source, LightSource
<1>3. ASSUME NEW a, NEW s, NEW source \in SourceArgs, AddOracleSource(a, s, source)
      PROVE  Goal
  BY <1>2, <1>3, SourceEnlisted, Zenon DEF AddOracleSource
<1>4. ASSUME NEW a, NEW s, RemoveSource(a, s) PROVE Goal
  BY <1>4, SourceStruck, Zenon DEF RemoveSource
<1>5. ASSUME NEW a, NEW enabled, SetBatchAggregation(a, enabled) PROVE Goal
  BY <1>1, <1>5, Zenon DEF SetBatchAggregation
<1>6. ASSUME NEW a, NEW s, NEW success, UpdateSourceReputation(a, s, success) PROVE Goal
  BY <1>6, SourcesDeactivated, Zenon DEF UpdateSourceReputation
<1>7. ASSUME NEW a, NEW p, NEW value, UpdatePropertyValuation(a, p, value) PROVE Goal
  BY <1>1, <1>7, Zenon DEF UpdatePropertyValuation, sourceVars
<1>8. ASSUME NEW a, NEW p, NEW answers, UpdateValuationFromSources(a, p, answers) PROVE Goal
  <2>1. \E S : Deactivate(S)
    BY <1>8, Zenon DEF UpdateValuationFromSources
  <2> QED
    BY <2>1, SourcesDeactivated
<1>9. ASSUME NEW a, NEW x,
             \/ AddMultisigSigner(a, x) \/ RemoveMultisigSigner(a, x) \/ SetMultisigThreshold(a, x)
             \/ ProposeMultisigAction(a) \/ ApproveMultisigProposal(a, x)
      PROVE  Goal
  BY <1>1, <1>9, Zenon DEF AddMultisigSigner, RemoveMultisigSigner, SetMultisigThreshold, ProposeMultisigAction,
     ApproveMultisigProposal, sourceVars
<1>10. ASSUME NEW a \in Voters, NEW s \in SourceIds, NEW source \in LightSource, NEW action \in {"Add", "Remove"},
              SubmitProposal(a, action, s, source)
       PROVE  Goal
  <2> DEFINE p == [action |-> action, id |-> s, source |-> source, approvals |-> <<a>>, executed |-> 1 >= multisigThreshold]
  <2>1. p \in SourceProposal
    BY FirstVoice DEF SourceProposal
  <2>2. ExecuteSourceProposal(p) \/ UNCHANGED sources
    BY <1>10, Zenon DEF SubmitProposal, sourceVars
  <2> HIDE DEF p
  <2> QED
    BY <1>1, <2>1, <2>2, ProposalCarriedOut
<1>11. ASSUME NEW a \in Voters, NEW s \in SourceIds, ProposeRemoveOracleSource(a, s) PROVE Goal
  <2> DEFINE source == [type |-> "Feed", weight |-> 0, active |-> FALSE]
  <2>1. source \in LightSource
    BY WordConstants DEF Source, LightSource, Word, MaxWeight
  <2>2. Strike(s, TRUE) \/ SubmitProposal(a, "Remove", s, source)
    BY <1>11, Zenon DEF ProposeRemoveOracleSource
  <2> HIDE DEF source
  <2> QED
    BY <1>10, <2>1, <2>2, SourceStruck
<1>12. ASSUME NEW a \in Voters, NEW s \in SourceIds, NEW source \in SourceArgs, ProposeAddOracleSource(a, s, source) PROVE Goal
  <2>1. source \in LightSource /\ source \in Source
    BY <1>2, <1>12, Zenon DEF ProposeAddOracleSource
  <2>2. Enlist(s, source, FALSE) \/ SubmitProposal(a, "Add", s, source)
    BY <1>12, Zenon DEF ProposeAddOracleSource
  <2> QED
    BY <1>10, <2>1, <2>2, SourceEnlisted
<1>13. ASSUME NEW a \in Voters, NEW i \in DOMAIN sourceProposals, ApproveSourceProposal(a, i) PROVE Goal
  <2> DEFINE p == Approved(sourceProposals[i], a)
  <2>1. ExecuteSourceProposal(p) \/ UNCHANGED sources
    BY <1>13, Zenon DEF ApproveSourceProposal, sourceVars
  <2>2. p \in SourceProposal
    <3> DEFINE o == sourceProposals[i]
               t == Append(o.approvals, a)
               enough == Len(o.approvals) + 1 >= multisigThreshold
    <3>1. o \in SourceProposal
      BY DEF ProposalsGood
    <3>2. t \in Seq(Voters) /\ enough \in BOOLEAN
      BY <3>1, SeqAppended DEF SourceProposal
    <3>3. p = [o EXCEPT !.approvals = t, !.executed = enough]
      BY DEF Approved
    <3> HIDE DEF o, p, t, enough
    <3> QED
      BY <3>1, <3>2, <3>3 DEF SourceProposal
  <2> HIDE DEF p
  <2> QED
    BY <1>1, <2>1, <2>2, ProposalCarriedOut
<1>14. SourcesNext => Goal
  BY <1>3, <1>4, <1>5, Zenon DEF SourcesNext
<1>15. ReputationsNext => Goal
  BY <1>6, Zenon DEF ReputationsNext, SlashSource
<1>16. ValuationsNext => Goal
  BY <1>7, <1>8, Zenon DEF ValuationsNext
<1>17. SignersNext => Goal
  BY <1>9, <1>11, <1>12, <1>13, Zenon DEF SignersNext
<1> QED
  BY <1>14, <1>15, <1>16, <1>17

\* A vote may give a source any weight (execute_governance_proposal).
LEMMA VotedSourcesGood == ASSUME SourcesInv, VotesNext PROVE SourcesGood'
<1> USE DEF SourcesInv
<1>1. ASSUME UNCHANGED sources PROVE SourcesGood'
  BY <1>1 DEF SourcesGood
<1>2. ASSUME NEW a, NEW b, NEW amount, SetGovernanceVotingPower(a, b, amount) PROVE SourcesGood'
  BY <1>1, <1>2, Zenon DEF SetGovernanceVotingPower, sourceVars
<1>3. ASSUME NEW a, NEW action, ProposeGovernanceAction(a, action) PROVE SourcesGood'
  BY <1>1, <1>3, Zenon DEF ProposeGovernanceAction, sourceVars
<1>4. ASSUME NEW a, NEW i, NEW support, VoteOnGovernanceProposal(a, i, support) PROVE SourcesGood'
  BY <1>1, <1>4, Zenon DEF VoteOnGovernanceProposal, sourceVars
<1>5. ASSUME NEW i \in DOMAIN oracleVotes, ExecuteGovernanceProposal(i) PROVE SourcesGood'
  <2> DEFINE action == oracleVotes[i].action
             source == [type |-> "Feed", weight |-> action.value, active |-> TRUE]
  <2>1. \/ UNCHANGED sources
        \/ action.kind = "AddSource" /\ Enlist(action.id, source, FALSE)
        \/ Strike(action.id, TRUE)
    BY <1>5, Zenon DEF ExecuteGovernanceProposal, sourceVars
  <2>2. action \in VoteActions
    <3>1. oracleVotes[i] \in OracleVote
      BY DEF VotesGood
    <3> QED
      BY <3>1 DEF OracleVote
  <2> HIDE DEF action
  <2>3. action.kind = "AddSource" => action.value \in Word
    BY <2>2, OracleConstants DEF VoteActions
  <2>4. action.kind = "AddSource" => source \in Source
    BY <2>3 DEF Source
  <2> HIDE DEF source
  <2> QED
    BY <1>1, <2>1, <2>4, SourceEnlisted, SourceStruck
<1> QED
  BY <1>2, <1>3, <1>4, <1>5, Zenon DEF VotesNext

\* One step of the oracle.
LEMMA LedgerStep ==
    ASSUME SourcesInv, SourceLedgerNext
    PROVE  SourcesInv' /\ Rightful
<1>1. ASSUME UNCHANGED signerVars
      PROVE  (ProposalsGood' <=> ProposalsGood) /\ ProposalsFinal
  BY <1>1 DEF signerVars, ProposalsGood, ProposalsFinal, Heard
<1>2. ASSUME UNCHANGED <<block, voteVars>>
      PROVE  VotesGood' <=> VotesGood
  BY <1>2 DEF voteVars, VotesGood
<1>3. ASSUME UNCHANGED sourceVars
      PROVE  (SourcesGood' <=> SourcesGood) /\ WeightsKept /\ sources' = sources
  BY <1>3 DEF sourceVars, SourcesGood, WeightsKept
<1>4. CASE SourcesNext /\ cause' = "admin"
  BY <1>1, <1>2, <1>4, SourcesFrame, SourcesStayGood DEF SourcesInv, Rightful, WeightsKept
<1>5. CASE (ReputationsNext \/ ValuationsNext) /\ cause' = "reputation"
  BY <1>1, <1>2, <1>5, ReputationsFrame, ValuationsFrame, SourcesStayGood DEF SourcesInv, Rightful, WeightsKept
<1>6. CASE SignersNext /\ cause' = "signers"
  <2>1. UNCHANGED <<block, voteVars>>
    BY <1>6, Zenon DEF SignersNext, AddMultisigSigner, RemoveMultisigSigner, SetMultisigThreshold, ProposeMultisigAction,
       ApproveMultisigProposal, ProposeRemoveOracleSource, ProposeAddOracleSource, SubmitProposal,
       ApproveSourceProposal, UnchangedBySigners
  <2> QED
    BY <1>2, <1>6, <2>1, SignersKeep, SourcesStayGood DEF SourcesInv, Rightful, BySigners, WeightsKept
<1>7. CASE VotesNext /\ cause' = "votes"
  BY <1>1, <1>7, VotesKeep, VotedSourcesGood DEF SourcesInv, Rightful
<1>8. CASE FallbacksNext \/ RequestsNext \/ SettingsNext
  BY <1>1, <1>2, <1>3, <1>8, FallbacksFrame, RequestsFrame, SettingsFrame DEF SourcesInv, Rightful, WeightsKept
<1>9. CASE NextBlock /\ UNCHANGED oracleVars
  <2>1. UNCHANGED <<sourceVars, signerVars, voteVars>> /\ (block \in Nat => block' \in Nat)
    BY <1>9 DEF oracleVars, NextBlock
  <2>2. VotesGood'
    BY <2>1 DEF SourcesInv, VotesGood, voteVars
  <2> QED
    BY <1>1, <1>3, <2>1, <2>2 DEF SourcesInv, Rightful, WeightsKept
<1> QED
  BY <1>4, <1>5, <1>6, <1>7, <1>8, <1>9, Zenon DEF SourceLedgerNext

\* The sources and their weights change only by the admin, by a reputation, by a proposal that
\* is executed once after as many different accounts as the threshold asks for have spoken, or
\* by a vote that has carried, and only a vote gives a weight above 100, whoever calls whatever
\* in between (add_oracle_source, approve_source_proposal, execute_governance_proposal).
THEOREM SourcesAlwaysChangeByRight == SourceLedgerSpec => SourcesChangeByRight
<1>1. ChainInit /\ OracleInit => SourcesInv
  BY DEF ChainInit, OracleInit, SourcesInv, VotesGood, ProposalsGood, SourcesGood
<1>2. SourcesInv /\ [SourceLedgerNext]_<<block, oracleVars, cause>> => SourcesInv' /\ [Rightful]_mcVars
  <2> SUFFICES ASSUME SourcesInv, [SourceLedgerNext]_<<block, oracleVars, cause>>
               PROVE  SourcesInv' /\ Rightful
    OBVIOUS
  <2>1. CASE SourceLedgerNext
    BY <2>1, LedgerStep
  <2>2. CASE UNCHANGED <<block, oracleVars, cause>>
    BY <2>2 DEF oracleVars, sourceVars, signerVars, voteVars, SourcesInv, VotesGood, ProposalsGood,
       SourcesGood, Heard, Rightful, ProposalsFinal
  <2> QED
    BY <2>1, <2>2
<1> QED
  BY <1>1, <1>2, PTL DEF SourceLedgerSpec, SourcesChangeByRight, Rightful, Executes, ByVotes, ProposalsFinal

----
(***************************************************************************)
(* Figures kept beside a list of records: how many of them are of a kind,  *)
(* and the sum of a value over those. The books of property management and *)
(* of the auctions are such figures.                                       *)
(***************************************************************************)
Places(s, G) == {i \in DOMAIN s : s[i] \in G}
WeightIn(s, v, G) == SumFunctionOnSet([i \in DOMAIN s |-> v[s[i]]], Places(s, G))

\* What one record counts and weighs.
One(r, G) == IF r \in G THEN 1 ELSE 0
Part(r, v, G) == IF r \in G THEN v[r] ELSE 0

\* The places of a list are finitely many, their weights are natural.
LEMMA PlacesNumbers ==
    ASSUME NEW S, NEW s \in Seq(S), NEW v \in [S -> Nat], NEW G
    PROVE  /\ IsFiniteSet(Places(s, G)) /\ Cardinality(Places(s, G)) \in Nat /\ WeightIn(s, v, G) \in Nat
           /\ \A n \in DOMAIN s : /\ One(s[n], G) \in Nat /\ One(s[n], G) <= Cardinality(Places(s, G))
                                  /\ Part(s[n], v, G) \in Nat /\ Part(s[n], v, G) <= WeightIn(s, v, G)
<1> DEFINE T == Places(s, G)
           f == [i \in DOMAIN s |-> v[s[i]]]
<1>1. Len(s) \in Nat /\ DOMAIN s = 1..Len(s) /\ \A i \in DOMAIN s : s[i] \in S /\ v[s[i]] \in Nat
  OBVIOUS
<1>2. IsFiniteSet(DOMAIN s)
  BY <1>1, FS_Interval
<1>3. IsFiniteSet(T) /\ Cardinality(T) \in Nat
  BY <1>2, FS_Subset, FS_CardinalityType DEF Places
<1>4. \A i \in T : f[i] \in Nat
  BY <1>1 DEF Places
<1>5. SumFunctionOnSet(f, T) \in Nat /\ \A i \in T : f[i] <= SumFunctionOnSet(f, T)
  <2> HIDE DEF f, T
  <2> QED
    BY <1>3, <1>4, SumNatural
<1>6. \A i \in T : 1 <= Cardinality(T)
  <2> SUFFICES ASSUME NEW i \in T PROVE 1 <= Cardinality(T)
    OBVIOUS
  <2>1. Cardinality(T) # 0
    BY <1>3, FS_EmptySet
  <2> HIDE DEF T
  <2> QED
    BY <1>3, <2>1
<1>7. WeightIn(s, v, G) = SumFunctionOnSet(f, T)
  BY DEF WeightIn
<1> SUFFICES ASSUME NEW n \in DOMAIN s
             PROVE  /\ One(s[n], G) \in Nat /\ One(s[n], G) <= Cardinality(T)
                    /\ Part(s[n], v, G) \in Nat /\ Part(s[n], v, G) <= SumFunctionOnSet(f, T)
  BY <1>3, <1>5, <1>7
<1>8. s[n] \in G <=> n \in T
  BY DEF Places
<1>9. n \in T => f[n] = v[s[n]] /\ v[s[n]] \in Nat
  BY <1>1
<1> HIDE DEF T, f
<1> QED
  BY <1>3, <1>5, <1>6, <1>8, <1>9 DEF One, Part

\* One record of a list is written.
LEMMA RecordWritten ==
    ASSUME NEW S, NEW s \in Seq(S), NEW v \in [S -> Nat], NEW G, NEW n \in DOMAIN s, NEW d \in S
    PROVE  /\ Cardinality(Places(Written(s, n, d), G)) = Cardinality(Places(s, G)) - One(s[n], G) + One(d, G)
           /\ WeightIn(Written(s, n, d), v, G) = WeightIn(s, v, G) - Part(s[n], v, G) + Part(d, v, G)
<1> DEFINE t == Written(s, n, d)
           U == Places(s, G)
           T == Places(t, G)
           f == [i \in DOMAIN s |-> v[s[i]]]
           g == [i \in DOMAIN t |-> v[t[i]]]
<1>1. t \in Seq(S) /\ DOMAIN t = DOMAIN s /\ t[n] = d /\ \A m \in DOMAIN s \ {n} : t[m] = s[m]
  BY SeqWritten
<1> HIDE DEF t
<1>2. IsFiniteSet(U)
  BY PlacesNumbers
<1>3. T \ {n} = U \ {n} /\ (n \in U <=> s[n] \in G) /\ (n \in T <=> d \in G)
  BY <1>1 DEF Places
<1>4. /\ \A i \in U \ {n} : f[i] \in Int /\ g[i] = f[i]
      /\ f[n] = v[s[n]] /\ g[n] = v[d] /\ v[s[n]] \in Int /\ v[d] \in Int
  BY <1>1 DEF Places
<1>5. WeightIn(s, v, G) = SumFunctionOnSet(f, U) /\ WeightIn(t, v, G) = SumFunctionOnSet(g, T)
  BY DEF WeightIn
<1> DEFINE old == Part(s[n], v, G)
           new == Part(d, v, G)
<1> HIDE DEF U, T, f, g
<1>6. Cardinality(T) = Cardinality(U) - One(s[n], G) + One(d, G)
  <2>1. Cardinality(T) = Cardinality(U) - (IF n \in U THEN 1 ELSE 0) + (IF n \in T THEN 1 ELSE 0)
    BY <1>2, <1>3, CountSwap
  <2> QED
    BY <1>3, <2>1 DEF One
<1>7. /\ old \in Int /\ new \in Int /\ (n \in U => f[n] = old) /\ (n \notin U => old = 0)
      /\ (n \in T => g[n] = new) /\ (n \notin T => new = 0)
  BY <1>3, <1>4 DEF Part
<1> HIDE DEF old, new
<1>8. SumFunctionOnSet(g, T) = SumFunctionOnSet(f, U) - old + new
  BY <1>2, <1>3, <1>4, <1>7, SumSwap
<1> QED
  BY <1>5, <1>6, <1>8 DEF T, U, old, new, t

\* A record is added to a list.
LEMMA RecordAppended ==
    ASSUME NEW S, NEW s \in Seq(S), NEW v \in [S -> Nat], NEW G, NEW d \in S
    PROVE  /\ Cardinality(Places(Append(s, d), G)) = Cardinality(Places(s, G)) + One(d, G)
           /\ WeightIn(Append(s, d), v, G) = WeightIn(s, v, G) + Part(d, v, G)
<1> DEFINE t == Append(s, d)
           n == Len(s) + 1
           U == Places(s, G)
           T == Places(t, G)
           f == [i \in DOMAIN s |-> v[s[i]]]
           g == [i \in DOMAIN t |-> v[t[i]]]
<1>1. /\ t \in Seq(S) /\ DOMAIN t = DOMAIN s \cup {n} /\ n \notin DOMAIN s
      /\ t[n] = d /\ \A m \in DOMAIN s : t[m] = s[m]
  BY SeqAppended
<1> HIDE DEF t, n
<1>2. IsFiniteSet(U) /\ Cardinality(U) \in Nat /\ WeightIn(s, v, G) \in Nat
  BY PlacesNumbers
<1>3. T \ {n} = U \ {n} /\ n \notin U /\ (n \in T <=> d \in G)
  BY <1>1 DEF Places
<1>4. /\ \A i \in U \ {n} : f[i] \in Int /\ g[i] = f[i]
      /\ g[n] = v[d] /\ v[d] \in Int
  BY <1>1 DEF Places
<1>5. WeightIn(s, v, G) = SumFunctionOnSet(f, U) /\ WeightIn(t, v, G) = SumFunctionOnSet(g, T)
  BY DEF WeightIn
<1> DEFINE new == Part(d, v, G)
<1> HIDE DEF U, T, f, g
<1>6. Cardinality(T) = Cardinality(U) + One(d, G)
  BY <1>2, <1>3, CountSwap DEF One
<1>7. new \in Int /\ (n \in T => g[n] = new) /\ (n \notin T => new = 0)
  BY <1>3, <1>4 DEF Part
<1> HIDE DEF new
<1>8. SumFunctionOnSet(g, T) = SumFunctionOnSet(f, U) - 0 + new
  BY <1>2, <1>3, <1>4, <1>7, SumSwap
<1> QED
  BY <1>2, <1>5, <1>6, <1>7, <1>8 DEF T, U, new, t

\* The same of the number alone.
LEMMA CountWritten ==
    ASSUME NEW S, NEW s \in Seq(S), NEW G, NEW n \in DOMAIN s, NEW d \in S
    PROVE  /\ Cardinality(Places(Written(s, n, d), G)) = Cardinality(Places(s, G)) - One(s[n], G) + One(d, G)
           /\ Cardinality(Places(s, G)) \in Nat /\ One(s[n], G) \in Nat /\ One(s[n], G) <= Cardinality(Places(s, G))
           /\ Written(s, n, d) \in Seq(S)
<1> DEFINE v == [x \in S |-> 0]
<1>1. v \in [S -> Nat]
  OBVIOUS
<1> HIDE DEF v
<1>2. Cardinality(Places(Written(s, n, d), G)) = Cardinality(Places(s, G)) - One(s[n], G) + One(d, G)
  BY <1>1, RecordWritten
<1>3. Cardinality(Places(s, G)) \in Nat /\ One(s[n], G) \in Nat /\ One(s[n], G) <= Cardinality(Places(s, G))
  BY <1>1, PlacesNumbers
<1> QED
  BY <1>2, <1>3, SeqWritten

LEMMA CountAppended ==
    ASSUME NEW S, NEW s \in Seq(S), NEW G, NEW d \in S
    PROVE  /\ Cardinality(Places(Append(s, d), G)) = Cardinality(Places(s, G)) + One(d, G)
           /\ Cardinality(Places(s, G)) \in Nat /\ Append(s, d) \in Seq(S)
<1> DEFINE v == [x \in S |-> 0]
<1>1. v \in [S -> Nat]
  OBVIOUS
<1> HIDE DEF v
<1>2. Cardinality(Places(Append(s, d), G)) = Cardinality(Places(s, G)) + One(d, G)
  BY <1>1, RecordAppended
<1>3. Cardinality(Places(s, G)) \in Nat
  BY <1>1, PlacesNumbers
<1> QED
  BY <1>2, <1>3, SeqAppended

----
(***************************************************************************)
(* Property management. The contract holds its float and the stakes of the *)
(* disputes that are not resolved, and nothing else: rent passes through.  *)
(* The expenses of a property are all that were ever recorded for it, paid *)
(* or not, so that the paid ones are part of them.                         *)
(***************************************************************************)
ActiveLeases == {l \in Lease : l.status = "Active"}
RentPaid == [l \in Lease |-> l.rent * l.paid]
OpenRequests == {r \in MaintenanceRequest : r.status \in OpenStatuses}
PendingScreenings == {r \in TenantScreening : r.status = "Pending"}
OfBuilding(b) == {e \in Expense : e.building = b}
Cost == [e \in Expense |-> e.amount]
\* Until the other side stakes it has nothing in escrow.
CleanDispute == {d \in Dispute : d.status = "AwaitingCounterparty" => d.respondentStake = 0}
OpenCases == {d \in CleanDispute : d.status \in OpenDisputes}
StakesOf == [d \in CleanDispute |-> Stakes(d)]

LeasesGood(list, count, rent) ==
    /\ list \in Seq(Lease)
    /\ count = Cardinality(Places(list, ActiveLeases)) /\ rent = WeightIn(list, RentPaid, Lease)
RequestsGood(list, count) ==
    list \in Seq(MaintenanceRequest) /\ count <= Cardinality(Places(list, OpenRequests))
ScreeningsGood(list, count) ==
    list \in Seq(TenantScreening) /\ count = Cardinality(Places(list, PendingScreenings))
ExpensesGood(list, figures) ==
    list \in Seq(Expense) /\ \A b \in Buildings : figures[b].expenses = WeightIn(list, Cost, OfBuilding(b))
DisputesGood(list, count, locked) ==
    /\ list \in Seq(CleanDispute)
    /\ count = Cardinality(Places(list, OpenCases)) /\ locked = WeightIn(list, StakesOf, OpenCases)
FiguresGood(figures, rent) ==
    /\ figures \in [Buildings -> PropertyAnalytics]
    /\ rent = SumFunctionOnSet([b \in Buildings |-> figures[b].rent], Buildings)
MotionsGood(motions, cast) ==
    /\ motions \in [DOMAIN motions -> [for : Nat, against : Nat]] /\ IsFiniteSet(cast)
    /\ \A id \in DOMAIN motions : motions[id].for + motions[id].against <= Cardinality({v \in cast : v[1] = id})
MoneyGood == operatingFloat \in Nat /\ escrowLocked \in Nat /\ held = operatingFloat + escrowLocked

ManagementInv ==
    /\ dashboard \in Dashboard /\ inspections \in Seq(Inspection) /\ MoneyGood
    /\ LeasesGood(leases, dashboard.leases, dashboard.rent)
    /\ RequestsGood(maintenance, dashboard.maintenance)
    /\ ScreeningsGood(screenings, dashboard.screenings)
    /\ ExpensesGood(expenses, analytics)
    /\ DisputesGood(disputes, dashboard.disputes, escrowLocked)
    /\ FiguresGood(analytics, dashboard.rent)
    /\ MotionsGood(proposals, proposalVotes)

\* Rents, amounts and stakes of records are numbers.
LEMMA ManagementFacts ==
    /\ IsFiniteSet(Buildings)
    /\ \A a \in Amounts \cup FeeRates : a \in Nat
    /\ RentPaid \in [Lease -> Nat] /\ Cost \in [Expense -> Nat] /\ StakesOf \in [CleanDispute -> Nat]
    /\ \A x \in Landlords \cup Tenants \cup {Manager, PMAdmin} : x \in People
<1>1. \A l \in Lease : l.rent * l.paid \in Nat
  BY Products DEF Lease
<1>2. \A e \in Expense : e.amount \in Nat
  BY DEF Expense
<1>3. \A d \in CleanDispute : Stakes(d) \in Nat
  BY DEF CleanDispute, Dispute, Stakes
<1> QED
  BY <1>1, <1>2, <1>3, ManagementConstants DEF RentPaid, Cost, StakesOf, People

\* The rents of the properties add up to the rent of the dashboard when one of them changes.
LEMMA RentWritten ==
    ASSUME NEW figures, NEW rent, FiguresGood(figures, rent), NEW b \in Buildings, NEW r \in PropertyAnalytics
    PROVE  FiguresGood(Written(figures, b, r), rent - figures[b].rent + r.rent)
<1> DEFINE new == Written(figures, b, r)
           f == [c \in Buildings |-> figures[c].rent]
           g == [c \in Buildings |-> new[c].rent]
<1>1. figures \in [Buildings -> PropertyAnalytics] /\ rent = SumFunctionOnSet(f, Buildings)
  BY DEF FiguresGood
<1>2. new \in [Buildings -> PropertyAnalytics] /\ new[b] = r /\ \A c \in Buildings \ {b} : new[c] = figures[c]
  BY <1>1 DEF Written
<1> HIDE DEF new
<1>3. /\ \A c \in Buildings : f[c] \in Int /\ g[c] \in Int
      /\ \A c \in Buildings \ {b} : f[c] = g[c]
      /\ f[b] = figures[b].rent /\ g[b] = r.rent
  BY <1>1, <1>2 DEF PropertyAnalytics
<1>4. SumFunctionOnSet(g, Buildings) = SumFunctionOnSet(f, Buildings) - f[b] + g[b]
  BY <1>3, ManagementFacts, SumChange
<1>5. SumFunctionOnSet(g, Buildings) = rent - figures[b].rent + r.rent
  BY <1>1, <1>3, <1>4
<1> QED
  BY <1>2, <1>5 DEF FiguresGood, new

\* Figures other than the expenses leave the expenses alone.
LEMMA ExpensesKept ==
    ASSUME NEW list, NEW figures \in [Buildings -> PropertyAnalytics], ExpensesGood(list, figures),
           NEW b \in Buildings, NEW r \in PropertyAnalytics, r.expenses = figures[b].expenses
    PROVE  ExpensesGood(list, Written(figures, b, r))
  BY DEF Written, ExpensesGood

\* A figure that is neither rent nor expenses changes.
LEMMA FigureWritten ==
    ASSUME NEW list, NEW figures, NEW rent \in Nat, FiguresGood(figures, rent), ExpensesGood(list, figures),
           NEW b \in Buildings, NEW r \in PropertyAnalytics, r.rent = figures[b].rent, r.expenses = figures[b].expenses
    PROVE  FiguresGood(Written(figures, b, r), rent) /\ ExpensesGood(list, Written(figures, b, r))
  BY RentWritten, ExpensesKept DEF FiguresGood, PropertyAnalytics

\* A lease is created, active and with nothing paid (create_lease).
LEMMA CreateLeaseKeeps ==
    ASSUME ManagementInv, NEW a \in People, NEW b \in Buildings, NEW t \in Tenants, NEW l \in Landlords,
           NEW rent \in Amounts, NEW fee \in FeeRates, NEW deposit, CreateLease(a, b, t, l, rent, fee, deposit)
    PROVE  ManagementInv'
<1>0. fee <= BasisPoints
  BY DEF CreateLease
<1> DEFINE d == [building |-> b, tenant |-> t, landlord |-> l, rent |-> rent, paid |-> 0, fee |-> fee, status |-> "Active"]
<1>1. /\ leases' = Append(leases, d) /\ dashboard' = [dashboard EXCEPT !.leases = dashboard.leases + 1]
      /\ UNCHANGED <<maintenance, screenings, expenses, inspections, disputes, proposals, proposalVotes,
                     operatingFloat, escrowLocked, held, analytics>>
  BY DEF CreateLease, motionVars, moneyVars
<1>2. d \in Lease /\ One(d, ActiveLeases) = 1 /\ Part(d, RentPaid, Lease) = 0
  <2>1. rent \in Nat /\ fee \in Nat /\ t \in People /\ l \in People
    BY ManagementFacts
  <2>2. d \in Lease /\ d.status = "Active" /\ d.rent * d.paid = 0
    <3>1. fee \in 0..BasisPoints
      BY <1>0, <2>1, SMTT(30) DEF BasisPoints
    <3>2. d \in Lease /\ d.status = "Active" /\ d.rent = rent /\ d.paid = 0
      BY <2>1, <3>1 DEF Lease
    <3> QED
      BY <2>1, <3>2, Products
  <2> HIDE DEF d
  <2> QED
    BY <2>2 DEF One, Part, ActiveLeases, RentPaid
<1> HIDE DEF d
<1>3. /\ dashboard' \in Dashboard /\ dashboard'.leases = dashboard.leases + 1 /\ dashboard'.rent = dashboard.rent
      /\ dashboard'.maintenance = dashboard.maintenance /\ dashboard'.screenings = dashboard.screenings
      /\ dashboard'.disputes = dashboard.disputes /\ dashboard.rent \in Nat
  BY <1>1 DEF ManagementInv, Dashboard
<1>4. LeasesGood(leases, dashboard.leases, dashboard.rent)'
  <2>1. leases \in Seq(Lease) /\ RentPaid \in [Lease -> Nat]
    BY ManagementFacts DEF ManagementInv, LeasesGood
  <2>2. leases' \in Seq(Lease)
    BY <1>1, <1>2, <2>1, SeqAppended
  <2>3. /\ Cardinality(Places(leases', ActiveLeases)) = dashboard.leases + 1
        /\ WeightIn(leases', RentPaid, Lease) = dashboard.rent + 0
    BY <1>1, <1>2, <2>1, RecordAppended DEF ManagementInv, LeasesGood
  <2> QED
    BY <1>3, <2>2, <2>3 DEF LeasesGood
<1> QED
  BY <1>1, <1>3, <1>4 DEF ManagementInv, MoneyGood

\* A rent comes in, is counted for the property, the lease and the dashboard, and goes out again
\* in two parts (pay_rent).
LEMMA PayRentKeeps ==
    ASSUME ManagementInv, NEW a \in People, NEW id \in DOMAIN leases, NEW value, PayRent(a, id, value)
    PROVE  ManagementInv'
<1> DEFINE o == leases[id]
           b == o.building
           d == [o EXCEPT !.paid = o.paid + 1]
           r == [analytics[b] EXCEPT !.rent = analytics[b].rent + value]
<1>1. /\ leases' = Written(leases, id, d) /\ analytics' = Written(analytics, b, r)
      /\ dashboard' = [dashboard EXCEPT !.rent = dashboard.rent + value]
      /\ UNCHANGED <<maintenance, screenings, expenses, inspections, disputes, proposals, proposalVotes, operatingFloat, escrowLocked>>
  BY DEF PayRent, motionVars, Written
<1>2. o.status = "Active" /\ value = o.rent /\ held' = held + value - LandlordShare(o) - RentFee(o)
  BY DEF PayRent
<1>3. o \in Lease /\ leases \in Seq(Lease) /\ analytics \in [Buildings -> PropertyAnalytics] /\ dashboard.rent \in Nat
  BY DEF ManagementInv, LeasesGood, FiguresGood, Dashboard
<1>4. value = o.rent /\ o.status = "Active" /\ o \in Lease
  BY <1>2, <1>3
<1> HIDE DEF o
<1>5. b \in Buildings /\ value \in Nat /\ o.rent \in Nat /\ o.paid \in Nat /\ o.fee \in Nat
  BY <1>4 DEF Lease
<1>6. /\ dashboard' \in Dashboard /\ dashboard'.rent = dashboard.rent + value /\ dashboard'.leases = dashboard.leases
      /\ dashboard'.maintenance = dashboard.maintenance /\ dashboard'.screenings = dashboard.screenings
      /\ dashboard'.disputes = dashboard.disputes
  <2>1. dashboard' = [dashboard EXCEPT !.rent = dashboard.rent + value]
    BY <1>1
  <2>2. dashboard \in Dashboard
    BY DEF ManagementInv
  <2> QED
    BY <1>5, <2>1, <2>2 DEF Dashboard
<1>7. held' = held
  <2>1. o.rent * o.fee \in Nat
    BY <1>5, Products
  <2>2. RentFee(o) \in Nat
    BY <2>1, RoundedDown DEF RentFee, BasisPoints
  <2>3. LandlordShare(o) = value - RentFee(o)
    BY <1>2 DEF LandlordShare
  <2>4. held \in Int
    BY DEF ManagementInv, MoneyGood
  <2> QED
    BY <1>2, <1>5, <2>2, <2>3, <2>4
<1>8. dashboard \in Dashboard /\ analytics[b] \in PropertyAnalytics
  BY <1>3, <1>5 DEF ManagementInv
<1> HIDE DEF b
<1>9. /\ d \in Lease /\ d.status = "Active" /\ d.rent = o.rent /\ d.paid = o.paid + 1
  BY <1>4, <1>5 DEF Lease
<1> DEFINE old == analytics[b]
<1> HIDE DEF old
<1>10. r \in PropertyAnalytics /\ r.rent = old.rent + value /\ r.expenses = old.expenses /\ old.rent \in Nat
  BY <1>8, <1>5 DEF old, PropertyAnalytics
<1> HIDE DEF d, r
<1>11. /\ One(d, ActiveLeases) = 1 /\ One(o, ActiveLeases) = 1
      /\ Part(d, RentPaid, Lease) = Part(o, RentPaid, Lease) + value /\ Part(o, RentPaid, Lease) \in Nat
  <2>1. o.rent * (o.paid + 1) = o.rent * o.paid + o.rent /\ o.rent * o.paid \in Nat
    BY <1>5, Products
  <2>2. RentPaid[d] = d.rent * d.paid /\ RentPaid[o] = o.rent * o.paid
    BY <1>3, <1>9 DEF RentPaid
  <2> QED
    BY <1>2, <1>3, <1>9, <2>1, <2>2 DEF One, Part, ActiveLeases
<1>12. LeasesGood(leases, dashboard.leases, dashboard.rent)'
  <2>1. /\ leases' \in Seq(Lease) /\ RentPaid \in [Lease -> Nat]
        /\ Cardinality(Places(leases, ActiveLeases)) \in Nat
    BY <1>1, <1>3, <1>9, SeqWritten, ManagementFacts, PlacesNumbers
  <2>2. /\ Cardinality(Places(leases', ActiveLeases)) = Cardinality(Places(leases, ActiveLeases)) - One(o, ActiveLeases) + One(d, ActiveLeases)
        /\ WeightIn(leases', RentPaid, Lease) = WeightIn(leases, RentPaid, Lease) - Part(o, RentPaid, Lease) + Part(d, RentPaid, Lease)
    BY <1>1, <1>3, <1>9, <2>1, RecordWritten, SMTT(30) DEF o
  <2>3. dashboard'.leases = dashboard.leases /\ dashboard'.rent = dashboard.rent + value
    BY <1>6
  <2>4. /\ Cardinality(Places(leases, ActiveLeases)) = dashboard.leases
        /\ WeightIn(leases, RentPaid, Lease) = dashboard.rent
    BY DEF ManagementInv, LeasesGood
  <2> QED
    BY <1>3, <1>5, <1>11, <2>1, <2>2, <2>3, <2>4, SMTT(30) DEF LeasesGood
<1>13. FiguresGood(analytics, dashboard.rent)'
  BY <1>5, <1>10, RentWritten, <1>3, <1>1, <1>6 DEF ManagementInv, old
<1>14. ExpensesGood(expenses, analytics)'
  BY <1>3, <1>5, <1>10, ExpensesKept, <1>1 DEF ManagementInv, old
<1> QED
  BY <1>1, <1>7, <1>12, <1>6, <1>13, <1>14 DEF ManagementInv, MoneyGood

\* An active lease ends (end_lease).
LEMMA EndLeaseKeeps ==
    ASSUME ManagementInv, NEW a \in People, NEW id \in DOMAIN leases, EndLease(a, id)
    PROVE  ManagementInv'
<1> DEFINE o == leases[id]
           d == [o EXCEPT !.status = "Ended"]
<1>1. /\ leases' = Written(leases, id, d) /\ dashboard' = [dashboard EXCEPT !.leases = Down(dashboard.leases)]
      /\ o.status = "Active"
      /\ UNCHANGED <<maintenance, screenings, expenses, inspections, disputes, proposals, proposalVotes,
                     operatingFloat, escrowLocked, held, analytics>>
  BY DEF EndLease, motionVars, moneyVars, Written
<1>2. o \in Lease /\ leases \in Seq(Lease) /\ RentPaid \in [Lease -> Nat] /\ dashboard \in Dashboard
  BY ManagementFacts DEF ManagementInv, LeasesGood
<1> HIDE DEF o
<1>3. d \in Lease /\ d.status = "Ended" /\ d.rent = o.rent /\ d.paid = o.paid
  BY <1>2 DEF Lease
<1> HIDE DEF d
<1>4. /\ One(o, ActiveLeases) = 1 /\ One(d, ActiveLeases) = 0
      /\ Part(d, RentPaid, Lease) = Part(o, RentPaid, Lease) /\ Part(o, RentPaid, Lease) \in Nat
  BY <1>2, <1>3, <1>1 DEF RentPaid, One, Part, ActiveLeases
<1>5. /\ leases' \in Seq(Lease) /\ dashboard.leases \in Nat /\ dashboard.leases >= 1 /\ dashboard.rent \in Nat
      /\ Cardinality(Places(leases', ActiveLeases)) = dashboard.leases - 1
      /\ WeightIn(leases', RentPaid, Lease) = dashboard.rent
  <2>1. /\ Cardinality(Places(leases, ActiveLeases)) \in Nat /\ One(o, ActiveLeases) <= Cardinality(Places(leases, ActiveLeases))
        /\ WeightIn(leases, RentPaid, Lease) \in Nat
    BY <1>2, PlacesNumbers DEF o
  <2>2. /\ Cardinality(Places(leases', ActiveLeases)) = Cardinality(Places(leases, ActiveLeases)) - One(o, ActiveLeases) + One(d, ActiveLeases)
        /\ WeightIn(leases', RentPaid, Lease) = WeightIn(leases, RentPaid, Lease) - Part(o, RentPaid, Lease) + Part(d, RentPaid, Lease)
    BY <1>1, <1>2, <1>3, RecordWritten DEF o
  <2>3. /\ Cardinality(Places(leases, ActiveLeases)) = dashboard.leases
        /\ WeightIn(leases, RentPaid, Lease) = dashboard.rent
    BY DEF ManagementInv, LeasesGood
  <2>4. leases' \in Seq(Lease)
    BY <1>1, <1>2, <1>3, SeqWritten
  <2> QED
    BY <1>4, <2>1, <2>2, <2>3, <2>4
<1>6. /\ dashboard' \in Dashboard /\ dashboard'.leases = dashboard.leases - 1 /\ dashboard'.rent = dashboard.rent
      /\ dashboard'.maintenance = dashboard.maintenance /\ dashboard'.screenings = dashboard.screenings
      /\ dashboard'.disputes = dashboard.disputes
  <2>1. Down(dashboard.leases) = dashboard.leases - 1 /\ Down(dashboard.leases) \in Nat
    BY <1>5 DEF Down
  <2> QED
    BY <1>1, <1>2, <2>1 DEF Dashboard
<1>7. LeasesGood(leases, dashboard.leases, dashboard.rent)'
  BY <1>5, <1>6 DEF LeasesGood
<1> QED
  BY <1>1, <1>6, <1>7 DEF ManagementInv, MoneyGood

\* The figures of a property and the dashboard count a maintenance request that comes in
\* (submit_maintenance_request).
LEMMA SubmitRequestKeeps ==
    ASSUME ManagementInv, NEW a \in People, NEW b \in Buildings, SubmitMaintenanceRequest(a, b)
    PROVE  ManagementInv'
<1> DEFINE d == [building |-> b, requester |-> a, assigned |-> "none", status |-> "Submitted"]
           old == analytics[b]
           r == [old EXCEPT !.open = old.open + 1]
<1>1. /\ maintenance' = Append(maintenance, d) /\ analytics' = Written(analytics, b, r)
      /\ dashboard' = [dashboard EXCEPT !.maintenance = dashboard.maintenance + 1]
      /\ UNCHANGED <<leases, screenings, expenses, inspections, disputes, proposals, proposalVotes,
                     operatingFloat, escrowLocked, held>>
  BY DEF SubmitMaintenanceRequest, motionVars, moneyVars, Written
<1>2. maintenance \in Seq(MaintenanceRequest) /\ old \in PropertyAnalytics /\ dashboard \in Dashboard
  BY DEF ManagementInv, RequestsGood, FiguresGood
<1>3. d \in MaintenanceRequest /\ One(d, OpenRequests) = 1
  BY DEF MaintenanceRequest, OpenStatuses, OpenRequests, One
<1> HIDE DEF d, old
<1>4. r \in PropertyAnalytics /\ r.rent = old.rent /\ r.expenses = old.expenses
  BY <1>2 DEF PropertyAnalytics
<1> HIDE DEF r
<1>5. /\ dashboard' \in Dashboard /\ dashboard'.leases = dashboard.leases /\ dashboard'.rent = dashboard.rent
      /\ dashboard'.maintenance = dashboard.maintenance + 1 /\ dashboard'.screenings = dashboard.screenings
      /\ dashboard'.disputes = dashboard.disputes /\ dashboard.rent \in Nat /\ dashboard.maintenance \in Nat
  <2>1. dashboard' = [dashboard EXCEPT !.maintenance = dashboard.maintenance + 1]
    BY <1>1
  <2> QED
    BY <1>2, <2>1 DEF Dashboard
<1>6. RequestsGood(maintenance, dashboard.maintenance)'
  BY <1>1, <1>2, <1>3, CountAppended, <1>5 DEF ManagementInv, RequestsGood
<1>7. FiguresGood(analytics, dashboard.rent)' /\ ExpensesGood(expenses, analytics)'
  BY <1>4, <1>5, FigureWritten, <1>1 DEF ManagementInv, old
<1> QED
  BY <1>1, <1>5, <1>6, <1>7 DEF ManagementInv, MoneyGood

\* A request that is closed is counted out only if it was open, so that no more are counted as
\* open than are (update_maintenance_status, resolve_maintenance).
LEMMA RequestStatusKeeps ==
    ASSUME ManagementInv, NEW id \in DOMAIN maintenance, NEW status \in OpenStatuses \cup {"Resolved", "Cancelled"},
           NEW assigned \in People \cup {"none"},
           maintenance' = [maintenance EXCEPT ![id] = [@ EXCEPT !.status = status, !.assigned = assigned]],
           Closed(maintenance[id], status),
           UNCHANGED <<leases, screenings, expenses, inspections, disputes, proposals, proposalVotes,
                       operatingFloat, escrowLocked, held>>
    PROVE  ManagementInv'
<1> DEFINE o == maintenance[id]
           d == [o EXCEPT !.status = status, !.assigned = assigned]
           b == o.building
           old == analytics[b]
           r == [old EXCEPT !.open = Down(old.open), !.resolved = IF status = "Resolved" THEN old.resolved + 1 ELSE old.resolved]
           closes == o.status \in OpenStatuses /\ status \notin OpenStatuses
           count == Cardinality(Places(maintenance, OpenRequests))
           after == Cardinality(Places(maintenance', OpenRequests))
<1>1. maintenance' = Written(maintenance, id, d)
  BY DEF Written
<1>2. o \in MaintenanceRequest /\ maintenance \in Seq(MaintenanceRequest) /\ dashboard \in Dashboard
  BY DEF ManagementInv, RequestsGood
<1>3. \/ /\ closes /\ analytics' = Written(analytics, b, r)
         /\ dashboard' = [dashboard EXCEPT !.maintenance = Down(dashboard.maintenance)]
      \/ ~closes /\ UNCHANGED <<analytics, dashboard>>
  BY DEF Closed, Written
<1>4. o \in MaintenanceRequest
  BY <1>2
<1> HIDE DEF o
<1>5. d \in MaintenanceRequest /\ d.status = status /\ b \in Buildings
  BY <1>4 DEF MaintenanceRequest
<1> HIDE DEF d, b
<1>6. /\ One(o, OpenRequests) = (IF o.status \in OpenStatuses THEN 1 ELSE 0)
      /\ One(d, OpenRequests) = (IF status \in OpenStatuses THEN 1 ELSE 0)
  BY <1>4, <1>5 DEF One, OpenRequests
<1>7. /\ count \in Nat /\ One(o, OpenRequests) <= count
      /\ after = count - One(o, OpenRequests) + One(d, OpenRequests)
      /\ maintenance' \in Seq(MaintenanceRequest)
  <2>1. /\ Cardinality(Places(Written(maintenance, id, d), OpenRequests))
              = Cardinality(Places(maintenance, OpenRequests)) - One(maintenance[id], OpenRequests) + One(d, OpenRequests)
        /\ Cardinality(Places(maintenance, OpenRequests)) \in Nat /\ One(maintenance[id], OpenRequests) \in Nat
        /\ One(maintenance[id], OpenRequests) <= Cardinality(Places(maintenance, OpenRequests))
        /\ Written(maintenance, id, d) \in Seq(MaintenanceRequest)
    BY <1>2, <1>5, CountWritten
  <2> QED
    BY <1>1, <2>1 DEF o
<1>8. dashboard.maintenance <= count /\ dashboard.maintenance \in Nat /\ dashboard.rent \in Nat
  BY <1>2 DEF ManagementInv, RequestsGood, Dashboard
<1> HIDE DEF count, after
<1>9. old \in PropertyAnalytics
  BY <1>5 DEF ManagementInv, FiguresGood
<1> HIDE DEF old
<1>10. r \in PropertyAnalytics /\ r.rent = old.rent /\ r.expenses = old.expenses
  <2>1. old.open \in Nat /\ old.resolved \in Nat
    BY <1>9 DEF PropertyAnalytics
  <2> DEFINE x == Down(old.open)
             y == IF status = "Resolved" THEN old.resolved + 1 ELSE old.resolved
  <2>2. x \in Nat /\ y \in Nat /\ r = [old EXCEPT !.open = x, !.resolved = y]
    BY <2>1 DEF Down
  <2> HIDE DEF x, y, r
  <2> QED
    BY <1>9, <2>2 DEF PropertyAnalytics
<1> HIDE DEF r
<1>11. CASE closes
  <2>1. analytics' = Written(analytics, b, r) /\ dashboard' = [dashboard EXCEPT !.maintenance = Down(dashboard.maintenance)]
    BY <1>3, <1>11
  <2>2. Down(dashboard.maintenance) \in Nat /\ Down(dashboard.maintenance) <= after
    BY <1>6, <1>7, <1>11, <1>8 DEF Down
  <2>3. /\ dashboard' \in Dashboard /\ dashboard'.leases = dashboard.leases /\ dashboard'.rent = dashboard.rent
        /\ dashboard'.maintenance = Down(dashboard.maintenance) /\ dashboard'.screenings = dashboard.screenings
        /\ dashboard'.disputes = dashboard.disputes
    BY <2>1, <1>2, <2>2 DEF Dashboard
  <2>4. FiguresGood(analytics, dashboard.rent)' /\ ExpensesGood(expenses, analytics)'
    BY <1>5, <1>8, <1>10, FigureWritten, <2>1, <2>3 DEF ManagementInv, old
  <2>5. RequestsGood(maintenance, dashboard.maintenance)'
    BY <1>7, <2>2, <2>3 DEF RequestsGood, after
  <2> QED
    BY <2>3, <2>4, <2>5 DEF ManagementInv, MoneyGood
<1>12. CASE ~closes
  BY <1>3, <1>12, <1>6, <1>7, <1>8 DEF RequestsGood, after, ManagementInv, MoneyGood
<1> QED
  BY <1>11, <1>12

LEMMA RequestsKeep ==
    ASSUME ManagementInv, NEW a \in People, NEW id \in DOMAIN maintenance,
           NEW status \in OpenStatuses \cup {"Resolved", "Cancelled"}, NEW assigned \in People,
           UpdateMaintenanceStatus(a, id, status, assigned) \/ ResolveMaintenance(a, id)
    PROVE  ManagementInv'
<1>1. CASE UpdateMaintenanceStatus(a, id, status, assigned)
  <2>1. maintenance' = [maintenance EXCEPT ![id] = [@ EXCEPT !.status = status, !.assigned = assigned]]
    BY <1>1 DEF UpdateMaintenanceStatus
  <2>2. /\ Closed(maintenance[id], status)
        /\ UNCHANGED <<leases, screenings, expenses, inspections, disputes, proposals, proposalVotes,
                       operatingFloat, escrowLocked, held>>
    BY <1>1, Zenon DEF UpdateMaintenanceStatus, motionVars, moneyVars
  <2> QED
    BY <2>1, <2>2, RequestStatusKeeps
<1>2. CASE ResolveMaintenance(a, id)
  <2> DEFINE o == maintenance[id]
  <2>1. o \in MaintenanceRequest /\ maintenance' = Written(maintenance, id, [o EXCEPT !.status = "Resolved"])
    BY <1>2 DEF ResolveMaintenance, Written, ManagementInv, RequestsGood
  <2>2. /\ Closed(maintenance[id], "Resolved")
        /\ UNCHANGED <<leases, screenings, expenses, inspections, disputes, proposals, proposalVotes,
                       operatingFloat, escrowLocked, held>>
    BY <1>2, Zenon DEF ResolveMaintenance, motionVars, moneyVars
  <2> HIDE DEF o
  <2>3. /\ o.assigned \in People \cup {"none"}
        /\ [o EXCEPT !.status = "Resolved"] = [o EXCEPT !.status = "Resolved", !.assigned = o.assigned]
    BY <2>1 DEF MaintenanceRequest
  <2>4. maintenance' = [maintenance EXCEPT ![id] = [@ EXCEPT !.status = "Resolved", !.assigned = o.assigned]]
    BY <2>1, <2>3, Zenon DEF Written, o
  <2> QED
    BY <2>2, <2>3, <2>4, RequestStatusKeeps
<1> QED
  BY <1>1, <1>2

\* An application is counted until it is reviewed (submit_screening_application).
LEMMA SubmitScreeningKeeps ==
    ASSUME ManagementInv, NEW a \in People, NEW b \in Buildings, SubmitScreeningApplication(a, b)
    PROVE  ManagementInv'
<1> DEFINE d == [building |-> b, applicant |-> a, status |-> "Pending"]
<1>1. /\ screenings' = Append(screenings, d) /\ dashboard' = [dashboard EXCEPT !.screenings = dashboard.screenings + 1]
      /\ UNCHANGED <<leases, maintenance, expenses, inspections, disputes, proposals, proposalVotes,
                     operatingFloat, escrowLocked, held, analytics>>
  BY DEF SubmitScreeningApplication, motionVars, moneyVars
<1>2. screenings \in Seq(TenantScreening) /\ dashboard \in Dashboard
  BY DEF ManagementInv, ScreeningsGood
<1>3. d \in TenantScreening /\ One(d, PendingScreenings) = 1
  BY DEF TenantScreening, PendingScreenings, One
<1> HIDE DEF d
<1>4. /\ dashboard' \in Dashboard /\ dashboard'.leases = dashboard.leases /\ dashboard'.rent = dashboard.rent
      /\ dashboard'.maintenance = dashboard.maintenance /\ dashboard'.screenings = dashboard.screenings + 1
      /\ dashboard'.disputes = dashboard.disputes
  <2>1. dashboard' = [dashboard EXCEPT !.screenings = dashboard.screenings + 1]
    BY <1>1
  <2> QED
    BY <1>2, <2>1 DEF Dashboard
<1>5. ScreeningsGood(screenings, dashboard.screenings)'
  BY <1>1, <1>2, <1>3, CountAppended, <1>4 DEF ManagementInv, ScreeningsGood
<1> QED
  BY <1>1, <1>4, <1>5 DEF ManagementInv, MoneyGood

\* A review takes an application out of the count (review_screening).
LEMMA ReviewScreeningKeeps ==
    ASSUME ManagementInv, NEW a \in People, NEW id \in DOMAIN screenings, NEW approve \in BOOLEAN,
           ReviewScreening(a, id, approve)
    PROVE  ManagementInv'
<1> DEFINE o == screenings[id]
           verdict == IF approve THEN "Approved" ELSE "Rejected"
           d == [o EXCEPT !.status = verdict]
           b == o.building
           old == analytics[b]
           r == [old EXCEPT !.approved = old.approved + 1]
<1>1. /\ screenings' = Written(screenings, id, d) /\ dashboard' = [dashboard EXCEPT !.screenings = Down(dashboard.screenings)]
      /\ analytics' = Written(analytics, b, r) \/ analytics' = analytics
      /\ o.status = "Pending"
  BY DEF ReviewScreening, Written
<1>2. UNCHANGED <<leases, maintenance, expenses, inspections, disputes, proposals, proposalVotes, operatingFloat, escrowLocked, held>>
  BY Zenon DEF ReviewScreening, motionVars, moneyVars
<1>3. o \in TenantScreening /\ screenings \in Seq(TenantScreening)
  BY DEF ManagementInv, ScreeningsGood
<1>4. dashboard \in Dashboard
  BY DEF ManagementInv
<1>5. o \in TenantScreening /\ verdict \in {"Approved", "Rejected"}
  BY <1>3
<1> HIDE DEF o, verdict
<1>6. d \in TenantScreening /\ d.status = verdict /\ b \in Buildings
  BY <1>5 DEF TenantScreening
<1> HIDE DEF d, b
<1>7. One(o, PendingScreenings) = 1 /\ One(d, PendingScreenings) = 0
  BY <1>1, <1>5, <1>6 DEF One, PendingScreenings
<1>8. /\ Cardinality(Places(screenings', PendingScreenings)) = dashboard.screenings - 1
      /\ dashboard.screenings \in Nat /\ dashboard.screenings >= 1 /\ screenings' \in Seq(TenantScreening)
  BY <1>3, <1>6, CountWritten, <1>7, <1>1 DEF ManagementInv, ScreeningsGood, o
<1>9. /\ dashboard' \in Dashboard /\ dashboard'.leases = dashboard.leases /\ dashboard'.rent = dashboard.rent
      /\ dashboard'.maintenance = dashboard.maintenance /\ dashboard'.screenings = dashboard.screenings - 1
      /\ dashboard'.disputes = dashboard.disputes /\ dashboard.rent \in Nat
  BY <1>8, <1>1, <1>4 DEF Down, Dashboard
<1>10. ScreeningsGood(screenings, dashboard.screenings)'
  BY <1>8, <1>9 DEF ScreeningsGood
<1>11. FiguresGood(analytics, dashboard.rent)' /\ ExpensesGood(expenses, analytics)'
  <2>1. old \in PropertyAnalytics
    BY <1>6 DEF ManagementInv, FiguresGood
  <2> HIDE DEF old
  <2>2. r \in PropertyAnalytics /\ r.rent = old.rent /\ r.expenses = old.expenses
    BY <2>1 DEF PropertyAnalytics
  <2> HIDE DEF r
  <2>3. FiguresGood(Written(analytics, b, r), dashboard.rent) /\ ExpensesGood(expenses, Written(analytics, b, r))
    BY <1>6, <1>9, <2>2, FigureWritten DEF ManagementInv, old
  <2>4. CASE analytics' = Written(analytics, b, r)
    BY <1>2, <1>9, <2>3, <2>4
  <2>5. CASE analytics' = analytics
    BY <1>2, <1>9, <2>5 DEF ManagementInv
  <2> QED
    BY <1>1, <2>4, <2>5 DEF old, r
<1> QED
  BY <1>2, <1>9, <1>10, <1>11 DEF ManagementInv, MoneyGood

\* Every amount that is recorded is among the expenses of its property (record_expense).
LEMMA RecordExpenseKeeps ==
    ASSUME ManagementInv, NEW a \in People, NEW b \in Buildings, NEW amount \in Nat, NEW vendor \in People,
           RecordExpense(a, b, amount, vendor)
    PROVE  ManagementInv'
<1> DEFINE d == [building |-> b, amount |-> amount, vendor |-> vendor, status |-> "Recorded"]
           old == analytics[b]
           r == [old EXCEPT !.expenses = old.expenses + amount]
<1>1. expenses' = Append(expenses, d) /\ analytics' = Written(analytics, b, r)
  BY DEF RecordExpense, Written
<1>2. UNCHANGED <<leases, maintenance, screenings, inspections, disputes, proposals, proposalVotes,
                  operatingFloat, escrowLocked, held, dashboard>>
  BY Zenon DEF RecordExpense, motionVars, moneyVars
<1>3. /\ expenses \in Seq(Expense) /\ analytics \in [Buildings -> PropertyAnalytics] /\ dashboard.rent \in Nat
      /\ \A c \in Buildings : analytics[c].expenses = WeightIn(expenses, Cost, OfBuilding(c))
  BY DEF ManagementInv, ExpensesGood, FiguresGood, Dashboard
<1>4. d \in Expense /\ d.amount = amount /\ d.building = b
  BY DEF Expense
<1>5. old \in PropertyAnalytics
  BY <1>3
<1> HIDE DEF d, old
<1>6. /\ r \in PropertyAnalytics /\ r.rent = old.rent /\ r.expenses = old.expenses + amount
      /\ old.rent \in Nat /\ old.expenses \in Nat
  BY <1>5 DEF PropertyAnalytics
<1> HIDE DEF r
<1>7. FiguresGood(analytics, dashboard.rent)'
  BY <1>6, RentWritten, <1>3, <1>1, <1>2 DEF ManagementInv, old
<1>8. \A c \in Buildings : Part(d, Cost, OfBuilding(c)) = IF c = b THEN amount ELSE 0
  BY <1>4 DEF Cost, Part, OfBuilding
<1>9. ExpensesGood(expenses, analytics)'
  <2>1. expenses' \in Seq(Expense)
    BY <1>1, <1>3, <1>4, SeqAppended
  <2>2. \A c \in Buildings : /\ WeightIn(expenses', Cost, OfBuilding(c)) = WeightIn(expenses, Cost, OfBuilding(c)) + Part(d, Cost, OfBuilding(c))
                             /\ WeightIn(expenses, Cost, OfBuilding(c)) \in Nat
    <3> TAKE c \in Buildings
    <3>1. Cost \in [Expense -> Nat]
      BY ManagementFacts
    <3>2. WeightIn(Append(expenses, d), Cost, OfBuilding(c)) = WeightIn(expenses, Cost, OfBuilding(c)) + Part(d, Cost, OfBuilding(c))
      BY <1>3, <1>4, <3>1, RecordAppended
    <3>3. WeightIn(expenses, Cost, OfBuilding(c)) \in Nat
      BY <1>3, <3>1, PlacesNumbers
    <3> QED
      BY <1>1, <3>2, <3>3
  <2>3. \A c \in Buildings : analytics'[c] = IF c = b THEN r ELSE analytics[c]
    BY <1>1, <1>3 DEF Written
  <2>4. ASSUME NEW c \in Buildings PROVE analytics'[c].expenses = WeightIn(expenses', Cost, OfBuilding(c))
    <3>1. CASE c = b
      BY <1>3, <1>6, <1>8, <2>2, <2>3, <3>1 DEF old
    <3>2. CASE c # b
      BY <1>3, <1>8, <2>2, <2>3, <3>2
    <3> QED
      BY <3>1, <3>2
  <2> QED
    BY <2>1, <2>4 DEF ExpensesGood
<1> QED
  BY <1>2, <1>7, <1>9 DEF ManagementInv, MoneyGood

\* An expense is paid out of the float, and counts as before (pay_expense).
LEMMA PayExpenseKeeps ==
    ASSUME ManagementInv, NEW a \in People, NEW id \in DOMAIN expenses, PayExpense(a, id)
    PROVE  ManagementInv'
<1> DEFINE o == expenses[id]
           d == [o EXCEPT !.status = "Paid"]
<1>1. expenses' = Written(expenses, id, d)
  BY DEF PayExpense, Written
<1>2. /\ operatingFloat' = operatingFloat - o.amount /\ held' = held - o.amount /\ operatingFloat >= o.amount
      /\ UNCHANGED <<leases, maintenance, screenings, inspections, disputes, proposals, proposalVotes, escrowLocked, analytics, dashboard>>
  BY Zenon DEF PayExpense, motionVars
<1>3. expenses \in Seq(Expense) /\ o \in Expense
  BY DEF ManagementInv, ExpensesGood
<1>4. o \in Expense
  BY <1>3
<1> HIDE DEF o
<1>5. d \in Expense /\ d.amount = o.amount /\ d.building = o.building /\ o.amount \in Nat
  BY <1>4 DEF Expense
<1> HIDE DEF d
<1>6. MoneyGood'
  BY <1>2, <1>5 DEF ManagementInv, MoneyGood
<1>7. \A c \in Buildings : Part(d, Cost, OfBuilding(c)) = Part(o, Cost, OfBuilding(c)) /\ Part(o, Cost, OfBuilding(c)) \in Nat
  BY <1>4, <1>5 DEF Cost, Part, OfBuilding
<1>8. ASSUME NEW c \in Buildings PROVE WeightIn(expenses', Cost, OfBuilding(c)) = WeightIn(expenses, Cost, OfBuilding(c))
  <2>1. Cost \in [Expense -> Nat]
    BY ManagementFacts
  <2>2. WeightIn(Written(expenses, id, d), Cost, OfBuilding(c))
            = WeightIn(expenses, Cost, OfBuilding(c)) - Part(expenses[id], Cost, OfBuilding(c)) + Part(d, Cost, OfBuilding(c))
    BY <1>3, <1>5, <2>1, RecordWritten
  <2>3. WeightIn(expenses, Cost, OfBuilding(c)) \in Nat
    BY <1>3, <2>1, PlacesNumbers
  <2>4. Part(expenses[id], Cost, OfBuilding(c)) = Part(d, Cost, OfBuilding(c)) /\ Part(d, Cost, OfBuilding(c)) \in Nat
    BY <1>7 DEF o
  <2> QED
    BY <1>1, <2>2, <2>3, <2>4
<1>9. ExpensesGood(expenses, analytics)'
  <2>1. expenses' \in Seq(Expense)
    BY <1>1, <1>3, <1>5, SeqWritten
  <2> QED
    BY <1>2, <1>8, <2>1 DEF ManagementInv, ExpensesGood
<1> QED
  BY <1>2, <1>6, <1>9 DEF ManagementInv

\* Money for the float comes in (fund_operating_float).
LEMMA FundKeeps ==
    ASSUME ManagementInv, NEW value \in Nat, FundOperatingFloat(value)
    PROVE  ManagementInv'
  BY DEF FundOperatingFloat, recordVars, motionVars, ManagementInv, MoneyGood

\* Inspections are scheduled and completed (schedule_inspection, complete_inspection).
LEMMA ScheduleKeeps ==
    ASSUME ManagementInv, NEW a \in People, NEW b \in Buildings, NEW inspector \in People, ScheduleInspection(a, b, inspector)
    PROVE  ManagementInv'
  BY SeqAppended DEF ScheduleInspection, motionVars, moneyVars, Inspection, ManagementInv, MoneyGood

LEMMA CompleteKeeps ==
    ASSUME ManagementInv, NEW a \in People, NEW id \in DOMAIN inspections, NEW passed \in BOOLEAN,
           CompleteInspection(a, id, passed)
    PROVE  ManagementInv'
<1> DEFINE o == inspections[id]
           verdict == IF passed THEN "Passed" ELSE "Failed"
           d == [o EXCEPT !.status = verdict]
           b == o.building
           old == analytics[b]
           r == [old EXCEPT !.inspected = old.inspected + 1]
<1>1. inspections' = Written(inspections, id, d) /\ analytics' = Written(analytics, b, r)
  BY DEF CompleteInspection, Written
<1>2. UNCHANGED <<leases, maintenance, screenings, expenses, disputes, proposals, proposalVotes,
                  operatingFloat, escrowLocked, held, dashboard>>
  BY Zenon DEF CompleteInspection, motionVars, moneyVars
<1>3. inspections \in Seq(Inspection) /\ o \in Inspection
  BY DEF ManagementInv
<1>4. o \in Inspection /\ verdict \in {"Passed", "Failed"}
  BY <1>3
<1> HIDE DEF o, verdict
<1>5. d \in Inspection /\ b \in Buildings
  BY <1>4 DEF Inspection
<1> HIDE DEF d, b
<1>6. inspections' \in Seq(Inspection)
  BY <1>1, <1>3, <1>5, SeqWritten
<1>7. dashboard.rent \in Nat /\ old \in PropertyAnalytics
  BY <1>5 DEF ManagementInv, Dashboard, FiguresGood
<1> HIDE DEF old
<1>8. r \in PropertyAnalytics /\ r.rent = old.rent /\ r.expenses = old.expenses
  BY <1>7 DEF PropertyAnalytics
<1> HIDE DEF r
<1>9. FiguresGood(analytics, dashboard.rent)' /\ ExpensesGood(expenses, analytics)'
  BY <1>5, <1>7, <1>8, FigureWritten, <1>1, <1>2 DEF ManagementInv, old
<1> QED
  BY <1>2, <1>6, <1>9 DEF ManagementInv, MoneyGood

\* A dispute is opened with the stake of one side in escrow (open_dispute).
LEMMA OpenDisputeKeeps ==
    ASSUME ManagementInv, NEW a \in People, NEW b \in Buildings, NEW respondent \in People, NEW stake \in Nat,
           OpenDispute(a, b, respondent, stake)
    PROVE  ManagementInv'
<1> DEFINE d == [building |-> b, initiator |-> a, respondent |-> respondent,
                 initiatorStake |-> stake, respondentStake |-> 0, status |-> "AwaitingCounterparty"]
           old == analytics[b]
           r == [old EXCEPT !.disputed = old.disputed + 1]
<1>1. /\ disputes' = Append(disputes, d) /\ analytics' = Written(analytics, b, r)
      /\ dashboard' = [dashboard EXCEPT !.disputes = dashboard.disputes + 1]
  BY DEF OpenDispute, Written
<1>2. /\ held' = held + stake /\ escrowLocked' = escrowLocked + stake
      /\ UNCHANGED <<leases, maintenance, screenings, expenses, inspections, proposals, proposalVotes, operatingFloat>>
  BY Zenon DEF OpenDispute, motionVars
<1>3. disputes \in Seq(CleanDispute) /\ dashboard \in Dashboard /\ old \in PropertyAnalytics
  BY DEF ManagementInv, DisputesGood, FiguresGood
<1>4. d \in CleanDispute /\ d.status = "AwaitingCounterparty" /\ Stakes(d) = stake
  BY DEF CleanDispute, Dispute, OpenDisputes, Stakes
<1> HIDE DEF d, old
<1>5. One(d, OpenCases) = 1 /\ Part(d, StakesOf, OpenCases) = stake
  BY <1>4 DEF OpenCases, OpenDisputes, StakesOf, One, Part
<1>6. r \in PropertyAnalytics /\ r.rent = old.rent /\ r.expenses = old.expenses
  BY <1>3, SMTT(30) DEF PropertyAnalytics
<1> HIDE DEF r
<1>7. /\ dashboard' \in Dashboard /\ dashboard'.leases = dashboard.leases /\ dashboard'.rent = dashboard.rent
      /\ dashboard'.maintenance = dashboard.maintenance /\ dashboard'.screenings = dashboard.screenings
      /\ dashboard'.disputes = dashboard.disputes + 1 /\ dashboard.rent \in Nat /\ dashboard.disputes \in Nat
  BY <1>1, <1>3 DEF Dashboard
<1>8. DisputesGood(disputes, dashboard.disputes, escrowLocked)'
  <2>1. StakesOf \in [CleanDispute -> Nat]
    BY ManagementFacts
  <2>2. /\ Cardinality(Places(Append(disputes, d), OpenCases)) = Cardinality(Places(disputes, OpenCases)) + One(d, OpenCases)
        /\ WeightIn(Append(disputes, d), StakesOf, OpenCases) = WeightIn(disputes, StakesOf, OpenCases) + Part(d, StakesOf, OpenCases)
    BY <1>3, <1>4, <2>1, RecordAppended
  <2>3. Append(disputes, d) \in Seq(CleanDispute)
    BY <1>3, <1>4, SeqAppended
  <2>4. dashboard.disputes = Cardinality(Places(disputes, OpenCases)) /\ escrowLocked = WeightIn(disputes, StakesOf, OpenCases)
    BY DEF ManagementInv, DisputesGood
  <2> QED
    BY <1>1, <1>2, <1>5, <1>7, <2>2, <2>3, <2>4 DEF DisputesGood
<1>9. FiguresGood(analytics, dashboard.rent)' /\ ExpensesGood(expenses, analytics)'
  BY <1>6, <1>7, FigureWritten, <1>1, <1>2 DEF ManagementInv, old
<1>10. MoneyGood'
  BY <1>2 DEF ManagementInv, MoneyGood
<1> QED
  BY <1>2, <1>7, <1>8, <1>9, <1>10 DEF ManagementInv

\* The other side stakes as much (counterparty_stake_dispute).
LEMMA CounterpartyKeeps ==
    ASSUME ManagementInv, NEW a \in People, NEW id \in DOMAIN disputes, NEW value, CounterpartyStakeDispute(a, id, value)
    PROVE  ManagementInv'
<1> DEFINE o == disputes[id]
           d == [o EXCEPT !.respondentStake = value, !.status = "Open"]
<1>1. disputes' = Written(disputes, id, d) /\ o.status = "AwaitingCounterparty" /\ value = o.initiatorStake
  BY DEF CounterpartyStakeDispute, Written
<1>2. /\ held' = held + value /\ escrowLocked' = escrowLocked + value
      /\ UNCHANGED <<leases, maintenance, screenings, expenses, inspections, proposals, proposalVotes, operatingFloat,
                     analytics, dashboard>>
  BY Zenon DEF CounterpartyStakeDispute, motionVars
<1>3. disputes \in Seq(CleanDispute) /\ o \in CleanDispute
  BY DEF ManagementInv, DisputesGood
<1>4. o \in CleanDispute
  BY <1>3
<1> HIDE DEF o
<1>5. o \in Dispute /\ o.respondentStake = 0 /\ value \in Nat
  BY <1>1, <1>4 DEF CleanDispute, Dispute
<1>6. d \in Dispute /\ d.status = "Open" /\ d.respondentStake = value /\ d.initiatorStake = value
  BY <1>1, <1>5 DEF Dispute, OpenDisputes
<1> HIDE DEF d
<1>7. d \in CleanDispute /\ Stakes(o) = value /\ Stakes(d) = value + value
  BY <1>1, <1>5, <1>6 DEF CleanDispute, Stakes
<1>8. /\ One(o, OpenCases) = 1 /\ Part(o, StakesOf, OpenCases) = value
      /\ One(d, OpenCases) = 1 /\ Part(d, StakesOf, OpenCases) = value + value
  BY <1>1, <1>4, <1>6, <1>7 DEF OpenCases, OpenDisputes, StakesOf, One, Part
<1>9. DisputesGood(disputes, dashboard.disputes, escrowLocked)'
  <2>1. StakesOf \in [CleanDispute -> Nat]
    BY ManagementFacts
  <2>2. /\ Cardinality(Places(Written(disputes, id, d), OpenCases))
              = Cardinality(Places(disputes, OpenCases)) - One(disputes[id], OpenCases) + One(d, OpenCases)
        /\ WeightIn(Written(disputes, id, d), StakesOf, OpenCases)
              = WeightIn(disputes, StakesOf, OpenCases) - Part(disputes[id], StakesOf, OpenCases) + Part(d, StakesOf, OpenCases)
    BY <1>3, <1>7, <2>1, RecordWritten
  <2>3. Written(disputes, id, d) \in Seq(CleanDispute)
    BY <1>3, <1>7, SeqWritten
  <2>4. Cardinality(Places(disputes, OpenCases)) \in Nat /\ WeightIn(disputes, StakesOf, OpenCases) \in Nat
    BY <1>3, <2>1, PlacesNumbers
  <2>5. dashboard.disputes = Cardinality(Places(disputes, OpenCases)) /\ escrowLocked = WeightIn(disputes, StakesOf, OpenCases)
    BY DEF ManagementInv, DisputesGood
  <2>6. One(disputes[id], OpenCases) = 1 /\ Part(disputes[id], StakesOf, OpenCases) = value
    BY <1>8 DEF o
  <2>7. /\ Cardinality(Places(Written(disputes, id, d), OpenCases)) = dashboard.disputes
        /\ WeightIn(Written(disputes, id, d), StakesOf, OpenCases) = escrowLocked + value
    BY <1>5, <1>8, <2>2, <2>4, <2>5, <2>6
  <2> QED
    BY <1>1, <1>2, <2>3, <2>7 DEF DisputesGood
<1>10. MoneyGood'
  BY <1>2, <1>5 DEF ManagementInv, MoneyGood
<1> QED
  BY <1>2, <1>9, <1>10 DEF ManagementInv

\* What both sides get of the stakes is all of them.
LEMMA SharesAreStakes ==
    ASSUME NEW d \in Dispute, NEW outcome \in {"ResolvedInitiator", "ResolvedRespondent", "Split"}
    PROVE  /\ Stakes(d) \in Nat /\ InitiatorShare(d, outcome) \in Nat /\ RespondentShare(d, outcome) \in Nat
           /\ InitiatorShare(d, outcome) + RespondentShare(d, outcome) = Stakes(d)
  BY DEF Dispute, Stakes, InitiatorShare, RespondentShare

\* A resolved dispute releases both stakes, no more and no less (resolve_dispute, finish_dispute).
LEMMA ResolveDisputeKeeps ==
    ASSUME ManagementInv, NEW a \in People, NEW id \in DOMAIN disputes,
           NEW outcome \in {"ResolvedInitiator", "ResolvedRespondent", "Split"}, ResolveDispute(a, id, outcome)
    PROVE  ManagementInv'
<1> DEFINE o == disputes[id]
           d == [o EXCEPT !.status = outcome]
<1>1. disputes' = Written(disputes, id, d) /\ o.status = "Open" /\ dashboard' = [dashboard EXCEPT !.disputes = Down(dashboard.disputes)]
  BY DEF ResolveDispute, Written
<1>2. /\ held' = held - InitiatorShare(o, outcome) - RespondentShare(o, outcome) /\ escrowLocked' = escrowLocked - Stakes(o)
      /\ UNCHANGED <<leases, maintenance, screenings, expenses, inspections, proposals, proposalVotes, operatingFloat, analytics>>
  BY Zenon DEF ResolveDispute, motionVars
<1>3. disputes \in Seq(CleanDispute) /\ o \in CleanDispute /\ dashboard \in Dashboard
  BY DEF ManagementInv, DisputesGood
<1>4. o \in CleanDispute
  BY <1>3
<1> HIDE DEF o
<1>5. o \in Dispute
  BY <1>4 DEF CleanDispute
<1>6. d \in Dispute /\ d.status = outcome
  BY <1>5 DEF Dispute
<1> HIDE DEF d
<1>7. d \in CleanDispute /\ d \notin OpenCases /\ o \in OpenCases
  BY <1>1, <1>4, <1>6 DEF CleanDispute, OpenCases, OpenDisputes
<1>8. /\ One(o, OpenCases) = 1 /\ Part(o, StakesOf, OpenCases) = Stakes(o)
      /\ One(d, OpenCases) = 0 /\ Part(d, StakesOf, OpenCases) = 0
  BY <1>4, <1>7 DEF StakesOf, One, Part
<1>9. /\ Stakes(o) \in Nat /\ InitiatorShare(o, outcome) \in Nat /\ RespondentShare(o, outcome) \in Nat
      /\ InitiatorShare(o, outcome) + RespondentShare(o, outcome) = Stakes(o)
  BY <1>5, SharesAreStakes
<1>10. /\ disputes' \in Seq(CleanDispute) /\ Cardinality(Places(disputes', OpenCases)) = dashboard.disputes - 1
       /\ WeightIn(disputes', StakesOf, OpenCases) = escrowLocked - Stakes(o)
       /\ dashboard.disputes \in Nat /\ dashboard.disputes >= 1 /\ escrowLocked >= Stakes(o)
  <2>1. StakesOf \in [CleanDispute -> Nat]
    BY ManagementFacts
  <2>2. /\ Cardinality(Places(Written(disputes, id, d), OpenCases))
              = Cardinality(Places(disputes, OpenCases)) - One(disputes[id], OpenCases) + One(d, OpenCases)
        /\ WeightIn(Written(disputes, id, d), StakesOf, OpenCases)
              = WeightIn(disputes, StakesOf, OpenCases) - Part(disputes[id], StakesOf, OpenCases) + Part(d, StakesOf, OpenCases)
    BY <1>3, <1>7, <2>1, RecordWritten
  <2>3. Written(disputes, id, d) \in Seq(CleanDispute)
    BY <1>3, <1>7, SeqWritten
  <2>4. /\ Cardinality(Places(disputes, OpenCases)) \in Nat /\ WeightIn(disputes, StakesOf, OpenCases) \in Nat
        /\ One(disputes[id], OpenCases) <= Cardinality(Places(disputes, OpenCases))
        /\ Part(disputes[id], StakesOf, OpenCases) <= WeightIn(disputes, StakesOf, OpenCases)
    BY <1>3, <2>1, PlacesNumbers
  <2>5. dashboard.disputes = Cardinality(Places(disputes, OpenCases)) /\ escrowLocked = WeightIn(disputes, StakesOf, OpenCases)
    BY DEF ManagementInv, DisputesGood
  <2>6. One(disputes[id], OpenCases) = 1 /\ Part(disputes[id], StakesOf, OpenCases) = Stakes(o)
    BY <1>8 DEF o
  <2> QED
    BY <1>1, <1>8, <1>9, <2>2, <2>3, <2>4, <2>5, <2>6
<1>11. /\ dashboard' \in Dashboard /\ dashboard'.leases = dashboard.leases /\ dashboard'.rent = dashboard.rent
       /\ dashboard'.maintenance = dashboard.maintenance /\ dashboard'.screenings = dashboard.screenings
       /\ dashboard'.disputes = dashboard.disputes - 1
  <2>1. Down(dashboard.disputes) = dashboard.disputes - 1 /\ Down(dashboard.disputes) \in Nat
    BY <1>10 DEF Down
  <2>2. dashboard' = [dashboard EXCEPT !.disputes = Down(dashboard.disputes)]
    BY <1>1
  <2>3. dashboard \in Dashboard /\ dashboard' = [dashboard EXCEPT !.disputes = dashboard.disputes - 1]
    BY <1>3, <2>1, <2>2
  <2>4. dashboard.disputes - 1 \in Nat
    BY <2>1
  <2> QED
    BY <2>3, <2>4 DEF Dashboard
<1>12. DisputesGood(disputes, dashboard.disputes, escrowLocked)'
  BY <1>2, <1>10, <1>11 DEF DisputesGood
<1>13. MoneyGood'
  <2>1. operatingFloat \in Nat /\ escrowLocked \in Nat /\ held = operatingFloat + escrowLocked
    BY DEF ManagementInv, MoneyGood
  <2>2. operatingFloat' = operatingFloat /\ held' = held - Stakes(o) /\ escrowLocked' \in Nat /\ escrowLocked' = escrowLocked - Stakes(o)
    <3> DEFINE i == InitiatorShare(o, outcome)
               r == RespondentShare(o, outcome)
    <3>1. held' = held - i - r /\ operatingFloat' = operatingFloat /\ escrowLocked' = escrowLocked - Stakes(o)
      BY <1>2
    <3>2. i \in Nat /\ r \in Nat /\ i + r = Stakes(o) /\ Stakes(o) \in Nat
      BY <1>9
    <3>3. escrowLocked >= Stakes(o)
      BY <1>10
    <3> HIDE DEF i, r
    <3> QED
      BY <2>1, <3>1, <3>2, <3>3
  <2>3. Stakes(o) \in Nat
    BY <1>9
  <2> QED
    BY <2>1, <2>2, <2>3 DEF MoneyGood
<1> QED
  BY <1>2, <1>11, <1>12, <1>13 DEF ManagementInv

----
\* Proposals. A vote counts once for the one it names, whether or not that one exists; to
\* create it later only starts its count again.
Cast(cast, id) == {v \in cast : v[1] = id}

LEMMA MotionCreated ==
    ASSUME ManagementInv, NEW a \in People, CreateManagementProposal(a)
    PROVE  ManagementInv'
<1> DEFINE id == proposalCounter + 1
           none == [for |-> 0, against |-> 0]
<1>1. /\ proposals' = [i \in DOMAIN proposals \cup {id} |-> IF i = id THEN none ELSE proposals[i]]
      /\ proposalVotes' = proposalVotes
  BY DEF CreateManagementProposal
<1>2. UNCHANGED <<leases, maintenance, screenings, expenses, inspections, disputes, operatingFloat, escrowLocked, held, analytics, dashboard>>
  BY Zenon DEF CreateManagementProposal, recordVars, moneyVars
<1>3. none \in [for : Nat, against : Nat] /\ none.for + none.against = 0
  OBVIOUS
<1> HIDE DEF none, id
<1>4. /\ proposals \in [DOMAIN proposals -> [for : Nat, against : Nat]] /\ IsFiniteSet(proposalVotes)
      /\ \A i \in DOMAIN proposals : proposals[i].for + proposals[i].against <= Cardinality(Cast(proposalVotes, i))
  BY DEF ManagementInv, MotionsGood, Cast
<1>5. proposals' \in [DOMAIN proposals' -> [for : Nat, against : Nat]]
  BY <1>1, <1>3, <1>4
<1>6. ASSUME NEW i \in DOMAIN proposals'
      PROVE  proposals'[i].for + proposals'[i].against <= Cardinality(Cast(proposalVotes, i))
  <2>1. CASE i = id
    BY <1>4, FS_Subset, FS_CardinalityType, <1>1, <1>3, <2>1 DEF Cast
  <2>2. CASE i # id
    BY <1>1, <1>4, <2>2
  <2> QED
    BY <2>1, <2>2
<1>7. MotionsGood(proposals, proposalVotes)'
  BY <1>1, <1>4, <1>5, <1>6, Zenon DEF MotionsGood, Cast
<1> QED
  BY <1>2, <1>7 DEF ManagementInv, MoneyGood

LEMMA MotionVoted ==
    ASSUME ManagementInv, NEW a \in People, NEW id, NEW support \in BOOLEAN, VoteOnManagementProposal(a, id, support)
    PROVE  ManagementInv'
<1> DEFINE before == Votes(id)
           after == IF support THEN [before EXCEPT !.for = before.for + 1] ELSE [before EXCEPT !.against = before.against + 1]
           vote == <<id, a>>
<1>1. /\ vote \notin proposalVotes /\ proposalVotes' = proposalVotes \cup {vote}
      /\ proposals' = [i \in DOMAIN proposals \cup {id} |-> IF i # id THEN proposals[i] ELSE after]
  BY DEF VoteOnManagementProposal
<1>2. UNCHANGED <<leases, maintenance, screenings, expenses, inspections, disputes, operatingFloat, escrowLocked, held, analytics, dashboard>>
  BY Zenon DEF VoteOnManagementProposal, recordVars, moneyVars
<1>3. vote[1] = id
  OBVIOUS
<1>4. /\ proposals \in [DOMAIN proposals -> [for : Nat, against : Nat]] /\ IsFiniteSet(proposalVotes)
      /\ \A i \in DOMAIN proposals : proposals[i].for + proposals[i].against <= Cardinality(Cast(proposalVotes, i))
  BY DEF ManagementInv, MotionsGood, Cast
<1>5. \A i : IsFiniteSet(Cast(proposalVotes, i)) /\ Cardinality(Cast(proposalVotes, i)) \in Nat
  <2> TAKE i
  <2>1. IsFiniteSet(Cast(proposalVotes, i))
    BY <1>4, FS_Subset DEF Cast
  <2> QED
    BY <2>1, FS_CardinalityType
<1>6. /\ before \in [for : Nat, against : Nat]
      /\ before.for + before.against <= Cardinality(Cast(proposalVotes, id))
  BY <1>4, <1>5 DEF Votes
<1> HIDE DEF before, vote
<1>7. /\ after \in [for : Nat, against : Nat]
      /\ after.for + after.against = before.for + before.against + 1
  BY <1>6
<1> HIDE DEF after
<1>8. /\ Cast(proposalVotes', id) = Cast(proposalVotes, id) \cup {vote} /\ vote \notin Cast(proposalVotes, id)
      /\ \A i : i # id => Cast(proposalVotes', i) = Cast(proposalVotes, i)
  BY <1>1, <1>3 DEF Cast
<1>9. Cardinality(Cast(proposalVotes', id)) = Cardinality(Cast(proposalVotes, id)) + 1
  BY <1>5, <1>8, FS_AddElement
<1>10. IsFiniteSet(proposalVotes')
  BY <1>1, <1>4, FS_AddElement
<1>11. proposals' \in [DOMAIN proposals' -> [for : Nat, against : Nat]]
  BY <1>1, <1>4, <1>7
<1>12. ASSUME NEW i \in DOMAIN proposals'
       PROVE  proposals'[i].for + proposals'[i].against <= Cardinality(Cast(proposalVotes', i))
  <2>1. CASE i = id
    BY <1>1, <2>1, <1>5, <1>6, <1>7, <1>9
  <2>2. CASE i # id
    BY <1>1, <1>4, <1>8, <2>2
  <2> QED
    BY <2>1, <2>2
<1>13. MotionsGood(proposals, proposalVotes)'
  BY <1>10, <1>11, <1>12 DEF MotionsGood, Cast
<1> QED
  BY <1>2, <1>13 DEF ManagementInv, MoneyGood

----
\* Rights and settings touch none of the figures (add_manager, set_fee_beneficiary and others).
LEMMA RightsKeep ==
    ASSUME ManagementInv, NEW a, NEW x, NEW y,
           \/ AddManager(a, x) \/ RemoveManager(a, x)
           \/ SetComplianceRegistryOf(a, x) \/ SetIdentityRegistryOf(a, x)
           \/ SetFeeBeneficiary(a, x) \/ SetJurisdictionCompliance(a, x, y)
    PROVE  ManagementInv'
<1>1. UNCHANGED <<leases, maintenance, screenings, expenses, inspections, disputes, proposals, proposalVotes,
                  operatingFloat, escrowLocked, held, analytics, dashboard>>
  BY Zenon DEF AddManager, RemoveManager, SetComplianceRegistryOf, SetIdentityRegistryOf, SetFeeBeneficiary,
     SetJurisdictionCompliance, recordVars, motionVars, moneyVars
<1> QED
  BY <1>1 DEF ManagementInv, MoneyGood

\* Nothing is recorded and nothing is held at first (new).
LEMMA ManagementInvInit == ManagementInit => ManagementInv
<1> SUFFICES ASSUME ManagementInit PROVE ManagementInv
  OBVIOUS
<1> DEFINE none == [rent |-> 0, open |-> 0, resolved |-> 0, expenses |-> 0, inspected |-> 0, disputed |-> 0, approved |-> 0]
<1>1. /\ leases = << >> /\ maintenance = << >> /\ screenings = << >> /\ expenses = << >> /\ inspections = << >> /\ disputes = << >>
      /\ proposals = << >> /\ proposalVotes = {} /\ operatingFloat = 0 /\ escrowLocked = 0 /\ held = 0
      /\ analytics = [b \in Buildings |-> none]
      /\ dashboard = [rent |-> 0, maintenance |-> 0, leases |-> 0, disputes |-> 0, screenings |-> 0]
  BY DEF ManagementInit
<1>2. none \in PropertyAnalytics /\ none.rent = 0 /\ none.expenses = 0
  BY DEF PropertyAnalytics
<1> HIDE DEF none
<1>3. /\ dashboard \in Dashboard /\ dashboard.rent = 0 /\ dashboard.maintenance = 0 /\ dashboard.leases = 0
      /\ dashboard.disputes = 0 /\ dashboard.screenings = 0
  BY <1>1 DEF Dashboard
<1>4. \A G, v : Places(<< >>, G) = {} /\ Cardinality(Places(<< >>, G)) = 0 /\ WeightIn(<< >>, v, G) = 0
  <2> TAKE G, v
  <2>1. Places(<< >>, G) = {}
    BY DEF Places
  <2> QED
    BY <2>1, FS_EmptySet, SumEmpty DEF WeightIn
<1>5. \A S : << >> \in Seq(S)
  OBVIOUS
<1>6. FiguresGood(analytics, dashboard.rent)
  <2> DEFINE f == [b \in Buildings |-> analytics[b].rent]
  <2>1. \A b \in Buildings : f[b] = 0
    BY <1>1, <1>2
  <2>2. analytics \in [Buildings -> PropertyAnalytics]
    BY <1>1, <1>2
  <2>3. SumFunctionOnSet(f, Buildings) = 0
    BY <2>1, ManagementFacts, SumZero
  <2> QED
    BY <1>3, <2>2, <2>3 DEF FiguresGood
<1>7. ExpensesGood(expenses, analytics)
  BY <1>1, <1>2, <1>4, <1>5 DEF ExpensesGood
<1>8. MotionsGood(proposals, proposalVotes)
  BY <1>1, FS_EmptySet DEF MotionsGood
<1>9. /\ LeasesGood(leases, dashboard.leases, dashboard.rent) /\ RequestsGood(maintenance, dashboard.maintenance)
      /\ ScreeningsGood(screenings, dashboard.screenings) /\ DisputesGood(disputes, dashboard.disputes, escrowLocked)
  BY <1>1, <1>3, <1>4, <1>5 DEF LeasesGood, RequestsGood, ScreeningsGood, DisputesGood
<1>10. inspections \in Seq(Inspection) /\ MoneyGood
  BY <1>1, <1>5 DEF MoneyGood
<1> QED
  BY <1>3, <1>6, <1>7, <1>8, <1>9, <1>10 DEF ManagementInv

\* Every message keeps the books.
LEMMA TenancyKeeps == ManagementInv /\ TenancyNext => ManagementInv'
  BY CreateLeaseKeeps, ManagementFacts, PayRentKeeps, EndLeaseKeeps, SubmitScreeningKeeps, ReviewScreeningKeeps,
     RightsKeep DEF TenancyNext

LEMMA UpkeepKeeps == ManagementInv /\ UpkeepNext => ManagementInv'
  BY ManagementFacts, RightsKeep, SubmitRequestKeeps, RequestsKeep, ScheduleKeeps, CompleteKeeps DEF UpkeepNext

LEMMA MoneyKeeps == ManagementInv /\ (MoneyNext \/ \E value \in Amounts : FundOperatingFloat(value)) => ManagementInv'
  BY ManagementFacts, FundKeeps, RightsKeep, RecordExpenseKeeps, PayExpenseKeeps, OpenDisputeKeeps,
     CounterpartyKeeps, ResolveDisputeKeeps DEF MoneyNext

LEMMA MotionKeeps == ManagementInv /\ MotionNext => ManagementInv'
  BY MotionCreated, MotionVoted DEF MotionNext

\* What the books are for a reader of the contract.
LEMMA ManagementBooks == ManagementInv => ManagementBooksAgree
<1> SUFFICES ASSUME ManagementInv PROVE ManagementBooksAgree
  OBVIOUS
<1>1. /\ leases \in Seq(Lease) /\ maintenance \in Seq(MaintenanceRequest) /\ screenings \in Seq(TenantScreening)
      /\ expenses \in Seq(Expense) /\ disputes \in Seq(CleanDispute) /\ analytics \in [Buildings -> PropertyAnalytics]
  BY DEF ManagementInv, LeasesGood, RequestsGood, ScreeningsGood, ExpensesGood, DisputesGood, FiguresGood
<1>2. disputes \in Seq(Dispute)
  BY <1>1 DEF CleanDispute
<1>3. ManagementTypeOK
  BY <1>1, <1>2 DEF ManagementInv, MoneyGood, ManagementTypeOK
<1>4. /\ Places(leases, ActiveLeases) = Standing(leases, "Active")
      /\ Places(leases, Lease) = DOMAIN leases
  <2>1. \A i \in DOMAIN leases : leases[i] \in Lease
    BY <1>1
  <2>2. Places(leases, ActiveLeases) = Standing(leases, "Active")
    BY <2>1 DEF Places, Standing, ActiveLeases
  <2>3. Places(leases, Lease) = DOMAIN leases
    BY <2>1 DEF Places
  <2> QED
    BY <2>2, <2>3
<1>5. Places(screenings, PendingScreenings) = Standing(screenings, "Pending")
  BY <1>1 DEF Places, Standing, PendingScreenings
<1>6. Places(disputes, OpenCases) = Unresolved
  BY <1>1 DEF Places, Unresolved, OpenCases
<1>7. Places(maintenance, OpenRequests) = {i \in DOMAIN maintenance : maintenance[i].status \in OpenStatuses}
  BY <1>1 DEF Places, OpenRequests
<1>8. [i \in DOMAIN disputes |-> StakesOf[disputes[i]]] = [i \in DOMAIN disputes |-> Stakes(disputes[i])]
  BY <1>1 DEF StakesOf
<1>9. [i \in DOMAIN leases |-> RentPaid[leases[i]]] = [i \in DOMAIN leases |-> leases[i].rent * leases[i].paid]
  BY <1>1 DEF RentPaid
<1>10. ASSUME NEW b \in Buildings
       PROVE  analytics[b].expenses >= SumFunctionOnSet([i \in DOMAIN expenses |-> expenses[i].amount], PaidFor(b))
  <2> DEFINE f == [i \in DOMAIN expenses |-> Cost[expenses[i]]]
             g == [i \in DOMAIN expenses |-> expenses[i].amount]
             T == Places(expenses, OfBuilding(b))
  <2>1. f = g
    BY <1>1 DEF Cost
  <2>2. IsFiniteSet(T)
    BY <1>1, ManagementFacts, PlacesNumbers
  <2>3. \A i \in T : f[i] \in Nat
    BY <1>1, ManagementFacts DEF Places
  <2>4. PaidFor(b) \in SUBSET T
    BY <1>1 DEF PaidFor, Places, OfBuilding
  <2>5. analytics[b].expenses = SumFunctionOnSet(f, T)
    BY DEF ManagementInv, ExpensesGood, WeightIn
  <2> HIDE DEF f, T
  <2>6. SumFunctionOnSet(f, PaidFor(b)) \in Nat /\ SumFunctionOnSet(f, T) \in Nat /\ SumFunctionOnSet(f, PaidFor(b)) <= SumFunctionOnSet(f, T)
    BY <2>2, <2>3, <2>4, SumSubset
  <2>7. analytics[b].expenses >= SumFunctionOnSet(f, PaidFor(b))
    BY <2>5, <2>6
  <2> QED
    BY <2>1, <2>7
<1>11. /\ dashboard.leases = Cardinality(Standing(leases, "Active"))
       /\ dashboard.rent = SumFunctionOnSet([i \in DOMAIN leases |-> leases[i].rent * leases[i].paid], DOMAIN leases)
  BY <1>4, <1>9, Zenon DEF ManagementInv, LeasesGood, WeightIn
<1>12. dashboard.screenings = Cardinality(Standing(screenings, "Pending"))
  BY <1>5, Zenon DEF ManagementInv, ScreeningsGood
<1>13. /\ dashboard.disputes = Cardinality(Unresolved)
       /\ escrowLocked = SumFunctionOnSet([i \in DOMAIN disputes |-> Stakes(disputes[i])], Unresolved)
  BY <1>6, <1>8, Zenon DEF ManagementInv, DisputesGood, WeightIn
<1>14. dashboard.maintenance <= Cardinality({i \in DOMAIN maintenance : maintenance[i].status \in OpenStatuses})
  BY <1>7, Zenon DEF ManagementInv, RequestsGood
<1>15. dashboard.rent = SumFunctionOnSet([b \in Buildings |-> analytics[b].rent], Buildings)
  BY Zenon DEF ManagementInv, FiguresGood
<1>16. \A id \in DOMAIN proposals : proposals[id].for + proposals[id].against <= Cardinality({v \in proposalVotes : v[1] = id})
  BY Zenon DEF ManagementInv, MotionsGood
<1>17. held = operatingFloat + escrowLocked
  BY DEF ManagementInv, MoneyGood
<1> QED
  BY <1>3, <1>10, <1>11, <1>12, <1>13, <1>14, <1>15, <1>16, <1>17, Zenon DEF ManagementBooksAgree

----
(***************************************************************************)
(* Fees. What the contract holds are the bids of the auctions that are not *)
(* settled; what it owes in rewards was distributed, and what it           *)
(* distributed was collected. Every configuration that is set for an       *)
(* operation has its limits in order; the one of the constructor may not.  *)
(***************************************************************************)
OrderedFees == {c \in FeeConfig : InOrder(c)}
OrderedRates == {c \in RateConfig : c.base <= c.max /\ c.multiplier >= 100}
CleanAuction == {a \in Auction : a.escrowed = IF a.settled THEN 0 ELSE a.bid}
OpenAuctions == {a \in CleanAuction : ~a.settled}
BidOf == [a \in CleanAuction |-> a.bid]

LimitsGood ==
    /\ block \in Nat /\ lastReset \in Nat /\ recentOps \in Nat /\ validatorShare \in 0..Denominator
    /\ defaultConfig \in FeeConfig /\ operationConfig \in [DOMAIN operationConfig -> OrderedFees]
    /\ rateConfig \in OrderedRates
FundsGood ==
    /\ treasury \in Nat /\ totalCollected \in Nat /\ totalDistributed \in Nat
    /\ pendingRewards \in [Validators -> Nat] /\ validatorList \subseteq Validators
    /\ treasury + totalDistributed <= totalCollected
    /\ SumFunctionOnSet(pendingRewards, Validators) <= totalDistributed
AuctionsGood == auctions \in Seq(CleanAuction) /\ Len(auctions) <= MaxAuctions /\ feesHeld = WeightIn(auctions, BidOf, OpenAuctions)
FeesInv == LimitsGood /\ FundsGood /\ AuctionsGood

\* Quotients grow with what is divided, the lesser of two grows with both.
LEMMA Quotients ==
    /\ \A p \in Nat \ {0} : \A a, b \in Nat : a <= b => a \div p <= b \div p
    /\ \A p \in Nat \ {0} : \A a \in Nat : a \div p \in Nat
<1>1. \A p \in Nat \ {0} : \A a \in Nat : a \div p \in Nat
  BY RoundedDown
<1>2. ASSUME NEW p \in Nat \ {0}, NEW a \in Nat, NEW b \in Nat, a <= b PROVE a \div p <= b \div p
  <2> DEFINE m == a \div p
             n == b \div p
  <2>1. m \in Nat /\ n \in Nat /\ p * m <= a /\ b < p * n + p
    BY <1>2
  <2>2. p * n + p = p * (n + 1) /\ p * m \in Nat /\ p * (n + 1) \in Nat
    BY <2>1, Products
  <2> HIDE DEF m, n
  <2>3. ~(n + 1 <= m)
    BY <2>1, Products, <1>2, <2>2
  <2>4. m <= n
    BY <2>1, <2>3
  <2> QED
    BY <2>4 DEF m, n
<1> QED
  BY <1>1, <1>2

\* The numbers a fee is computed from.
LEMMA FeeNumbers ==
    ASSUME NEW c \in OrderedFees, NEW o, NEW i \in Nat, NEW j \in Nat, i <= j, NEW demand \in Nat
    PROVE  /\ Multiplier(c, o, i, demand) \in Nat /\ Multiplier(c, o, j, demand) \in Nat
           /\ Multiplier(c, o, i, demand) <= Multiplier(c, o, j, demand)
<1> DEFINE s == c.sensitivity
<1>1. s \in Nat /\ c.method \in FeeMethods
  BY DEF OrderedFees, FeeConfig
<1> HIDE DEF s
<1>2. /\ TierMultiplier(o) \in Nat /\ Denominator = 10000 /\ Least(demand, 5000) \in Nat
  BY DEF TierMultiplier, Denominator, Least
<1>3. /\ DynamicMultiplier(c, i, demand) \in Nat /\ DynamicMultiplier(c, j, demand) \in Nat
      /\ DynamicMultiplier(c, i, demand) <= DynamicMultiplier(c, j, demand)
  <2> DEFINE x == i * s
             y == j * s
  <2>1. x \in Nat /\ y \in Nat /\ x <= y
    BY <1>1, Products
  <2>2. /\ DynamicMultiplier(c, i, demand) = Denominator + (x * 200) \div 10000 + Least(demand, 5000)
        /\ DynamicMultiplier(c, j, demand) = Denominator + (y * 200) \div 10000 + Least(demand, 5000)
    BY DEF DynamicMultiplier, s
  <2> HIDE DEF x, y
  <2>3. (x * 200) \div 10000 \in Nat /\ (y * 200) \div 10000 \in Nat /\ (x * 200) \div 10000 <= (y * 200) \div 10000
    BY <2>1
  <2> QED
    BY <1>2, <2>2, <2>3
<1>4. /\ ExponentialMultiplier(c, i) \in Nat /\ ExponentialMultiplier(c, j) \in Nat
      /\ ExponentialMultiplier(c, i) <= ExponentialMultiplier(c, j)
  <2> DEFINE x == i * i * s
             y == j * j * s
  <2>1. x \in Nat /\ y \in Nat /\ x <= y
    BY Products, <1>1
  <2>2. ExponentialMultiplier(c, i) = Denominator + x \div 100 /\ ExponentialMultiplier(c, j) = Denominator + y \div 100
    BY DEF ExponentialMultiplier, s
  <2> HIDE DEF x, y
  <2>3. x \div 100 \in Nat /\ y \div 100 \in Nat /\ x \div 100 <= y \div 100
    BY <2>1
  <2> QED
    BY <1>2, <2>2, <2>3
<1>5. CASE c.method = "Fixed"
  BY <1>2, <1>5 DEF Multiplier
<1>6. CASE c.method = "Dynamic"
  BY <1>3, <1>6 DEF Multiplier
<1>7. CASE c.method = "Tiered"
  BY <1>2, <1>7 DEF Multiplier
<1>8. CASE c.method = "Exponential"
  BY <1>4, <1>8 DEF Multiplier
<1> QED
  BY <1>1, <1>5, <1>6, <1>7, <1>8 DEF FeeMethods

\* A fee is within the limits of its configuration and does not fall as congestion grows
\* (calculate_fee, the fee strategies).
LEMMA FeeIsClamped ==
    ASSUME NEW c \in OrderedFees, NEW o, NEW i \in Nat, NEW j \in Nat, i <= j, NEW demand \in Nat
    PROVE  /\ FeeAt(c, o, i, demand) \in c.min .. c.max
           /\ FeeAt(c, o, i, demand) <= FeeAt(c, o, j, demand)
<1> DEFINE m == Multiplier(c, o, i, demand)
           n == Multiplier(c, o, j, demand)
<1>1. m \in Nat /\ n \in Nat /\ m <= n
  BY FeeNumbers
<1>2. c.base \in Nat /\ c.min \in Nat /\ c.max \in Nat /\ c.min <= c.max /\ Denominator = 10000
  BY DEF OrderedFees, FeeConfig, Denominator, InOrder
<1> HIDE DEF m, n
<1> DEFINE x == (c.base * m) \div Denominator
           y == (c.base * n) \div Denominator
<1>3. x \in Nat /\ y \in Nat /\ x <= y
  BY <1>1, <1>2, Products
<1>4. FeeAt(c, o, i, demand) = Clamp(x, c.min, c.max) /\ FeeAt(c, o, j, demand) = Clamp(y, c.min, c.max)
  BY DEF FeeAt, m, n
<1> HIDE DEF x, y
<1> QED
  BY <1>2, <1>3, <1>4 DEF Clamp

\* The rate is at most its cap, and at least its base unless it was too large for a u32
\* (compute_fee_rate).
LEMMA RateIsBounded ==
    ASSUME NEW c \in OrderedRates, NEW i \in Nat
    PROVE  /\ ComputeFeeRate(c, i) <= c.max
           /\ ComputeFeeRate(c, i) >= c.base \/ EffectiveRate(c, i) >= WordSize
<1> DEFINE x == EffectiveRate(c, i)
           use == (Least(i, 100) * (c.multiplier - 100)) \div 100
<1>1. c.base \in Nat /\ c.max \in Nat /\ c.multiplier \in Nat /\ c.base <= c.max /\ c.multiplier >= 100
  BY WordConstants DEF OrderedRates, RateConfig, Word
<1>2. use \in Nat
  BY <1>1, Products DEF Least
<1>3. x = (c.base * (100 + use)) \div 100
  BY DEF EffectiveRate
<1> HIDE DEF use
<1> DEFINE more == c.base * use
<1>4. more \in Nat /\ c.base * (100 + use) = 100 * c.base + more
  BY <1>1, <1>2, Products
<1> HIDE DEF more
<1>5. x \in Nat /\ x >= c.base
  BY <1>1, <1>3, <1>4
<1>6. ComputeFeeRate(c, i) = Least(AsU32(x), c.max)
  BY DEF ComputeFeeRate
<1> HIDE DEF x
<1>7. AsU32(x) \in Nat /\ (x < WordSize => AsU32(x) = x)
  BY <1>5, WordConstants DEF AsU32
<1>8. Least(AsU32(x), c.max) <= c.max /\ (Least(AsU32(x), c.max) >= c.base \/ x >= WordSize)
  BY <1>1, <1>5, <1>7, WordConstants DEF Least
<1> QED
  BY <1>6, <1>8 DEF x

\* Congestion is a percentage (congestion_index).
LEMMA CongestionIsPercentage == LimitsGood => CongestionIndex \in 0..100
<1> SUFFICES ASSUME LimitsGood PROVE CongestionIndex \in 0..100
  OBVIOUS
<1>1. recentOps \in Nat /\ CongestionWindow \in Nat \ {0}
  BY FeeConstants DEF LimitsGood
<1> DEFINE x == (recentOps * 100) \div CongestionWindow
<1>2. x \in Nat
  BY <1>1, RoundedDown
<1>3. CongestionIndex = 0 \/ CongestionIndex = Least(x, 100)
  BY DEF CongestionIndex
<1> HIDE DEF x
<1> QED
  BY <1>2, <1>3 DEF Least

LEMMA DemandIsNatural == LimitsGood => DemandFactor \in Nat
<1> SUFFICES ASSUME LimitsGood PROVE DemandFactor \in Nat
  OBVIOUS
<1> DEFINE x == defaultConfig.demand * CongestionIndex
<1>1. CongestionIndex \in Nat /\ defaultConfig.demand \in Nat
  BY CongestionIsPercentage DEF LimitsGood, FeeConfig
<1>2. x \in Nat
  BY <1>1, Products
<1>3. DemandFactor = x \div 100
  BY DEF DemandFactor
<1> HIDE DEF x
<1> QED
  BY <1>2, <1>3

\* With limits in order a fee is a number.
LEMMA FeesOfOrdered == LimitsGood => \A o : InOrder(ConfigOf(o)) => ConfigOf(o) \in OrderedFees /\ CalculateFee(o) \in Nat
  BY CongestionIsPercentage, DemandIsNatural, FeeIsClamped DEF ConfigOf, LimitsGood, CalculateFee, OrderedFees,
     FeeConfig

\* The larger of two numbers.
LEMMA LargerOfTwo == \A a, b \in Nat : Max({a, b}) \in Nat /\ Max({a, b}) >= a /\ Max({a, b}) >= b
<1> TAKE a, b \in Nat
<1>1. \E x \in {a, b} : \A y \in {a, b} : x >= y
  OBVIOUS
<1>2. Max({a, b}) \in {a, b} /\ \A y \in {a, b} : Max({a, b}) >= y
  BY <1>1, Zenon DEF Max
<1> QED
  BY <1>2

\* Settings: limits stay in order, the base fee moves within them (update_fee_params,
\* set_operation_config, set_dynamic_fee_config, set_distribution_rates).
LEMMA FeeSettingsKeep == FeesInv /\ FeeSettingsNext /\ UNCHANGED block => FeesInv'
<1> SUFFICES ASSUME FeesInv, UNCHANGED block, NEW caller \in FeeUsers,
        \/ \E operation \in {"PremiumListingBid", "IssueBadge"}, config \in FeeConfigArgs : SetOperationConfig(caller, operation, config)
        \/ UpdateFeeParams(caller)
        \/ \E config \in RateConfigArgs : SetDynamicFeeConfig(caller, config)
        \/ \E shares \in ShareArgs : SetDistributionRates(caller, shares, Denominator - shares)
        \/ \E v \in Validators : AddValidator(caller, v) \/ RemoveValidator(caller, v)
             PROVE  FeesInv'
  BY Zenon DEF FeeSettingsNext
<1>1. ASSUME NEW operation, NEW config \in FeeConfigArgs, SetOperationConfig(caller, operation, config) PROVE FeesInv'
  <2>1. /\ operationConfig' = [o \in DOMAIN operationConfig \cup {operation} |-> IF o = operation THEN config ELSE operationConfig[o]]
        /\ InOrder(config)
    BY <1>1 DEF SetOperationConfig
  <2>2. UNCHANGED <<defaultConfig, rateConfig, validatorShare, lastReset, recentOps, treasury, totalCollected, totalDistributed,
                    pendingRewards, auctions, feesHeld, validatorList>>
    BY <1>1, Zenon DEF SetOperationConfig, congestionVars, fundVars, auctionVars
  <2>3. config \in OrderedFees
    BY <2>1, FeeConstants DEF OrderedFees
  <2>4. operationConfig' \in [DOMAIN operationConfig' -> OrderedFees]
    BY <2>1, <2>3 DEF FeesInv, LimitsGood
  <2> QED
    BY <2>2, <2>4 DEF FeesInv, LimitsGood, FundsGood, AuctionsGood
<1>2. ASSUME UpdateFeeParams(caller) PROVE FeesInv'
  <2> DEFINE base == defaultConfig.base
             new == IF CongestionIndex > 70 THEN Least((base * 105) \div 100, defaultConfig.max)
                    ELSE IF CongestionIndex < 30 THEN Max({(base * 95) \div 100, defaultConfig.min}) ELSE base
  <2>1. defaultConfig' = [defaultConfig EXCEPT !.base = new]
    BY <1>2 DEF UpdateFeeParams
  <2>2. UNCHANGED <<operationConfig, rateConfig, validatorShare, lastReset, recentOps, treasury, totalCollected, totalDistributed,
                    pendingRewards, auctions, feesHeld, validatorList>>
    BY <1>2, Zenon DEF UpdateFeeParams, congestionVars, fundVars, auctionVars
  <2>3. defaultConfig \in FeeConfig /\ base \in Nat /\ defaultConfig.max \in Nat /\ defaultConfig.min \in Nat
    BY DEF FeesInv, LimitsGood, FeeConfig
  <2> HIDE DEF base
  <2>4. new \in Nat
    BY <2>3, LargerOfTwo DEF Least
  <2> HIDE DEF new
  <2>5. defaultConfig' \in FeeConfig
    BY <2>1, <2>3, <2>4 DEF FeeConfig
  <2> QED
    BY <2>2, <2>5 DEF FeesInv, LimitsGood, FundsGood, AuctionsGood
<1>3. ASSUME NEW config \in RateConfigArgs, SetDynamicFeeConfig(caller, config) PROVE FeesInv'
  <2>1. rateConfig' = config /\ config.base <= config.max /\ config.multiplier >= 100
    BY <1>3 DEF SetDynamicFeeConfig
  <2>2. UNCHANGED <<operationConfig, defaultConfig, validatorShare, lastReset, recentOps, treasury, totalCollected, totalDistributed,
                    pendingRewards, auctions, feesHeld, validatorList>>
    BY <1>3, Zenon DEF SetDynamicFeeConfig, congestionVars, fundVars, auctionVars
  <2>3. rateConfig' \in OrderedRates
    BY <2>1, FeeConstants DEF OrderedRates
  <2> QED
    BY <2>2, <2>3 DEF FeesInv, LimitsGood, FundsGood, AuctionsGood
<1>4. ASSUME NEW shares \in ShareArgs, SetDistributionRates(caller, shares, Denominator - shares) PROVE FeesInv'
  <2>1. validatorShare' = shares /\ shares \in 0..Denominator
    BY <1>4, FeeConstants DEF SetDistributionRates
  <2>2. UNCHANGED <<operationConfig, defaultConfig, rateConfig, lastReset, recentOps, treasury, totalCollected, totalDistributed,
                    pendingRewards, auctions, feesHeld, validatorList>>
    BY <1>4, Zenon DEF SetDistributionRates, congestionVars, fundVars, auctionVars
  <2> QED
    BY <2>1, <2>2 DEF FeesInv, LimitsGood, FundsGood, AuctionsGood
<1>5. ASSUME NEW v \in Validators, AddValidator(caller, v) \/ RemoveValidator(caller, v) PROVE FeesInv'
  <2>1. validatorList' = validatorList \cup {v} \/ validatorList' = validatorList \ {v}
    BY <1>5 DEF AddValidator, RemoveValidator
  <2>2. UNCHANGED <<operationConfig, defaultConfig, rateConfig, validatorShare, lastReset, recentOps, treasury, totalCollected,
                    totalDistributed, pendingRewards, auctions, feesHeld>>
    BY <1>5, Zenon DEF AddValidator, RemoveValidator, feeSettingVars, congestionVars, fundVars, auctionVars
  <2>3. validatorList' \subseteq Validators
    BY <2>1 DEF FeesInv, FundsGood
  <2> QED
    BY <2>2, <2>3 DEF FeesInv, LimitsGood, FundsGood, AuctionsGood
<1> QED
  BY <1>1, <1>2, <1>3, <1>4, <1>5, Zenon

\* A fee that is reported is collected (record_fee_collected).
LEMMA RecordFeeKeeps ==
    ASSUME FeesInv, UNCHANGED block, NEW amount \in Nat, RecordFeeCollected(amount)
    PROVE  FeesInv'
<1>1. treasury' = treasury + amount /\ totalCollected' = totalCollected + amount
  BY DEF RecordFeeCollected
<1>2. UNCHANGED <<operationConfig, defaultConfig, rateConfig, validatorShare, totalDistributed, pendingRewards, auctions, feesHeld, validatorList>>
  BY Zenon DEF RecordFeeCollected, feeSettingVars, auctionVars
<1>3. lastReset' \in Nat /\ recentOps' \in Nat
  BY FeeConstants DEF FeesInv, LimitsGood, RecordFeeCollected, Least
<1>4. FundsGood'
  BY <1>1, <1>2 DEF FeesInv, FundsGood
<1> QED
  BY <1>2, <1>3, <1>4 DEF FeesInv, LimitsGood, AuctionsGood

\* The members of a set counted one by one.
LEMMA SumOfOnes ==
    ASSUME NEW g, NEW S, IsFiniteSet(S), \A x \in S : g[x] = 1
    PROVE  SumFunctionOnSet(g, S) = Cardinality(S)
<1> DEFINE P == {T \in SUBSET S : SumFunctionOnSet(g, T) = Cardinality(T)}
<1>1. ASSUME NEW T \in SUBSET S, \A U \in SUBSET T : U # T => U \in P PROVE T \in P
  <2>1. CASE T = {}
    BY <2>1, SumEmpty, FS_EmptySet
  <2>2. CASE T # {}
    <3>1. PICK c : c \in T
      BY <2>2
    <3>2. T \ {c} \in P
      BY <1>1, <3>1
    <3>3. IsFiniteSet(T) /\ Cardinality(T) \in Nat
      BY FS_Subset, FS_CardinalityType
    <3>4. Cardinality(T \ {c}) = Cardinality(T) - 1
      BY <3>1, <3>3, FS_RemoveElement
    <3>5. \A x \in T : g[x] \in Int
      OBVIOUS
    <3>6. SumFunctionOnSet(g, T) = g[c] + SumFunctionOnSet(g, T \ {c})
      BY <3>1, <3>3, <3>5, SumRemove
    <3> QED
      BY <3>1, <3>2, <3>3, <3>4, <3>6
  <2> QED
    BY <2>1, <2>2
<1>2. S \in P
  <2> HIDE DEF P
  <2> QED
    BY <1>1, SetInduct
<1> QED
  BY <1>2

\* What the validators get together.
LEMMA PartsAddUp ==
    ASSUME NEW f \in [Validators -> Nat], NEW V \in SUBSET Validators, NEW part \in Nat
    PROVE  SumFunctionOnSet([v \in Validators |-> f[v] + IF v \in V THEN part ELSE 0], Validators)
               = SumFunctionOnSet(f, Validators) + part * Cardinality(V)
<1> DEFINE h == [v \in Validators |-> f[v] + IF v \in V THEN part ELSE 0]
           g == [v \in Validators |-> IF v \in V THEN 1 ELSE 0]
<1>1. IsFiniteSet(Validators) /\ IsFiniteSet(V)
  BY FeeConstants, FS_Subset
<1>2. \A v \in Validators : f[v] \in Int /\ g[v] \in Int /\ h[v] = f[v] + part * g[v]
  BY Products
<1>3. (\A v \in V : g[v] = 1 /\ g[v] \in Int) /\ \A v \in Validators \ V : g[v] = 0
  OBVIOUS
<1> HIDE DEF h, g
<1>4. SumFunctionOnSet(h, Validators) = SumFunctionOnSet(f, Validators) + part * SumFunctionOnSet(g, Validators)
  BY <1>1, <1>2, SumLinear
<1>5. SumFunctionOnSet(g, Validators) = SumFunctionOnSet(g, V)
  BY <1>1, <1>3, SumOutside
<1>6. SumFunctionOnSet(g, V) = Cardinality(V)
  BY <1>1, <1>3, SumOfOnes
<1> QED
  BY <1>4, <1>5, <1>6 DEF h

\* The parts are never more than the treasury.
LEMMA PartsWithinTreasury ==
    ASSUME FeesInv, validatorList # {}
    PROVE  PerValidator \in Nat /\ Cardinality(validatorList) \in Nat /\ PerValidator * Cardinality(validatorList) \in Nat
           /\ PerValidator * Cardinality(validatorList) <= treasury
<1> DEFINE n == Cardinality(validatorList)
           y == validatorShare * treasury
           x == y \div Denominator
<1>1. validatorShare \in Nat /\ validatorShare <= 10000 /\ treasury \in Nat /\ Denominator = 10000
  <2>1. validatorShare \in 0..Denominator /\ Denominator = 10000
    BY SMTT(30) DEF FeesInv, LimitsGood, Denominator
  <2>2. treasury \in Nat
    BY DEF FeesInv, FundsGood
  <2> QED
    BY <2>1, <2>2
<1>2. n \in Nat \ {0}
  BY FeeConstants, FS_Subset, FS_CardinalityType, FS_EmptySet DEF FeesInv, FundsGood
<1>3. y \in Nat /\ y <= 10000 * treasury
  BY <1>1, Products
<1>4. PerValidator = x \div n
  BY DEF PerValidator
<1> HIDE DEF y, n
<1>5. x \in Nat /\ x <= treasury
  BY <1>1, <1>3
<1> HIDE DEF x
<1>6. x \div n \in Nat /\ n * (x \div n) <= x
  BY <1>2, <1>5, RoundedDown
<1> DEFINE p == x \div n
<1>7. p \in Nat /\ n * p <= x
  BY <1>6
<1> HIDE DEF p
<1>8. p * n \in Nat /\ p * n = n * p
  BY <1>2, <1>7, Products
<1>9. p * n <= treasury
  BY <1>1, <1>2, <1>5, <1>7, <1>8
<1> QED
  BY <1>2, <1>4, <1>7, <1>8, <1>9 DEF p, n

\* Equal parts for the validators, out of what was collected (distribute_fees).
LEMMA DistributeKeeps ==
    ASSUME FeesInv, UNCHANGED block, NEW a, DistributeFees(a)
    PROVE  FeesInv'
<1> DEFINE part == IF validatorList = {} THEN 0 ELSE PerValidator
           n == Cardinality(validatorList)
           paid == part * n
<1>1. /\ pendingRewards' = [v \in Validators |-> pendingRewards[v] + IF v \in validatorList THEN part ELSE 0]
      /\ totalDistributed' = totalDistributed + n * part /\ treasury' = 0
  BY DEF DistributeFees
<1>2. UNCHANGED <<operationConfig, defaultConfig, rateConfig, validatorShare, lastReset, recentOps, totalCollected,
                  auctions, feesHeld, validatorList>>
  BY Zenon DEF DistributeFees, feeSettingVars, congestionVars, auctionVars
<1>3. /\ treasury \in Nat /\ totalCollected \in Nat /\ totalDistributed \in Nat /\ treasury + totalDistributed <= totalCollected
      /\ pendingRewards \in [Validators -> Nat] /\ validatorList \in SUBSET Validators
      /\ SumFunctionOnSet(pendingRewards, Validators) <= totalDistributed
  BY DEF FeesInv, FundsGood
<1>4. part \in Nat /\ n \in Nat /\ paid \in Nat /\ paid <= treasury /\ n * part = paid
  <2>1. CASE validatorList = {}
    BY <2>1, FS_EmptySet, <1>3
  <2>2. CASE validatorList # {}
    BY <2>2, PartsWithinTreasury
  <2> QED
    BY <2>1, <2>2
<1>5. /\ SumFunctionOnSet(pendingRewards', Validators) = SumFunctionOnSet(pendingRewards, Validators) + paid
      /\ SumFunctionOnSet(pendingRewards, Validators) \in Nat
  <2>1. SumFunctionOnSet(pendingRewards, Validators) \in Nat
    BY <1>3, FeeConstants, SumNatural
  <2> HIDE DEF part
  <2> QED
    BY <1>1, <1>3, <1>4, <2>1, PartsAddUp
<1>6. pendingRewards' \in [Validators -> Nat]
  <2> HIDE DEF part
  <2> QED
    BY <1>1, <1>3, <1>4
<1> HIDE DEF paid
<1>7. FundsGood'
  BY <1>1, <1>2, <1>3, <1>4, <1>5, <1>6 DEF FundsGood
<1> QED
  BY <1>2, <1>7 DEF FeesInv, LimitsGood, AuctionsGood

\* A claim clears what is pending (claim_rewards).
LEMMA ClaimRewardsKeeps ==
    ASSUME FeesInv, UNCHANGED block, NEW a, ClaimRewards(a)
    PROVE  FeesInv'
<1> DEFINE f == pendingRewards
           g == pendingRewards'
<1>1. a \in Validators /\ pendingRewards' = Written(pendingRewards, a, 0)
  BY DEF ClaimRewards, Written
<1>2. UNCHANGED <<operationConfig, defaultConfig, rateConfig, validatorShare, lastReset, recentOps, treasury, totalCollected,
                  totalDistributed, auctions, feesHeld, validatorList>>
  BY Zenon DEF ClaimRewards, feeSettingVars, congestionVars, auctionVars
<1>3. /\ f \in [Validators -> Nat] /\ SumFunctionOnSet(f, Validators) <= totalDistributed /\ totalDistributed \in Nat
      /\ IsFiniteSet(Validators)
  BY FeeConstants DEF FeesInv, FundsGood
<1>4. g \in [Validators -> Nat] /\ \A v \in Validators : g[v] \in Int /\ f[v] \in Int /\ g[v] <= f[v]
  BY <1>1, <1>3 DEF Written
<1>5. /\ SumFunctionOnSet(g, Validators) <= SumFunctionOnSet(f, Validators)
      /\ SumFunctionOnSet(g, Validators) \in Int /\ SumFunctionOnSet(f, Validators) \in Int
  BY <1>3, <1>4, SumMonotone, SumType
<1>6. SumFunctionOnSet(pendingRewards', Validators) <= totalDistributed
  BY <1>3, <1>5
<1>7. FundsGood'
  BY <1>2, <1>4, <1>6 DEF FeesInv, FundsGood
<1> QED
  BY <1>2, <1>7 DEF FeesInv, LimitsGood, AuctionsGood

\* An auction is created with no bid; its fee is collected (create_premium_auction).
LEMMA CreateAuctionKeeps ==
    ASSUME FeesInv, UNCHANGED block, NEW a \in FeeUsers, NEW minBid \in Nat, NEW duration \in Nat,
           Len(auctions) < MaxAuctions, CreatePremiumAuction(a, minBid, duration)
    PROVE  FeesInv'
<1> DEFINE d == [seller |-> a, minBid |-> minBid, bid |-> 0, bidder |-> "none",
                 escrowed |-> 0, end |-> block + duration, settled |-> FALSE]
           fee == CalculateFee("PremiumListingBid")
<1>1. auctions' = Append(auctions, d) /\ treasury' = treasury + fee /\ totalCollected' = totalCollected + fee
  BY DEF CreatePremiumAuction
<1>2. UNCHANGED <<operationConfig, defaultConfig, rateConfig, validatorShare, lastReset, recentOps, totalDistributed,
                  pendingRewards, feesHeld, validatorList>>
  BY Zenon DEF CreatePremiumAuction, feeSettingVars, congestionVars
<1>3. auctions \in Seq(CleanAuction) /\ Len(auctions) <= MaxAuctions /\ feesHeld = WeightIn(auctions, BidOf, OpenAuctions)
  BY DEF FeesInv, AuctionsGood
<1>4. fee \in Nat
  BY FeesOfOrdered DEF FeesInv, CreatePremiumAuction
<1> HIDE DEF fee
<1>5. d \in CleanAuction /\ d.bid = 0
  BY DEF FeesInv, LimitsGood, Auction, CleanAuction
<1> HIDE DEF d
<1>6. BidOf \in [CleanAuction -> Nat] /\ Part(d, BidOf, OpenAuctions) = 0
  BY <1>5 DEF BidOf, CleanAuction, Auction, Part
<1>7. AuctionsGood'
  <2>1. /\ Append(auctions, d) \in Seq(CleanAuction) /\ Len(Append(auctions, d)) = Len(auctions) + 1 /\ Len(auctions) \in Nat
    BY <1>3, <1>5, SeqAppended
  <2>2. WeightIn(Append(auctions, d), BidOf, OpenAuctions) = WeightIn(auctions, BidOf, OpenAuctions) + Part(d, BidOf, OpenAuctions)
    BY <1>3, <1>5, <1>6, RecordAppended
  <2>3. WeightIn(auctions, BidOf, OpenAuctions) \in Nat
    BY <1>3, <1>6, PlacesNumbers
  <2>4. MaxAuctions \in Nat
    BY FeeConstants
  <2> QED
    BY <1>1, <1>2, <1>3, <1>6, <2>1, <2>2, <2>3, <2>4 DEF AuctionsGood
<1>8. FundsGood'
  BY <1>1, <1>2, <1>4 DEF FeesInv, FundsGood
<1> QED
  BY <1>2, <1>7, <1>8 DEF FeesInv, LimitsGood

\* A bid takes the place of the one before, which is refunded (place_bid).
LEMMA PlaceBidKeeps ==
    ASSUME FeesInv, UNCHANGED block, NEW a \in FeeUsers, NEW id \in DOMAIN auctions, NEW amount \in Nat, NEW attached \in Nat,
           PlaceBid(a, id, amount, attached)
    PROVE  FeesInv'
<1> DEFINE o == auctions[id]
           d == [o EXCEPT !.bid = amount, !.bidder = a, !.escrowed = amount]
<1>1. auctions' = Written(auctions, id, d) /\ feesHeld' = feesHeld + attached - o.escrowed - (attached - amount) /\ ~o.settled
  BY DEF PlaceBid, Biddable, Written
<1>2. UNCHANGED <<operationConfig, defaultConfig, rateConfig, validatorShare, lastReset, recentOps, treasury, totalCollected,
                  totalDistributed, pendingRewards, validatorList>>
  BY Zenon DEF PlaceBid, feeSettingVars, congestionVars, fundVars
<1>3. /\ auctions \in Seq(CleanAuction) /\ o \in CleanAuction /\ Len(auctions) <= MaxAuctions
      /\ feesHeld = WeightIn(auctions, BidOf, OpenAuctions)
  BY DEF FeesInv, AuctionsGood
<1>4. o \in CleanAuction
  BY <1>3
<1> HIDE DEF o
<1>5. o \in Auction /\ o.escrowed = o.bid /\ o.bid \in Nat
  BY <1>1, <1>4 DEF CleanAuction, Auction
<1>6. d \in Auction /\ d.bid = amount /\ d.escrowed = amount /\ d.settled = o.settled
  BY <1>5 DEF Auction
<1> HIDE DEF d
<1>7. d \in CleanAuction /\ d \in OpenAuctions /\ o \in OpenAuctions
  BY <1>1, <1>4, <1>6 DEF CleanAuction, OpenAuctions
<1>8. BidOf \in [CleanAuction -> Nat]
  BY DEF BidOf, CleanAuction, Auction
<1>9. Part(d, BidOf, OpenAuctions) = amount /\ Part(o, BidOf, OpenAuctions) = o.bid
  BY <1>4, <1>6, <1>7 DEF Part, BidOf
<1>10. AuctionsGood'
  <2>1. Written(auctions, id, d) \in Seq(CleanAuction) /\ Len(Written(auctions, id, d)) = Len(auctions)
    BY <1>3, <1>7, SeqWritten
  <2>2. WeightIn(Written(auctions, id, d), BidOf, OpenAuctions)
            = WeightIn(auctions, BidOf, OpenAuctions) - Part(auctions[id], BidOf, OpenAuctions) + Part(d, BidOf, OpenAuctions)
    BY <1>3, <1>7, <1>8, RecordWritten
  <2>3. WeightIn(auctions, BidOf, OpenAuctions) \in Nat
    BY <1>3, <1>8, PlacesNumbers
  <2>4. Part(auctions[id], BidOf, OpenAuctions) = o.bid
    BY <1>9 DEF o
  <2>5. WeightIn(Written(auctions, id, d), BidOf, OpenAuctions) = feesHeld - o.bid + amount
    BY <1>3, <1>9, <2>2, <2>4
  <2>6. feesHeld' = feesHeld - o.bid + amount
    BY <1>1, <1>3, <1>5, <2>3
  <2> QED
    BY <1>1, <1>3, <2>1, <2>5, <2>6 DEF AuctionsGood
<1> QED
  BY <1>2, <1>10 DEF FeesInv, LimitsGood, FundsGood

\* A settled auction pays its escrow out (settle_auction).
LEMMA SettleKeeps ==
    ASSUME FeesInv, UNCHANGED block, NEW id \in DOMAIN auctions, SettleAuction(id)
    PROVE  FeesInv'
<1> DEFINE o == auctions[id]
           d == [o EXCEPT !.settled = TRUE, !.escrowed = 0]
<1>1. auctions' = Written(auctions, id, d) /\ feesHeld' = feesHeld - o.escrowed /\ ~o.settled
  BY DEF SettleAuction, Settleable, Written
<1>2. UNCHANGED <<operationConfig, defaultConfig, rateConfig, validatorShare, lastReset, recentOps, treasury, totalCollected,
                  totalDistributed, pendingRewards, validatorList>>
  BY Zenon DEF SettleAuction, feeSettingVars, congestionVars, fundVars
<1>3. /\ auctions \in Seq(CleanAuction) /\ o \in CleanAuction /\ Len(auctions) <= MaxAuctions
      /\ feesHeld = WeightIn(auctions, BidOf, OpenAuctions)
  BY DEF FeesInv, AuctionsGood
<1>4. o \in CleanAuction
  BY <1>3
<1> HIDE DEF o
<1>5. o \in Auction /\ o.escrowed = o.bid /\ o.bid \in Nat
  BY <1>1, <1>4 DEF CleanAuction, Auction
<1>6. d \in Auction /\ d.escrowed = 0 /\ d.settled
  BY <1>5 DEF Auction
<1> HIDE DEF d
<1>7. d \in CleanAuction /\ d \notin OpenAuctions /\ o \in OpenAuctions
  BY <1>1, <1>4, <1>6 DEF CleanAuction, OpenAuctions
<1>8. BidOf \in [CleanAuction -> Nat]
  BY DEF BidOf, CleanAuction, Auction
<1>9. Part(d, BidOf, OpenAuctions) = 0 /\ Part(o, BidOf, OpenAuctions) = o.bid
  BY <1>4, <1>7 DEF Part, BidOf
<1>10. AuctionsGood'
  <2>1. Written(auctions, id, d) \in Seq(CleanAuction) /\ Len(Written(auctions, id, d)) = Len(auctions)
    BY <1>3, <1>7, SeqWritten
  <2>2. WeightIn(Written(auctions, id, d), BidOf, OpenAuctions)
            = WeightIn(auctions, BidOf, OpenAuctions) - Part(auctions[id], BidOf, OpenAuctions) + Part(d, BidOf, OpenAuctions)
    BY <1>3, <1>7, <1>8, RecordWritten
  <2>3. WeightIn(auctions, BidOf, OpenAuctions) \in Nat
    BY <1>3, <1>8, PlacesNumbers
  <2>4. Part(auctions[id], BidOf, OpenAuctions) = o.bid
    BY <1>9 DEF o
  <2>5. WeightIn(Written(auctions, id, d), BidOf, OpenAuctions) = feesHeld - o.bid
    BY <1>3, <1>5, <1>9, <2>2, <2>3, <2>4
  <2> QED
    BY <1>1, <1>3, <1>5, <2>1, <2>5 DEF AuctionsGood
<1> QED
  BY <1>2, <1>10 DEF FeesInv, LimitsGood, FundsGood

LEMMA FeesStep == FeesInv /\ FeesNext /\ UNCHANGED block => FeesInv'
<1> SUFFICES ASSUME FeesInv, FeesNext, UNCHANGED block PROVE FeesInv'
  OBVIOUS
<1>1. \A n \in BidArgs \cup DurationArgs \cup CollectArgs : n \in Nat
  BY FeeConstants
<1>2. CASE FeeSettingsNext
  BY <1>2, FeeSettingsKeep
<1>3. CASE FundsNext
  BY <1>1, RecordFeeKeeps, DistributeKeeps, ClaimRewardsKeeps, <1>3 DEF FundsNext
<1>4. CASE AuctionsNext
  <2>1. ASSUME NEW caller \in FeeUsers, NEW minBid \in BidArgs, NEW duration \in DurationArgs,
               Len(auctions) < MaxAuctions, CreatePremiumAuction(caller, minBid, duration)
        PROVE  FeesInv'
    BY <1>1, <2>1, CreateAuctionKeeps
  <2>2. ASSUME NEW caller \in FeeUsers, NEW id \in DOMAIN auctions, NEW amount \in BidArgs, NEW more \in {0, 1},
               PlaceBid(caller, id, amount, amount + more)
        PROVE  FeesInv'
    BY <1>1, <2>2, PlaceBidKeeps
  <2>3. ASSUME NEW id \in DOMAIN auctions, SettleAuction(id) PROVE FeesInv'
    BY <2>3, SettleKeeps
  <2> QED
    BY <1>4, <2>1, <2>2, <2>3, Zenon DEF AuctionsNext
<1> QED
  BY <1>2, <1>3, <1>4 DEF FeesNext

LEMMA FeesInvInit == ChainInit /\ FeesInit => FeesInv
<1> SUFFICES ASSUME ChainInit, FeesInit PROVE FeesInv
  OBVIOUS
<1>1. /\ block = 1 /\ operationConfig = << >> /\ defaultConfig \in FeeConfig /\ recentOps = 0 /\ lastReset = block
      /\ auctions = << >> /\ feesHeld = 0 /\ treasury = 0 /\ totalCollected = 0 /\ totalDistributed = 0
      /\ pendingRewards = [v \in Validators |-> 0] /\ validatorList = {} /\ validatorShare = 5000
      /\ rateConfig = [base |-> 30, multiplier |-> 300, max |-> 200]
  BY FeeConstants DEF ChainInit, FeesInit, FirstConfig, FeeConfig, FeeMethods
<1>2. rateConfig \in OrderedRates
  BY <1>1, FeeConstants, WordConstants DEF OrderedRates, RateConfig, Word
<1>3. LimitsGood
  BY <1>1, <1>2 DEF LimitsGood, Denominator
<1>4. FundsGood
  BY <1>1, FeeConstants, SumZero DEF FundsGood
<1>5. AuctionsGood
  BY SumEmpty, <1>1, FeeConstants DEF Places, WeightIn, AuctionsGood
<1> QED
  BY <1>3, <1>4, <1>5 DEF FeesInv

\* What the books are for a reader of the contract.
LEMMA FeeBooks == FeesInv => FeeBooksAgree
<1> SUFFICES ASSUME FeesInv PROVE FeeBooksAgree
  OBVIOUS
<1>1. auctions \in Seq(CleanAuction) /\ Len(auctions) <= MaxAuctions /\ feesHeld = WeightIn(auctions, BidOf, OpenAuctions)
  BY DEF FeesInv, AuctionsGood
<1>2. \A i \in DOMAIN auctions : auctions[i] \in CleanAuction
  BY <1>1
<1>3. auctions \in Seq(Auction)
  BY <1>1 DEF CleanAuction
<1>4. BidOf \in [CleanAuction -> Nat]
  BY DEF BidOf, CleanAuction, Auction
<1>5. feesHeld \in Nat
  BY <1>1, <1>4, PlacesNumbers
<1>6. feesHeld = SumFunctionOnSet([i \in DOMAIN auctions |-> auctions[i].bid], Unsettled)
  <2>1. Places(auctions, OpenAuctions) = Unsettled
    BY <1>2 DEF Places, OpenAuctions, Unsettled
  <2>2. [i \in DOMAIN auctions |-> BidOf[auctions[i]]] = [i \in DOMAIN auctions |-> auctions[i].bid]
    BY <1>2 DEF BidOf
  <2> QED
    BY <1>1, <2>1, <2>2, Zenon DEF WeightIn
<1>7. \A i \in DOMAIN auctions : auctions[i].escrowed = IF auctions[i].settled THEN 0 ELSE auctions[i].bid
  BY <1>2 DEF CleanAuction
<1>8. FeeReport.congestion \in 0..100
  BY CongestionIsPercentage DEF FeesInv, FeeReport
<1>9. FeeReport.active \in 0..MaxAuctions
  <2> DEFINE T == {i \in DOMAIN auctions : ~auctions[i].settled /\ block < auctions[i].end}
  <2>1. T \subseteq 1..Len(auctions) /\ Len(auctions) \in Nat
    BY <1>1
  <2>2. FeeReport.active = Cardinality(T)
    BY DEF FeeReport
  <2> HIDE DEF T
  <2>3. IsFiniteSet(1..Len(auctions)) /\ Cardinality(1..Len(auctions)) = Len(auctions)
    BY <2>1, FS_Interval
  <2>4. IsFiniteSet(T) /\ Cardinality(T) <= Cardinality(1..Len(auctions))
    BY <2>1, <2>3, FS_Subset
  <2>5. Cardinality(T) \in Nat
    BY <2>4, FS_CardinalityType
  <2> QED
    BY <1>1, <2>1, <2>2, <2>3, <2>4, <2>5, FeeConstants
<1>10. defaultConfig \in FeeConfig /\ rateConfig \in RateConfig /\ validatorShare \in 0..Denominator
  BY DEF FeesInv, LimitsGood, OrderedRates
<1>11. treasury \in Nat /\ treasury + totalDistributed <= totalCollected /\ SumFunctionOnSet(pendingRewards, Validators) <= totalDistributed
  BY DEF FeesInv, FundsGood
<1>12. FeesTypeOK
  BY <1>3, <1>5, <1>8, <1>9, <1>10, <1>11, Zenon DEF FeesTypeOK
<1> QED
  BY <1>6, <1>7, <1>11, <1>12, Zenon DEF FeeBooksAgree

LEMMA LimitsKept == FeesInv => FeesWithinLimits
<1> SUFFICES ASSUME FeesInv PROVE FeesWithinLimits
  OBVIOUS
<1>1. CongestionIndex \in Nat /\ CongestionIndex <= CongestionIndex /\ DemandFactor \in Nat
  BY CongestionIsPercentage, DemandIsNatural DEF FeesInv
<1>2. ASSUME NEW o \in FeeOperations, InOrder(ConfigOf(o))
      PROVE  /\ FeeEstimate(o).fee \in ConfigOf(o).min .. ConfigOf(o).max
             /\ \A i, j \in {0, 29, 50, 100} : i <= j => FeeAt(ConfigOf(o), o, i, DemandFactor) <= FeeAt(ConfigOf(o), o, j, DemandFactor)
  <2>1. ConfigOf(o) \in OrderedFees
    BY <1>2, FeesOfOrdered DEF FeesInv
  <2>2. FeeEstimate(o).fee = FeeAt(ConfigOf(o), o, CongestionIndex, DemandFactor)
    BY DEF FeeEstimate, CalculateFee
  <2>3. \A i, j \in Nat : i <= j => FeeAt(ConfigOf(o), o, i, DemandFactor) <= FeeAt(ConfigOf(o), o, j, DemandFactor)
    BY <1>1, <2>1, FeeIsClamped
  <2> QED
    BY <1>1, <2>1, <2>2, <2>3, FeeIsClamped
<1>3. \A o \in DOMAIN operationConfig : InOrder(operationConfig[o])
  BY DEF FeesInv, LimitsGood, OrderedFees
<1>4. /\ ComputeFeeRate(rateConfig, CongestionIndex) <= rateConfig.max
      /\ ComputeFeeRate(rateConfig, CongestionIndex) >= rateConfig.base \/ EffectiveRate(rateConfig, CongestionIndex) >= WordSize
  BY <1>1, RateIsBounded DEF FeesInv, LimitsGood
<1> QED
  BY <1>2, <1>3, <1>4, Zenon DEF FeesWithinLimits

\* Both services keep their books: property management holds its float and the stakes of open
\* disputes and counts what is stored; the fee manager holds the bids that are not settled and
\* never hands out more than was collected; fees stay within limits that are in order, and
\* the rate below its cap and, unless it is too large for a u32, not below its base
\* (pay_expense, resolve_dispute, settle_auction, distribute_fees, calculate_fee,
\* compute_fee_rate).
THEOREM ServiceBooksAlwaysAgree == ServicesSpec => []ServiceBooksAgree
<1> DEFINE Inv == ManagementInv /\ FeesInv
<1>1. ChainInit /\ ManagementInit /\ FeesInit => Inv
  BY ManagementInvInit, FeesInvInit
<1>2. Inv /\ [ServicesNext]_<<block, serviceVars>> => Inv'
  <2> SUFFICES ASSUME ManagementInv, FeesInv, [ServicesNext]_<<block, serviceVars>> PROVE ManagementInv' /\ FeesInv'
    OBVIOUS
  <2>1. CASE ManagementNext /\ UNCHANGED <<block, feeVars>>
    <3>1. ManagementInv'
      BY <2>1, TenancyKeeps, UpkeepKeeps, MoneyKeeps, MotionKeeps DEF ManagementNext
    <3>2. UNCHANGED <<block, operationConfig, defaultConfig, rateConfig, validatorShare, lastReset, recentOps, treasury,
                      totalCollected, totalDistributed, pendingRewards, auctions, feesHeld, validatorList>>
      BY <2>1, Zenon DEF feeVars, feeSettingVars, congestionVars, fundVars, auctionVars
    <3> QED
      BY <3>1, <3>2 DEF FeesInv, LimitsGood, FundsGood, AuctionsGood
  <2>2. CASE (\E value \in Amounts : FundOperatingFloat(value)) /\ UNCHANGED <<block, feeVars>>
    <3>1. ManagementInv'
      BY <2>2, MoneyKeeps
    <3>2. UNCHANGED <<block, operationConfig, defaultConfig, rateConfig, validatorShare, lastReset, recentOps, treasury,
                      totalCollected, totalDistributed, pendingRewards, auctions, feesHeld, validatorList>>
      BY <2>2, Zenon DEF feeVars, feeSettingVars, congestionVars, fundVars, auctionVars
    <3> QED
      BY <3>1, <3>2 DEF FeesInv, LimitsGood, FundsGood, AuctionsGood
  <2>3. CASE FeesNext /\ UNCHANGED <<block, managementVars>>
    BY <2>3, FeesStep DEF managementVars, recordVars, motionVars, moneyVars, ManagementInv, MoneyGood
  <2>4. CASE UNCHANGED serviceVars /\ (NextBlock \/ UNCHANGED block)
    <3>1. block' \in Nat
      BY <2>4 DEF FeesInv, LimitsGood, NextBlock
    <3>2. UNCHANGED <<managementVars, feeVars>>
      BY <2>4, Zenon DEF serviceVars
    <3>3. UNCHANGED <<leases, maintenance, screenings, expenses, inspections, disputes, proposals, proposalVotes,
                      operatingFloat, escrowLocked, held, analytics, dashboard>>
      BY <3>2, Zenon DEF managementVars, recordVars, motionVars, moneyVars
    <3>4. UNCHANGED <<operationConfig, defaultConfig, rateConfig, validatorShare, lastReset, recentOps, treasury,
                      totalCollected, totalDistributed, pendingRewards, auctions, feesHeld, validatorList>>
      BY <3>2, Zenon DEF feeVars, feeSettingVars, congestionVars, fundVars, auctionVars
    <3>5. ManagementInv'
      BY <3>3 DEF ManagementInv, MoneyGood
    <3>6. FeesInv'
      BY <3>1, <3>4 DEF FeesInv, LimitsGood, FundsGood, AuctionsGood
    <3> QED
      BY <3>5, <3>6
  <2> QED
    BY <2>1, <2>2, <2>3, <2>4, Zenon DEF ServicesNext
<1>3. Inv => ServiceBooksAgree
  BY ManagementBooks, FeeBooks, LimitsKept DEF ServiceBooksAgree
<1> QED
  BY <1>1, <1>2, <1>3, PTL DEF ServicesSpec
====

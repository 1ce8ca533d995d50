---- MODULE Governance ----
(***************************************************************************)
(* Multi-signature governance (contracts/governance/src/lib.rs): proposals *)
(* the signers vote on in public or by commitment and reveal, the timelock *)
(* between approval and execution, the admin's overrides, and the signers. *)
(*                                                                         *)
(* Executing a proposal only records that it was executed: its action and  *)
(* target are not looked at by any message and are left out, as are the    *)
(* forum's comments, which no message writes.                              *)
(***************************************************************************)
EXTENDS BlockClock, SequencesExt, FiniteSetsExt

CONSTANTS
    Accounts,
    SignerArgs,         \* lists of signers the constructor may be given
    ThresholdArgs,      \* thresholds an argument may name
    TimelockBlocks,     \* timelock_blocks
    MinSigners,         \* GOVERNANCE_MIN_SIGNERS
    MaxSigners,         \* GOVERNANCE_MAX_SIGNERS
    MaxActive,          \* GOVERNANCE_MAX_ACTIVE_PROPOSALS
    RotationCooldown,   \* KEY_ROTATION_COOLDOWN_BLOCKS
    RotationExpiry,     \* KEY_ROTATION_EXPIRY_BLOCKS
    MaxProposals        \* bound: proposals of a behaviour

ASSUME GovernanceConstants ==
    /\ SignerArgs \subseteq Seq(Accounts)
    /\ ThresholdArgs \subseteq Nat
    /\ TimelockBlocks \in Nat
    /\ MinSigners \in Nat \ {0}
    /\ MaxSigners \in Nat
    /\ MaxActive \in Nat
    /\ RotationCooldown \in Nat
    /\ RotationExpiry \in Nat
    /\ MaxProposals \in Nat

Choice == {"for", "against"}

\* What a commitment can be opened as; "other" is the hash of something else.
Commitment == Choice \cup {"other"}

\* Expired, the sixth status of the code, is never assigned.
ProposalStatus == {"Active", "Approved", "Executed", "Rejected", "Cancelled"}

VARIABLES
    admin,
    rotation,       \* pending_admin_rotation, {} or a singleton
    signers,
    threshold,
    keys,           \* the accounts that have signer_public_keys
    proposals,      \* proposal n of the code is proposals[n + 1]
    votes,          \* <<proposal, voter, choice>>
    commitments,    \* <<proposal, voter, commitment>>
    revealing,      \* the proposals in reveal_phase_started
    count,          \* the proposal counters of get_analytics, by status
    closed          \* closed_participation_count and participation_sum_bps

adminVars == <<admin, rotation>>
signerVars == <<signers, threshold, keys>>
ballotVars == <<votes, commitments, revealing>>
proposalVars == <<proposals, count, closed>>
vars == <<block, adminVars, signerVars, ballotVars, proposalVars>>

Rotation == [old : Accounts, new : Accounts, effective : Nat]

Proposal ==
    [proposer : Accounts, threshold : Nat, votesFor : Nat, votesAgainst : Nat,
     status : ProposalStatus, createdAt : Nat, executedAt : Nat, timelockUntil : Nat,
     emergency : BOOLEAN]

GovernanceTypeOK ==
    /\ block \in Nat
    /\ admin \in Accounts
    /\ rotation \subseteq Rotation
    /\ signers \in Seq(Accounts)
    /\ threshold \in 0..Len(signers)
    /\ keys \subseteq Accounts
    /\ proposals \in Seq(Proposal)
    /\ votes \subseteq (1..Len(proposals)) \X Accounts \X Choice
    /\ commitments \subseteq (1..Len(proposals)) \X Accounts \X Commitment
    /\ revealing \subseteq 1..Len(proposals)
    /\ count \in [ProposalStatus -> Nat]
    /\ closed \in [count : Nat, participation : Nat]

\* Vec::dedup: an element equal to the one before it is dropped.
Dedup(s) ==
    LET kept[n \in 0..Len(s)] ==
            IF n = 0 THEN << >>
            ELSE IF n > 1 /\ s[n] = s[n - 1] THEN kept[n - 1] ELSE Append(kept[n - 1], s[n])
    IN  kept[Len(s)]

Init ==
    /\ ChainInit
    /\ admin \in Accounts
    /\ rotation = {}
    /\ \E list \in SignerArgs, t \in ThresholdArgs :
          /\ signers = Dedup(list)
          /\ threshold = IF t = 0 \/ t > Len(signers) THEN Len(signers) ELSE t
    /\ keys = {}
    /\ proposals = << >>
    /\ votes = {}
    /\ commitments = {}
    /\ revealing = {}
    /\ count = [s \in ProposalStatus |-> 0]
    /\ closed = [count |-> 0, participation |-> 0]

IsSigner(account) == \E i \in DOMAIN signers : signers[i] = account
HasVoted(p, voter) == \E c \in Choice : <<p, voter, c>> \in votes

proposalIds == 1..Len(proposals)

----
\* Status transitions and their counters

Decremented(n) == IF n = 0 THEN 0 ELSE n - 1

\* apply_status_transition, but for the status itself; new is never Active.
ApplyStatusTransition(proposal, new) ==
    /\ count' = [[count EXCEPT ![proposal.status] = Decremented(@)] EXCEPT ![new] = @ + 1]
    /\ closed' =
          IF proposal.status \notin {"Executed", "Rejected"} /\ new \in {"Executed", "Rejected"}
          THEN [count |-> closed.count + 1,
                participation |-> closed.participation +
                    (IF signers = << >> THEN 0
                     ELSE ((proposal.votesFor + proposal.votesAgainst) * 10000) \div Len(signers))]
          ELSE closed

----
\* Proposals

NewProposal(caller, needed, emergency) ==
    [proposer |-> caller, threshold |-> needed, votesFor |-> 0, votesAgainst |-> 0,
     status |-> "Active", createdAt |-> block, executedAt |-> 0, timelockUntil |-> 0,
     emergency |-> emergency]

AddProposal(caller, needed, emergency) ==
    /\ Len(proposals) < MaxProposals
    /\ IsSigner(caller)
    /\ count["Active"] < MaxActive
    /\ proposals' = Append(proposals, NewProposal(caller, needed, emergency))
    /\ count' = [count EXCEPT !["Active"] = @ + 1]
    /\ UNCHANGED <<block, adminVars, signerVars, ballotVars, closed>>

CreateProposal(caller) == AddProposal(caller, threshold, FALSE)

CreateEmergencyProposal(caller) == AddProposal(caller, Len(signers), TRUE)

\* Mutant: the timelock counts from the creation.
Voted_FromCreation(proposal, choice) ==
    LET for       == proposal.votesFor + (IF choice = "for" THEN 1 ELSE 0)
        against   == proposal.votesAgainst + (IF choice = "against" THEN 1 ELSE 0)
        remaining == IF for + against > Len(signers) THEN 0 ELSE Len(signers) - (for + against)
        status    == IF for >= proposal.threshold THEN "Approved"
                     ELSE IF for + remaining < proposal.threshold THEN "Rejected" ELSE "Active"
    IN  [proposal EXCEPT
            !.votesFor = for, !.votesAgainst = against, !.status = status,
            !.timelockUntil = IF status # "Approved" THEN @
                              ELSE IF proposal.emergency THEN block ELSE proposal.createdAt + TimelockBlocks]

\* The proposal after one more vote. It is approved when its supporters reach its
\* threshold, and rejected when the seats without a vote could not bring it there;
\* the two exclude each other.
Voted(proposal, choice) ==
    LET for       == proposal.votesFor + (IF choice = "for" THEN 1 ELSE 0)
        against   == proposal.votesAgainst + (IF choice = "against" THEN 1 ELSE 0)
        remaining == IF for + against > Len(signers) THEN 0 ELSE Len(signers) - (for + against)
        status    == IF for >= proposal.threshold THEN "Approved"
                     ELSE IF for + remaining < proposal.threshold THEN "Rejected" ELSE "Active"
    IN  [proposal EXCEPT
            !.votesFor = for, !.votesAgainst = against, !.status = status,
            !.timelockUntil = IF status # "Approved" THEN @
                              ELSE IF proposal.emergency THEN block ELSE block + TimelockBlocks]

\* Mutant: the vote of a committed signer is recorded again.
RecordVote_Twice(p, caller, choice) ==
    LET voted == Voted(proposals[p], choice)
    IN  /\ proposals[p].status = "Active"
        /\ <<p, caller, choice>> \notin votes
        /\ votes' = votes \cup {<<p, caller, choice>>}
        /\ proposals' = [proposals EXCEPT ![p] = voted]
        /\ IF voted.status = "Active" THEN UNCHANGED <<count, closed>>
           ELSE ApplyStatusTransition([voted EXCEPT !.status = "Active"], voted.status)

\* The body of vote and of reveal_vote's record_vote.
RecordVote(p, caller, choice) ==
    LET voted == Voted(proposals[p], choice)
    IN  /\ proposals[p].status = "Active"
        /\ ~HasVoted(p, caller)
        /\ votes' = votes \cup {<<p, caller, choice>>}
        /\ proposals' = [proposals EXCEPT ![p] = voted]
        /\ IF voted.status = "Active" THEN UNCHANGED <<count, closed>>
           ELSE ApplyStatusTransition([voted EXCEPT !.status = "Active"], voted.status)

Vote(caller, p, choice) ==
    /\ IsSigner(caller)
    /\ RecordVote(p, caller, choice)
    /\ UNCHANGED <<block, adminVars, signerVars, commitments, revealing>>

\* A signed approval needs a registered key; that the signature verifies is left
\* to the caller.
VoteWithSignature(caller, p, choice, signed) ==
    /\ signed => caller \in keys
    /\ Vote(caller, p, choice)

RegisterPublicKey(caller) ==
    /\ IsSigner(caller)
    /\ keys' = keys \cup {caller}
    /\ UNCHANGED <<block, adminVars, signers, threshold, ballotVars, proposalVars>>

\* Commitments are also accepted once the reveal phase has started.
CommitVote(caller, p, commitment) ==
    /\ IsSigner(caller)
    /\ proposals[p].status = "Active"
    /\ \A c \in Commitment : <<p, caller, c>> \notin commitments
    /\ commitments' = commitments \cup {<<p, caller, commitment>>}
    /\ UNCHANGED <<block, adminVars, signerVars, votes, revealing, proposalVars>>

StartRevealPhase(caller, p) ==
    /\ IsSigner(caller)
    /\ proposals[p].status = "Active"
    /\ p \notin revealing
    /\ revealing' = revealing \cup {p}
    /\ UNCHANGED <<block, adminVars, signerVars, votes, commitments, proposalVars>>

\* Mutant: any opening of a commitment is accepted.
RevealVote_AnyOpening(caller, p, choice) ==
    /\ IsSigner(caller)
    /\ p \in revealing
    /\ \E c \in Commitment : /\ <<p, caller, c>> \in commitments
                             /\ commitments' = commitments \ {<<p, caller, c>>}
    /\ RecordVote(p, caller, choice)
    /\ UNCHANGED <<block, adminVars, signerVars, revealing>>

RevealVote(caller, p, choice) ==
    /\ IsSigner(caller)
    /\ p \in revealing
    /\ <<p, caller, choice>> \in commitments
    /\ commitments' = commitments \ {<<p, caller, choice>>}
    /\ RecordVote(p, caller, choice)
    /\ UNCHANGED <<block, adminVars, signerVars, revealing>>

\* Moves a proposal to a status it has no votes to be counted for.
SetStatus(p, new) ==
    /\ ApplyStatusTransition(proposals[p], new)
    /\ proposals' = [proposals EXCEPT
          ![p].status = new,
          ![p].executedAt = IF new = "Executed" THEN block ELSE @]
    /\ UNCHANGED <<block, adminVars, signerVars, ballotVars>>

ExecuteProposal(caller, p) ==
    /\ IsSigner(caller)
    /\ proposals[p].status = "Approved"
    /\ block >= proposals[p].timelockUntil
    /\ SetStatus(p, "Executed")

CancelProposal(caller, p) ==
    /\ proposals[p].status \in {"Active", "Approved"}
    /\ caller \in {proposals[p].proposer, admin}
    /\ SetStatus(p, "Cancelled")

\* A Rejected proposal can still be executed this way.
EmergencyOverride(caller, p, execute) ==
    /\ caller = admin
    /\ proposals[p].status \notin {"Executed", "Cancelled"}
    /\ SetStatus(p, IF execute THEN "Executed" ELSE "Rejected")

CreateNext == \E caller \in Accounts : CreateProposal(caller) \/ CreateEmergencyProposal(caller)

VoteNext ==
    \E caller \in Accounts, p \in proposalIds, choice \in Choice :
        \/ Vote(caller, p, choice)
        \/ \E signed \in BOOLEAN : VoteWithSignature(caller, p, choice, signed)

PrivateVoteNext ==
    \E caller \in Accounts, p \in proposalIds :
        \/ \E commitment \in Commitment : CommitVote(caller, p, commitment)
        \/ StartRevealPhase(caller, p)
        \/ \E choice \in Choice : RevealVote(caller, p, choice)

DecideNext == \E caller \in Accounts, p \in proposalIds : ExecuteProposal(caller, p) \/ CancelProposal(caller, p)

OverrideNext(p, execute) == \E caller \in Accounts : EmergencyOverride(caller, p, execute)

CloseNext == DecideNext \/ \E p \in proposalIds, execute \in BOOLEAN : OverrideNext(p, execute)

----
\* Signers

AddSigner(caller, new) ==
    /\ caller = admin
    /\ ~IsSigner(new)
    /\ Len(signers) < MaxSigners
    /\ signers' = Append(signers, new)
    /\ UNCHANGED <<block, adminVars, threshold, keys, ballotVars, proposalVars>>

\* Vec::swap_remove of the first occurrence of an account.
SwapRemove(s, account) ==
    LET pos == Min({i \in DOMAIN s : s[i] = account})
    IN  [i \in 1..(Len(s) - 1) |-> IF i = pos THEN s[Len(s)] ELSE s[i]]

RemoveSigner(caller, signer) ==
    /\ caller = admin
    /\ Len(signers) > MinSigners
    /\ IsSigner(signer)
    /\ signers' = SwapRemove(signers, signer)
    /\ threshold' = IF threshold > Len(signers') THEN Len(signers') ELSE threshold
    /\ UNCHANGED <<block, adminVars, keys, ballotVars, proposalVars>>

UpdateThreshold(caller, new) ==
    /\ caller = admin
    /\ new # 0
    /\ new <= Len(signers)
    /\ threshold' = new
    /\ UNCHANGED <<block, adminVars, signers, keys, ballotVars, proposalVars>>

SignerNext ==
    \E caller \in Accounts :
        \/ \E signer \in Accounts : AddSigner(caller, signer) \/ RemoveSigner(caller, signer)
        \/ \E new \in ThresholdArgs : UpdateThreshold(caller, new)
        \/ RegisterPublicKey(caller)

----
\* Admin rotation; here, unlike in the other contracts, a second request
\* replaces a pending one.

RequestAdminRotation(caller, new) ==
    /\ caller = admin
    /\ rotation' = {[old |-> caller, new |-> new, effective |-> block + RotationCooldown]}
    /\ UNCHANGED <<block, admin, signerVars, ballotVars, proposalVars>>

\* Past its expiry the code clears the request and returns Err, which reverts
\* the clearing.
ConfirmAdminRotation(caller) ==
    /\ \E r \in rotation : /\ r.new = caller
                           /\ block >= r.effective
                           /\ block <= r.effective + RotationExpiry
    /\ admin' = caller
    /\ rotation' = {}
    /\ UNCHANGED <<block, signerVars, ballotVars, proposalVars>>

CancelAdminRotation(caller) ==
    /\ \E r \in rotation : caller \in {r.old, r.new}
    /\ rotation' = {}
    /\ UNCHANGED <<block, admin, signerVars, ballotVars, proposalVars>>

RotationNext ==
    \E caller \in Accounts :
        \/ \E new \in Accounts : RequestAdminRotation(caller, new)
        \/ ConfirmAdminRotation(caller)
        \/ CancelAdminRotation(caller)

TimeNext == NextBlock /\ UNCHANGED <<adminVars, signerVars, ballotVars, proposalVars>>

Next ==
    \/ CreateNext
    \/ VoteNext
    \/ PrivateVoteNext
    \/ CloseNext
    \/ SignerNext
    \/ RotationNext
    \/ TimeNext

Spec == Init /\ [][Next]_vars

----
\* Properties

Voters(p, choice) == {a \in Accounts : <<p, a, choice>> \in votes}

\* One account, one vote, whether cast in public or revealed: the counts of a
\* proposal are the numbers of different accounts behind them, no account is on
\* both sides, and nobody's vote is counted after the proposal was decided. Only a
\* proposal that needs nobody, as all do while a contract built without signers
\* keeps its threshold, is open with the support it needs, until the first vote.
VotesTally ==
    \A p \in DOMAIN proposals :
        /\ proposals[p].votesFor = Cardinality(Voters(p, "for"))
        /\ proposals[p].votesAgainst = Cardinality(Voters(p, "against"))
        /\ Voters(p, "for") \cap Voters(p, "against") = {}
        /\ proposals[p].status = "Active" =>
              \/ proposals[p].votesFor < proposals[p].threshold
              \/ proposals[p].threshold = 0 /\ proposals[p].votesFor + proposals[p].votesAgainst = 0

\* The counters get_analytics serves agree with a recount of the proposals, and
\* each Executed or Rejected proposal entered the average once, over every order
\* of votes, executions, cancellations and overrides.
CountersMatchRecount ==
    /\ \A s \in ProposalStatus :
          count[s] = Cardinality({p \in DOMAIN proposals : proposals[p].status = s})
    /\ closed.count = count["Executed"] + count["Rejected"]

\* The books of the governance agree: its state has its types, no more votes are
\* needed than there are signers, one account has one vote, and the counters are
\* those of the proposals (record_vote, apply_status_transition, remove_signer).
GovernanceBooksAgree == GovernanceTypeOK /\ VotesTally /\ CountersMatchRecount

\* Executed and Cancelled proposals stay as they are for ever, and a Rejected one
\* is never reopened for votes, cancelled or approved: it can only be executed.
DecisionsAreFinal ==
    [][\A p \in DOMAIN proposals :
          /\ proposals[p].status \in {"Executed", "Cancelled"} => proposals'[p] = proposals[p]
          /\ proposals[p].status = "Rejected" =>
                proposals'[p].status \in {"Rejected", "Executed"}]_vars

\* A vote that was committed to is counted as committed or not at all: a vote on
\* the side opposite to the commitment can only be cast in public, which leaves
\* the commitment where it is.
RevealedAsCommitted ==
    [][\A p \in DOMAIN proposals, a \in Accounts, c \in Commitment :
          <<p, a, c>> \in commitments /\ <<p, a, c>> \notin commitments' =>
              c \in Choice /\ votes' = votes \cup {<<p, a, c>>} /\ p \in revealing]_vars

\* The account that was named, within the window of the last request.
AdminConsented ==
    \E r \in rotation : r.new = admin' /\ block \in r.effective..(r.effective + RotationExpiry)

\* The admin changes only to the account that was named, within the window of the
\* last request (request_admin_rotation, confirm_admin_rotation).
GovernanceAdminConsents == [][admin' # admin => AdminConsented]_vars
====

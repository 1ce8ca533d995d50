---- MODULE MCGovernance ----
(***************************************************************************)
(* Model checking of Governance and of the Proxy whose upgrades are to be  *)
(* governed. No message of one contract reads the other's state, so that a *)
(* behaviour is about one aspect (focus), chosen at the start.             *)
(***************************************************************************)
EXTENDS Governance, Proxy

CONSTANTS A, B, C

VARIABLES
    warrants,   \* what executing a proposal can rest on: the signers' approval, the admin's override
    focus,
    staged      \* the proxy's staging calls: the address, the block, the delay then

mcVars == <<vars, proxyVars, warrants, focus, staged>>

MCAccounts == {A, B, C}
MCSignerArgs == {<<A, B, C>>, <<A, A, B>>, <<A, B, A>>, << >>}

MCInit ==
    /\ focus \in {"votes", "counters", "private", "signers", "rotation", "proxy"}
    /\ Init
    /\ admin = A
    /\ ProxyInit
    /\ staged = {}
    /\ warrants = {}
    /\ focus # "signers" => signers = <<A, B, C>> /\ threshold = 2

\* The proposals that a step approves, at the block in which it does.
Approvals ==
    {[proposal |-> p, by |-> "signers", at |-> block] :
        p \in {q \in proposalIds : proposals[q].status = "Active" /\ proposals'[q].status = "Approved"}}

Warranting == warrants' = warrants \cup Approvals

\* The admin's override takes the place of what the signers decided.
Overruling ==
    \E p \in proposalIds, execute \in BOOLEAN :
        /\ OverrideNext(p, execute)
        /\ warrants' = {w \in warrants : w.proposal # p} \cup
                          (IF execute THEN {[proposal |-> p, by |-> "admin", at |-> block]} ELSE {})

\* Governance by itself, and its ledger.
LedgerNext ==
    \/ /\ CreateNext \/ VoteNext \/ PrivateVoteNext \/ DecideNext \/ SignerNext \/ RotationNext \/ TimeNext
       /\ Warranting
    \/ Overruling

LedgerSpec == Init /\ warrants = {} /\ [][LedgerNext]_<<vars, warrants>>

GovernanceStep ==
    /\ \/ /\ \/ focus = "counters" /\ CreateNext
             \/ focus \in {"votes", "private", "signers"} /\ Len(proposals) = 0 /\ CreateNext
             \/ focus \in {"votes", "counters", "signers"} /\ (VoteNext \/ DecideNext)
             \/ focus = "private" /\ \E p \in proposalIds, a \in Accounts, c \in Choice : Vote(a, p, c)
             \/ focus = "private" /\ PrivateVoteNext
             \/ focus = "signers" /\ SignerNext /\ keys' \subseteq {B}
             \/ focus = "rotation" /\ RotationNext
             \/ focus \in {"votes", "rotation"} /\ TimeNext
          /\ Warranting
       \/ focus \in {"votes", "counters", "signers"} /\ Overruling
    /\ UNCHANGED <<proxyVars, staged>>

Staging ==
    staged' = IF pendingImplementation' = {} THEN {}
              ELSE IF \E caller \in Callers, new \in Implementations : SetImplementation(caller, new)
                   THEN {[to |-> pendingImplementation', at |-> block, delay |-> upgradeDelay]}
                   ELSE staged

\* The proxy by itself, and its ledger.
ProxyMoves == (ProxyNext \/ (NextBlock /\ UNCHANGED proxyVars)) /\ Staging

ProxySpec ==
    /\ ChainInit /\ ProxyInit /\ staged = {}
    /\ [][ProxyMoves]_<<block, proxyVars, staged>>

ProxyStep ==
    /\ focus = "proxy"
    /\ ProxyMoves
    /\ UNCHANGED <<adminVars, signerVars, ballotVars, proposalVars, warrants>>

MCNext == (GovernanceStep \/ ProxyStep) /\ UNCHANGED focus

MCSpec == MCInit /\ [][MCNext]_mcVars

\* Whether a warrant is one for the state its proposal is in, given its supporters.
Backs(w, q, supporters) ==
    LET wait == IF q.emergency THEN 0 ELSE TimelockBlocks
    IN  \/ w.by = "admin" /\ q.status = "Executed"
        \/ /\ w.by = "signers"
           /\ supporters >= q.threshold
           /\ q.timelockUntil >= w.at + wait
           /\ q.status = "Executed" => q.executedAt >= w.at + wait

\* A proposal is not approved, and not executed but by the admin's override, without
\* as many different supporters as it asked for when it was created and, unless it
\* is an emergency, "Blocks to wait after approval" (the field timelock_blocks):
\* counted from the block in which the last of them voted, in public or by a reveal,
\* and for an approval that no override has taken back in between (vote, reveal_vote,
\* execute_proposal, emergency_override).
ApprovalBacked ==
    \A p \in DOMAIN proposals :
        proposals[p].status \in {"Approved", "Executed"} =>
            \E w \in warrants : w.proposal = p /\ Backs(w, proposals[p], Cardinality(Voters(p, "for")))

\* The implementation of the proxy changes only to the address staged last, and
\* not before the delay that was in force at that staging has passed, whatever
\* delay is configured or address staged in between.
UpgradesAreAnnounced ==
    [][implementation' # implementation =>
          \E s \in staged : s.to = {implementation'} /\ block - s.at >= s.delay]_mcVars

\* Nobody gets hold of the system unannounced: neither an implementation nor an
\* admin changes but as it was announced, and no sooner (confirm_implementation,
\* confirm_admin_rotation).
ChangesAreAnnounced == UpgradesAreAnnounced /\ GovernanceAdminConsents

\* What was decided stays decided, and what was committed to in private is what is counted
\* (the status checks of every message, reveal_vote).
VotesAndDecisionsAreFinal == DecisionsAreFinal /\ RevealedAsCommitted
====

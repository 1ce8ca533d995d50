---- MODULE TwoPersonResume ----
(***************************************************************************)
(* What the pause of the property registry promises: work resumes only     *)
(* when as many different accounts as are required, each entitled when it  *)
(* consented, have consented since the pause in force began, or when the   *)
(* time announced with the pause has come.                                 *)
(***************************************************************************)
EXTENDS Naturals, FiniteSets

CONSTANTS People, Required

VARIABLES
    entitled,   \* accounts that may pause and resume
    stopped,
    consents,   \* since the pause in force began
    deadline,   \* of the pause in force: {} or a singleton
    time

ResumeInit == ~stopped /\ consents = {} /\ deadline = {}

\* Who is entitled and what time it is changes by itself, in any step.
Stop ==
    /\ stopped'
    /\ consents' = {}
    /\ Cardinality(deadline') <= 1 /\ \A t \in deadline' : t >= time

Consent ==
    /\ stopped /\ stopped'
    /\ \E p \in entitled : consents' = consents \cup {p}
    /\ UNCHANGED deadline

Resume ==
    /\ stopped /\ ~stopped'
    /\ consents' = {} /\ deadline' = {}
    /\ \/ \E p \in entitled : Cardinality(consents \cup {p}) >= Required
       \/ \E t \in deadline : time >= t

ResumeStep == Stop \/ Consent \/ Resume

Resumption == ResumeInit /\ [][ResumeStep]_<<stopped, consents, deadline>>
====

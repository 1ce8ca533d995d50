---- MODULE AdminRotation ----
(***************************************************************************)
(* The two-step rotation of the admin with a cooldown and an expiry, which *)
(* several contracts contain in the same words: while a request is open no *)
(* second one is accepted.                                                 *)
(***************************************************************************)
EXTENDS BlockClock

CONSTANTS
    Accounts,
    RotationCooldown,   \* KEY_ROTATION_COOLDOWN_BLOCKS
    RotationExpiry      \* KEY_ROTATION_EXPIRY_BLOCKS

VARIABLES
    admin,
    rotation            \* pending_admin_rotation, {} or a singleton

Rotation == [old : Accounts, new : Accounts, effective : Nat]

RotationTypeOK ==
    /\ admin \in Accounts
    /\ rotation \subseteq Rotation /\ Cardinality(rotation) <= 1

RequestAdminRotation(caller, newAdmin) ==
    /\ caller = admin
    /\ rotation = {}
    /\ rotation' = {[old |-> caller, new |-> newAdmin, effective |-> block + RotationCooldown]}
    /\ UNCHANGED <<block, admin>>

\* Past the expiry the code clears the request and returns Err, which reverts the
\* clearing: the request stays, and a new one is refused until it is cancelled.
ConfirmAdminRotation(caller) ==
    /\ \E r \in rotation :
          /\ r.new = caller
          /\ block \in r.effective..(r.effective + RotationExpiry)
    /\ admin' = caller
    /\ rotation' = {}
    /\ UNCHANGED block

CancelAdminRotation(caller) ==
    /\ \E r \in rotation : caller \in {r.old, r.new}
    /\ rotation' = {}
    /\ UNCHANGED <<block, admin>>

RotationNext ==
    \E caller \in Accounts :
        \/ \E new \in Accounts : RequestAdminRotation(caller, new)
        \/ ConfirmAdminRotation(caller)
        \/ CancelAdminRotation(caller)
====

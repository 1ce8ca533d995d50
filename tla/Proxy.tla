---- MODULE Proxy ----
(***************************************************************************)
(* The transparent proxy (contracts/proxy/src/lib.rs): an implementation   *)
(* address that its admin replaces in two steps, a delay apart. Forwarded  *)
(* calls read the address and change nothing of the proxy. The zero        *)
(* address, which stands for "none staged", is the empty set here.         *)
(***************************************************************************)
EXTENDS BlockClock

CONSTANTS
    Callers,           \* accounts that may call
    ProxyAdmin,        \* the admin, which no message changes
    Implementations,   \* addresses of implementation contracts, zero excluded
    UpgradeDelayArgs,         \* delays an admin may configure
    DefaultDelay       \* 100 blocks in the constructor

ASSUME ProxyConstants ==
    /\ ProxyAdmin \in Callers
    /\ UpgradeDelayArgs \subseteq Nat
    /\ DefaultDelay \in Nat

VARIABLES
    implementation,
    pendingImplementation,   \* pending_implementation
    upgradeEffectiveAt,      \* upgrade_effective_at
    upgradeDelay             \* upgrade_delay_blocks

proxyVars == <<implementation, pendingImplementation, upgradeEffectiveAt, upgradeDelay>>

ProxyTypeOK ==
    /\ implementation \in Implementations
    /\ pendingImplementation = {} \/ \E i \in Implementations : pendingImplementation = {i}
    /\ upgradeEffectiveAt \in Nat
    /\ upgradeDelay \in Nat

ProxyInit ==
    /\ implementation \in Implementations
    /\ pendingImplementation = {}
    /\ upgradeEffectiveAt = 0
    /\ upgradeDelay = DefaultDelay

\* Staging again replaces what is staged and restarts the delay.
SetImplementation(caller, new) ==
    /\ caller = ProxyAdmin
    /\ pendingImplementation' = {new}
    /\ upgradeEffectiveAt' = block + upgradeDelay
    /\ UNCHANGED <<block, implementation, upgradeDelay>>

\* Mutant: the delay is compared the wrong way round by one block.
ConfirmImplementation_Early(caller) ==
    /\ caller = ProxyAdmin
    /\ block + 1 >= upgradeEffectiveAt
    /\ implementation' \in pendingImplementation
    /\ pendingImplementation' = {}
    /\ upgradeEffectiveAt' = 0
    /\ UNCHANGED <<block, upgradeDelay>>

ConfirmImplementation(caller) ==
    /\ caller = ProxyAdmin
    /\ block >= upgradeEffectiveAt
    /\ implementation' \in pendingImplementation
    /\ pendingImplementation' = {}
    /\ upgradeEffectiveAt' = 0
    /\ UNCHANGED <<block, upgradeDelay>>

SetUpgradeDelayBlocks(caller, delay) ==
    /\ caller = ProxyAdmin
    /\ upgradeDelay' = delay
    /\ UNCHANGED <<block, implementation, pendingImplementation, upgradeEffectiveAt>>

ProxyNext ==
    \E caller \in Callers :
        \/ \E new \in Implementations : SetImplementation(caller, new)
        \/ ConfirmImplementation(caller)
        \/ \E delay \in UpgradeDelayArgs : SetUpgradeDelayBlocks(caller, delay)
====

---- MODULE MCStaking ----
(***************************************************************************)
(* Model checking of Staking, aspect by aspect (focus): every step is a    *)
(* step of StakingNext. The ledger counts what entered the reward pool and *)
(* what was paid out of it.                                                *)
(***************************************************************************)
EXTENDS Staking

CONSTANTS A, B, C

\* Bound: the admin funds the pool while less than this was put in.
MaxFunded == 15

VARIABLES focus, ledger

mcVars == <<stakingVars, focus, ledger>>

MCStakers == {A, B, C}
MCVestingArgs == {<<0, 2>>, <<1, 2>>}
MCTierBounds == <<10, 20, 40, 80>>
MCParamArgs ==
    {[name |-> "MinStake", value |-> 10], [name |-> "QuorumBps", value |-> 0],
     [name |-> "QuorumBps", value |-> 8000], [name |-> "BoostCurve", value |-> "Convex"]}

MCInit ==
    /\ ChainInit
    /\ StakingInit
    /\ focus \in {"stakes", "vesting", "params", "validators", "unbonding"}
    /\ ledger = [in |-> 0, out |-> 0]

\* Two stakes, one of which compounds and passes its power on.
StakesStep ==
    \/ \E lock \in LockArgs : StakeTokens(A, 10, lock)
    \/ StakeTokens(B, 5, 0)
    \/ \E auto \in BOOLEAN : SetAutoCompound(A, auto)
    \/ \E d \in Stakers : DelegateGovernance(A, d)
    \/ \E min \in AmountArgs : UpdateStakingConfig(A, min, 2)

\* Two stakers and their proposals.
ParamsStep ==
    \/ block = 1 /\ (StakeTokens(A, 10, 0) \/ StakeTokens(B, 5, 0))
    \/ \E d \in {B, C} : A \in DOMAIN stakes /\ stakes[A].delegate = {} /\ DelegateGovernance(A, d)
    \/ \E kind \in ParamArgs : ProposeParamChange(B, kind)
    \/ \E p \in 1..Len(paramProposals) :
          \/ \E a \in Stakers, support \in BOOLEAN : VoteOnProposal(a, p, support)
          \/ CancelParamProposal(A, p)
          \/ ExecuteParamProposal(p)

\* One validator, one delegator.
ValidatorsStep ==
    \/ \E self \in AmountArgs, rate \in CommissionArgs : RegisterValidator(C, self, rate)
    \/ UpdateCommissionRate(C, 0)
    \/ DeactivateValidator(C)
    \/ ReactivateValidator(C)
    \/ SetSlashingCoordinator(A, A)
    \/ validators # Nothing /\ SlashValidator(A, C)
    \/ \E amount \in AmountArgs : Delegate(A, C, amount)
    \/ Undelegate(A, C)
    \/ ClaimUndelegated(A, C)

\* Two validators with a common delegator, and slashes of one of them.
UnbondingStep ==
    \/ \E v \in {B, C} : RegisterValidator(v, 10, 5000)
    \/ coordinator = {} /\ SetSlashingCoordinator(A, A)
    \/ SlashValidator(A, C)
    \/ Delegate(A, B, 5)
    \/ Delegate(A, C, 10)
    \/ Delegate(B, C, 5)
    \/ \E a \in {A, B}, v \in {B, C} : Undelegate(a, v) \/ ClaimUndelegated(a, v)

\* The steps that leave the reward pool alone.
StillStep ==
    \/ focus = "stakes" /\ StakesStep
    \/ focus = "params" /\ ParamsStep
    \/ focus = "validators" /\ ValidatorsStep
    \/ focus = "unbonding" /\ UnbondingStep
    \/ focus = "vesting" /\ SetEarlyWithdrawalPenalty(A, 5000)
    \/ StakingTimeNext

PoolStep ==
    \/ /\ focus = "vesting"
       /\ \E rewards \in AmountArgs, times \in VestingArgs, lock \in LockArgs :
             StakeWithVesting(A, 10, lock, rewards, times[1], times[2])
       /\ UNCHANGED ledger
    \/ /\ focus \in {"stakes", "vesting", "validators"}
       /\ ledger.in < MaxFunded
       /\ FundRewardPool(A, 10)
       /\ ledger' = [ledger EXCEPT !.in = @ + 10]
    \/ /\ focus \in {"stakes", "vesting"}
       /\ ledger.in < 2 * MaxFunded
       /\ \E a \in DOMAIN stakes : /\ Unstake(a)
                                   /\ ledger' = [ledger EXCEPT !.in = @ + Penalty(stakes[a])]
    \/ ClaimNext /\ ledger' = [ledger EXCEPT !.out = @ + (pool - pool')]

MCNext ==
    /\ UNCHANGED focus
    /\ \/ StillStep /\ UNCHANGED ledger
       \/ PoolStep

MCSpec == MCInit /\ [][MCNext]_mcVars

\* Every step of the contract with its entry in the ledger, without the bounds above.
LedgerNext ==
    \/ FundNext /\ ledger' = [ledger EXCEPT !.in = @ + (pool' - pool)]
    \/ \E a \in Stakers : Unstake(a) /\ ledger' = [ledger EXCEPT !.in = @ + Penalty(stakes[a])]
    \/ ClaimNext /\ ledger' = [ledger EXCEPT !.out = @ + (pool - pool')]
    \/ StakeNext /\ UNCHANGED ledger
    \/ (ConfigNext \/ ParamNext \/ ValidatorNext \/ DelegationNext \/ StakingTimeNext) /\ UNCHANGED ledger

LedgerSpec == ChainInit /\ StakingInit /\ ledger = [in |-> 0, out |-> 0] /\ [][LedgerNext]_<<stakingVars, ledger>>

Reserved == SumFunctionOnSet([a \in DOMAIN stakes |-> Unvested(stakes[a])], DOMAIN stakes)

\* Rewards are paid from what was put in: what was paid, what is left and what is
\* reserved for vesting never exceed what was funded and what early withdrawals
\* forfeited, whatever order stakes, claims and withdrawals come in.
RewardsWereFunded == ledger.out + pool + Reserved <= ledger.in
====

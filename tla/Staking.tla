---- MODULE Staking ----
(***************************************************************************)
(* Staking with locks and vesting, its reward pool, governance of its      *)
(* parameters by stake, and delegation to validators                       *)
(* (contracts/staking/src/lib.rs, types.rs).                               *)
(*                                                                         *)
(* The contract moves no tokens: amounts are records. A lock period is its *)
(* duration in blocks, since the named ones differ in nothing else. The    *)
(* global acc_reward_per_share and last_reward_block are never written and *)
(* are left out, as is validator_list, which only lists DOMAIN validators. *)
(* Sums stay far below 2^128, so that the saturating additions are plain.  *)
(***************************************************************************)
EXTENDS BlockClock, SequencesExt, FiniteSetsExt

CONSTANTS
    Stakers,            \* accounts
    StakingAdmin,       \* the admin, which no message changes
    AmountArgs,         \* amounts an argument may name
    LockArgs,           \* lock periods, in blocks
    RateArgs,           \* reward rates in basis points
    PenaltyArgs,        \* penalty rates in basis points
    CommissionArgs,     \* commission rates in basis points
    VestingArgs,        \* pairs of cliff_blocks and vesting_blocks
    ParamArgs,          \* changes a proposal may ask for
    InitialMinStake,
    InitialRate,
    InitialVotingPeriod,   \* DEFAULT_VOTING_PERIOD_BLOCKS
    InitialQuorum,         \* DEFAULT_QUORUM_BPS
    InitialPenalty,        \* DEFAULT_EARLY_WITHDRAWAL_PENALTY_BPS
    MaxPenalty,            \* MAX_EARLY_WITHDRAWAL_PENALTY_BPS
    RatePrecision,         \* REWARD_RATE_PRECISION times the blocks of a year
    YearBlocks,            \* LOCK_PERIOD_1_YEAR
    Unit,                  \* the million ratios are scaled by
    TierBounds,            \* the least amounts of the tiers above Bronze
    RewardPrecision,       \* REWARD_PRECISION
    MinValidatorStake,     \* MIN_VALIDATOR_STAKE
    UnbondingPeriod,       \* UNBONDING_PERIOD_BLOCKS
    MaxActiveProposals,    \* MAX_ACTIVE_PARAM_PROPOSALS
    MaxPool,               \* bound: the pool is not funded beyond it
    MaxParamProposals      \* bound: proposals of a behaviour

BPS == 10000
SlashPercent == 20

Curve == {"Linear", "Concave", "Convex"}
ParamName == {"MinStake", "RewardRateBps", "VotingPeriodBlocks", "QuorumBps"}
ParamKind == [name : ParamName, value : Nat] \cup [name : {"BoostCurve"}, value : Curve]
ParamStatus == {"Active", "Executed", "Rejected", "Cancelled"}

ASSUME StakingConstants ==
    /\ StakingAdmin \in Stakers
    /\ AmountArgs \cup LockArgs \cup RateArgs \cup PenaltyArgs \cup CommissionArgs \subseteq Nat
    /\ VestingArgs \subseteq Nat \X Nat
    /\ ParamArgs \subseteq ParamKind
    /\ {InitialMinStake, InitialVotingPeriod, RatePrecision, YearBlocks, Unit, RewardPrecision}
          \subseteq Nat \ {0}
    /\ InitialQuorum \in 1..BPS /\ InitialPenalty \in 0..MaxPenalty
    /\ {InitialRate, MaxPenalty, MinValidatorStake,
        UnbondingPeriod, MaxActiveProposals, MaxPool, MaxParamProposals} \subseteq Nat
    /\ TierBounds \in [1..4 -> Nat]

VARIABLES
    stakes,             \* a function on the accounts that have a stake
    totalStaked,
    power,              \* governance_power, 0 where the mapping has no entry
    stakerList,
    pool,               \* reward_pool
    rewardRate, minStake, votingPeriod, quorum, curve, penaltyBps,
    coordinator,        \* slashing_coordinator, {} or a singleton
    paramProposals,     \* proposal n of the code is paramProposals[n + 1]
    activeCount,        \* active_proposal_count
    paramVotes,         \* <<proposal, voter>>, the keys of param_votes
    validators,         \* a function on the registered validators
    delegations,        \* a function on pairs <<delegator, validator>>
    totalDelegated,     \* total_delegated_stake
    delegators,         \* validator_delegators
    delegatorValidator  \* delegator_validator

stakeVars == <<stakes, totalStaked, power, stakerList>>
paramVars == <<rewardRate, minStake, votingPeriod, quorum, curve>>
configVars == <<paramVars, penaltyBps, coordinator>>
ballotVars == <<paramProposals, activeCount, paramVotes>>
validatorVars == <<validators, delegations, totalDelegated, delegators, delegatorValidator>>
stakingVars == <<block, stakeVars, pool, configVars, ballotVars, validatorVars>>

Vesting == [total : Nat, vested : Nat, start : Nat, cliff : Nat, end : Nat]

Stake ==
    [amount : Nat, original : Nat, stakedAt : Nat, lockUntil : Nat, lock : Nat,
     delegate : SUBSET Stakers, auto : BOOLEAN, vesting : SUBSET Vesting]

ParamProposal ==
    [proposer : Stakers, kind : ParamKind, for : Nat, against : Nat, end : Nat,
     snapshot : Nat, status : ParamStatus]

Validator ==
    [selfStake : Nat, commission : Nat, delegated : Nat, earned : Nat, active : BOOLEAN,
     acc : Nat, last : Nat]

Delegation == [amount : Nat, debt : Nat, unbonding : SUBSET Nat]

StakingTypeOK ==
    /\ block \in Nat
    /\ DOMAIN stakes \subseteq Stakers
    /\ \A a \in DOMAIN stakes :
          /\ stakes[a] \in Stake
          /\ a \notin stakes[a].delegate /\ Cardinality(stakes[a].delegate) <= 1
          /\ Cardinality(stakes[a].vesting) <= 1
    /\ power \in [Stakers -> Nat]
    /\ stakerList \in Seq(Stakers)
    /\ {totalStaked, pool, rewardRate, totalDelegated, activeCount} \subseteq Nat
    /\ {minStake, votingPeriod} \subseteq Nat \ {0}
    /\ quorum \in 1..BPS /\ curve \in Curve /\ penaltyBps \in 0..MaxPenalty
    /\ coordinator \subseteq Stakers /\ Cardinality(coordinator) <= 1
    /\ paramProposals \in Seq(ParamProposal)
    /\ paramVotes \subseteq (1..Len(paramProposals)) \X Stakers
    /\ DOMAIN validators \subseteq Stakers
    /\ \A v \in DOMAIN validators : validators[v] \in Validator
    /\ DOMAIN delegations \subseteq Stakers \X DOMAIN validators
    /\ \A k \in DOMAIN delegations :
          /\ delegations[k] \in Delegation
          /\ delegations[k].unbonding \subseteq 1..block
    /\ delegators \in [Stakers -> Seq(Stakers)]
    /\ DOMAIN delegatorValidator \subseteq Stakers

Nothing == [x \in {} |-> x]

StakingInit ==
    /\ stakes = Nothing /\ totalStaked = 0 /\ power = [a \in Stakers |-> 0] /\ stakerList = << >>
    /\ pool = 0
    /\ rewardRate = InitialRate /\ minStake = InitialMinStake
    /\ votingPeriod = InitialVotingPeriod /\ quorum = InitialQuorum /\ curve = "Linear"
    /\ penaltyBps = InitialPenalty /\ coordinator = {}
    /\ paramProposals = << >> /\ activeCount = 0 /\ paramVotes = {}
    /\ validators = Nothing /\ delegations = Nothing /\ totalDelegated = 0
    /\ delegators = [a \in Stakers |-> << >>] /\ delegatorValidator = Nothing
----
\* Pure functions

Saturating(a, b) == IF a > b THEN a - b ELSE 0

\* sqrt_u128, by what it returns.
Sqrt(n, bound) == CHOOSE r \in 0..bound : r * r <= n /\ n < (r + 1) * (r + 1)

\* How far a lock period reaches through a year, in Unit.
Ratio(lock) == ((IF lock > YearBlocks THEN YearBlocks ELSE lock) * Unit) \div YearBlocks

\* BoostCurve::apply between MULTIPLIER_FLEXIBLE and MULTIPLIER_1_YEAR, in per cent.
Multiplier(shape, lock) ==
    LET r == Ratio(lock)
        scaled == CASE shape = "Linear"  -> r
                    [] shape = "Concave" -> Sqrt(r * Unit, Unit)
                    [] shape = "Convex"  -> (r * r) \div Unit
    IN  100 + (200 * scaled) \div Unit

\* get_tier_internal with reward_multiplier, in per cent.
TierMultiplier(amount) ==
    <<100, 110, 120, 135, 150>>[1 + Cardinality({t \in 1..4 : amount >= TierBounds[t]})]

\* calculate_rewards
Rewards(stake) ==
    LET base == (stake.amount * rewardRate * (block - stake.stakedAt)) \div RatePrecision
    IN  (((base * Multiplier(curve, stake.lock)) \div 100) * TierMultiplier(stake.amount)) \div 100

\* The vested rewards claim_rewards pays out. Between cliff and end the elapsed
\* blocks are divided by the time since the start, not since the cliff.
VestedClaimable(stake, v) ==
    Saturating(IF block < v.cliff THEN 0
               ELSE IF block >= v.end THEN stake.original
               ELSE (stake.original * (block - v.cliff)) \div (v.end - v.start),
               v.vested)

----
\* Stakes

Holder(staker, stake) == IF stake.delegate = {} THEN staker ELSE CHOOSE d \in stake.delegate : TRUE

StakeOf(amount, lock, original, vesting) ==
    [amount |-> amount, original |-> original, stakedAt |-> block, lockUntil |-> block + lock,
     lock |-> lock, delegate |-> {}, auto |-> FALSE, vesting |-> vesting]

\* Mapping::insert and Mapping::remove.
With(f, key, value) == [k \in DOMAIN f \cup {key} |-> IF k = key THEN value ELSE f[k]]
Without(f, key) == [k \in DOMAIN f \ {key} |-> f[k]]

\* What stake and stake_with_vesting store alike.
AddStake(caller, stake) ==
    /\ stake.amount # 0
    /\ stake.amount >= minStake
    /\ caller \notin DOMAIN stakes
    /\ stakes' = With(stakes, caller, stake)
    /\ totalStaked' = totalStaked + stake.amount
    /\ stakerList' = Append(stakerList, caller)
    /\ power' = [power EXCEPT ![caller] = @ + stake.amount]
    /\ UNCHANGED <<block, configVars, ballotVars, validatorVars>>

StakeTokens(caller, amount, lock) ==
    AddStake(caller, StakeOf(amount, lock, amount, {})) /\ UNCHANGED pool

\* Mutant: the rewards are promised but not reserved.
StakeWithVesting_Unreserved(caller, amount, lock, rewards, cliffBlocks, vestingBlocks) ==
    /\ rewards # 0
    /\ rewards <= pool
    /\ vestingBlocks # 0
    /\ AddStake(caller, StakeOf(amount, lock, rewards,
           {[total |-> rewards, vested |-> 0, start |-> block, cliff |-> block + cliffBlocks,
             end |-> block + cliffBlocks + vestingBlocks]}))
    /\ UNCHANGED pool

StakeWithVesting(caller, amount, lock, rewards, cliffBlocks, vestingBlocks) ==
    /\ rewards # 0
    /\ rewards <= pool
    /\ vestingBlocks # 0
    /\ AddStake(caller, StakeOf(amount, lock, rewards,
           {[total |-> rewards, vested |-> 0, start |-> block, cliff |-> block + cliffBlocks,
             end |-> block + cliffBlocks + vestingBlocks]}))
    /\ pool' = pool - rewards

Penalty(stake) == IF block < stake.lockUntil THEN (stake.amount * penaltyBps) \div BPS ELSE 0

Unvested(stake) == SumFunctionOnSet([v \in stake.vesting |-> Saturating(v.total, v.vested)], stake.vesting)

\* Vec::swap_remove of the first occurrence of an account.
Dropped(list, account) ==
    LET at == {i \in DOMAIN list : list[i] = account}
    IN  IF at = {} THEN list
        ELSE [i \in 1..(Len(list) - 1) |-> IF i = Min(at) THEN list[Len(list)] ELSE list[i]]

Unstake(caller) ==
    /\ caller \in DOMAIN stakes
    /\ LET s == stakes[caller]
       IN  /\ pool' = pool + Unvested(s) + Penalty(s)
           /\ power' = [power EXCEPT ![Holder(caller, s)] = Saturating(@, s.amount)]
           /\ totalStaked' = Saturating(totalStaked, s.amount)
    /\ stakes' = Without(stakes, caller)
    /\ stakerList' = Dropped(stakerList, caller)
    /\ UNCHANGED <<block, configVars, ballotVars, validatorVars>>

\* Rewards that vest are taken from the pool a second time: stake_with_vesting has
\* reserved them already.
ClaimVested(caller, v) ==
    LET claim == VestedClaimable(stakes[caller], v)
    IN  /\ claim # 0
        /\ claim <= pool
        /\ pool' = pool - claim
        /\ stakes' = [stakes EXCEPT ![caller].vesting = {[v EXCEPT !.vested = @ + claim]}]
        /\ UNCHANGED <<totalStaked, power>>

\* Mutant: compounded rewards go to the power of the staker, not of the delegate.
ClaimAccrued_OwnPower(caller) ==
    LET s == stakes[caller]
        claim == Rewards(s)
        added == IF s.auto THEN claim ELSE 0
    IN  /\ claim # 0
        /\ claim <= pool
        /\ pool' = pool - claim
        /\ stakes' = [stakes EXCEPT ![caller].amount = @ + added, ![caller].stakedAt = block]
        /\ totalStaked' = totalStaked + added
        /\ power' = [power EXCEPT ![caller] = @ + added]

\* Rewards that accrue, added to the stake if it compounds.
ClaimAccrued(caller) ==
    LET s == stakes[caller]
        claim == Rewards(s)
        added == IF s.auto THEN claim ELSE 0
    IN  /\ claim # 0
        /\ claim <= pool
        /\ pool' = pool - claim
        /\ stakes' = [stakes EXCEPT ![caller].amount = @ + added, ![caller].stakedAt = block]
        /\ totalStaked' = totalStaked + added
        /\ power' = [power EXCEPT ![Holder(caller, s)] = @ + added]

ClaimRewards(caller) ==
    /\ caller \in DOMAIN stakes
    /\ \/ \E v \in stakes[caller].vesting : ClaimVested(caller, v)
       \/ stakes[caller].vesting = {} /\ ClaimAccrued(caller)
    /\ UNCHANGED <<block, stakerList, configVars, ballotVars, validatorVars>>

SetAutoCompound(caller, auto) ==
    /\ caller \in DOMAIN stakes
    /\ stakes' = [stakes EXCEPT ![caller].auto = auto]
    /\ UNCHANGED <<block, totalStaked, power, stakerList, pool, configVars, ballotVars,
                   validatorVars>>

\* The power leaves its old holder before it reaches the new one.
DelegateGovernance(caller, delegate) ==
    /\ caller \in DOMAIN stakes
    /\ delegate # caller
    /\ stakes' = [stakes EXCEPT ![caller].delegate = {delegate}]
    /\ power' = LET s == stakes[caller]
                    taken == [power EXCEPT ![Holder(caller, s)] = Saturating(@, s.amount)]
                IN  [taken EXCEPT ![delegate] = @ + s.amount]
    /\ UNCHANGED <<block, totalStaked, stakerList, pool, configVars, ballotVars, validatorVars>>

FundRewardPool(caller, amount) ==
    /\ caller = StakingAdmin
    /\ amount # 0
    /\ pool + amount <= MaxPool
    /\ pool' = pool + amount
    /\ UNCHANGED <<block, stakeVars, configVars, ballotVars, validatorVars>>

----
\* Configuration and its governance

SetEarlyWithdrawalPenalty(caller, bps) ==
    /\ caller = StakingAdmin
    /\ bps <= MaxPenalty
    /\ penaltyBps' = bps
    /\ UNCHANGED <<block, stakeVars, pool, paramVars, coordinator, ballotVars, validatorVars>>

UpdateStakingConfig(caller, min, rate) ==
    /\ caller = StakingAdmin
    /\ min # 0
    /\ minStake' = min
    /\ rewardRate' = rate
    /\ UNCHANGED <<block, stakeVars, pool, votingPeriod, quorum, curve, penaltyBps, coordinator,
                   ballotVars, validatorVars>>

\* validate_param
ValidParam(kind) ==
    /\ kind.name \in {"MinStake", "VotingPeriodBlocks"} => kind.value # 0
    /\ kind.name = "QuorumBps" => kind.value \in 1..BPS

ProposeParamChange(caller, kind) ==
    /\ Len(paramProposals) < MaxParamProposals
    /\ power[caller] # 0
    /\ activeCount < MaxActiveProposals
    /\ ValidParam(kind)
    /\ paramProposals' = Append(paramProposals,
           [proposer |-> caller, kind |-> kind, for |-> 0, against |-> 0,
            end |-> block + votingPeriod, snapshot |-> totalStaked, status |-> "Active"])
    /\ activeCount' = activeCount + 1
    /\ UNCHANGED <<block, stakeVars, pool, configVars, paramVotes, validatorVars>>

VoteOnProposal(caller, p, support) ==
    /\ power[caller] # 0
    /\ paramProposals[p].status = "Active"
    /\ block < paramProposals[p].end
    /\ <<p, caller>> \notin paramVotes
    /\ paramVotes' = paramVotes \cup {<<p, caller>>}
    /\ paramProposals' =
          IF support THEN [paramProposals EXCEPT ![p].for = @ + power[caller]]
          ELSE [paramProposals EXCEPT ![p].against = @ + power[caller]]
    /\ UNCHANGED <<block, stakeVars, pool, configVars, activeCount, validatorVars>>

\* apply_param
ApplyParam(kind) ==
    /\ minStake' = IF kind.name = "MinStake" THEN kind.value ELSE minStake
    /\ rewardRate' = IF kind.name = "RewardRateBps" THEN kind.value ELSE rewardRate
    /\ votingPeriod' = IF kind.name = "VotingPeriodBlocks" THEN kind.value ELSE votingPeriod
    /\ quorum' = IF kind.name = "QuorumBps" THEN kind.value ELSE quorum
    /\ curve' = IF kind.name = "BoostCurve" THEN kind.value ELSE curve

\* Without a quorum the code stores Rejected and returns Err, which reverts it: the
\* proposal stays Active and keeps its place among the active ones.
ExecuteParamProposal(p) ==
    LET q == paramProposals[p]
        carried == q.for > q.against
    IN  /\ q.status = "Active"
        /\ block >= q.end
        /\ q.for + q.against >= (q.snapshot * quorum) \div BPS
        /\ activeCount' = Saturating(activeCount, 1)
        /\ paramProposals' = [paramProposals EXCEPT
              ![p].status = IF carried THEN "Executed" ELSE "Rejected"]
        /\ IF carried THEN ApplyParam(q.kind) ELSE UNCHANGED paramVars
        /\ UNCHANGED <<block, stakeVars, pool, penaltyBps, coordinator, paramVotes,
                       validatorVars>>

CancelParamProposal(caller, p) ==
    /\ paramProposals[p].status = "Active"
    /\ caller \in {paramProposals[p].proposer, StakingAdmin}
    /\ paramProposals' = [paramProposals EXCEPT ![p].status = "Cancelled"]
    /\ activeCount' = Saturating(activeCount, 1)
    /\ UNCHANGED <<block, stakeVars, pool, configVars, paramVotes, validatorVars>>
----
\* Validators and delegations

\* update_validator_rewards: a validator's record brought up to the current block.
\* Blocks without delegated stake earn nothing.
Accrued(info) ==
    LET gross == (info.delegated * rewardRate * (block - info.last)) \div RatePrecision
        commission == (gross * info.commission) \div BPS
    IN  IF info.delegated = 0 THEN [info EXCEPT !.last = block]
        ELSE [info EXCEPT
                 !.earned = @ + commission,
                 !.acc = @ + ((gross - commission) * RewardPrecision) \div info.delegated,
                 !.last = block]

\* The part of the accumulator an amount stands for.
ShareOf(amount, info) == (info.acc * amount) \div RewardPrecision

RegisterValidator(caller, selfStake, commission) ==
    /\ selfStake >= MinValidatorStake
    /\ commission <= BPS
    /\ caller \notin DOMAIN validators
    /\ validators' = With(validators, caller,
           [selfStake |-> selfStake, commission |-> commission, delegated |-> 0, earned |-> 0,
            active |-> TRUE, acc |-> 0, last |-> block])
    /\ UNCHANGED <<block, stakeVars, pool, configVars, ballotVars, delegations, totalDelegated,
                   delegators, delegatorValidator>>

\* Replaces the record of one validator and nothing else.
SetValidator(v, info) ==
    /\ validators' = [validators EXCEPT ![v] = info]
    /\ UNCHANGED <<block, stakeVars, configVars, ballotVars, delegations, totalDelegated,
                   delegators, delegatorValidator>>

UpdateCommissionRate(caller, rate) ==
    /\ caller \in DOMAIN validators
    /\ rate <= BPS
    /\ SetValidator(caller, [Accrued(validators[caller]) EXCEPT !.commission = rate])
    /\ UNCHANGED pool

DeactivateValidator(caller) ==
    /\ caller \in DOMAIN validators
    /\ SetValidator(caller, [validators[caller] EXCEPT !.active = FALSE])
    /\ UNCHANGED pool

ReactivateValidator(caller) ==
    /\ caller \in DOMAIN validators
    /\ validators[caller].selfStake >= MinValidatorStake
    /\ SetValidator(caller, [validators[caller] EXCEPT !.active = TRUE])
    /\ UNCHANGED pool

SetSlashingCoordinator(caller, account) ==
    /\ caller = StakingAdmin
    /\ coordinator' = {account}
    /\ UNCHANGED <<block, stakeVars, pool, paramVars, penaltyBps, ballotVars, validatorVars>>

Slash(amount) == (amount * SlashPercent) \div 100

\* Every delegator in the list is slashed, those who are unbonding too, whose
\* amounts have left the totals already.
SlashValidator(caller, v) ==
    /\ caller \in coordinator
    /\ v \in DOMAIN validators
    /\ LET info == Accrued(validators[v])
           hit  == {k \in DOMAIN delegations : k[2] = v /\ Contains(delegators[v], k[1])}
           lost == SumFunctionOnSet([k \in hit |-> Slash(delegations[k].amount)], hit)
           left == info.selfStake - Slash(info.selfStake)
       IN  /\ delegations' = [k \in DOMAIN delegations |->
                 IF k \in hit THEN [delegations[k] EXCEPT !.amount = @ - Slash(@)]
                 ELSE delegations[k]]
           /\ validators' = [validators EXCEPT ![v] =
                 [info EXCEPT !.selfStake = left,
                              !.delegated = Saturating(@, lost),
                              !.active = @ /\ left >= MinValidatorStake]]
           /\ totalDelegated' = Saturating(totalDelegated, lost)
    /\ UNCHANGED <<block, stakeVars, pool, configVars, ballotVars, delegators, delegatorValidator>>

Delegate(caller, v, amount) ==
    /\ v \in DOMAIN validators
    /\ validators[v].active
    /\ amount >= minStake
    /\ <<caller, v>> \notin DOMAIN delegations
    /\ LET info == Accrued(validators[v])
       IN  /\ delegations' = With(delegations, <<caller, v>>,
                 [amount |-> amount, debt |-> ShareOf(amount, info), unbonding |-> {}])
           /\ validators' = [validators EXCEPT ![v] = [info EXCEPT !.delegated = @ + amount]]
    /\ delegators' = [delegators EXCEPT ![v] = Append(@, caller)]
    /\ delegatorValidator' = With(delegatorValidator, caller, v)
    /\ totalDelegated' = totalDelegated + amount
    /\ UNCHANGED <<block, stakeVars, pool, configVars, ballotVars>>

\* Mutant: the stake of an unbonding delegation stays in the validator's total.
Undelegate_StaysCounted(caller, v) ==
    /\ <<caller, v>> \in DOMAIN delegations
    /\ delegations[<<caller, v>>].unbonding = {}
    /\ delegations' = [delegations EXCEPT ![<<caller, v>>].unbonding = {block}]
    /\ validators' = [validators EXCEPT ![v] = Accrued(validators[v])]
    /\ totalDelegated' = Saturating(totalDelegated, delegations[<<caller, v>>].amount)
    /\ UNCHANGED <<block, stakeVars, pool, configVars, ballotVars, delegators, delegatorValidator>>

Undelegate(caller, v) ==
    /\ <<caller, v>> \in DOMAIN delegations
    /\ delegations[<<caller, v>>].unbonding = {}
    /\ LET amount == delegations[<<caller, v>>].amount
       IN  /\ validators' = [validators EXCEPT ![v] =
                 [Accrued(validators[v]) EXCEPT !.delegated = Saturating(@, amount)]]
           /\ totalDelegated' = Saturating(totalDelegated, amount)
    /\ delegations' = [delegations EXCEPT ![<<caller, v>>].unbonding = {block}]
    /\ UNCHANGED <<block, stakeVars, pool, configVars, ballotVars, delegators, delegatorValidator>>

\* delegator_validator is removed whichever validator it names.
ClaimUndelegated(caller, v) ==
    /\ <<caller, v>> \in DOMAIN delegations
    /\ \E start \in delegations[<<caller, v>>].unbonding : block >= start + UnbondingPeriod
    /\ delegations' = Without(delegations, <<caller, v>>)
    /\ delegators' = [delegators EXCEPT ![v] = Dropped(@, caller)]
    /\ delegatorValidator' = Without(delegatorValidator, caller)
    /\ UNCHANGED <<block, stakeVars, pool, configVars, ballotVars, validators, totalDelegated>>

\* An unbonding delegation goes on earning.
ClaimDelegationRewards(caller, v) ==
    /\ <<caller, v>> \in DOMAIN delegations
    /\ LET info   == Accrued(validators[v])
           record == delegations[<<caller, v>>]
           reward == Saturating(ShareOf(record.amount, info), record.debt)
       IN  /\ reward # 0
           /\ reward <= pool
           /\ pool' = pool - reward
           /\ validators' = [validators EXCEPT ![v] = info]
           /\ delegations' = [delegations EXCEPT ![<<caller, v>>].debt = ShareOf(record.amount, info)]
    /\ UNCHANGED <<block, stakeVars, configVars, ballotVars, totalDelegated, delegators,
                   delegatorValidator>>

ClaimValidatorCommission(caller) ==
    /\ caller \in DOMAIN validators
    /\ LET info == Accrued(validators[caller])
       IN  /\ info.earned # 0
           /\ info.earned <= pool
           /\ pool' = pool - info.earned
           /\ SetValidator(caller, [info EXCEPT !.earned = 0])

----
\* The next-state relation

ClaimNext ==
    \/ \E a \in Stakers : ClaimRewards(a) \/ ClaimValidatorCommission(a)
    \/ \E k \in DOMAIN delegations : ClaimDelegationRewards(k[1], k[2])

StakeNext ==
    \E a \in Stakers :
        \/ \E amount \in AmountArgs, lock \in LockArgs :
              \/ StakeTokens(a, amount, lock)
              \/ \E rewards \in AmountArgs, times \in VestingArgs :
                    StakeWithVesting(a, amount, lock, rewards, times[1], times[2])
        \/ \E auto \in BOOLEAN : SetAutoCompound(a, auto)
        \/ \E d \in Stakers : DelegateGovernance(a, d)

ConfigNext ==
    \E a \in Stakers :
        \/ \E bps \in PenaltyArgs : SetEarlyWithdrawalPenalty(a, bps)
        \/ \E min \in AmountArgs, rate \in RateArgs : UpdateStakingConfig(a, min, rate)

ParamNext ==
    \/ \E a \in Stakers :
          \/ \E kind \in ParamArgs : ProposeParamChange(a, kind)
          \/ \E p \in 1..Len(paramProposals) :
                \/ \E support \in BOOLEAN : VoteOnProposal(a, p, support)
                \/ CancelParamProposal(a, p)
    \/ \E p \in 1..Len(paramProposals) : ExecuteParamProposal(p)

ValidatorNext ==
    \E a \in Stakers :
        \/ \E self \in AmountArgs, rate \in CommissionArgs : RegisterValidator(a, self, rate)
        \/ \E rate \in CommissionArgs : UpdateCommissionRate(a, rate)
        \/ DeactivateValidator(a)
        \/ ReactivateValidator(a)
        \/ \E c \in Stakers : SetSlashingCoordinator(a, c)
        \/ \E v \in Stakers : SlashValidator(a, v)

DelegationNext ==
    \E a, v \in Stakers :
        \/ \E amount \in AmountArgs : Delegate(a, v, amount)
        \/ Undelegate(a, v)
        \/ ClaimUndelegated(a, v)

StakingTimeNext ==
    NextBlock /\ UNCHANGED <<stakeVars, pool, configVars, ballotVars, validatorVars>>

FundNext == \E a \in Stakers, amount \in AmountArgs : FundRewardPool(a, amount)
UnstakeNext == \E a \in Stakers : Unstake(a)

StakingNext ==
    \/ ClaimNext
    \/ StakeNext
    \/ UnstakeNext
    \/ FundNext
    \/ ConfigNext
    \/ ParamNext
    \/ ValidatorNext
    \/ DelegationNext
    \/ StakingTimeNext

StakingSpec == ChainInit /\ StakingInit /\ [][StakingNext]_stakingVars

----
\* Properties

Amounts == [a \in DOMAIN stakes |-> stakes[a].amount]
Entrusted(h) == {a \in DOMAIN stakes : Holder(a, stakes[a]) = h}

\* Stake is neither lost nor counted twice by staking, compounding, unstaking and
\* passing governance power on: the total is the sum of the stakes, an account's
\* power is the sum of the stakes that name it, and the list of stakers names each
\* of them once.
StakesAddUp ==
    /\ totalStaked = SumFunctionOnSet(Amounts, DOMAIN stakes)
    /\ \A h \in Stakers : power[h] = SumFunctionOnSet(Amounts, Entrusted(h))
    /\ IsInjective(stakerList) /\ ToSet(stakerList) = DOMAIN stakes

ActiveDelegations(vs) == {k \in DOMAIN delegations : k[2] \in vs /\ delegations[k].unbonding = {}}

DelegatedTo(vs) ==
    SumFunctionOnSet([k \in DOMAIN delegations |-> delegations[k].amount], ActiveDelegations(vs))

\* The validators' lists of delegators agree with the delegations, and no validator
\* (nor the contract) counts more stake than is delegated and not unbonding, over
\* slashes, unbonding and new delegations.
DelegationsTracked ==
    /\ \A v \in Stakers :
          /\ IsInjective(delegators[v])
          /\ ToSet(delegators[v]) = {k[1] : k \in {d \in DOMAIN delegations : d[2] = v}}
    /\ \A v \in DOMAIN validators : validators[v].delegated <= DelegatedTo({v})
    /\ totalDelegated <= DelegatedTo(DOMAIN validators)

\* The counter that bounds the open proposals agrees with a recount of them.
ActiveCountRecounts ==
    activeCount = Cardinality({p \in DOMAIN paramProposals : paramProposals[p].status = "Active"})

\* The books of the staking contract agree: types, stakes with their powers and
\* lists, and the count of open proposals (stake, unstake, delegate_governance,
\* create_param_proposal, execute_param_proposal).
StakingBooksAgree == StakingTypeOK /\ StakesAddUp /\ ActiveCountRecounts
====

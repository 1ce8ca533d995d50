---- MODULE StakingProofs ----
(***************************************************************************)
(* Proofs about Staking for any accounts, amounts, rates and any number of *)
(* stakes, proposals, validators and delegations: that the books of the    *)
(* contract agree, that delegated stake is tracked, and that rewards are   *)
(* paid from what was put into the pool.                                   *)
(***************************************************************************)
EXTENDS MCStaking, Sums, SequenceTheorems

----
\* The inductive invariant, by the parts of the state that change together.

\* An Option as a set: nothing or one value.
AtMostOne(set) == set = {} \/ \E x \in set : set = {x}

\* A stake is of its type, was made by now, and vests over some time.
StakeSound(a) ==
    /\ stakes[a] \in Stake
    /\ AtMostOne(stakes[a].delegate) /\ a \notin stakes[a].delegate
    /\ AtMostOne(stakes[a].vesting)
    /\ stakes[a].stakedAt <= block
    /\ \A v \in stakes[a].vesting : v.start < v.end

StakesInv ==
    /\ DOMAIN stakes \subseteq Stakers
    /\ \A a \in DOMAIN stakes : StakeSound(a)
    /\ power \in [Stakers -> Nat] /\ totalStaked \in Nat /\ stakerList \in Seq(Stakers)
    /\ StakesAddUp

ConfigInv ==
    /\ pool \in Nat /\ rewardRate \in Nat
    /\ minStake \in Nat \ {0} /\ votingPeriod \in Nat \ {0}
    /\ quorum \in 1..BPS /\ curve \in Curve /\ penaltyBps \in 0..MaxPenalty
    /\ coordinator \subseteq Stakers /\ AtMostOne(coordinator)

\* A change that was proposed passed validate_param.
BallotInv ==
    /\ paramProposals \in Seq(ParamProposal)
    /\ \A p \in DOMAIN paramProposals : ValidParam(paramProposals[p].kind)
    /\ paramVotes \subseteq (1..Len(paramProposals)) \X Stakers
    /\ activeCount \in Nat /\ ActiveCountRecounts

DelegationsInv ==
    /\ DOMAIN validators \subseteq Stakers
    /\ \A v \in DOMAIN validators :
          validators[v] \in Validator /\ validators[v].commission <= BPS /\ validators[v].last <= block
    /\ IsFiniteSet(DOMAIN delegations) /\ DOMAIN delegations \subseteq Stakers \X DOMAIN validators
    /\ \A k \in DOMAIN delegations : delegations[k] \in Delegation /\ delegations[k].unbonding \subseteq 1..block
    /\ delegators \in [Stakers -> Seq(Stakers)] /\ DOMAIN delegatorValidator \subseteq Stakers
    /\ totalDelegated \in Nat
    /\ DelegationsTracked

ClockInv == block \in Nat \ {0}

StakingInv == ClockInv /\ StakesInv /\ ConfigInv /\ BallotInv /\ DelegationsInv

----
\* Pure functions

\* What the assumptions on the constants say of the arguments.
LEMMA StakingFacts ==
    /\ StakingAdmin \in Stakers
    /\ \A x \in AmountArgs : x \in Nat
    /\ \A x \in LockArgs : x \in Nat
    /\ \A x \in RateArgs : x \in Nat
    /\ \A x \in CommissionArgs : x \in Nat
    /\ \A x \in PenaltyArgs : x \in Nat
    /\ \A x \in VestingArgs : x[1] \in Nat /\ x[2] \in Nat
    /\ RatePrecision \in Nat \ {0} /\ YearBlocks \in Nat \ {0} /\ Unit \in Nat \ {0}
    /\ RewardPrecision \in Nat \ {0} /\ MaxPenalty \in Nat /\ BPS = 10000
    /\ MinValidatorStake \in Nat /\ UnbondingPeriod \in Nat
  BY StakingConstants DEF BPS

\* Integer square roots exist.
LEMMA RootExists ==
    ASSUME NEW n \in Nat
    PROVE  \E r \in Nat : r * r <= n /\ n < (r + 1) * (r + 1)
<1> DEFINE Q == {m \in Nat : \E r \in Nat : r * r <= m /\ m < (r + 1) * (r + 1)}
<1>1. 0 \in Q
  OBVIOUS
<1>2. ASSUME NEW m \in Nat, m \in Q
      PROVE  m + 1 \in Q
  <2>1. PICK r \in Nat : r * r <= m /\ m < (r + 1) * (r + 1)
    BY <1>2
  <2>2. (r + 1) * (r + 1) = r * r + 2 * r + 1 /\ (r + 2) * (r + 2) = (r + 1) * (r + 1) + 2 * (r + 1) + 1
        /\ (r + 1) * (r + 1) \in Nat /\ r * r \in Nat
    OBVIOUS
  <2>3. CASE m + 1 < (r + 1) * (r + 1)
    BY <2>1, <2>2, <2>3
  <2>4. CASE ~(m + 1 < (r + 1) * (r + 1))
    <3>1. m + 1 = (r + 1) * (r + 1)
      BY <2>1, <2>2, <2>4
    <3> DEFINE q == r + 1
    <3>2. (q + 1) * (q + 1) = (r + 2) * (r + 2) /\ q \in Nat
      OBVIOUS
    <3>3. q * q <= m + 1 /\ m + 1 < (q + 1) * (q + 1)
      BY <2>2, <3>1, <3>2
    <3> HIDE DEF q
    <3> QED
      BY <3>2, <3>3
  <2> QED
    BY <2>3, <2>4
<1> HIDE DEF Q
<1>3. n \in Q
  BY <1>1, <1>2, NatInduct
<1> QED
  BY <1>3 DEF Q

\* The root of a number below the square of the bound is found below the bound.
LEMMA SqrtIsNatural ==
    ASSUME NEW n \in Nat, NEW bound \in Nat, n <= bound * bound
    PROVE  Sqrt(n, bound) \in 0..bound
<1>1. PICK r \in Nat : r * r <= n /\ n < (r + 1) * (r + 1)
  BY RootExists
<1>2. r <= bound
  <2> SUFFICES ASSUME r >= bound + 1 PROVE FALSE
    OBVIOUS
  <2>1. bound * bound < (bound + 1) * (bound + 1)
    OBVIOUS
  <2>2. (bound + 1) * (bound + 1) <= r * r
    BY Products
  <2>3. bound * bound \in Int /\ (bound + 1) * (bound + 1) \in Int /\ r * r \in Int
    OBVIOUS
  <2> QED
    BY <1>1, <2>1, <2>2, <2>3
<1>3. \E q \in 0..bound : q * q <= n /\ n < (q + 1) * (q + 1)
  BY <1>1, <1>2
<1> QED
  BY <1>3 DEF Sqrt

\* Dividing by what is not zero rounds down.
LEMMA Divided ==
    /\ \A n \in Nat, d \in Nat \ {0} : n \div d \in Nat
    /\ \A n, m \in Nat, d \in Nat \ {0} : n <= m * d => n \div d <= m
  OBVIOUS

\* A lock period reaches through a year at most once.
LEMMA RatioBounded ==
    ASSUME NEW lock \in Nat
    PROVE  Ratio(lock) \in 0..Unit
<1> DEFINE short == IF lock > YearBlocks THEN YearBlocks ELSE lock
<1> USE StakingFacts
<1>1. short \in Nat /\ short <= YearBlocks
  OBVIOUS
<1> HIDE DEF short
<1>2. Unit * short <= Unit * YearBlocks /\ short * Unit = Unit * short /\ short * Unit \in Nat
  BY <1>1, Products
<1>3. (short * Unit) \div YearBlocks \in Nat /\ (short * Unit) \div YearBlocks <= Unit
  BY <1>2, Divided
<1> QED
  BY <1>3 DEF Ratio, short

\* Multipliers are natural numbers for each shape of the curve.
LEMMA MultiplierIsNatural ==
    ASSUME NEW shape \in Curve, NEW lock \in Nat
    PROVE  Multiplier(shape, lock) \in Nat
<1> DEFINE r == Ratio(lock)
           scaled == CASE shape = "Linear"  -> r
                    [] shape = "Concave" -> Sqrt(r * Unit, Unit)
                    [] shape = "Convex"  -> (r * r) \div Unit
<1> USE StakingFacts
<1>1. r \in Nat /\ r <= Unit
  BY RatioBounded
<1> HIDE DEF r
<1>3. scaled \in Nat
  <2>1. CASE shape = "Linear"
    BY <1>1, <2>1
  <2>2. CASE shape = "Concave"
    <3>1. r * Unit \in Nat /\ r * Unit <= Unit * Unit
      BY <1>1, Products
    <3>2. Sqrt(r * Unit, Unit) \in Nat
      BY <3>1, SqrtIsNatural
    <3> QED
      BY <2>2, <3>2
  <2>3. CASE shape = "Convex"
    <3>1. (r * r) \div Unit \in Nat
      BY <1>1, Products, Divided
    <3> QED
      BY <2>3, <3>1
  <2> QED
    BY <2>1, <2>2, <2>3 DEF Curve
<1>4. Multiplier(shape, lock) = 100 + (200 * scaled) \div Unit
  BY DEF Multiplier, r
<1> HIDE DEF scaled
<1>5. (200 * scaled) \div Unit \in Nat
  BY <1>3, Divided
<1> QED
  BY <1>4, <1>5

\* So are the multipliers of the five tiers.
LEMMA TierIsNatural ==
    ASSUME NEW amount
    PROVE  TierMultiplier(amount) \in Nat
<1> DEFINE T == {t \in 1..4 : amount >= TierBounds[t]}
           c == Cardinality(T)
<1>1. IsFiniteSet(1..4) /\ Cardinality(1..4) = 4
  <2>1. 1 \in Int /\ 4 \in Int /\ ~(1 > 4) /\ 4 - 1 + 1 = 4
    OBVIOUS
  <2>2. IsFiniteSet(1..4) /\ Cardinality(1..4) = IF 1 > 4 THEN 0 ELSE 4 - 1 + 1
    BY <2>1, FS_Interval
  <2> QED
    BY <2>1, <2>2
<1>2. c \in Nat /\ c <= 4
  BY <1>1, FS_Subset, FS_CardinalityType
<1>3. TierMultiplier(amount) = <<100, 110, 120, 135, 150>>[1 + c]
  BY DEF TierMultiplier
<1> HIDE DEF c
<1>4. c = 0 \/ c = 1 \/ c = 2 \/ c = 3 \/ c = 4
  BY <1>2
<1> QED
  BY <1>3, <1>4

\* What accrued on a stake (calculate_rewards).
LEMMA RewardsAreNatural ==
    ASSUME ClockInv, ConfigInv, NEW s \in Stake, s.stakedAt <= block
    PROVE  Rewards(s) \in Nat
<1> DEFINE base == (s.amount * rewardRate * (block - s.stakedAt)) \div RatePrecision
           m == Multiplier(curve, s.lock)
           t == TierMultiplier(s.amount)
<1> USE StakingFacts
<1>1. s.amount \in Nat /\ s.lock \in Nat /\ s.stakedAt \in Nat /\ rewardRate \in Nat /\ curve \in Curve
      /\ block - s.stakedAt \in Nat
  BY SMTT(30) DEF Stake, ConfigInv, ClockInv
<1>2. base \in Nat
  BY <1>1, Products, Divided
<1>3. m \in Nat /\ t \in Nat
  BY <1>1, MultiplierIsNatural, TierIsNatural
<1> HIDE DEF base, m, t
<1>4. (base * m) \div 100 \in Nat
  BY <1>2, <1>3, Products, Divided
<1>5. (((base * m) \div 100) * t) \div 100 \in Nat
  BY <1>3, <1>4, Products, Divided
<1> QED
  BY <1>5 DEF Rewards, base, m, t

\* What has vested and was not claimed.
LEMMA VestedIsNatural ==
    ASSUME ClockInv, NEW s \in Stake, NEW v \in Vesting, v.start < v.end
    PROVE  VestedClaimable(s, v) \in Nat
<1>1. s.original \in Nat /\ v.vested \in Nat /\ v.cliff \in Nat /\ v.end - v.start \in Nat \ {0} /\ v.end \in Nat /\ block \in Nat
  BY DEF Stake, Vesting, ClockInv
<1>2. block >= v.cliff => (s.original * (block - v.cliff)) \div (v.end - v.start) \in Nat
  <2> SUFFICES ASSUME block >= v.cliff PROVE (s.original * (block - v.cliff)) \div (v.end - v.start) \in Nat
    OBVIOUS
  <2>1. block - v.cliff \in Nat
    BY <1>1
  <2>2. s.original * (block - v.cliff) \in Nat
    BY <1>1, <2>1, Products
  <2> QED
    BY <1>1, <2>2, Divided
<1>3. \A n \in Nat : Saturating(n, v.vested) \in Nat
  BY <1>1 DEF Saturating
<1>4. CASE block < v.cliff
  BY <1>3, <1>4 DEF VestedClaimable
<1>5. CASE ~(block < v.cliff) /\ block >= v.end
  BY <1>1, <1>3, <1>5 DEF VestedClaimable
<1>6. CASE ~(block < v.cliff) /\ ~(block >= v.end)
  BY <1>1, <1>6, <1>2, <1>3 DEF VestedClaimable
<1> QED
  BY <1>4, <1>5, <1>6

\* What leaves the stake early is part of the stake.
LEMMA PenaltyIsNatural ==
    ASSUME ConfigInv, NEW s \in Stake
    PROVE  Penalty(s) \in Nat
  BY StakingFacts, Products, Divided DEF Stake, ConfigInv, Penalty

\* What vests and was not claimed yet.
LEMMA UnvestedIs ==
    ASSUME NEW s
    PROVE  /\ s.vesting = {} => Unvested(s) = 0
           /\ \A v \in Vesting : s.vesting = {v} =>
                 Unvested(s) = Saturating(v.total, v.vested) /\ Unvested(s) \in Nat
<1>1. s.vesting = {} => Unvested(s) = 0
  BY SumEmpty DEF Unvested
<1>2. ASSUME NEW v \in Vesting, s.vesting = {v}
      PROVE  Unvested(s) = Saturating(v.total, v.vested) /\ Unvested(s) \in Nat
  BY <1>2, FS_EmptySet, SumAdd, SumEmpty DEF Saturating, Vesting, Unvested
<1> QED
  BY <1>1, <1>2

----
\* Lists

\* Taking an account out of a list that names each account once leaves a list of the others
\* (Vec::swap_remove).
LEMMA DroppedList ==
    ASSUME NEW list \in Seq(Stakers), IsInjective(list), NEW account
    PROVE  /\ Dropped(list, account) \in Seq(Stakers) /\ IsInjective(Dropped(list, account))
           /\ ToSet(Dropped(list, account)) = ToSet(list) \ {account}
<1> DEFINE at == {i \in DOMAIN list : list[i] = account}
           n == Len(list)
<1>1. /\ n \in Nat /\ DOMAIN list = 1..n /\ \A i \in 1..n : list[i] \in Stakers
      /\ \A i, j \in 1..n : list[i] = list[j] => i = j
  BY DEF IsInjective
<1>2. CASE at = {}
  BY <1>2 DEF Dropped, ToSet
<1>3. CASE at # {}
  <2>1. PICK m \in 1..n : list[m] = account /\ at = {m}
    BY <1>1, <1>3
  <2>2. Min(at) = m
    BY <2>1 DEF Min
  <2> DEFINE d == [i \in 1..(n - 1) |-> IF i = m THEN list[n] ELSE list[i]]
  <2>3. Dropped(list, account) = d
    BY <1>3, <2>2 DEF Dropped
  <2>4. n - 1 \in Nat /\ \A i \in 1..(n - 1) : i \in 1..n /\ i # n
    <3>1. n \in Nat /\ m \in 1..n
      BY <1>1, <2>1
    <3> HIDE DEF n
    <3> QED
      BY <3>1
  <2>5. n \in 1..n
    BY <1>1, <2>1
  <2>6. d \in Seq(Stakers) /\ DOMAIN d = 1..(n - 1)
    <3>1. \A i \in 1..(n - 1) : d[i] \in Stakers
      BY <1>1, <2>4, <2>5
    <3>2. d \in [1..(n - 1) -> Stakers]
      BY <3>1
    <3> HIDE DEF d
    <3> QED
      BY <2>4, <3>2, IsASeq, SMTT(30)
  <2>7. \A i, j \in 1..(n - 1) : d[i] = d[j] => i = j
    BY <1>1, <2>4, <2>5
  <2>8. ASSUME NEW x PROVE x \in ToSet(d) <=> x \in ToSet(list) /\ x # account
    <3>1. ASSUME NEW i \in 1..(n - 1) PROVE d[i] \in ToSet(list) /\ d[i] # account
      BY <1>1, <2>1, <2>4, <2>5, <3>1 DEF ToSet
    <3>2. ASSUME NEW j \in 1..n, list[j] # account PROVE \E i \in 1..(n - 1) : d[i] = list[j]
      <4>1. CASE j = n
        BY <1>1, <2>1, <3>2, <4>1
      <4>2. CASE j # n
        <5>0. n \in Nat
          BY <1>1
        <5>1. j \in 1..(n - 1) /\ j # m
          BY <2>1, <3>2, <4>2, <5>0
        <5> QED
          BY <5>1
      <4> QED
        BY <4>1, <4>2
    <3>3. ToSet(d) = {d[i] : i \in 1..(n - 1)} /\ ToSet(list) = {list[j] : j \in 1..n}
      BY <1>1, <2>6 DEF ToSet
    <3> HIDE DEF d, n
    <3>4. x \in ToSet(d) => x \in ToSet(list) /\ x # account
      BY <3>1, <3>3
    <3>5. x \in ToSet(list) /\ x # account => x \in ToSet(d)
      BY <3>2, <3>3
    <3> QED
      BY <3>4, <3>5
  <2> HIDE DEF d
  <2> QED
    BY <2>3, <2>6, <2>7, <2>8 DEF IsInjective
<1> QED
  BY <1>2, <1>3

\* A newcomer at the end of a list is named once more.
LEMMA AppendedList ==
    ASSUME NEW list \in Seq(Stakers), IsInjective(list), NEW account \in Stakers, account \notin ToSet(list)
    PROVE  /\ Append(list, account) \in Seq(Stakers) /\ IsInjective(Append(list, account))
           /\ ToSet(Append(list, account)) = ToSet(list) \cup {account}
<1> DEFINE n == Len(list)
           d == Append(list, account)
<1>1. n \in Nat /\ DOMAIN list = 1..n
  BY LenProperties
<1>2. /\ d \in Seq(Stakers) /\ Len(d) = n + 1 /\ d[n + 1] = account
      /\ \A i \in 1..n : d[i] = list[i]
  BY AppendProperties
<1>3. DOMAIN d = 1..(n + 1)
  BY <1>2, LenProperties
<1> HIDE DEF d
<1>4. \A i \in 1..(n + 1) : i = n + 1 \/ i \in 1..n
  BY <1>1
<1>5. \A i \in 1..n : d[i] = list[i] /\ list[i] # account /\ i \in 1..(n + 1)
  BY <1>1, <1>2 DEF ToSet
<1>6. \A i, j \in 1..n : list[i] = list[j] => i = j
  BY <1>1 DEF IsInjective
<1>7. IsInjective(d)
  BY <1>3, <1>5, <1>6, <1>2, <1>4 DEF IsInjective
<1>8. ToSet(d) = ToSet(list) \cup {account}
  BY <1>1, <1>2, <1>3, <1>4, <1>5 DEF ToSet
<1> QED
  BY <1>2, <1>7, <1>8 DEF d

\* Finitely many accounts are named by a list.
LEMMA ListIsFinite ==
    ASSUME NEW list \in Seq(Stakers)
    PROVE  IsFiniteSet(ToSet(list))
<1> DEFINE n == Len(list)
           f == [i \in 1..n |-> list[i]]
<1>1. n \in Nat /\ DOMAIN list = 1..n
  BY LenProperties
<1>2. IsFiniteSet(1..n)
  BY <1>1, FS_Interval
<1>3. ToSet(list) = {list[i] : i \in 1..n}
  BY <1>1 DEF ToSet
<1>4. f \in Surjection(1..n, ToSet(list))
  BY <1>1 DEF Surjection, ToSet
<1> HIDE DEF f, n
<1> QED
  BY <1>2, <1>4, FS_Surjection

----
\* Stakes

\* Who holds the power of a stake is an account.
LEMMA HolderIs ==
    ASSUME NEW a \in Stakers, NEW s \in Stake, AtMostOne(s.delegate)
    PROVE  /\ Holder(a, s) \in Stakers
           /\ s.delegate = {} => Holder(a, s) = a
           /\ \A d : s.delegate = {d} => Holder(a, s) = d
  BY DEF Stake, Holder, AtMostOne

\* Stakes, and those entrusted to one delegate, are finitely many, each with an
\* amount.
LEMMA StakersAreFinite ==
    ASSUME StakesInv
    PROVE  /\ IsFiniteSet(DOMAIN stakes)
           /\ \A h : Entrusted(h) \subseteq DOMAIN stakes /\ IsFiniteSet(Entrusted(h))
           /\ \A a \in DOMAIN stakes : Amounts[a] = stakes[a].amount /\ Amounts[a] \in Nat
  BY ListIsFinite, FS_Subset DEF StakesInv, StakesAddUp, Entrusted, StakeSound, Stake, Amounts

\* At most the stake of one account comes, goes or changes, from one amount and holder of its
\* power to others.
OneChange(a, old, new, from, to) ==
    /\ DOMAIN stakes' \subseteq Stakers /\ DOMAIN stakes' \ {a} = DOMAIN stakes \ {a}
    /\ \A b \in DOMAIN stakes \ {a} : stakes'[b] = stakes[b]
    /\ a \in DOMAIN stakes => stakes[a].amount = old /\ Holder(a, stakes[a]) = from
    /\ a \notin DOMAIN stakes => old = 0
    /\ a \in DOMAIN stakes' => stakes'[a].amount = new /\ Holder(a, stakes'[a]) = to
    /\ a \notin DOMAIN stakes' => new = 0

\* The total, the powers and the list follow such a change.
BooksFollow(old, new, from, to) ==
    /\ old <= totalStaked => totalStaked' = totalStaked - old + new
    /\ power' \in [Stakers -> Int]
    /\ \A h \in Stakers : (h = from => old <= power[h]) =>
          power'[h] = power[h] - (IF h = from THEN old ELSE 0) + (IF h = to THEN new ELSE 0)
    /\ stakerList' \in Seq(Stakers) /\ IsInjective(stakerList') /\ ToSet(stakerList') = DOMAIN stakes'

\* A message changes one stake, from its old amount held by one account to its new one held by
\* another; the total and the powers follow the change, and so they stay sums.
LEMMA OneStakeChanges ==
    ASSUME StakesInv, NEW a \in Stakers, NEW old \in Nat, NEW new \in Nat, NEW from, NEW to,
           OneChange(a, old, new, from, to)
    PROVE  /\ old <= totalStaked /\ SumFunctionOnSet(Amounts', DOMAIN stakes') = totalStaked - old + new
           /\ \A h \in Stakers :
                 /\ h = from => old <= power[h]
                 /\ SumFunctionOnSet(Amounts', Entrusted(h)') =
                       power[h] - (IF h = from THEN old ELSE 0) + (IF h = to THEN new ELSE 0)
<1> USE StakersAreFinite DEF OneChange
<1>1. \A b \in DOMAIN stakes \ {a} : Amounts[b] \in Int /\ Amounts'[b] = Amounts[b]
  BY DEF Amounts
<1>2. /\ a \in DOMAIN stakes => Amounts[a] = old
      /\ a \in DOMAIN stakes' => Amounts'[a] = new
  BY DEF Amounts
<1>3. SumFunctionOnSet(Amounts', DOMAIN stakes') = totalStaked - old + new
  <2>1. SumFunctionOnSet(Amounts', DOMAIN stakes') = SumFunctionOnSet(Amounts, DOMAIN stakes) - old + new
    BY <1>1, <1>2, SumSwap
  <2> QED
    BY <2>1 DEF StakesInv, StakesAddUp
<1>4. old <= totalStaked
  BY SumNatural, <1>2 DEF StakesInv, StakesAddUp
<1>5. ASSUME NEW h \in Stakers
      PROVE  /\ h = from => old <= power[h]
             /\ SumFunctionOnSet(Amounts', Entrusted(h)') =
                   power[h] - (IF h = from THEN old ELSE 0) + (IF h = to THEN new ELSE 0)
  <2> DEFINE f == Amounts
             g == Amounts'
             S == Entrusted(h)
             T == Entrusted(h)'
             less == IF h = from THEN old ELSE 0
             more == IF h = to THEN new ELSE 0
  <2>1. T \ {a} = S \ {a}
    BY DEF Entrusted
  <2>2. \A x \in S \ {a} : f[x] \in Int /\ g[x] = f[x]
    BY <1>1 DEF Entrusted
  <2>3. (a \in S => f[a] = less) /\ (a \notin S => less = 0)
    BY <1>2 DEF Entrusted
  <2>4. (a \in T => g[a] = more) /\ (a \notin T => more = 0)
    BY <1>2 DEF Entrusted
  <2>5. less \in Int /\ more \in Int /\ IsFiniteSet(S)
    OBVIOUS
  <2>6. power[h] = SumFunctionOnSet(f, S)
    BY DEF StakesInv, StakesAddUp
  <2>7. \A x \in S : f[x] \in Nat
    BY DEF Entrusted
  <2>8. h = from => less = old
    OBVIOUS
  <2> HIDE DEF f, g, S, T, less, more
  <2>9. SumFunctionOnSet(g, T) = SumFunctionOnSet(f, S) - less + more
    BY <2>1, <2>2, <2>3, <2>4, <2>5, SumSwap
  <2>10. \A x \in S : f[x] <= SumFunctionOnSet(f, S)
    BY <2>5, <2>7, SumNatural
  <2>11. 0 <= SumFunctionOnSet(f, S)
    BY <2>5, <2>7, SumNatural
  <2>12. less <= power[h]
    BY <2>3, <2>6, <2>10, <2>11
  <2> QED
    BY <2>6, <2>8, <2>9, <2>12 DEF f, g, T, less, more
<1> QED
  BY <1>3, <1>4, <1>5

\* So the invariant of the stakes survives every such message.
LEMMA OneStakeStep ==
    ASSUME StakesInv, block \in Nat, block' \in Nat, block <= block',
           NEW a \in Stakers, NEW old \in Nat, NEW new \in Nat, NEW from, NEW to,
           OneChange(a, old, new, from, to),
           a \in DOMAIN stakes' => StakeSound(a)',
           BooksFollow(old, new, from, to)
    PROVE  StakesInv'
<1>1. /\ old <= totalStaked /\ SumFunctionOnSet(Amounts', DOMAIN stakes') = totalStaked - old + new
      /\ \A h \in Stakers :
            /\ h = from => old <= power[h]
            /\ SumFunctionOnSet(Amounts', Entrusted(h)') =
                  power[h] - (IF h = from THEN old ELSE 0) + (IF h = to THEN new ELSE 0)
  BY OneStakeChanges
<1>6. DOMAIN stakes' \subseteq Stakers /\ \A b \in DOMAIN stakes' \ {a} : b \in DOMAIN stakes /\ stakes'[b] = stakes[b]
  BY DEF OneChange
<1>7. /\ totalStaked' = totalStaked - old + new /\ power' \in [Stakers -> Int]
      /\ \A h \in Stakers : power'[h] = power[h] - (IF h = from THEN old ELSE 0) + (IF h = to THEN new ELSE 0)
      /\ stakerList' \in Seq(Stakers) /\ IsInjective(stakerList') /\ ToSet(stakerList') = DOMAIN stakes'
  BY <1>1 DEF BooksFollow
<1>2. totalStaked' = SumFunctionOnSet(Amounts', DOMAIN stakes') /\ totalStaked' \in Nat
  BY <1>1, <1>7 DEF StakesInv
<1>3. \A h \in Stakers : power'[h] = SumFunctionOnSet(Amounts', Entrusted(h)')
  BY <1>1, <1>7
<1>4. power' \in [Stakers -> Nat]
  <2>1. \A h \in Stakers : power'[h] \in Nat
    <3> SUFFICES ASSUME NEW h \in Stakers PROVE power'[h] \in Nat
      OBVIOUS
    <3>1. power[h] \in Nat
      BY DEF StakesInv
    <3>2. power'[h] = power[h] - (IF h = from THEN old ELSE 0) + (IF h = to THEN new ELSE 0)
      BY <1>7
    <3>3. h = from => old <= power[h]
      BY <1>1
    <3> QED
      BY <3>1, <3>2, <3>3
  <2> QED
    BY <1>7, <2>1
<1>5. \A b \in DOMAIN stakes' : StakeSound(b)'
  <2>1. ASSUME NEW b \in DOMAIN stakes' \ {a} PROVE StakeSound(b)'
    BY <1>6, <2>1 DEF StakesInv, StakeSound, Stake
  <2> QED
    BY <2>1
<1> QED
  BY <1>2, <1>3, <1>4, <1>5, <1>6, <1>7 DEF StakesInv, StakesAddUp

\* Messages about other things leave the stakes, and time only passes.
LEMMA StakesStay ==
    ASSUME StakesInv, UNCHANGED stakeVars, block \in Nat, block' \in Nat, block <= block'
    PROVE  StakesInv'
<1> USE DEF stakeVars
<1>1. \A b \in DOMAIN stakes : StakeSound(b)'
  BY DEF StakesInv, StakeSound, Stake
<1>2. UNCHANGED Amounts /\ \A h : Entrusted(h)' = Entrusted(h)
  BY DEF Amounts, Entrusted
<1>3. StakesAddUp'
  BY <1>2 DEF StakesInv, StakesAddUp
<1> QED
  BY <1>1, <1>3 DEF StakesInv

\* An Option that holds a value holds one.
\* A new stake (stake, stake_with_vesting).
LEMMA AddStakeKeeps ==
    ASSUME ClockInv, StakesInv, NEW caller \in Stakers, NEW amount \in Nat, NEW lock \in Nat,
           NEW original \in Nat, NEW vesting \in SUBSET Vesting, AtMostOne(vesting),
           \A v \in vesting : v.start < v.end,
           AddStake(caller, StakeOf(amount, lock, original, vesting))
    PROVE  StakesInv'
<1> DEFINE s == StakeOf(amount, lock, original, vesting)
<1>0. block \in Nat /\ block' = block
  BY DEF ClockInv, AddStake
<1>1. /\ s \in Stake /\ s.amount = amount /\ s.delegate = {} /\ s.vesting = vesting /\ s.stakedAt = block
  BY <1>0 DEF StakeOf, Stake
<1>2. /\ caller \notin DOMAIN stakes
      /\ stakes' = With(stakes, caller, s) /\ totalStaked' = totalStaked + s.amount
      /\ stakerList' = Append(stakerList, caller) /\ power' = [power EXCEPT ![caller] = @ + s.amount]
  BY DEF AddStake
<1> HIDE DEF s
<1>3. /\ DOMAIN stakes' = DOMAIN stakes \cup {caller} /\ stakes'[caller] = s
      /\ \A b \in DOMAIN stakes : stakes'[b] = stakes[b]
  BY <1>2 DEF With
<1>4. StakeSound(caller)'
  BY <1>0, <1>1, <1>3 DEF StakeSound, AtMostOne
<1>5. Holder(caller, s) = caller
  BY <1>1, HolderIs DEF AtMostOne
<1>6. /\ DOMAIN stakes \subseteq Stakers /\ power \in [Stakers -> Nat] /\ totalStaked \in Nat
      /\ stakerList \in Seq(Stakers) /\ IsInjective(stakerList) /\ ToSet(stakerList) = DOMAIN stakes
  BY DEF StakesInv, StakesAddUp
<1>7. stakerList' \in Seq(Stakers) /\ IsInjective(stakerList') /\ ToSet(stakerList') = DOMAIN stakes'
  BY <1>2, <1>6, AppendedList, <1>3
<1>8. \A h \in Stakers : power'[h] = power[h] - (IF h = caller THEN 0 ELSE 0) + (IF h = caller THEN amount ELSE 0)
  BY <1>1, <1>2, <1>6
<1>9. totalStaked' = totalStaked - 0 + amount /\ power' \in [Stakers -> Int]
  BY <1>6, <1>1, <1>2
<1>10. DOMAIN stakes' \subseteq Stakers /\ DOMAIN stakes' \ {caller} = DOMAIN stakes \ {caller}
  BY <1>2, <1>3, <1>6
<1>11. stakes'[caller].amount = amount /\ Holder(caller, stakes'[caller]) = caller
  BY <1>1, <1>3, <1>5
<1>12. block <= block' /\ block' \in Nat /\ 0 \in Nat
  BY <1>0
<1>13. OneChange(caller, 0, amount, caller, caller)
  BY <1>2, <1>3, <1>10, <1>11 DEF OneChange
<1>14. BooksFollow(0, amount, caller, caller)
  BY <1>7, <1>8, <1>9 DEF BooksFollow
<1> QED
  BY <1>0, <1>4, <1>12, <1>13, <1>14, OneStakeStep

\* Withdrawing a stake takes its power from whoever holds it.
LEMMA UnstakeKeepsStakes ==
    ASSUME ClockInv, StakesInv, NEW caller \in Stakers, Unstake(caller)
    PROVE  StakesInv'
<1> DEFINE s == stakes[caller]
           from == Holder(caller, s)
<1>1. caller \in DOMAIN stakes /\ s \in Stake /\ AtMostOne(s.delegate) /\ s.amount \in Nat
  BY DEF Unstake, StakesInv, StakeSound, Stake
<1>2. from \in Stakers
  BY <1>1, HolderIs
<1>3. /\ power' = [power EXCEPT ![from] = Saturating(@, s.amount)]
      /\ totalStaked' = Saturating(totalStaked, s.amount)
      /\ stakes' = Without(stakes, caller) /\ stakerList' = Dropped(stakerList, caller) /\ block' = block
  BY DEF Unstake
<1>4. /\ DOMAIN stakes' = DOMAIN stakes \ {caller}
      /\ \A b \in DOMAIN stakes \ {caller} : stakes'[b] = stakes[b]
  BY <1>3 DEF Without
<1>5. /\ DOMAIN stakes \subseteq Stakers /\ power \in [Stakers -> Nat] /\ totalStaked \in Nat
      /\ stakerList \in Seq(Stakers) /\ IsInjective(stakerList) /\ ToSet(stakerList) = DOMAIN stakes
  BY DEF StakesInv, StakesAddUp
<1>6. stakerList' \in Seq(Stakers) /\ IsInjective(stakerList') /\ ToSet(stakerList') = DOMAIN stakes'
  BY <1>3, <1>4, <1>5, DroppedList
<1> HIDE DEF from
<1> DEFINE old == s.amount
<1> HIDE DEF s
<1>7. \A h \in Stakers : (h = from => old <= power[h]) =>
          power'[h] = power[h] - (IF h = from THEN old ELSE 0) + (IF h = from THEN 0 ELSE 0)
  BY <1>1, <1>2, <1>3, <1>5 DEF Saturating
<1>8. (old <= totalStaked => totalStaked' = totalStaked - old + 0)
  BY <1>1, <1>3, <1>5 DEF Saturating
<1>9. power' \in [Stakers -> Int]
  BY <1>1, <1>2, <1>5, <1>3 DEF Saturating
<1>10. stakes[caller].amount = old /\ Holder(caller, stakes[caller]) = from
  BY DEF s, from
<1>11. block \in Nat /\ block' \in Nat /\ block <= block' /\ 0 \in Nat /\ old \in Nat
  BY <1>1, <1>3 DEF ClockInv
<1>12. DOMAIN stakes' \subseteq Stakers /\ DOMAIN stakes' \ {caller} = DOMAIN stakes \ {caller} /\ caller \notin DOMAIN stakes'
  BY <1>4, <1>5
<1> HIDE DEF old
<1>13. OneChange(caller, old, 0, from, from)
  BY <1>1, <1>4, <1>10, <1>12 DEF OneChange
<1>14. BooksFollow(old, 0, from, from)
  BY <1>6, <1>7, <1>8, <1>9 DEF BooksFollow
<1> QED
  BY <1>1, <1>11, <1>12, <1>13, <1>14, OneStakeStep

\* A message that rewrites one stake and keeps who holds it adds to its power what it adds to
\* its amount (claim_rewards, set_auto_compound).
LEMMA RewriteKeeps ==
    ASSUME ClockInv, StakesInv, NEW caller \in DOMAIN stakes, NEW z, NEW added \in Nat,
           stakes' = [stakes EXCEPT ![caller] = z], StakeSound(caller)',
           z.amount = stakes[caller].amount + added, z.delegate = stakes[caller].delegate,
           totalStaked' = totalStaked + added,
           power' = [power EXCEPT ![Holder(caller, stakes[caller])] = @ + added],
           UNCHANGED <<block, stakerList>>
    PROVE  StakesInv'
<1> DEFINE s == stakes[caller]
           from == Holder(caller, s)
<1>1. s \in Stake /\ AtMostOne(s.delegate) /\ s.amount \in Nat /\ caller \in Stakers
  BY DEF StakesInv, StakeSound, Stake
<1>2. from \in Stakers
  BY <1>1, HolderIs
<1>3. Holder(caller, z) = from
  BY DEF Holder
<1>4. /\ DOMAIN stakes' = DOMAIN stakes /\ stakes'[caller] = z
      /\ \A b \in DOMAIN stakes \ {caller} : stakes'[b] = stakes[b]
  OBVIOUS
<1>5. /\ DOMAIN stakes \subseteq Stakers /\ power \in [Stakers -> Nat] /\ totalStaked \in Nat
      /\ stakerList \in Seq(Stakers) /\ IsInjective(stakerList) /\ ToSet(stakerList) = DOMAIN stakes
  BY DEF StakesInv, StakesAddUp
<1> HIDE DEF from
<1> DEFINE old == s.amount
           new == s.amount + added
<1>6. power' = [power EXCEPT ![from] = @ + added]
  BY DEF from
<1>7. stakes[caller].amount = old /\ Holder(caller, stakes[caller]) = from /\ stakes'[caller].amount = new
      /\ Holder(caller, stakes'[caller]) = from
  BY <1>3, <1>4 DEF from
<1> HIDE DEF s
<1>8. \A h \in Stakers : power'[h] = power[h] - (IF h = from THEN old ELSE 0) + (IF h = from THEN new ELSE 0)
  BY <1>1, <1>2, <1>5, <1>6, SMTT(30)
<1>9. totalStaked' = totalStaked - old + new /\ old \in Nat /\ new \in Nat
  BY <1>1, <1>5
<1>12. power' \in [Stakers -> Int]
  <2>1. power \in [Stakers -> Int] /\ power[from] + added \in Int
    BY <1>2, <1>5
  <2> QED
    BY <1>6, <2>1
<1>10. block \in Nat /\ block' \in Nat /\ block <= block'
  BY DEF ClockInv
<1>11. /\ DOMAIN stakes' \subseteq Stakers /\ DOMAIN stakes' \ {caller} = DOMAIN stakes \ {caller} /\ caller \in DOMAIN stakes'
       /\ stakerList' \in Seq(Stakers) /\ IsInjective(stakerList') /\ ToSet(stakerList') = DOMAIN stakes'
  BY <1>4, <1>5
<1> HIDE DEF old, new
<1>13. OneChange(caller, old, new, from, from)
  BY <1>1, <1>4, <1>7, <1>11 DEF OneChange
<1>14. BooksFollow(old, new, from, from)
  BY <1>8, <1>9, <1>11, <1>12 DEF BooksFollow
<1> QED
  BY <1>1, <1>9, <1>10, <1>13, <1>14, OneStakeStep

\* Paying vested rewards rewrites the schedule of the stake alone.
LEMMA ClaimVestedKeeps ==
    ASSUME ClockInv, StakesInv, ConfigInv, NEW caller \in DOMAIN stakes, NEW v \in stakes[caller].vesting,
           ClaimVested(caller, v), UNCHANGED <<block, stakerList>>
    PROVE  StakesInv' /\ pool' \in Nat
<1> DEFINE s == stakes[caller]
           claim == VestedClaimable(s, v)
           w == [v EXCEPT !.vested = @ + claim]
           z == [s EXCEPT !.vesting = {w}]
<1>1. s \in Stake /\ AtMostOne(s.delegate) /\ caller \notin s.delegate /\ s.stakedAt <= block /\ v.start < v.end
      /\ v \in Vesting /\ s.amount \in Nat
  BY DEF StakesInv, StakeSound, Stake
<1>2. claim \in Nat
  BY <1>1, VestedIsNatural
<1>3. /\ claim <= pool /\ pool' = pool - claim /\ stakes' = [stakes EXCEPT ![caller].vesting = {w}]
      /\ UNCHANGED <<totalStaked, power>>
  BY DEF ClaimVested
<1> HIDE DEF claim
<1>4. w \in Vesting /\ w.start = v.start /\ w.end = v.end
  BY <1>1, <1>2 DEF Vesting
<1>5. stakes' = [stakes EXCEPT ![caller] = z]
  BY <1>3
<1> HIDE DEF w
<1>6. z \in Stake /\ z.amount = s.amount /\ z.delegate = s.delegate /\ z.stakedAt = s.stakedAt /\ z.vesting = {w}
  BY <1>1, <1>4 DEF Stake
<1> HIDE DEF z
<1>7. stakes'[caller] = z
  BY <1>5
<1>8. StakeSound(caller)'
  BY <1>1, <1>4, <1>6, <1>7 DEF StakeSound, AtMostOne
<1>9. totalStaked' = totalStaked + 0 /\ z.amount = stakes[caller].amount + 0 /\ 0 \in Nat
  BY <1>1, <1>3, <1>6 DEF StakesInv
<1>10. power' = [power EXCEPT ![Holder(caller, stakes[caller])] = @ + 0]
  BY <1>1, HolderIs, <1>3 DEF StakesInv
<1>11. StakesInv'
  BY <1>5, <1>6, <1>8, <1>9, <1>10, RewriteKeeps
<1>12. pool' \in Nat
  BY <1>2, <1>3 DEF ConfigInv
<1> QED
  BY <1>11, <1>12

\* Rewards that accrued are paid out, and compound into the stake and into its power.
LEMMA ClaimAccruedKeeps ==
    ASSUME ClockInv, StakesInv, ConfigInv, NEW caller \in DOMAIN stakes,
           ClaimAccrued(caller), UNCHANGED <<block, stakerList>>
    PROVE  StakesInv' /\ pool' \in Nat
<1> DEFINE s == stakes[caller]
           claim == Rewards(s)
           added == IF s.auto THEN claim ELSE 0
           sum == s.amount + added
           z == [s EXCEPT !.amount = sum, !.stakedAt = block]
<1>1. s \in Stake /\ AtMostOne(s.delegate) /\ caller \notin s.delegate /\ s.stakedAt <= block /\ s.amount \in Nat
      /\ AtMostOne(s.vesting) /\ (\A v \in s.vesting : v.start < v.end)
  BY DEF StakesInv, StakeSound, Stake
<1>2. claim \in Nat
  BY <1>1, RewardsAreNatural
<1>3. /\ claim <= pool /\ pool' = pool - claim
      /\ stakes' = [stakes EXCEPT ![caller].amount = @ + added, ![caller].stakedAt = block]
      /\ totalStaked' = totalStaked + added
      /\ power' = [power EXCEPT ![Holder(caller, s)] = @ + added]
  BY DEF ClaimAccrued
<1>4. added \in Nat /\ sum \in Nat /\ block \in Nat
  BY <1>1, <1>2 DEF ClockInv
<1> HIDE DEF added
<1>5. stakes' = [stakes EXCEPT ![caller] = z]
  BY <1>3
<1> DEFINE total == sum
<1> HIDE DEF sum
<1>6. z \in Stake /\ z.amount = sum /\ z.delegate = s.delegate /\ z.stakedAt = block /\ z.vesting = s.vesting
  BY <1>1, <1>4 DEF Stake
<1> HIDE DEF z
<1>7. stakes'[caller] = z
  BY <1>5
<1>8. StakeSound(caller)'
  BY <1>1, <1>4, <1>6, <1>7 DEF StakeSound
<1>9. z.amount = stakes[caller].amount + added
  BY <1>6 DEF sum
<1>10. StakesInv'
  BY <1>3, <1>4, <1>5, <1>6, <1>8, <1>9, RewriteKeeps
<1>11. pool' \in Nat
  BY <1>2, <1>3 DEF ConfigInv
<1> QED
  BY <1>10, <1>11

\* A claim takes no more from the pool than it holds.
LEMMA ClaimKeepsStakes ==
    ASSUME ClockInv, StakesInv, ConfigInv, NEW caller \in Stakers, ClaimRewards(caller)
    PROVE  StakesInv' /\ pool' \in Nat /\ UNCHANGED <<block, configVars, ballotVars, validatorVars>>
  BY ClaimVestedKeeps, ClaimAccruedKeeps DEF ClaimRewards

\* Compounding is a flag of the stake.
LEMMA AutoKeepsStakes ==
    ASSUME ClockInv, StakesInv, NEW caller \in Stakers, NEW auto \in BOOLEAN, SetAutoCompound(caller, auto)
    PROVE  StakesInv'
<1> DEFINE s == stakes[caller]
           z == [s EXCEPT !.auto = auto]
<1>1. caller \in DOMAIN stakes /\ stakes' = [stakes EXCEPT ![caller] = z]
      /\ UNCHANGED <<block, totalStaked, power, stakerList>>
  BY DEF SetAutoCompound
<1>2. s \in Stake /\ AtMostOne(s.delegate) /\ caller \notin s.delegate /\ s.stakedAt <= block /\ s.amount \in Nat
      /\ AtMostOne(s.vesting) /\ (\A v \in s.vesting : v.start < v.end)
  BY <1>1 DEF StakesInv, StakeSound, Stake
<1>3. z \in Stake /\ z.amount = s.amount /\ z.delegate = s.delegate /\ z.stakedAt = s.stakedAt /\ z.vesting = s.vesting
  BY <1>2 DEF Stake
<1> HIDE DEF z
<1>4. stakes'[caller] = z
  BY <1>1
<1>5. StakeSound(caller)'
  BY <1>1, <1>2, <1>3, <1>4 DEF StakeSound
<1>6. totalStaked' = totalStaked + 0 /\ z.amount = stakes[caller].amount + 0 /\ 0 \in Nat
  BY <1>1, <1>2, <1>3 DEF StakesInv
<1>7. power' = [power EXCEPT ![Holder(caller, stakes[caller])] = @ + 0]
  BY <1>2, HolderIs, <1>1 DEF StakesInv
<1> QED
  BY <1>1, <1>3, <1>5, <1>6, <1>7, RewriteKeeps

\* Power that is passed on leaves its old holder and reaches the new one.
LEMMA DelegateKeepsStakes ==
    ASSUME ClockInv, StakesInv, NEW caller \in Stakers, NEW delegate \in Stakers, DelegateGovernance(caller, delegate)
    PROVE  StakesInv'
<1> DEFINE s == stakes[caller]
           z == [s EXCEPT !.delegate = {delegate}]
           from == Holder(caller, s)
<1>1. /\ caller \in DOMAIN stakes /\ delegate # caller /\ stakes' = [stakes EXCEPT ![caller] = z]
      /\ UNCHANGED <<block, totalStaked, stakerList>>
      /\ power' = [[power EXCEPT ![from] = Saturating(@, s.amount)] EXCEPT ![delegate] = @ + s.amount]
  BY DEF DelegateGovernance
<1>2. s \in Stake /\ AtMostOne(s.delegate) /\ s.stakedAt <= block /\ s.amount \in Nat
      /\ AtMostOne(s.vesting) /\ (\A v \in s.vesting : v.start < v.end)
  BY <1>1 DEF StakesInv, StakeSound, Stake
<1>3. z \in Stake /\ z.amount = s.amount /\ z.delegate = {delegate} /\ z.stakedAt = s.stakedAt /\ z.vesting = s.vesting
  BY <1>2 DEF Stake
<1>4. from \in Stakers
  BY <1>2, HolderIs
<1> HIDE DEF z, from
<1>5. /\ DOMAIN stakes' = DOMAIN stakes /\ stakes'[caller] = z
      /\ \A b \in DOMAIN stakes \ {caller} : stakes'[b] = stakes[b]
  BY <1>1
<1>6. StakeSound(caller)'
  BY <1>1, <1>2, <1>3, <1>5 DEF StakeSound, AtMostOne
<1>7. Holder(caller, z) = delegate
  <2>1. AtMostOne(z.delegate)
    BY <1>3 DEF AtMostOne
  <2>2. \A d : z.delegate = {d} => Holder(caller, z) = d
    BY <1>3, <2>1, HolderIs
  <2> QED
    BY <1>3, <2>2
<1>8. /\ DOMAIN stakes \subseteq Stakers /\ power \in [Stakers -> Nat] /\ totalStaked \in Nat
      /\ stakerList \in Seq(Stakers) /\ IsInjective(stakerList) /\ ToSet(stakerList) = DOMAIN stakes
  BY DEF StakesInv, StakesAddUp
<1> DEFINE old == s.amount
<1>9. OneChange(caller, old, old, from, delegate)
  BY <1>3, <1>5, <1>7, <1>1, <1>8 DEF from, OneChange
<1> HIDE DEF s
<1>10. \A h \in Stakers : (h = from => old <= power[h]) =>
          power'[h] = power[h] - (IF h = from THEN old ELSE 0) + (IF h = delegate THEN old ELSE 0)
  BY <1>4, <1>8, <1>1, <1>2 DEF Saturating
<1>11. power' \in [Stakers -> Int]
  BY <1>2, <1>4, <1>8, <1>1 DEF Saturating
<1>12. BooksFollow(old, old, from, delegate)
  BY <1>1, <1>2, <1>8, <1>5, <1>10, <1>11 DEF BooksFollow
<1>13. block \in Nat /\ block' \in Nat /\ block <= block' /\ old \in Nat
  BY <1>1, <1>2 DEF ClockInv
<1> HIDE DEF old
<1> QED
  BY <1>6, <1>9, <1>12, <1>13, OneStakeStep

----
\* Configuration and proposals

\* What a change that was asked for may be.
LEMMA ParamKinds ==
    ASSUME NEW kind \in ParamKind, ValidParam(kind)
    PROVE  /\ kind.name = "MinStake" => kind.value \in Nat \ {0}
           /\ kind.name = "RewardRateBps" => kind.value \in Nat
           /\ kind.name = "VotingPeriodBlocks" => kind.value \in Nat \ {0}
           /\ kind.name = "QuorumBps" => kind.value \in 1..BPS
           /\ kind.name = "BoostCurve" => kind.value \in Curve
  BY DEF ParamKind, ParamName, ValidParam

\* Parameters keep their bounds when a proposal is carried.
LEMMA ApplyKeepsConfig ==
    ASSUME ConfigInv, NEW kind \in ParamKind, ValidParam(kind), ApplyParam(kind), UNCHANGED <<pool, penaltyBps, coordinator>>
    PROVE  ConfigInv'
  BY ParamKinds DEF ApplyParam, ConfigInv

\* The open proposals, finitely many.
Open == {p \in DOMAIN paramProposals : paramProposals[p].status = "Active"}

\* The open proposals are finitely many, and the counter counts them.
LEMMA OpenIsFinite ==
    ASSUME BallotInv
    PROVE  /\ DOMAIN paramProposals = 1..Len(paramProposals) /\ Len(paramProposals) \in Nat
           /\ IsFiniteSet(Open) /\ activeCount = Cardinality(Open)
           /\ \A p \in DOMAIN paramProposals : paramProposals[p] \in ParamProposal
<1>1. DOMAIN paramProposals = 1..Len(paramProposals) /\ Len(paramProposals) \in Nat
      /\ \A p \in DOMAIN paramProposals : paramProposals[p] \in ParamProposal
  BY DEF BallotInv
<1>2. IsFiniteSet(1..Len(paramProposals))
  BY <1>1, FS_Interval
<1>3. IsFiniteSet(Open)
  BY <1>1, <1>2, FS_Subset DEF Open
<1> QED
  BY <1>1, <1>3 DEF BallotInv, ActiveCountRecounts, Open

\* A new proposal is open, and counted.
LEMMA ProposeKeeps ==
    ASSUME ClockInv, StakesInv, ConfigInv, BallotInv, NEW caller \in Stakers, NEW kind \in ParamArgs,
           ProposeParamChange(caller, kind)
    PROVE  BallotInv'
<1> DEFINE q == [proposer |-> caller, kind |-> kind, for |-> 0, against |-> 0,
                 end |-> block + votingPeriod, snapshot |-> totalStaked, status |-> "Active"]
           n == Len(paramProposals) + 1
<1>1. /\ paramProposals' = Append(paramProposals, q) /\ activeCount' = activeCount + 1
      /\ UNCHANGED paramVotes /\ ValidParam(kind)
  BY DEF ProposeParamChange
<1>2. kind \in ParamKind
  BY StakingConstants
<1>3. q \in ParamProposal /\ q.status = "Active" /\ q.kind = kind
  BY <1>2 DEF ClockInv, ConfigInv, StakesInv, ParamProposal, ParamStatus
<1> HIDE DEF q
<1>4. /\ DOMAIN paramProposals = 1..Len(paramProposals) /\ Len(paramProposals) \in Nat
      /\ IsFiniteSet(Open) /\ activeCount = Cardinality(Open) /\ paramProposals \in Seq(ParamProposal)
  BY OpenIsFinite DEF BallotInv
<1>5. /\ paramProposals' \in Seq(ParamProposal) /\ Len(paramProposals') = n /\ paramProposals'[n] = q
      /\ \A p \in 1..Len(paramProposals) : paramProposals'[p] = paramProposals[p]
  BY <1>1, <1>3, <1>4, AppendProperties
<1>6. DOMAIN paramProposals' = DOMAIN paramProposals \cup {n} /\ n \notin DOMAIN paramProposals
  BY <1>5, LenProperties, <1>4
<1>7. Open' = Open \cup {n} /\ n \notin Open
  BY <1>3, <1>4, <1>5, <1>6 DEF Open
<1>8. Cardinality(Open') = Cardinality(Open) + 1
  BY <1>4, <1>7, FS_AddElement
<1>9. activeCount' = Cardinality(Open') /\ activeCount' \in Nat
  BY <1>1, <1>4, <1>8 DEF BallotInv
<1>10. \A p \in DOMAIN paramProposals' : ValidParam(paramProposals'[p].kind)
  BY <1>1, <1>3, <1>4, <1>5, <1>6 DEF BallotInv
<1>11. paramVotes' \subseteq (1..Len(paramProposals')) \X Stakers
  BY <1>4, <1>6, <1>1, <1>5 DEF BallotInv
<1> QED
  BY <1>5, <1>9, <1>10, <1>11 DEF BallotInv, ActiveCountRecounts, Open

\* Rewriting a proposal that is open leaves the count right, if it is lowered when the
\* proposal is closed (vote_on_proposal, execute_param_proposal, cancel_param_proposal).
LEMMA RewriteProposal ==
    ASSUME BallotInv, NEW p \in DOMAIN paramProposals, NEW z \in ParamProposal,
           paramProposals' = [paramProposals EXCEPT ![p] = z], z.kind = paramProposals[p].kind,
           paramProposals[p].status = "Active",
           activeCount' = IF z.status = "Active" THEN activeCount ELSE Saturating(activeCount, 1),
           paramVotes' \subseteq (1..Len(paramProposals)) \X Stakers
    PROVE  BallotInv'
<1>1. /\ DOMAIN paramProposals = 1..Len(paramProposals) /\ Len(paramProposals) \in Nat
      /\ IsFiniteSet(Open) /\ activeCount = Cardinality(Open) /\ paramProposals \in Seq(ParamProposal)
  BY OpenIsFinite DEF BallotInv
<1>2. paramProposals' \in Seq(ParamProposal) /\ Len(paramProposals') = Len(paramProposals)
      /\ DOMAIN paramProposals' = DOMAIN paramProposals
      /\ \A q \in DOMAIN paramProposals : paramProposals'[q] = IF q = p THEN z ELSE paramProposals[q]
  BY <1>1, ExceptSeq
<1>3. p \in Open
  BY DEF Open
<1>4. CASE z.status = "Active"
  <2>1. Open' = Open
    BY <1>2, <1>3, <1>4 DEF Open
  <2>2. activeCount' = Cardinality(Open')
    BY <1>1, <1>4, <2>1
  <2> QED
    BY <1>1, <1>2, <1>4, <2>2 DEF BallotInv, ActiveCountRecounts, Open
<1>5. CASE z.status # "Active"
  <2>1. Open' = Open \ {p}
    BY <1>2, <1>3, <1>5 DEF Open
  <2>2. Cardinality(Open') = Cardinality(Open) - 1
    BY <1>1, <1>3, <2>1, FS_RemoveElement
  <2>3. Cardinality(Open) # 0 /\ Cardinality(Open) \in Nat
    BY <1>1, <1>3, FS_EmptySet, FS_CardinalityType
  <2>4. activeCount' = Cardinality(Open') /\ activeCount' \in Nat
    BY <1>1, <1>5, <2>2, <2>3 DEF Saturating
  <2> QED
    BY <1>1, <1>2, <2>4 DEF BallotInv, ActiveCountRecounts, Open
<1> QED
  BY <1>4, <1>5

\* A vote keeps the ballot right (vote_on_proposal).
LEMMA VoteKeeps ==
    ASSUME StakesInv, BallotInv, NEW caller \in Stakers, NEW p \in 1..Len(paramProposals), NEW support \in BOOLEAN,
           VoteOnProposal(caller, p, support)
    PROVE  BallotInv'
<1> DEFINE q == paramProposals[p]
           w == power[caller]
           z == IF support THEN [q EXCEPT !.for = @ + w] ELSE [q EXCEPT !.against = @ + w]
<1>1. p \in DOMAIN paramProposals /\ q \in ParamProposal /\ w \in Nat
  BY OpenIsFinite DEF StakesInv
<1>2. q.status = "Active" /\ activeCount' = activeCount /\ paramVotes' = paramVotes \cup {<<p, caller>>}
      /\ paramProposals' = IF support THEN [paramProposals EXCEPT ![p].for = @ + w]
                           ELSE [paramProposals EXCEPT ![p].against = @ + w]
  BY DEF VoteOnProposal
<1>3. paramProposals' = [paramProposals EXCEPT ![p] = z]
  BY <1>2
<1> HIDE DEF w
<1>4. z \in ParamProposal /\ z.kind = q.kind /\ z.status = q.status
  BY <1>1, SMTT(30) DEF ParamProposal
<1>5. paramVotes' \subseteq (1..Len(paramProposals)) \X Stakers
  BY <1>2 DEF BallotInv
<1> HIDE DEF z
<1> QED
  BY <1>1, <1>2, <1>3, <1>4, <1>5, RewriteProposal

\* A cancelled proposal is closed and is no longer counted
\* (cancel_param_proposal).
LEMMA CancelKeeps ==
    ASSUME BallotInv, NEW caller, NEW p \in 1..Len(paramProposals), CancelParamProposal(caller, p)
    PROVE  BallotInv'
<1> DEFINE q == paramProposals[p]
           z == [q EXCEPT !.status = "Cancelled"]
<1>1. p \in DOMAIN paramProposals /\ q \in ParamProposal
  BY OpenIsFinite
<1>2. q.status = "Active" /\ activeCount' = Saturating(activeCount, 1) /\ paramVotes' = paramVotes
      /\ paramProposals' = [paramProposals EXCEPT ![p] = z]
  BY DEF CancelParamProposal
<1>3. z \in ParamProposal /\ z.kind = q.kind /\ z.status = "Cancelled"
  BY <1>1 DEF ParamProposal, ParamStatus
<1>4. paramVotes' \subseteq (1..Len(paramProposals)) \X Stakers
  BY <1>2 DEF BallotInv
<1> HIDE DEF z
<1> QED
  BY <1>1, <1>2, <1>3, <1>4, RewriteProposal

\* An executed proposal is closed, is no longer counted, and sets a parameter within
\* its range (execute_param_proposal).
LEMMA ExecuteKeeps ==
    ASSUME ConfigInv, BallotInv, NEW p \in 1..Len(paramProposals), ExecuteParamProposal(p)
    PROVE  BallotInv' /\ ConfigInv'
<1> DEFINE q == paramProposals[p]
           last == IF q.for > q.against THEN "Executed" ELSE "Rejected"
           z == [q EXCEPT !.status = last]
<1>1. p \in DOMAIN paramProposals /\ q \in ParamProposal /\ ValidParam(q.kind) /\ q.kind \in ParamKind
  BY OpenIsFinite DEF BallotInv, ParamProposal
<1>2. /\ q.status = "Active" /\ activeCount' = Saturating(activeCount, 1) /\ paramVotes' = paramVotes
      /\ paramProposals' = [paramProposals EXCEPT ![p] = z] /\ UNCHANGED <<pool, penaltyBps, coordinator>>
      /\ IF q.for > q.against THEN ApplyParam(q.kind) ELSE UNCHANGED paramVars
  BY DEF ExecuteParamProposal
<1>3. last \in ParamStatus /\ last # "Active"
  BY DEF ParamStatus
<1> HIDE DEF last
<1>4. z \in ParamProposal /\ z.kind = q.kind /\ z.status = last
  BY <1>1, <1>3 DEF ParamProposal
<1>5. paramVotes' \subseteq (1..Len(paramProposals)) \X Stakers
  BY <1>2 DEF BallotInv
<1> HIDE DEF z
<1>6. BallotInv'
  BY <1>1, <1>2, <1>3, <1>4, <1>5, RewriteProposal
<1>7. CASE q.for > q.against
  BY <1>1, <1>2, <1>6, <1>7, ApplyKeepsConfig
<1>8. CASE ~(q.for > q.against)
  BY <1>2, <1>8, <1>6 DEF ConfigInv, paramVars
<1> QED
  BY <1>7, <1>8

----
\* Delegations

\* What a validator's record is after rewards accrued (update_validator_rewards).
LEMMA AccruedIs ==
    ASSUME ClockInv, ConfigInv, NEW info \in Validator, info.commission <= BPS, info.last <= block
    PROVE  /\ Accrued(info) \in Validator
           /\ Accrued(info).selfStake = info.selfStake /\ Accrued(info).commission = info.commission
           /\ Accrued(info).delegated = info.delegated /\ Accrued(info).active = info.active
           /\ Accrued(info).last = block
<1> DEFINE gross == (info.delegated * rewardRate * (block - info.last)) \div RatePrecision
           commission == (gross * info.commission) \div BPS
           more == ((gross - commission) * RewardPrecision) \div info.delegated
<1> USE StakingFacts
<1>1. /\ info.selfStake \in Nat /\ info.commission \in Nat /\ info.delegated \in Nat /\ info.earned \in Nat
      /\ info.active \in BOOLEAN /\ info.acc \in Nat /\ info.last \in Nat /\ block \in Nat /\ rewardRate \in Nat
      /\ block - info.last \in Nat
  BY DEF Validator, ClockInv, ConfigInv
<1>2. CASE info.delegated = 0
  BY <1>2, <1>1 DEF Accrued, Validator
<1>3. CASE info.delegated # 0
  <2>1. gross \in Nat
    BY <1>1, Products, Divided
  <2> DEFINE all == gross
  <2> HIDE DEF gross
  <2>2. commission \in Nat /\ commission <= gross
    <3>1. gross * info.commission <= gross * BPS /\ gross * info.commission \in Nat
      BY <1>1, <2>1, Products
    <3> QED
      BY <1>1, <2>1, <3>1, Divided
  <2> HIDE DEF commission
  <2>3. more \in Nat
    BY <1>1, <1>3, <2>1, <2>2, Products, Divided
  <2> HIDE DEF more
  <2>4. Accrued(info) = [info EXCEPT !.earned = @ + commission, !.acc = @ + more, !.last = block]
    BY <1>3 DEF Accrued, gross, commission, more
  <2>5. info.earned + commission \in Nat /\ info.acc + more \in Nat
    BY <1>1, <2>2, <2>3
  <2> DEFINE e == info.earned + commission
             c == info.acc + more
  <2> DEFINE z1 == [info EXCEPT !.earned = e]
             z2 == [z1 EXCEPT !.acc = c]
             z3 == [z2 EXCEPT !.last = block]
  <2>6. Accrued(info) = z3
    BY <2>4
  <2>7. e \in Nat /\ c \in Nat
    BY <2>5
  <2> HIDE DEF e, c
  <2>8. /\ z1 \in Validator /\ z1.selfStake = info.selfStake /\ z1.commission = info.commission
        /\ z1.delegated = info.delegated /\ z1.active = info.active
    BY <2>7 DEF Validator
  <2> HIDE DEF z1
  <2>9. /\ z2 \in Validator /\ z2.selfStake = z1.selfStake /\ z2.commission = z1.commission
        /\ z2.delegated = z1.delegated /\ z2.active = z1.active
    BY <2>7, <2>8 DEF Validator
  <2> HIDE DEF z2
  <2>10. /\ z3 \in Validator /\ z3.selfStake = z2.selfStake /\ z3.commission = z2.commission
         /\ z3.delegated = z2.delegated /\ z3.active = z2.active /\ z3.last = block
    BY <1>1, <2>9 DEF Validator
  <2> HIDE DEF z3
  <2> QED
    BY <2>6, <2>8, <2>9, <2>10
<1> QED
  BY <1>2, <1>3

\* The sizes of delegations d, those of validators vs that are not unbonding, and their sum.
Sizes(d) == [k \in DOMAIN d |-> d[k].amount]
Bonded(d, vs) == {k \in DOMAIN d : k[2] \in vs /\ d[k].unbonding = {}}
BondedTo(d, vs) == SumFunctionOnSet(Sizes(d), Bonded(d, vs))
NamedBy(d, v) == {k[1] : k \in {x \in DOMAIN d : x[2] = v}}

\* What DelegationsTracked says, of the four it relates.
Tracked(d, vals, total, lists) ==
    /\ \A v \in Stakers : IsInjective(lists[v]) /\ ToSet(lists[v]) = NamedBy(d, v)
    /\ \A v \in DOMAIN vals : vals[v].delegated <= BondedTo(d, {v})
    /\ total <= BondedTo(d, DOMAIN vals)

\* The invariant of delegations, as an operator on the four books it relates.
LEMMA TrackedIs ==
    /\ DelegationsTracked <=> Tracked(delegations, validators, totalDelegated, delegators)
    /\ DelegationsTracked' <=> Tracked(delegations', validators', totalDelegated', delegators')
  BY DEF DelegationsTracked, Tracked, NamedBy, BondedTo, Bonded, Sizes, DelegatedTo, ActiveDelegations

\* Finitely many delegations of natural amounts.
Ledgered(d) == IsFiniteSet(DOMAIN d) /\ \A k \in DOMAIN d : d[k] \in Delegation

\* The delegations to a set of validators are finitely many, each with an amount.
LEMMA BondedIs ==
    ASSUME NEW d, Ledgered(d), NEW vs
    PROVE  /\ Bonded(d, vs) \subseteq DOMAIN d /\ IsFiniteSet(Bonded(d, vs))
           /\ \A k \in DOMAIN d : Sizes(d)[k] = d[k].amount /\ Sizes(d)[k] \in Nat
           /\ BondedTo(d, vs) \in Nat
<1>1. Bonded(d, vs) \subseteq DOMAIN d /\ IsFiniteSet(Bonded(d, vs))
  BY FS_Subset DEF Bonded, Ledgered
<1>2. \A k \in DOMAIN d : Sizes(d)[k] = d[k].amount /\ Sizes(d)[k] \in Nat
  BY DEF Sizes, Ledgered, Delegation
<1>3. BondedTo(d, vs) \in Nat
  BY <1>1, <1>2, SumNatural DEF BondedTo
<1> QED
  BY <1>1, <1>2, <1>3

\* One delegation comes, goes or changes.
LEMMA BondedSwap ==
    ASSUME NEW d, Ledgered(d), NEW e, NEW k, DOMAIN e \ {k} = DOMAIN d \ {k},
           \A x \in DOMAIN d \ {k} : e[x] = d[x], NEW vs, NEW old \in Nat, NEW new \in Nat,
           k \in Bonded(d, vs) => d[k].amount = old, k \notin Bonded(d, vs) => old = 0,
           k \in Bonded(e, vs) => e[k].amount = new, k \notin Bonded(e, vs) => new = 0
    PROVE  old <= BondedTo(d, vs) /\ BondedTo(e, vs) = BondedTo(d, vs) - old + new
<1> DEFINE f == Sizes(d)
           g == Sizes(e)
           S == Bonded(d, vs)
           T == Bonded(e, vs)
<1>1. IsFiniteSet(S) /\ S \subseteq DOMAIN d /\ T \subseteq DOMAIN e /\ \A x \in S : f[x] = d[x].amount /\ f[x] \in Nat
  BY BondedIs DEF Bonded
<1>2. T \ {k} = S \ {k}
  BY DEF Bonded
<1>3. \A x \in S \ {k} : f[x] \in Int /\ g[x] = f[x]
  BY <1>1 DEF Sizes
<1>4. \A x \in T : g[x] = e[x].amount
  BY <1>1 DEF Sizes
<1> HIDE DEF f, g, S, T
<1>5. /\ k \in S => f[k] = old
      /\ k \notin S => old = 0
      /\ k \in T => g[k] = new
      /\ k \notin T => new = 0
  BY <1>1, <1>4 DEF S, T
<1>6. SumFunctionOnSet(g, T) = SumFunctionOnSet(f, S) - old + new
  BY <1>1, <1>2, <1>3, <1>5, SumSwap
<1>7. SumFunctionOnSet(f, S) \in Nat /\ \A x \in S : f[x] <= SumFunctionOnSet(f, S)
  BY <1>1, SumNatural
<1>8. old <= SumFunctionOnSet(f, S)
  BY <1>5, <1>7
<1> QED
  BY <1>6, <1>8 DEF BondedTo, f, g, S, T

\* Delegations that keep their amounts and are bonded as before sum to the same.
LEMMA BondedSame ==
    ASSUME NEW d, Ledgered(d), NEW e, NEW vs, Bonded(e, vs) = Bonded(d, vs),
           \A k \in Bonded(d, vs) : e[k].amount = d[k].amount
    PROVE  BondedTo(e, vs) = BondedTo(d, vs)
<1> DEFINE S == Bonded(d, vs)
<1>1. IsFiniteSet(S) /\ \A k \in S : Sizes(d)[k] = d[k].amount /\ k \in DOMAIN d /\ k \in DOMAIN e
  BY BondedIs DEF Bonded
<1>2. \A k \in S : Sizes(e)[k] = Sizes(d)[k]
  BY <1>1 DEF Sizes
<1> HIDE DEF S
<1>3. SumFunctionOnSet(Sizes(d), S) = SumFunctionOnSet(Sizes(e), S)
  BY <1>1, <1>2, SumSame
<1> QED
  BY <1>3 DEF BondedTo, S

\* A slash of some delegations takes no more from what is bonded than it takes from all.
LEMMA BondedSlashed ==
    ASSUME NEW d, Ledgered(d), NEW hit \in SUBSET DOMAIN d, NEW vs
    PROVE  LET e == [k \in DOMAIN d |-> IF k \in hit THEN [d[k] EXCEPT !.amount = @ - Slash(@)] ELSE d[k]]
               lost == SumFunctionOnSet([k \in hit |-> Slash(d[k].amount)], hit)
           IN  /\ Ledgered(e) /\ lost \in Nat
               /\ \A k \in DOMAIN d : e[k].unbonding = d[k].unbonding
               /\ BondedTo(d, vs) - lost <= BondedTo(e, vs)
<1> DEFINE e == [k \in DOMAIN d |-> IF k \in hit THEN [d[k] EXCEPT !.amount = @ - Slash(@)] ELSE d[k]]
           g == [k \in hit |-> Slash(d[k].amount)]
           s == [k \in DOMAIN d |-> IF k \in hit THEN Slash(d[k].amount) ELSE 0]
           S == Bonded(d, vs)
<1>1. \A n \in Nat : Slash(n) \in Nat /\ Slash(n) <= n
  BY DEF Slash, SlashPercent
<1>2. \A k \in DOMAIN d : d[k] \in Delegation /\ d[k].amount \in Nat /\ Slash(d[k].amount) \in Nat
                          /\ Slash(d[k].amount) <= d[k].amount
  BY <1>1 DEF Ledgered, Delegation
<1>3. ASSUME NEW k \in DOMAIN d
      PROVE  /\ e[k] \in Delegation /\ e[k].unbonding = d[k].unbonding
             /\ e[k].amount = d[k].amount - s[k] /\ s[k] \in Nat
  <2> DEFINE a == d[k].amount - Slash(d[k].amount)
  <2>1. a \in Nat /\ d[k] \in Delegation /\ d[k].amount \in Nat
    BY <1>2
  <2>2. CASE k \in hit
    <3>1. e[k] = [d[k] EXCEPT !.amount = a]
      BY <2>2
    <3>2. s[k] = Slash(d[k].amount)
      BY <2>2
    <3> HIDE DEF e, s
    <3>3. e[k] \in Delegation /\ e[k].unbonding = d[k].unbonding /\ e[k].amount = a
      BY <2>1, <3>1 DEF Delegation
    <3> QED
      BY <1>2, <3>2, <3>3
  <2>3. CASE k \notin hit
    BY <2>3, <2>1
  <2> QED
    BY <2>2, <2>3
<1>4. DOMAIN e = DOMAIN d /\ Ledgered(e)
  BY <1>3 DEF Ledgered
<1>5. \A k \in hit : g[k] = s[k] /\ s[k] \in Nat
  BY <1>2
<1>6. \A k \in DOMAIN d \ hit : s[k] = 0
  OBVIOUS
<1>7. IsFiniteSet(DOMAIN d) /\ IsFiniteSet(hit) /\ IsFiniteSet(S) /\ S \subseteq DOMAIN d
  BY BondedIs, FS_Subset DEF Ledgered
<1>8. Bonded(e, vs) = S
  <2> HIDE DEF e
  <2> QED
    BY <1>3, <1>4 DEF Bonded
<1> HIDE DEF e, g, s, S
<1>9. \A k \in S : Sizes(d)[k] \in Int /\ s[k] \in Int /\ Sizes(e)[k] = Sizes(d)[k] + (-1) * s[k]
  <2> SUFFICES ASSUME NEW k \in S
               PROVE  Sizes(d)[k] \in Int /\ s[k] \in Int /\ Sizes(e)[k] = Sizes(d)[k] + (-1) * s[k]
    OBVIOUS
  <2>1. k \in DOMAIN d /\ k \in DOMAIN e
    BY <1>4, <1>7
  <2>2. Sizes(d)[k] = d[k].amount /\ Sizes(e)[k] = e[k].amount
    BY <2>1 DEF Sizes
  <2> QED
    BY <1>2, <1>3, <2>1, <2>2
<1>10. SumFunctionOnSet(Sizes(e), S) = SumFunctionOnSet(Sizes(d), S) + (-1) * SumFunctionOnSet(s, S)
  BY <1>7, <1>9, SumLinear
<1>11. /\ SumFunctionOnSet(s, S) \in Nat /\ SumFunctionOnSet(s, DOMAIN d) \in Nat
       /\ SumFunctionOnSet(s, S) <= SumFunctionOnSet(s, DOMAIN d)
  BY <1>3, <1>7, SumSubset
<1>12. SumFunctionOnSet(s, DOMAIN d) = SumFunctionOnSet(s, hit)
  BY <1>5, <1>6, <1>7, SumOutside
<1>13. SumFunctionOnSet(s, hit) = SumFunctionOnSet(g, hit)
  BY <1>5, <1>7, SumSame
<1>14. BondedTo(d, vs) \in Nat /\ BondedTo(e, vs) \in Nat
  BY <1>4, BondedIs
<1>15. BondedTo(d, vs) - SumFunctionOnSet(g, hit) <= BondedTo(e, vs) /\ SumFunctionOnSet(g, hit) \in Nat
  BY <1>8, <1>10, <1>11, <1>12, <1>13, <1>14 DEF BondedTo, S
<1> QED
  BY <1>3, <1>4, <1>15 DEF e, g

\* Validators' records are of their type, with a commission of at most the whole and brought up
\* to some block that has passed.
ValidatorsSound(vals) ==
    \A v \in DOMAIN vals : vals[v] \in Validator /\ vals[v].commission <= BPS /\ vals[v].last <= block

\* Messages that leave the delegations, and what the validators count, are safe.
LEMMA RecordKeeps ==
    ASSUME ClockInv, DelegationsInv, UNCHANGED <<block, delegations, totalDelegated, delegators, delegatorValidator>>,
           DOMAIN validators' = DOMAIN validators, ValidatorsSound(validators'),
           \A v \in DOMAIN validators : validators'[v].delegated = validators[v].delegated
    PROVE  DelegationsInv'
  BY TrackedIs DEF DelegationsInv, Tracked, ValidatorsSound

\* Replacing one record does so.
LEMMA OneRecordKeeps ==
    ASSUME ClockInv, DelegationsInv, NEW v \in DOMAIN validators, NEW z \in Validator, z.commission <= BPS, z.last <= block,
           z.delegated = validators[v].delegated, SetValidator(v, z)
    PROVE  DelegationsInv'
  BY RecordKeeps DEF SetValidator, ValidatorsSound, DelegationsInv

\* What the invariants say of one validator, before and after its rewards accrue
\* (update_validator_rewards).
LEMMA ValidatorIs ==
    ASSUME ClockInv, ConfigInv, DelegationsInv, NEW v \in DOMAIN validators
    PROVE  LET info == validators[v] IN
           /\ info \in Validator /\ info.commission <= BPS /\ info.last <= block /\ v \in Stakers
           /\ info.selfStake \in Nat /\ info.delegated \in Nat /\ info.active \in BOOLEAN /\ info.earned \in Nat
           /\ Accrued(info) \in Validator /\ Accrued(info).selfStake = info.selfStake
           /\ Accrued(info).commission = info.commission /\ Accrued(info).delegated = info.delegated
           /\ Accrued(info).active = info.active /\ Accrued(info).last = block /\ block <= block
  BY AccruedIs DEF DelegationsInv, ClockInv, Validator

\* A new validator counts nothing, and is one to whom nobody has delegated.
LEMMA RegisterKeeps ==
    ASSUME ClockInv, DelegationsInv, NEW caller \in Stakers, NEW self \in Nat, NEW rate \in Nat,
           RegisterValidator(caller, self, rate)
    PROVE  DelegationsInv'
<1> DEFINE z == [selfStake |-> self, commission |-> rate, delegated |-> 0, earned |-> 0,
                 active |-> TRUE, acc |-> 0, last |-> block]
<1>1. /\ validators' = With(validators, caller, z) /\ caller \notin DOMAIN validators /\ rate <= BPS
      /\ UNCHANGED <<block, delegations, totalDelegated, delegators, delegatorValidator>>
  BY DEF RegisterValidator
<1>2. z \in Validator /\ z.commission <= BPS /\ z.last <= block /\ z.delegated = 0
  BY <1>1 DEF Validator, ClockInv
<1> HIDE DEF z
<1>3. /\ DOMAIN validators' = DOMAIN validators \cup {caller} /\ validators'[caller] = z
      /\ \A v \in DOMAIN validators : validators'[v] = validators[v]
  BY <1>1 DEF With
<1>4. ValidatorsSound(validators')
  BY <1>1, <1>2, <1>3 DEF ValidatorsSound, DelegationsInv
<1>5. Ledgered(delegations)
  BY DEF DelegationsInv, Ledgered
<1>6. Tracked(delegations, validators, totalDelegated, delegators)
  BY TrackedIs DEF DelegationsInv
<1>7. BondedTo(delegations, DOMAIN validators') = BondedTo(delegations, DOMAIN validators)
  <2>1. Bonded(delegations, DOMAIN validators') = Bonded(delegations, DOMAIN validators)
    BY <1>3 DEF DelegationsInv, Bonded
  <2> QED
    BY <2>1 DEF BondedTo
<1>8. BondedTo(delegations, {caller}) \in Nat
  BY <1>5, BondedIs
<1>9. \A v \in DOMAIN validators' : validators'[v].delegated <= BondedTo(delegations, {v})
  <2>1. \A v \in DOMAIN validators : validators[v].delegated <= BondedTo(delegations, {v})
    BY <1>6 DEF Tracked
  <2>2. validators'[caller].delegated <= BondedTo(delegations, {caller})
    BY <1>2, <1>3, <1>8
  <2> QED
    BY <1>3, <2>1, <2>2
<1>10. Tracked(delegations', validators', totalDelegated', delegators')
  BY <1>1, <1>6, <1>7, <1>9 DEF Tracked
<1>11. DelegationsTracked'
  BY <1>10, TrackedIs
<1> QED
  BY <1>1, <1>3, <1>4, <1>11 DEF DelegationsInv, ValidatorsSound

\* Changes of the commission, of activity, and of what a validator has earned.
LEMMA ValidatorKeeps ==
    ASSUME ClockInv, ConfigInv, DelegationsInv, NEW caller \in Stakers,
           \/ \E rate \in Nat : UpdateCommissionRate(caller, rate)
           \/ DeactivateValidator(caller) \/ ReactivateValidator(caller)
    PROVE  DelegationsInv'
<1>1. ASSUME NEW rate \in Nat, UpdateCommissionRate(caller, rate)
      PROVE  DelegationsInv'
  BY <1>1, ValidatorIs, OneRecordKeeps DEF UpdateCommissionRate, Validator
<1>2. ASSUME NEW active \in BOOLEAN, caller \in DOMAIN validators,
             SetValidator(caller, [validators[caller] EXCEPT !.active = active])
      PROVE  DelegationsInv'
  BY <1>2, ValidatorIs, OneRecordKeeps DEF Validator
<1>3. ASSUME DeactivateValidator(caller)
      PROVE  DelegationsInv'
  BY <1>2, <1>3 DEF DeactivateValidator
<1>4. ASSUME ReactivateValidator(caller)
      PROVE  DelegationsInv'
  BY <1>2, <1>4 DEF ReactivateValidator
<1> QED
  BY <1>1, <1>3, <1>4

\* A validator takes its commission and no delegation changes
\* (claim_validator_commission).
LEMMA CommissionKeeps ==
    ASSUME ClockInv, ConfigInv, DelegationsInv, NEW caller \in Stakers, ClaimValidatorCommission(caller)
    PROVE  DelegationsInv' /\ pool' \in Nat
  BY ValidatorIs, OneRecordKeeps DEF ClaimValidatorCommission, Validator, ConfigInv

\* Delegation k of d comes, goes or changes in e: it was bonded with old, and is with new.
OneDelegation(d, e, k, old, new) ==
    /\ Ledgered(d) /\ Ledgered(e)
    /\ DOMAIN e \ {k} = DOMAIN d \ {k}
    /\ \A x \in DOMAIN d \ {k} : e[x] = d[x]
    /\ old \in Nat /\ new \in Nat
    /\ IF k \in DOMAIN d /\ d[k].unbonding = {} THEN old = d[k].amount ELSE old = 0
    /\ IF k \in DOMAIN e /\ e[k].unbonding = {} THEN new = e[k].amount ELSE new = 0

\* A total that counted no more than is bonded does not after old was taken from it, with
\* saturation, and new was added.
LEMMA BondedMoves ==
    ASSUME NEW d, NEW e, NEW k, NEW old, NEW new, OneDelegation(d, e, k, old, new),
           NEW vs, NEW total \in Nat, total <= BondedTo(d, vs), k[2] \in vs
    PROVE  Saturating(total, old) + new <= BondedTo(e, vs)
<1>1. /\ Ledgered(d) /\ Ledgered(e) /\ DOMAIN e \ {k} = DOMAIN d \ {k} /\ \A x \in DOMAIN d \ {k} : e[x] = d[x]
      /\ old \in Nat /\ new \in Nat
  BY DEF OneDelegation
<1>2. /\ k \in Bonded(d, vs) => d[k].amount = old
      /\ k \notin Bonded(d, vs) => old = 0
      /\ k \in Bonded(e, vs) => e[k].amount = new
      /\ k \notin Bonded(e, vs) => new = 0
  BY DEF OneDelegation, Bonded
<1>3. old <= BondedTo(d, vs) /\ BondedTo(e, vs) = BondedTo(d, vs) - old + new
  BY <1>1, <1>2, BondedSwap
<1>4. BondedTo(d, vs) \in Nat
  BY <1>1, BondedIs
<1> QED
  BY <1>1, <1>3, <1>4 DEF Saturating

\* What is bonded to other validators stays.
LEMMA BondedStays ==
    ASSUME NEW d, NEW e, NEW k, NEW old, NEW new, OneDelegation(d, e, k, old, new), NEW vs, k[2] \notin vs
    PROVE  BondedTo(e, vs) = BondedTo(d, vs)
<1>1. /\ Ledgered(d) /\ Ledgered(e) /\ DOMAIN e \ {k} = DOMAIN d \ {k} /\ \A x \in DOMAIN d \ {k} : e[x] = d[x]
  BY DEF OneDelegation
<1>2. k \notin Bonded(d, vs) /\ k \notin Bonded(e, vs)
  BY DEF Bonded
<1>3. Bonded(e, vs) = Bonded(d, vs)
  BY <1>1, <1>2 DEF Bonded
<1>4. \A x \in Bonded(d, vs) : e[x].amount = d[x].amount
  BY <1>1, <1>2 DEF Bonded
<1> QED
  BY <1>1, <1>3, <1>4, BondedSame

\* One delegation to v moves, and v's record with it.
LEMMA OneDelegationTracked ==
    ASSUME NEW d, NEW e, NEW caller, NEW vals, NEW v \in DOMAIN vals, NEW old, NEW new,
           OneDelegation(d, e, <<caller, v>>, old, new),
           NEW total \in Nat, NEW lists, Tracked(d, vals, total, lists), NEW z,
           vals[v].delegated \in Nat, z.delegated = Saturating(vals[v].delegated, old) + new,
           NEW lists2, \A u \in Stakers : IsInjective(lists2[u]) /\ ToSet(lists2[u]) = NamedBy(e, u)
    PROVE  Tracked(e, [vals EXCEPT ![v] = z], Saturating(total, old) + new, lists2)
<1> DEFINE k == <<caller, v>>
           vals2 == [vals EXCEPT ![v] = z]
<1>1. k[2] = v
  OBVIOUS
<1>2. DOMAIN vals2 = DOMAIN vals /\ vals2[v] = z /\ \A u \in DOMAIN vals \ {v} : vals2[u] = vals[u]
  OBVIOUS
<1> HIDE DEF k, vals2
<1>3. ASSUME NEW u \in DOMAIN vals2
      PROVE  vals2[u].delegated <= BondedTo(e, {u})
  <2>1. vals[u].delegated <= BondedTo(d, {u})
    BY <1>2, <1>3 DEF Tracked
  <2>2. CASE u = v
    BY <1>1, <2>1, <2>2, BondedMoves, <1>2 DEF k
  <2>3. CASE u # v
    BY <1>1, <2>3, BondedStays, <1>2, <1>3, <2>1 DEF k
  <2> QED
    BY <2>2, <2>3
<1>4. Saturating(total, old) + new <= BondedTo(e, DOMAIN vals2)
  BY <1>1, <1>2, BondedMoves DEF Tracked, k
<1> QED
  BY <1>3, <1>4 DEF Tracked, vals2

\* Only caller's delegation to v is recorded or removed.
Rekeyed(d, e, caller, v) ==
    /\ DOMAIN e \ {<<caller, v>>} = DOMAIN d \ {<<caller, v>>}
    /\ DOMAIN d \subseteq Stakers \X Stakers /\ DOMAIN e \subseteq Stakers \X Stakers

\* The other lists of delegators are as before then.
LEMMA NamedByOthers ==
    ASSUME NEW d, NEW e, NEW caller, NEW v, Rekeyed(d, e, caller, v)
    PROVE  /\ \A u \in Stakers \ {v} : NamedBy(e, u) = NamedBy(d, u)
           /\ <<caller, v>> \in DOMAIN e => NamedBy(e, v) = NamedBy(d, v) \cup {caller}
           /\ <<caller, v>> \notin DOMAIN e => NamedBy(e, v) = NamedBy(d, v) \ {caller}
           /\ <<caller, v>> \notin DOMAIN d => caller \notin NamedBy(d, v)
<1>0. /\ DOMAIN e \ {<<caller, v>>} = DOMAIN d \ {<<caller, v>>}
      /\ DOMAIN d \subseteq Stakers \X Stakers /\ DOMAIN e \subseteq Stakers \X Stakers
  BY DEF Rekeyed
<1>1. \A f, a, u : DOMAIN f \subseteq Stakers \X Stakers => (a \in NamedBy(f, u) <=> <<a, u>> \in DOMAIN f)
  BY DEF NamedBy
<1>2. ASSUME NEW u \in Stakers \ {v}
      PROVE  NamedBy(e, u) = NamedBy(d, u)
  <2>1. \A a : <<a, u>> \in DOMAIN e <=> <<a, u>> \in DOMAIN d
    BY <1>0, <1>2
  <2>2. \A a : a \in NamedBy(e, u) <=> a \in NamedBy(d, u)
    BY <1>0, <1>1, <2>1
  <2>3. NamedBy(e, u) \subseteq NamedBy(d, u) /\ NamedBy(d, u) \subseteq NamedBy(e, u)
    BY <2>2
  <2> QED
    BY <2>3
<1>3. \A a : a # caller => (<<a, v>> \in DOMAIN e <=> <<a, v>> \in DOMAIN d)
  BY <1>0
<1>4. <<caller, v>> \in DOMAIN e => NamedBy(e, v) = NamedBy(d, v) \cup {caller}
  BY <1>0, <1>1, <1>3
<1>5. <<caller, v>> \notin DOMAIN e => NamedBy(e, v) = NamedBy(d, v) \ {caller}
  BY <1>0, <1>1, <1>3
<1> QED
  BY <1>0, <1>1, <1>2, <1>4, <1>5

\* The parts of DelegationsInv that are not the sums.
LEMMA DelegationsAre ==
    ASSUME DelegationsInv
    PROVE  /\ Ledgered(delegations) /\ Tracked(delegations, validators, totalDelegated, delegators)
           /\ DOMAIN delegations \subseteq Stakers \X DOMAIN validators
           /\ DOMAIN delegations \subseteq Stakers \X Stakers
           /\ \A u \in Stakers : /\ delegators[u] \in Seq(Stakers) /\ IsInjective(delegators[u])
                                 /\ ToSet(delegators[u]) = NamedBy(delegations, u)
           /\ \A k \in DOMAIN delegations : /\ delegations[k] \in Delegation /\ delegations[k].amount \in Nat
                                            /\ delegations[k].unbonding \subseteq 1..block
           /\ \A k \in DOMAIN delegations : k[2] \in DOMAIN validators
  BY TrackedIs DEF DelegationsInv, Ledgered, Tracked, Delegation

\* A new delegation (delegate).
LEMMA DelegateKeeps ==
    ASSUME ClockInv, ConfigInv, DelegationsInv, NEW caller \in Stakers, NEW v \in Stakers, NEW amount \in Nat,
           Delegate(caller, v, amount)
    PROVE  DelegationsInv'
<1> DEFINE k == <<caller, v>>
           info == Accrued(validators[v])
           record == [amount |-> amount, debt |-> ShareOf(amount, info), unbonding |-> {}]
           z == [info EXCEPT !.delegated = @ + amount]
<1>1. /\ v \in DOMAIN validators /\ k \notin DOMAIN delegations
      /\ delegations' = With(delegations, k, record) /\ validators' = [validators EXCEPT ![v] = z]
      /\ delegators' = [delegators EXCEPT ![v] = Append(@, caller)]
      /\ delegatorValidator' = With(delegatorValidator, caller, v)
      /\ totalDelegated' = totalDelegated + amount /\ block' = block
  BY DEF Delegate
<1>2. /\ info \in Validator /\ info.commission <= BPS /\ info.last = block /\ block \in Nat
      /\ info.delegated = validators[v].delegated /\ validators[v].delegated \in Nat
  BY <1>1, ValidatorIs DEF ClockInv
<1>3. record \in Delegation /\ record.amount = amount /\ record.unbonding = {}
  <2>1. info.acc \in Nat
    BY <1>2 DEF Validator
  <2>2. ShareOf(amount, info) \in Nat
    BY <2>1, Products, Divided, StakingFacts DEF ShareOf
  <2> QED
    BY <2>2 DEF Delegation
<1> HIDE DEF record
<1>4. z \in Validator /\ z.commission <= BPS /\ z.last <= block /\ z.delegated = validators[v].delegated + amount
  BY <1>2 DEF Validator
<1> HIDE DEF z, info
<1>5. /\ DOMAIN delegations' = DOMAIN delegations \cup {k} /\ delegations'[k] = record
      /\ \A x \in DOMAIN delegations : delegations'[x] = delegations[x]
  BY <1>1 DEF With
<1>6. Ledgered(delegations')
  <2>1. Ledgered(delegations)
    BY DelegationsAre
  <2>2. IsFiniteSet(DOMAIN delegations')
    BY <1>5, <2>1, FS_AddElement DEF Ledgered
  <2> QED
    BY <1>3, <1>5, <2>1, <2>2 DEF Ledgered
<1>7. OneDelegation(delegations, delegations', k, 0, amount)
  <2> HIDE DEF k
  <2> QED
    BY <1>1, <1>3, <1>5, <1>6, DelegationsAre DEF OneDelegation
<1>8. DOMAIN delegations' \subseteq Stakers \X DOMAIN validators /\ DOMAIN delegations' \subseteq Stakers \X Stakers
  BY <1>1, <1>5, DelegationsAre
<1>9. DOMAIN delegations' \ {k} = DOMAIN delegations \ {k}
  BY <1>5
<1>10. /\ \A u \in Stakers \ {v} : NamedBy(delegations', u) = NamedBy(delegations, u)
       /\ NamedBy(delegations', v) = NamedBy(delegations, v) \cup {caller}
       /\ caller \notin NamedBy(delegations, v)
  <2>1. DOMAIN delegations \subseteq Stakers \X Stakers
    BY DelegationsAre
  <2> HIDE DEF k
  <2>2. k = <<caller, v>>
    BY DEF k
  <2>3. Rekeyed(delegations, delegations', caller, v)
    BY <1>8, <1>9, <2>1, <2>2 DEF Rekeyed
  <2>4. k \in DOMAIN delegations' /\ k \notin DOMAIN delegations
    BY <1>1, <1>5
  <2> QED
    BY <2>2, <2>3, <2>4, NamedByOthers
<1>11. /\ delegators' \in [Stakers -> Seq(Stakers)]
       /\ \A u \in Stakers : IsInjective(delegators'[u]) /\ ToSet(delegators'[u]) = NamedBy(delegations', u)
  <2>1. /\ delegators[v] \in Seq(Stakers) /\ IsInjective(delegators[v]) /\ caller \notin ToSet(delegators[v])
        /\ ToSet(delegators[v]) = NamedBy(delegations, v)
    BY <1>10, DelegationsAre
  <2> DEFINE list == Append(delegators[v], caller)
  <2>2. /\ list \in Seq(Stakers) /\ IsInjective(list) /\ ToSet(list) = NamedBy(delegations', v)
    BY <1>10, <2>1, AppendedList
  <2>3. delegators' = [delegators EXCEPT ![v] = list] /\ delegators \in [Stakers -> Seq(Stakers)]
    BY <1>1 DEF DelegationsInv
  <2> HIDE DEF list
  <2> QED
    BY <1>10, <2>2, <2>3, DelegationsAre
<1>12. Saturating(validators[v].delegated, 0) + amount = z.delegated /\ Saturating(totalDelegated, 0) + amount = totalDelegated'
  BY <1>1, <1>2, <1>4 DEF Saturating, DelegationsInv
<1>13. Tracked(delegations', validators', totalDelegated', delegators')
  <2>1. Tracked(delegations, validators, totalDelegated, delegators) /\ totalDelegated \in Nat
    BY DelegationsAre DEF DelegationsInv
  <2>2. Tracked(delegations', [validators EXCEPT ![v] = z], Saturating(totalDelegated, 0) + amount, delegators')
    BY <1>1, <1>2, <1>7, <1>11, <1>12, <2>1, OneDelegationTracked
  <2> QED
    BY <1>1, <1>12, <2>2
<1>14. DelegationsTracked'
  BY <1>13, TrackedIs
<1>15. ValidatorsSound(validators')
  BY <1>1, <1>4 DEF ValidatorsSound, DelegationsInv
<1>16. \A x \in DOMAIN delegations' : delegations'[x] \in Delegation /\ delegations'[x].unbonding \subseteq 1..block
  BY <1>3, <1>5, DelegationsAre
<1>17. DOMAIN delegatorValidator' \subseteq Stakers /\ totalDelegated' \in Nat
  BY <1>1 DEF With, DelegationsInv
<1>18. DOMAIN validators' = DOMAIN validators
  BY <1>1
<1> QED
  BY <1>1, <1>6, <1>8, <1>11, <1>14, <1>15, <1>16, <1>17, <1>18 DEF DelegationsInv, ValidatorsSound, Ledgered

\* A delegation begins to unbond (undelegate).
LEMMA UndelegateKeeps ==
    ASSUME ClockInv, ConfigInv, DelegationsInv, NEW caller \in Stakers, NEW v \in Stakers, Undelegate(caller, v)
    PROVE  DelegationsInv'
<1> DEFINE k == <<caller, v>>
           info == Accrued(validators[v])
           amount == delegations[k].amount
           record == [delegations[k] EXCEPT !.unbonding = {block}]
           z == [info EXCEPT !.delegated = Saturating(@, amount)]
<1>1. /\ k \in DOMAIN delegations /\ delegations[k].unbonding = {}
      /\ delegations' = [delegations EXCEPT ![k] = record] /\ validators' = [validators EXCEPT ![v] = z]
      /\ totalDelegated' = Saturating(totalDelegated, amount) /\ block' = block
      /\ delegators' = delegators /\ delegatorValidator' = delegatorValidator
  BY DEF Undelegate
<1>2. v \in DOMAIN validators /\ amount \in Nat /\ delegations[k] \in Delegation
  BY <1>1, DelegationsAre
<1>3. /\ info \in Validator /\ info.commission <= BPS /\ info.last = block /\ block \in Nat \ {0}
      /\ info.delegated = validators[v].delegated /\ validators[v].delegated \in Nat
  BY <1>2, ValidatorIs DEF ClockInv
<1>4. record \in Delegation /\ record.unbonding = {block} /\ record.unbonding # {} /\ record.unbonding \subseteq 1..block
  BY <1>2, <1>3 DEF Delegation
<1> HIDE DEF record, amount
<1>5. z \in Validator /\ z.commission <= BPS /\ z.last <= block /\ z.delegated = Saturating(validators[v].delegated, amount)
  BY <1>2, <1>3 DEF Saturating, Validator
<1> HIDE DEF z, info
<1>6. /\ DOMAIN delegations' = DOMAIN delegations /\ delegations'[k] = record
      /\ \A x \in DOMAIN delegations \ {k} : delegations'[x] = delegations[x]
  BY <1>1
<1>7. Ledgered(delegations')
  BY <1>4, <1>6, DelegationsAre DEF Ledgered
<1>8. OneDelegation(delegations, delegations', k, amount, 0)
  <2>1. Ledgered(delegations) /\ amount = delegations[k].amount
    BY DelegationsAre DEF amount
  <2> HIDE DEF k
  <2> QED
    BY <1>1, <1>2, <1>4, <1>6, <1>7, <2>1 DEF OneDelegation
<1>9. \A u \in Stakers : IsInjective(delegators'[u]) /\ ToSet(delegators'[u]) = NamedBy(delegations', u)
  <2>1. \A u : NamedBy(delegations', u) = NamedBy(delegations, u)
    BY <1>6 DEF NamedBy
  <2> QED
    BY <1>1, <2>1, DelegationsAre
<1>10. /\ Saturating(validators[v].delegated, amount) + 0 = z.delegated
       /\ Saturating(totalDelegated, amount) + 0 = totalDelegated' /\ totalDelegated' \in Nat
  BY <1>1, <1>2, <1>3, <1>5 DEF Saturating, DelegationsInv
<1>11. Tracked(delegations', validators', totalDelegated', delegators')
  <2>1. Tracked(delegations, validators, totalDelegated, delegators) /\ totalDelegated \in Nat
    BY DelegationsAre DEF DelegationsInv
  <2>2. Tracked(delegations', [validators EXCEPT ![v] = z], Saturating(totalDelegated, amount) + 0, delegators')
    BY <1>2, <1>3, <1>8, <1>9, <1>10, <2>1, OneDelegationTracked
  <2> QED
    BY <1>1, <1>10, <2>2
<1>12. DelegationsTracked'
  BY <1>11, TrackedIs
<1>13. ValidatorsSound(validators') /\ DOMAIN validators' = DOMAIN validators
  BY <1>1, <1>5 DEF ValidatorsSound, DelegationsInv
<1>14. \A x \in DOMAIN delegations' : delegations'[x] \in Delegation /\ delegations'[x].unbonding \subseteq 1..block
  BY <1>4, <1>6, DelegationsAre
<1> QED
  BY <1>1, <1>6, <1>7, <1>10, <1>12, <1>13, <1>14 DEF DelegationsInv, ValidatorsSound, Ledgered

\* An unbonded delegation leaves (claim_undelegated).
LEMMA ClaimUndelegatedKeeps ==
    ASSUME ClockInv, ConfigInv, DelegationsInv, NEW caller \in Stakers, NEW v \in Stakers, ClaimUndelegated(caller, v)
    PROVE  DelegationsInv'
<1> DEFINE k == <<caller, v>>
<1>1. /\ k \in DOMAIN delegations /\ delegations[k].unbonding # {}
      /\ delegations' = Without(delegations, k) /\ validators' = validators
      /\ delegators' = [delegators EXCEPT ![v] = Dropped(@, caller)]
      /\ delegatorValidator' = Without(delegatorValidator, caller)
      /\ totalDelegated' = totalDelegated /\ block' = block
  BY DEF ClaimUndelegated
<1>2. v \in DOMAIN validators
  BY <1>1, DelegationsAre
<1>3. /\ DOMAIN delegations' = DOMAIN delegations \ {k}
      /\ \A x \in DOMAIN delegations \ {k} : delegations'[x] = delegations[x]
  <2> HIDE DEF k
  <2> QED
    BY <1>1 DEF Without
<1>4. Ledgered(delegations')
  <2>1. Ledgered(delegations)
    BY DelegationsAre
  <2>2. IsFiniteSet(DOMAIN delegations')
    BY <1>3, <2>1, FS_RemoveElement DEF Ledgered
  <2> HIDE DEF k
  <2> QED
    BY <1>3, <2>1, <2>2 DEF Ledgered
<1>5. OneDelegation(delegations, delegations', k, 0, 0)
  <2> HIDE DEF k
  <2> QED
    BY <1>1, <1>3, <1>4, DelegationsAre DEF OneDelegation
<1>6. /\ \A u \in Stakers \ {v} : NamedBy(delegations', u) = NamedBy(delegations, u)
      /\ NamedBy(delegations', v) = NamedBy(delegations, v) \ {caller}
  <2>1. DOMAIN delegations \subseteq Stakers \X Stakers
    BY DelegationsAre
  <2> HIDE DEF k
  <2>2. k = <<caller, v>>
    BY DEF k
  <2>3. Rekeyed(delegations, delegations', caller, v)
    BY <1>3, <2>1, <2>2 DEF Rekeyed
  <2>4. k \notin DOMAIN delegations'
    BY <1>3
  <2> QED
    BY <2>2, <2>3, <2>4, NamedByOthers
<1>7. /\ delegators' \in [Stakers -> Seq(Stakers)]
      /\ \A u \in Stakers : IsInjective(delegators'[u]) /\ ToSet(delegators'[u]) = NamedBy(delegations', u)
  <2>1. delegators[v] \in Seq(Stakers) /\ IsInjective(delegators[v]) /\ ToSet(delegators[v]) = NamedBy(delegations, v)
    BY DelegationsAre
  <2> DEFINE list == Dropped(delegators[v], caller)
  <2>2. /\ list \in Seq(Stakers) /\ IsInjective(list) /\ ToSet(list) = NamedBy(delegations', v)
    BY <1>6, <2>1, DroppedList
  <2>3. delegators' = [delegators EXCEPT ![v] = list] /\ delegators \in [Stakers -> Seq(Stakers)]
    BY <1>1 DEF DelegationsInv
  <2> HIDE DEF list
  <2> QED
    BY <1>6, <2>2, <2>3, DelegationsAre
<1>8. /\ validators[v].delegated \in Nat /\ totalDelegated \in Nat
      /\ Saturating(validators[v].delegated, 0) + 0 = validators[v].delegated
      /\ Saturating(totalDelegated, 0) + 0 = totalDelegated
  BY <1>2, ValidatorIs DEF DelegationsInv, Saturating
<1>9. Tracked(delegations', validators', totalDelegated', delegators')
  <2>1. Tracked(delegations, validators, totalDelegated, delegators)
    BY DelegationsAre
  <2>2. Tracked(delegations', [validators EXCEPT ![v] = validators[v]], Saturating(totalDelegated, 0) + 0, delegators')
    BY <1>2, <1>5, <1>7, <1>8, <2>1, OneDelegationTracked
  <2>3. /\ \A u \in DOMAIN validators : [validators EXCEPT ![v] = validators[v]][u] = validators[u]
        /\ DOMAIN [validators EXCEPT ![v] = validators[v]] = DOMAIN validators
    OBVIOUS
  <2> DEFINE vals == [validators EXCEPT ![v] = validators[v]]
  <2> HIDE DEF vals
  <2>4. Tracked(delegations', vals, totalDelegated, delegators')
    BY <1>8, <2>2 DEF vals
  <2>5. DOMAIN vals = DOMAIN validators /\ \A u \in DOMAIN validators : vals[u] = validators[u]
    BY <2>3 DEF vals
  <2>6. Tracked(delegations', validators, totalDelegated, delegators')
    BY <2>4, <2>5 DEF Tracked
  <2> QED
    BY <1>1, <2>6
<1>10. DelegationsTracked'
  BY <1>9, TrackedIs
<1>11. \A x \in DOMAIN delegations' : delegations'[x] \in Delegation /\ delegations'[x].unbonding \subseteq 1..block
  <2> HIDE DEF k
  <2> QED
    BY <1>3, DelegationsAre
<1>12. DOMAIN delegatorValidator' \subseteq Stakers /\ DOMAIN delegations' \subseteq Stakers \X DOMAIN validators
  <2> HIDE DEF k
  <2> QED
    BY <1>1, <1>3 DEF Without, DelegationsInv
<1> HIDE DEF k
<1> QED
  BY <1>1, <1>4, <1>7, <1>10, <1>11, <1>12 DEF DelegationsInv, Ledgered

\* The debt of one delegation is settled (claim_delegation_rewards).
LEMMA ClaimDelegationKeeps ==
    ASSUME ClockInv, ConfigInv, DelegationsInv, NEW caller \in Stakers, NEW v \in Stakers,
           ClaimDelegationRewards(caller, v)
    PROVE  DelegationsInv' /\ pool' \in Nat
<1> DEFINE k == <<caller, v>>
           info == Accrued(validators[v])
           debt == ShareOf(delegations[k].amount, info)
           reward == Saturating(debt, delegations[k].debt)
           record == [delegations[k] EXCEPT !.debt = debt]
<1>1. /\ k \in DOMAIN delegations /\ reward <= pool /\ pool' = pool - reward
      /\ delegations' = [delegations EXCEPT ![k] = record] /\ validators' = [validators EXCEPT ![v] = info]
      /\ totalDelegated' = totalDelegated /\ block' = block
      /\ delegators' = delegators /\ delegatorValidator' = delegatorValidator
  BY DEF ClaimDelegationRewards
<1>2. v \in DOMAIN validators /\ delegations[k].amount \in Nat /\ delegations[k] \in Delegation
      /\ delegations[k].unbonding \subseteq 1..block
  BY <1>1, DelegationsAre
<1>3. /\ info \in Validator /\ info.commission <= BPS /\ info.last = block /\ block \in Nat
      /\ info.delegated = validators[v].delegated
  BY <1>2, ValidatorIs DEF ClockInv
<1>4. debt \in Nat
  <2> HIDE DEF info
  <2>1. info.acc \in Nat
    BY <1>3 DEF Validator
  <2>2. info.acc * delegations[k].amount \in Nat
    BY <1>2, <2>1, Products
  <2> DEFINE n == info.acc * delegations[k].amount
  <2>3. debt = n \div RewardPrecision
    BY DEF ShareOf
  <2> HIDE DEF n, debt
  <2>4. n \div RewardPrecision \in Nat
    BY <2>2, Divided, StakingFacts DEF n
  <2> QED
    BY <2>3, <2>4
<1> HIDE DEF debt, info
<1>5. reward \in Nat
  BY <1>2, <1>4 DEF Saturating, Delegation
<1>6. record \in Delegation /\ record.amount = delegations[k].amount /\ record.unbonding = delegations[k].unbonding
  <2> HIDE DEF k
  <2> QED
    BY <1>2, <1>4 DEF Delegation
<1> HIDE DEF record, reward
<1>7. pool' \in Nat
  BY <1>1, <1>5 DEF ConfigInv
<1> HIDE DEF k
<1>8. /\ DOMAIN delegations' = DOMAIN delegations /\ delegations'[k] = record
      /\ \A x \in DOMAIN delegations \ {k} : delegations'[x] = delegations[x]
  BY <1>1
<1>9. \A x \in DOMAIN delegations : /\ delegations'[x].amount = delegations[x].amount
                                    /\ delegations'[x].unbonding = delegations[x].unbonding
  BY <1>6, <1>8
<1>10. Ledgered(delegations) /\ Tracked(delegations, validators, totalDelegated, delegators)
  BY DelegationsAre
<1>11. \A vs : BondedTo(delegations', vs) = BondedTo(delegations, vs)
  <2> TAKE vs
  <2>1. Bonded(delegations', vs) = Bonded(delegations, vs)
    BY <1>8, <1>9 DEF Bonded
  <2>2. \A x \in Bonded(delegations, vs) : delegations'[x].amount = delegations[x].amount
    BY <1>9 DEF Bonded
  <2> QED
    BY <1>10, <2>1, <2>2, BondedSame
<1>12. \A u : NamedBy(delegations', u) = NamedBy(delegations, u)
  BY <1>8 DEF NamedBy
<1>13. DOMAIN validators' = DOMAIN validators /\ \A u \in DOMAIN validators : validators'[u].delegated = validators[u].delegated
  BY <1>1, <1>3
<1>14. Tracked(delegations', validators', totalDelegated', delegators')
  BY <1>1, <1>10, <1>11, <1>12, <1>13 DEF Tracked
<1>15. DelegationsTracked'
  BY <1>14, TrackedIs
<1>16. ValidatorsSound(validators')
  BY <1>1, <1>3 DEF ValidatorsSound, DelegationsInv
<1>17. \A x \in DOMAIN delegations' : delegations'[x] \in Delegation /\ delegations'[x].unbonding \subseteq 1..block
  BY <1>6, <1>8, <1>9, DelegationsAre
<1>18. DelegationsInv'
  BY <1>1, <1>8, <1>13, <1>15, <1>16, <1>17 DEF DelegationsInv, ValidatorsSound
<1> QED
  BY <1>7, <1>18

\* A slash takes no more from a validator's delegations than from what it counts
\* (slash_validator), whoever of its delegators is unbonding.
LEMMA SlashKeeps ==
    ASSUME ClockInv, ConfigInv, DelegationsInv, NEW caller \in Stakers, NEW v \in Stakers, SlashValidator(caller, v)
    PROVE  DelegationsInv'
<1> DEFINE info == Accrued(validators[v])
           hit == {k \in DOMAIN delegations : k[2] = v /\ Contains(delegators[v], k[1])}
           lost == SumFunctionOnSet([k \in hit |-> Slash(delegations[k].amount)], hit)
           left == info.selfStake - Slash(info.selfStake)
           e == [k \in DOMAIN delegations |->
                    IF k \in hit THEN [delegations[k] EXCEPT !.amount = @ - Slash(@)] ELSE delegations[k]]
           z == [info EXCEPT !.selfStake = left, !.delegated = Saturating(@, lost),
                             !.active = @ /\ left >= MinValidatorStake]
<1>1. /\ v \in DOMAIN validators /\ delegations' = e /\ validators' = [validators EXCEPT ![v] = z]
      /\ totalDelegated' = Saturating(totalDelegated, lost) /\ block' = block
      /\ delegators' = delegators /\ delegatorValidator' = delegatorValidator
  BY DEF SlashValidator
<1>2. Ledgered(delegations) /\ Tracked(delegations, validators, totalDelegated, delegators) /\ totalDelegated \in Nat
  BY DelegationsAre DEF DelegationsInv
<1>3. /\ Ledgered(e) /\ lost \in Nat /\ DOMAIN e = DOMAIN delegations
      /\ \A k \in DOMAIN delegations : e[k].unbonding = delegations[k].unbonding
      /\ \A k \in DOMAIN delegations \ hit : e[k] = delegations[k]
      /\ \A vs : BondedTo(delegations, vs) - lost <= BondedTo(e, vs)
  <2>1. hit \in SUBSET DOMAIN delegations
    OBVIOUS
  <2>2. DOMAIN e = DOMAIN delegations /\ \A k \in DOMAIN delegations \ hit : e[k] = delegations[k]
    OBVIOUS
  <2> HIDE DEF hit
  <2>3. /\ Ledgered(e) /\ lost \in Nat /\ \A k \in DOMAIN delegations : e[k].unbonding = delegations[k].unbonding
    BY <1>2, <2>1, BondedSlashed
  <2>4. ASSUME NEW vs
        PROVE  BondedTo(delegations, vs) - lost <= BondedTo(e, vs)
    BY <1>2, <2>1, BondedSlashed
  <2> QED
    BY <2>2, <2>3, <2>4
<1>4. \A k \in hit : k[2] = v
  OBVIOUS
<1> HIDE DEF e, lost, hit
<1>5. /\ info \in Validator /\ info.commission <= BPS /\ info.last = block /\ block \in Nat
      /\ info.delegated = validators[v].delegated /\ validators[v].delegated \in Nat
  BY <1>1, ValidatorIs DEF ClockInv
<1> HIDE DEF info
<1>6. z \in Validator /\ z.commission <= BPS /\ z.last <= block /\ z.delegated = Saturating(validators[v].delegated, lost)
  <2> DEFINE n == Saturating(info.delegated, lost)
             on == info.active /\ left >= MinValidatorStake
             z1 == [info EXCEPT !.selfStake = left]
             z2 == [z1 EXCEPT !.delegated = n]
             z3 == [z2 EXCEPT !.active = on]
  <2>1. z = z3
    OBVIOUS
  <2>2. left \in Nat
    BY <1>5 DEF Slash, SlashPercent, Validator
  <2>3. n \in Nat /\ n = Saturating(validators[v].delegated, lost)
    BY <1>3, <1>5 DEF Saturating
  <2>4. on \in BOOLEAN
    BY <1>5, <2>2 DEF Validator
  <2> HIDE DEF n, on, left, z
  <2>5. z1 \in Validator /\ z1.commission = info.commission /\ z1.last = info.last
    BY <1>5, <2>2 DEF Validator
  <2> HIDE DEF z1
  <2>6. z2 \in Validator /\ z2.commission = z1.commission /\ z2.last = z1.last /\ z2.delegated = n
    BY <2>3, <2>5 DEF Validator
  <2> HIDE DEF z2
  <2>7. z3 \in Validator /\ z3.commission = z2.commission /\ z3.last = z2.last /\ z3.delegated = z2.delegated
    BY <2>4, <2>6 DEF Validator
  <2> HIDE DEF z3
  <2> QED
    BY <1>5, <2>1, <2>3, <2>5, <2>6, <2>7
<1> HIDE DEF z
<1>7. \A vs, n : n \in Nat /\ n <= BondedTo(delegations, vs) => Saturating(n, lost) <= BondedTo(e, vs)
  <2> TAKE vs, n
  <2>1. BondedTo(delegations, vs) \in Nat /\ BondedTo(e, vs) \in Nat
    BY <1>2, <1>3, BondedIs
  <2> QED
    BY <1>3, <2>1 DEF Saturating
<1>8. DOMAIN validators' = DOMAIN validators /\ validators'[v] = z
      /\ \A u \in DOMAIN validators \ {v} : validators'[u] = validators[u]
  BY <1>1
<1>9. ASSUME NEW u \in DOMAIN validators'
      PROVE  validators'[u].delegated <= BondedTo(e, {u})
  <2>1. validators[u].delegated <= BondedTo(delegations, {u})
    BY <1>2, <1>8 DEF Tracked
  <2>2. CASE u = v
    BY <1>5, <1>6, <1>7, <1>8, <2>1, <2>2
  <2>3. CASE u # v
    <3>1. Bonded(e, {u}) = Bonded(delegations, {u}) /\ \A k \in Bonded(delegations, {u}) : e[k].amount = delegations[k].amount
      BY <1>3, <1>4, <2>3 DEF Bonded
    <3>2. BondedTo(e, {u}) = BondedTo(delegations, {u})
      BY <1>2, <3>1, BondedSame
    <3> QED
      BY <1>8, <2>1, <2>3, <3>2
  <2> QED
    BY <2>2, <2>3
<1>10. totalDelegated' <= BondedTo(e, DOMAIN validators') /\ totalDelegated' \in Nat
  BY <1>2, <1>7, <1>3, <1>1, <1>8 DEF Tracked, Saturating
<1>11. \A u : NamedBy(e, u) = NamedBy(delegations, u)
  BY <1>3 DEF NamedBy
<1>12. Tracked(delegations', validators', totalDelegated', delegators')
  BY <1>1, <1>2, <1>9, <1>10, <1>11 DEF Tracked
<1>13. DelegationsTracked'
  BY <1>12, TrackedIs
<1>14. ValidatorsSound(validators')
  BY <1>1, <1>6, <1>8 DEF ValidatorsSound, DelegationsInv
<1>15. \A x \in DOMAIN delegations' : delegations'[x] \in Delegation /\ delegations'[x].unbonding \subseteq 1..block
  BY DelegationsAre, <1>1, <1>3 DEF Ledgered
<1>16. IsFiniteSet(DOMAIN e) /\ DOMAIN e = DOMAIN delegations
  BY <1>3 DEF Ledgered
<1> QED
  BY <1>1, <1>8, <1>10, <1>13, <1>14, <1>15, <1>16 DEF DelegationsInv, ValidatorsSound

----
\* Every message keeps every part of the invariant

\* Messages that leave a part alone keep it, whatever block they come in.
LEMMA PartsStay ==
    ASSUME StakingInv, block' \in Nat \ {0}, block <= block'
    PROVE  /\ ClockInv'
           /\ UNCHANGED stakeVars => StakesInv'
           /\ UNCHANGED configVars /\ pool' \in Nat => ConfigInv'
           /\ UNCHANGED ballotVars => BallotInv'
           /\ UNCHANGED validatorVars => DelegationsInv'
<1>1. block \in Nat /\ ClockInv'
  BY DEF StakingInv, ClockInv
<1>2. ASSUME UNCHANGED stakeVars
      PROVE  StakesInv'
  BY <1>1, <1>2, StakesStay DEF StakingInv
<1>3. ASSUME UNCHANGED configVars, pool' \in Nat
      PROVE  ConfigInv'
  BY <1>3 DEF StakingInv, ConfigInv, configVars, paramVars
<1>4. ASSUME UNCHANGED ballotVars
      PROVE  BallotInv'
  BY <1>4 DEF StakingInv, BallotInv, ballotVars, ActiveCountRecounts
<1>5. ASSUME UNCHANGED validatorVars
      PROVE  DelegationsInv'
  <2>1. UNCHANGED <<validators, delegations, totalDelegated, delegators, delegatorValidator>> /\ DelegationsInv
    BY <1>5 DEF validatorVars, StakingInv
  <2>2. \A v \in DOMAIN validators : validators[v].last \in Nat /\ validators[v].last <= block
    BY <2>1 DEF DelegationsInv, Validator
  <2>3. \A v \in DOMAIN validators : validators[v].last <= block'
    BY <1>1, <2>2
  <2>4. \A k \in DOMAIN delegations : delegations[k].unbonding \subseteq 1..block'
    BY <1>1, <2>1 DEF DelegationsInv
  <2>5. DelegationsTracked'
    BY <2>1, TrackedIs DEF DelegationsInv
  <2> QED
    BY <2>1, <2>3, <2>4, <2>5 DEF DelegationsInv
<1> QED
  BY <1>1, <1>2, <1>3, <1>4, <1>5

\* Messages within a block.
LEMMA PartsStayNow ==
    ASSUME StakingInv, block' = block
    PROVE  /\ ClockInv' /\ pool \in Nat
           /\ UNCHANGED stakeVars => StakesInv'
           /\ UNCHANGED configVars /\ pool' \in Nat => ConfigInv'
           /\ UNCHANGED ballotVars => BallotInv'
           /\ UNCHANGED validatorVars => DelegationsInv'
  BY PartsStay DEF StakingInv, ClockInv, ConfigInv

\* Rewards claimed by stakers, validators and delegators.
LEMMA ClaimNextKeeps ==
    ASSUME StakingInv, ClaimNext
    PROVE  StakingInv'
<1>0. ClockInv /\ StakesInv /\ ConfigInv /\ BallotInv /\ DelegationsInv
  BY DEF StakingInv
<1>1. ASSUME NEW a \in Stakers, ClaimRewards(a)
      PROVE  StakingInv'
  BY <1>0, <1>1, ClaimKeepsStakes, PartsStayNow DEF StakingInv
<1>2. ASSUME NEW a \in Stakers, ClaimValidatorCommission(a)
      PROVE  StakingInv'
  <2>1. DelegationsInv' /\ pool' \in Nat
    BY <1>0, <1>2, CommissionKeeps
  <2>2. UNCHANGED <<block, stakeVars, configVars, ballotVars>>
    BY <1>2 DEF ClaimValidatorCommission, SetValidator
  <2> QED
    BY <2>1, <2>2, PartsStayNow DEF StakingInv
<1>3. ASSUME NEW k \in DOMAIN delegations, ClaimDelegationRewards(k[1], k[2])
      PROVE  StakingInv'
  <2>1. k[1] \in Stakers /\ k[2] \in Stakers
    BY <1>0, DelegationsAre
  <2>2. DelegationsInv' /\ pool' \in Nat
    BY <1>0, <1>3, <2>1, ClaimDelegationKeeps
  <2>3. UNCHANGED <<block, stakeVars, configVars, ballotVars>>
    BY <1>3 DEF ClaimDelegationRewards
  <2> QED
    BY <2>2, <2>3, PartsStayNow DEF StakingInv
<1> QED
  BY <1>1, <1>2, <1>3 DEF ClaimNext

\* New stakes, and what stakers do with them.
LEMMA StakeNextKeeps ==
    ASSUME StakingInv, StakeNext
    PROVE  StakingInv'
<1>0. ClockInv /\ StakesInv /\ ConfigInv /\ BallotInv /\ DelegationsInv
  BY DEF StakingInv
<1>1. ASSUME NEW a \in Stakers, NEW amount \in AmountArgs, NEW lock \in LockArgs, StakeTokens(a, amount, lock)
      PROVE  StakingInv'
  <2>1. amount \in Nat /\ lock \in Nat
    BY StakingFacts
  <2>2. AddStake(a, StakeOf(amount, lock, amount, {})) /\ pool' = pool
    BY <1>1 DEF StakeTokens
  <2>3. StakesInv'
    BY <1>0, <2>1, <2>2, AddStakeKeeps DEF AtMostOne
  <2>4. UNCHANGED <<block, configVars, ballotVars, validatorVars>>
    BY <2>2 DEF AddStake
  <2> QED
    BY <2>2, <2>3, <2>4, PartsStayNow DEF StakingInv
<1>2. ASSUME NEW a \in Stakers, NEW amount \in AmountArgs, NEW lock \in LockArgs, NEW rewards \in AmountArgs,
             NEW times \in VestingArgs, StakeWithVesting(a, amount, lock, rewards, times[1], times[2])
      PROVE  StakingInv'
  <2> DEFINE v == [total |-> rewards, vested |-> 0, start |-> block, cliff |-> block + times[1],
                   end |-> block + times[1] + times[2]]
  <2>1. amount \in Nat /\ lock \in Nat /\ rewards \in Nat /\ times[1] \in Nat /\ times[2] \in Nat /\ block \in Nat
    BY <1>0, StakingFacts DEF ClockInv
  <2>2. /\ AddStake(a, StakeOf(amount, lock, rewards, {v})) /\ pool' = pool - rewards /\ rewards <= pool
        /\ times[2] # 0
    BY <1>2 DEF StakeWithVesting
  <2>3. v \in Vesting /\ v.start < v.end
    BY <2>1, <2>2 DEF Vesting
  <2>4. AtMostOne({v}) /\ {v} \in SUBSET Vesting /\ \A x \in {v} : x.start < x.end
    BY <2>3 DEF AtMostOne
  <2> HIDE DEF v
  <2>5. StakesInv'
    BY <1>0, <2>1, <2>2, <2>4, AddStakeKeeps
  <2>6. UNCHANGED <<block, configVars, ballotVars, validatorVars>>
    BY <2>2 DEF AddStake
  <2>7. pool' \in Nat
    BY <1>0, <2>1, <2>2 DEF ConfigInv
  <2> QED
    BY <2>5, <2>6, <2>7, PartsStayNow DEF StakingInv
<1>3. ASSUME NEW a \in Stakers, NEW auto \in BOOLEAN, SetAutoCompound(a, auto)
      PROVE  StakingInv'
  <2>1. StakesInv'
    BY <1>0, <1>3, AutoKeepsStakes
  <2>2. UNCHANGED <<block, pool, configVars, ballotVars, validatorVars>>
    BY <1>3 DEF SetAutoCompound
  <2> QED
    BY <2>1, <2>2, PartsStayNow DEF StakingInv
<1>4. ASSUME NEW a \in Stakers, NEW d \in Stakers, DelegateGovernance(a, d)
      PROVE  StakingInv'
  <2>1. StakesInv'
    BY <1>0, <1>4, DelegateKeepsStakes
  <2>2. UNCHANGED <<block, pool, configVars, ballotVars, validatorVars>>
    BY <1>4 DEF DelegateGovernance
  <2> QED
    BY <2>1, <2>2, PartsStayNow DEF StakingInv
<1> QED
  BY <1>1, <1>2, <1>3, <1>4 DEF StakeNext

\* A stake withdrawn.
LEMMA UnstakeNextKeeps ==
    ASSUME StakingInv, UnstakeNext
    PROVE  StakingInv'
<1>0. ClockInv /\ StakesInv /\ ConfigInv /\ BallotInv /\ DelegationsInv
  BY DEF StakingInv
<1>1. PICK a \in Stakers : Unstake(a)
  BY DEF UnstakeNext
<1> DEFINE s == stakes[a]
<1>2. a \in DOMAIN stakes /\ pool' = pool + Unvested(s) + Penalty(s) /\ UNCHANGED <<block, configVars, ballotVars, validatorVars>>
  BY <1>1 DEF Unstake
<1>3. s \in Stake /\ AtMostOne(s.vesting) /\ s.vesting \subseteq Vesting
  BY <1>0, <1>2 DEF StakesInv, StakeSound, Stake
<1>4. Unvested(s) \in Nat
  BY UnvestedIs, <1>3 DEF AtMostOne
<1>5. Penalty(s) \in Nat
  BY <1>0, <1>3, PenaltyIsNatural
<1> HIDE DEF s
<1>6. pool' \in Nat
  BY <1>0, <1>2, <1>4, <1>5 DEF ConfigInv
<1>7. StakesInv'
  BY <1>0, <1>1, UnstakeKeepsStakes
<1> QED
  BY <1>2, <1>6, <1>7, PartsStayNow DEF StakingInv

\* The admin's messages.
LEMMA AdminNextKeeps ==
    ASSUME StakingInv, FundNext \/ ConfigNext
    PROVE  StakingInv'
<1>0. ConfigInv
  BY DEF StakingInv
<1>1. ASSUME NEW a \in Stakers, NEW amount \in AmountArgs, FundRewardPool(a, amount)
      PROVE  StakingInv'
  <2>1. pool' \in Nat
    BY <1>0, <1>1, StakingFacts DEF FundRewardPool, ConfigInv
  <2>2. UNCHANGED <<block, stakeVars, configVars, ballotVars, validatorVars>>
    BY <1>1 DEF FundRewardPool
  <2> QED
    BY <2>1, <2>2, PartsStayNow DEF StakingInv
<1>2. ASSUME NEW a \in Stakers, NEW bps \in PenaltyArgs, SetEarlyWithdrawalPenalty(a, bps)
      PROVE  StakingInv'
  <2>1. penaltyBps' \in 0..MaxPenalty
    BY <1>2, StakingFacts DEF SetEarlyWithdrawalPenalty
  <2>2. UNCHANGED <<block, stakeVars, pool, paramVars, coordinator, ballotVars, validatorVars>>
    BY <1>2 DEF SetEarlyWithdrawalPenalty
  <2>3. ConfigInv'
    BY <1>0, <2>1, <2>2 DEF ConfigInv, paramVars
  <2> QED
    BY <2>2, <2>3, PartsStayNow DEF StakingInv
<1>3. ASSUME NEW a \in Stakers, NEW min \in AmountArgs, NEW rate \in RateArgs, UpdateStakingConfig(a, min, rate)
      PROVE  StakingInv'
  <2>1. minStake' \in Nat \ {0} /\ rewardRate' \in Nat
    BY <1>3, StakingFacts DEF UpdateStakingConfig
  <2>2. UNCHANGED <<block, stakeVars, pool, votingPeriod, quorum, curve, penaltyBps, coordinator, ballotVars, validatorVars>>
    BY <1>3 DEF UpdateStakingConfig
  <2>3. ConfigInv'
    BY <1>0, <2>1, <2>2 DEF ConfigInv
  <2> QED
    BY <2>2, <2>3, PartsStayNow DEF StakingInv
<1> QED
  BY <1>1, <1>2, <1>3 DEF FundNext, ConfigNext

\* Proposals and votes.
LEMMA ParamNextKeeps ==
    ASSUME StakingInv, ParamNext
    PROVE  StakingInv'
<1>0. ClockInv /\ StakesInv /\ ConfigInv /\ BallotInv /\ DelegationsInv
  BY DEF StakingInv
<1>1. ASSUME NEW a \in Stakers, NEW kind \in ParamArgs, ProposeParamChange(a, kind)
      PROVE  StakingInv'
  BY <1>0, <1>1, ProposeKeeps, PartsStayNow DEF ProposeParamChange, StakingInv
<1>2. ASSUME NEW a \in Stakers, NEW p \in 1..Len(paramProposals), NEW support \in BOOLEAN, VoteOnProposal(a, p, support)
      PROVE  StakingInv'
  <2>1. BallotInv'
    BY <1>0, <1>2, VoteKeeps
  <2>2. UNCHANGED <<block, stakeVars, pool, configVars, validatorVars>>
    BY <1>2 DEF VoteOnProposal
  <2> QED
    BY <2>1, <2>2, PartsStayNow DEF StakingInv
<1>3. ASSUME NEW a \in Stakers, NEW p \in 1..Len(paramProposals), CancelParamProposal(a, p)
      PROVE  StakingInv'
  <2>1. BallotInv'
    BY <1>0, <1>3, CancelKeeps
  <2>2. UNCHANGED <<block, stakeVars, pool, configVars, validatorVars>>
    BY <1>3 DEF CancelParamProposal
  <2> QED
    BY <2>1, <2>2, PartsStayNow DEF StakingInv
<1>4. ASSUME NEW p \in 1..Len(paramProposals), ExecuteParamProposal(p)
      PROVE  StakingInv'
  <2>1. BallotInv' /\ ConfigInv'
    BY <1>0, <1>4, ExecuteKeeps
  <2>2. UNCHANGED <<block, stakeVars, validatorVars>>
    BY <1>4 DEF ExecuteParamProposal
  <2> QED
    BY <2>1, <2>2, PartsStayNow DEF StakingInv
<1> QED
  BY <1>1, <1>2, <1>3, <1>4 DEF ParamNext

\* Validators, their slashes and the delegations to them.
LEMMA DelegationNextKeeps ==
    ASSUME StakingInv, ValidatorNext \/ DelegationNext
    PROVE  StakingInv'
<1>0. ClockInv /\ StakesInv /\ ConfigInv /\ BallotInv /\ DelegationsInv
  BY DEF StakingInv
<1>1. ASSUME DelegationsInv', UNCHANGED <<block, stakeVars, pool, configVars, ballotVars>>
      PROVE  StakingInv'
  BY <1>1, PartsStayNow DEF StakingInv
<1>2. ASSUME NEW a \in Stakers, NEW self \in AmountArgs, NEW rate \in CommissionArgs, RegisterValidator(a, self, rate)
      PROVE  StakingInv'
  BY <1>0, <1>2, RegisterKeeps, StakingFacts, <1>1 DEF RegisterValidator
<1>3. ASSUME NEW a \in Stakers, NEW rate \in CommissionArgs, UpdateCommissionRate(a, rate)
      PROVE  StakingInv'
  <2>1. DelegationsInv'
    BY <1>0, <1>3, ValidatorKeeps, StakingFacts
  <2>2. UNCHANGED <<block, stakeVars, pool, configVars, ballotVars>>
    BY <1>3 DEF UpdateCommissionRate, SetValidator
  <2> QED
    BY <1>1, <2>1, <2>2
<1>4. ASSUME NEW a \in Stakers, DeactivateValidator(a) \/ ReactivateValidator(a)
      PROVE  StakingInv'
  BY <1>0, <1>4, ValidatorKeeps, <1>1 DEF DeactivateValidator, ReactivateValidator, SetValidator
<1>5. ASSUME NEW a \in Stakers, NEW c \in Stakers, SetSlashingCoordinator(a, c)
      PROVE  StakingInv'
  BY <1>5, <1>0, PartsStayNow DEF SetSlashingCoordinator, ConfigInv, paramVars, AtMostOne, StakingInv
<1>6. ASSUME NEW a \in Stakers, NEW v \in Stakers, SlashValidator(a, v)
      PROVE  StakingInv'
  <2>1. DelegationsInv'
    BY <1>0, <1>6, SlashKeeps
  <2>2. UNCHANGED <<block, stakeVars, pool, configVars, ballotVars>>
    BY <1>6 DEF SlashValidator
  <2> QED
    BY <1>1, <2>1, <2>2
<1>7. ASSUME NEW a \in Stakers, NEW v \in Stakers, NEW amount \in AmountArgs, Delegate(a, v, amount)
      PROVE  StakingInv'
  <2>1. DelegationsInv'
    BY <1>0, <1>7, DelegateKeeps, StakingFacts
  <2>2. UNCHANGED <<block, stakeVars, pool, configVars, ballotVars>>
    BY <1>7 DEF Delegate
  <2> QED
    BY <1>1, <2>1, <2>2
<1>8. ASSUME NEW a \in Stakers, NEW v \in Stakers, Undelegate(a, v)
      PROVE  StakingInv'
  <2>1. DelegationsInv'
    BY <1>0, <1>8, UndelegateKeeps
  <2>2. UNCHANGED <<block, stakeVars, pool, configVars, ballotVars>>
    BY <1>8 DEF Undelegate
  <2> QED
    BY <1>1, <2>1, <2>2
<1>9. ASSUME NEW a \in Stakers, NEW v \in Stakers, ClaimUndelegated(a, v)
      PROVE  StakingInv'
  <2>1. DelegationsInv'
    BY <1>0, <1>9, ClaimUndelegatedKeeps
  <2>2. UNCHANGED <<block, stakeVars, pool, configVars, ballotVars>>
    BY <1>9 DEF ClaimUndelegated
  <2> QED
    BY <1>1, <2>1, <2>2
<1>10. CASE ValidatorNext
  BY <1>2, <1>3, <1>4, <1>5, <1>6, <1>10 DEF ValidatorNext
<1>11. CASE DelegationNext
  BY <1>7, <1>8, <1>9, <1>11 DEF DelegationNext
<1> QED
  BY <1>10, <1>11

\* The inductive invariant holds when the contract is deployed.
LEMMA StakingInvInit ==
    ASSUME ChainInit, StakingInit
    PROVE  StakingInv
<1>1. DOMAIN Nothing = {}
  BY DEF Nothing
<1>2. /\ stakes = Nothing /\ totalStaked = 0 /\ power = [a \in Stakers |-> 0] /\ stakerList = << >>
      /\ pool = 0 /\ rewardRate = InitialRate /\ minStake = InitialMinStake
      /\ votingPeriod = InitialVotingPeriod /\ quorum = InitialQuorum /\ curve = "Linear"
      /\ penaltyBps = InitialPenalty /\ coordinator = {}
      /\ paramProposals = << >> /\ activeCount = 0 /\ paramVotes = {}
      /\ validators = Nothing /\ delegations = Nothing /\ totalDelegated = 0
      /\ delegators = [a \in Stakers |-> << >>] /\ delegatorValidator = Nothing /\ block = 1
  BY DEF ChainInit, StakingInit
<1>3. << >> \in Seq(Stakers) /\ IsInjective(<< >>) /\ ToSet(<< >>) = {} /\ DOMAIN << >> = {} /\ << >> \in Seq(ParamProposal)
  BY DEF IsInjective, ToSet
<1>4. ClockInv
  BY <1>2 DEF ClockInv
<1>5. StakesInv
  BY <1>1, <1>2, SumEmpty, <1>3 DEF Entrusted, StakesInv, StakesAddUp
<1>6. ConfigInv
  BY <1>2, StakingConstants DEF ConfigInv, AtMostOne, Curve
<1>7. BallotInv
  BY <1>2, <1>3, FS_EmptySet DEF Open, ActiveCountRecounts, BallotInv
<1>8. DelegationsInv
  <2>1. DOMAIN delegations = {} /\ DOMAIN validators = {} /\ DOMAIN delegatorValidator = {} /\ IsFiniteSet({})
    BY <1>1, <1>2, FS_EmptySet
  <2>2. \A vs : Bonded(delegations, vs) = {}
    BY <2>1 DEF Bonded
  <2>3. \A vs : BondedTo(delegations, vs) = 0
    BY <2>2, SumEmpty DEF BondedTo
  <2>4. \A u : NamedBy(delegations, u) = {}
    BY <2>1 DEF NamedBy
  <2>5. Tracked(delegations, validators, totalDelegated, delegators)
    <3>1. \A u \in Stakers : IsInjective(delegators[u]) /\ ToSet(delegators[u]) = NamedBy(delegations, u)
      BY <1>2, <1>3, <2>4
    <3>2. totalDelegated <= BondedTo(delegations, DOMAIN validators)
      BY <1>2, <2>3
    <3> QED
      BY <2>1, <3>1, <3>2 DEF Tracked
  <2> QED
    BY <1>2, <1>3, <2>1, <2>5, TrackedIs DEF DelegationsInv
<1> QED
  BY <1>4, <1>5, <1>6, <1>7, <1>8 DEF StakingInv

\* No step of the contract, and no passing of blocks, breaks it.
LEMMA StakingInvStep ==
    ASSUME StakingInv, StakingNext \/ UNCHANGED stakingVars
    PROVE  StakingInv'
<1>1. CASE StakingTimeNext
  BY <1>1, PartsStay DEF StakingTimeNext, NextBlock, StakingInv, ClockInv, ConfigInv
<1>2. CASE UNCHANGED stakingVars
  BY <1>2, PartsStayNow DEF stakingVars, StakingInv
<1> QED
  BY <1>1, <1>2, ClaimNextKeeps, StakeNextKeeps, UnstakeNextKeeps, AdminNextKeeps, ParamNextKeeps, DelegationNextKeeps
     DEF StakingNext

----
\* What follows for every behaviour

\* An option holds at most one value.
LEMMA AtMostOneCounts ==
    ASSUME NEW set, AtMostOne(set)
    PROVE  Cardinality(set) <= 1
<1>1. Cardinality({}) = 0 /\ \A x : Cardinality({x}) = 1
  BY FS_EmptySet, FS_Singleton
<1>2. CASE set = {}
  BY <1>1, <1>2
<1>3. ASSUME NEW x \in set, set = {x}
      PROVE  Cardinality(set) <= 1
  BY <1>1, <1>3
<1> QED
  BY <1>2, <1>3 DEF AtMostOne

\* The inductive invariant gives the books as they are checked.
LEMMA StakingInvImplies ==
    ASSUME StakingInv
    PROVE  StakingBooksAgree /\ DelegationsTracked
<1>0. ClockInv /\ StakesInv /\ ConfigInv /\ BallotInv /\ DelegationsInv
  BY DEF StakingInv
<1>1. /\ DOMAIN stakes \subseteq Stakers
      /\ \A a \in DOMAIN stakes :
            /\ stakes[a] \in Stake
            /\ a \notin stakes[a].delegate /\ Cardinality(stakes[a].delegate) <= 1
            /\ Cardinality(stakes[a].vesting) <= 1
      /\ power \in [Stakers -> Nat] /\ stakerList \in Seq(Stakers) /\ totalStaked \in Nat
  BY <1>0, AtMostOneCounts DEF StakesInv, StakeSound
<1>2. /\ pool \in Nat /\ rewardRate \in Nat
      /\ {minStake, votingPeriod} \subseteq Nat \ {0}
      /\ quorum \in 1..BPS /\ curve \in Curve /\ penaltyBps \in 0..MaxPenalty
      /\ coordinator \subseteq Stakers /\ Cardinality(coordinator) <= 1
  BY <1>0, AtMostOneCounts DEF ConfigInv
<1>3. /\ paramProposals \in Seq(ParamProposal) /\ activeCount \in Nat
      /\ paramVotes \subseteq (1..Len(paramProposals)) \X Stakers
  BY <1>0 DEF BallotInv
<1>4. /\ DOMAIN validators \subseteq Stakers
      /\ \A v \in DOMAIN validators : validators[v] \in Validator
      /\ DOMAIN delegations \subseteq Stakers \X DOMAIN validators
      /\ \A k \in DOMAIN delegations :
            /\ delegations[k] \in Delegation
            /\ delegations[k].unbonding \subseteq 1..block
      /\ delegators \in [Stakers -> Seq(Stakers)]
      /\ DOMAIN delegatorValidator \subseteq Stakers /\ totalDelegated \in Nat
  BY <1>0 DEF DelegationsInv
<1>5. block \in Nat
  BY <1>0 DEF ClockInv
<1>6. StakingTypeOK
  BY <1>1, <1>2, <1>3, <1>4, <1>5 DEF StakingTypeOK
<1> QED
  BY <1>0, <1>6 DEF StakingBooksAgree, StakesInv, BallotInv, DelegationsInv

\* However many accounts stake, compound, pass their power on, vote, delegate and are slashed,
\* and in whatever order, the books of the contract agree: the total is the sum of the stakes, an
\* account's power is the sum of the stakes that name it, the list of stakers names each once, and
\* the count of open proposals is a recount (stake, unstake, claim_rewards, delegate_governance,
\* create_param_proposal, execute_param_proposal).
THEOREM StakingBooks == StakingSpec => []StakingBooksAgree
<1>1. ChainInit /\ StakingInit => StakingInv
  BY StakingInvInit
<1>2. StakingInv /\ [StakingNext]_stakingVars => StakingInv'
  BY StakingInvStep
<1>3. StakingInv => StakingBooksAgree
  BY StakingInvImplies
<1> QED
  BY <1>1, <1>2, <1>3, PTL DEF StakingSpec

\* No validator, nor the contract, ever counts more stake than is delegated and not unbonding,
\* whatever is slashed while some delegators unbond, and the lists of delegators name those who
\* delegate (delegate, undelegate, claim_undelegated, slash_validator).
THEOREM DelegatedStakeIsTracked == StakingSpec => []DelegationsTracked
<1>1. ChainInit /\ StakingInit => StakingInv
  BY StakingInvInit
<1>2. StakingInv /\ [StakingNext]_stakingVars => StakingInv'
  BY StakingInvStep
<1>3. StakingInv => DelegationsTracked
  BY StakingInvImplies
<1> QED
  BY <1>1, <1>2, <1>3, PTL DEF StakingSpec

----
\* The reward pool and its ledger

\* What stakes st promise to pay out as they vest, and the sum of it.
Promises(st) == [a \in DOMAIN st |-> Unvested(st[a])]
Promised(st) == SumFunctionOnSet(Promises(st), DOMAIN st)

\* Finitely many stakes, each with at most one vesting.
Vests(st) == IsFiniteSet(DOMAIN st) /\ \A a \in DOMAIN st : st[a].vesting \subseteq Vesting /\ AtMostOne(st[a].vesting)

\* What a stake promises is a natural number, and depends on its vesting only.
LEMMA UnvestedIsNatural ==
    ASSUME NEW s, s.vesting \subseteq Vesting, AtMostOne(s.vesting)
    PROVE  Unvested(s) \in Nat
  BY UnvestedIs DEF AtMostOne

\* The stakes of the contract promise natural amounts.
LEMMA StakesVest ==
    ASSUME StakesInv
    PROVE  Vests(stakes) /\ Promised(stakes) \in Int /\ Reserved = Promised(stakes) /\ Reserved' = Promised(stakes')
<1>1. Vests(stakes)
  BY StakersAreFinite DEF StakesInv, StakeSound, Stake, Vests
<1>2. \A a \in DOMAIN stakes : Promises(stakes)[a] \in Int
  BY <1>1, UnvestedIsNatural DEF Promises, Vests
<1>3. Promised(stakes) \in Int
  BY <1>1, <1>2, SumType DEF Promised, Vests
<1> QED
  BY <1>1, <1>3 DEF Reserved, Promised, Promises

\* One stake comes, goes or changes what it promises.
OneVesting(st, tt, a, old, new) ==
    /\ DOMAIN tt \ {a} = DOMAIN st \ {a} /\ \A b \in DOMAIN st \ {a} : tt[b] = st[b]
    /\ old \in Int /\ new \in Int
    /\ IF a \in DOMAIN st THEN old = Unvested(st[a]) ELSE old = 0
    /\ IF a \in DOMAIN tt THEN new = Unvested(tt[a]) ELSE new = 0

\* Replacing one vesting by another changes what is promised by their difference.
LEMMA PromisesSwap ==
    ASSUME NEW st, Vests(st), NEW tt, NEW a, NEW old, NEW new, OneVesting(st, tt, a, old, new)
    PROVE  Promised(tt) = Promised(st) - old + new
  BY UnvestedIsNatural, SumSwap DEF Vests, OneVesting, Promises, Promised

\* So do the stakes after a step.
LEMMA PromisedNext ==
    ASSUME StakingInv'
    PROVE  Promised(stakes') \in Int
<1>1. StakesInv'
  BY DEF StakingInv
<1>2. \A a \in DOMAIN stakes' : stakes'[a].vesting \subseteq Vesting /\ AtMostOne(stakes'[a].vesting)
  BY <1>1 DEF StakesInv, StakeSound, Stake
<1>3. IsFiniteSet(DOMAIN stakes')
  BY <1>1, ListIsFinite DEF StakesInv, StakesAddUp
<1>4. \A a \in DOMAIN stakes' : Promises(stakes')[a] \in Int
  BY <1>2, UnvestedIsNatural DEF Promises
<1> QED
  BY <1>3, <1>4, SumType DEF Promised

\* The ledger's entries are integers, and the pool covers what they leave.
LedgerInv == StakingInv /\ ledger \in [in : Int, out : Int] /\ RewardsWereFunded

\* A step that adds in and out to the ledger, and that moves the pool and the promises no
\* further up than the entries account for, keeps it.
LEMMA LedgerBalances ==
    ASSUME LedgerInv, StakingInv', NEW in \in Int, NEW out \in Int,
           \/ ledger' = [ledger EXCEPT !.in = @ + in] /\ out = 0
           \/ ledger' = [ledger EXCEPT !.out = @ + out] /\ in = 0
           \/ ledger' = ledger /\ in = 0 /\ out = 0,
           out + (pool' - pool) + (Promised(stakes') - Promised(stakes)) <= in
    PROVE  LedgerInv'
<1>1. /\ ledger \in [in : Int, out : Int] /\ ledger.in \in Int /\ ledger.out \in Int
      /\ ledger.out + pool + Reserved <= ledger.in
  BY DEF LedgerInv, RewardsWereFunded
<1>2. Reserved = Promised(stakes) /\ Reserved' = Promised(stakes') /\ Promised(stakes) \in Int
  BY StakesVest DEF LedgerInv, StakingInv
<1>3. Promised(stakes') \in Int
  BY PromisedNext
<1>4. pool \in Int /\ pool' \in Int
  BY DEF LedgerInv, StakingInv, ConfigInv
<1>5. ledger' \in [in : Int, out : Int] /\ ledger'.in = ledger.in + in /\ ledger'.out = ledger.out + out
  BY <1>1
<1>6. ledger'.out + pool' + Reserved' <= ledger'.in
  BY <1>2, <1>3, <1>1, <1>4, <1>5
<1> QED
  BY <1>5, <1>6 DEF LedgerInv, RewardsWereFunded

\* A stake rewritten without its vesting promises what it did.
LEMMA VestingStays ==
    ASSUME StakesInv, NEW a \in DOMAIN stakes, NEW z, stakes' = [stakes EXCEPT ![a] = z], z.vesting = stakes[a].vesting
    PROVE  Promised(stakes') = Promised(stakes)
<1> DEFINE s == stakes[a]
           u == Unvested(s)
<1>1. Unvested(z) = u
  BY DEF Unvested
<1>2. Vests(stakes) /\ Promised(stakes) \in Int
  BY StakesVest
<1>3. u \in Int
  BY <1>2, UnvestedIsNatural DEF Vests
<1>4. OneVesting(stakes, stakes', a, u, u)
  BY <1>1, <1>3 DEF OneVesting
<1> HIDE DEF u
<1>5. Promised(stakes') = Promised(stakes) - u + u
  BY <1>2, <1>4, PromisesSwap
<1> QED
  BY <1>2, <1>3, <1>5

\* A claim of vested rewards takes no more from the pool than from what was promised: rewards that
\* vest leave the pool a second time, after stake_with_vesting set them aside.
LEMMA ClaimPromises ==
    ASSUME ClockInv, StakesInv, ConfigInv, NEW caller \in Stakers, ClaimRewards(caller)
    PROVE  Promised(stakes') <= Promised(stakes)
<1>0. Vests(stakes) /\ Promised(stakes) \in Int /\ caller \in DOMAIN stakes
  BY StakesVest DEF ClaimRewards
<1>1. ASSUME NEW v \in stakes[caller].vesting, ClaimVested(caller, v)
      PROVE  Promised(stakes') <= Promised(stakes)
  <2> DEFINE s == stakes[caller]
             claim == VestedClaimable(s, v)
             w == [v EXCEPT !.vested = @ + claim]
             z == [s EXCEPT !.vesting = {w}]
             old == Unvested(s)
             new == Unvested(z)
  <2>1. s \in Stake /\ v \in Vesting /\ v.start < v.end /\ s.vesting = {v}
    BY <1>0, <1>1 DEF StakesInv, StakeSound, Stake, AtMostOne
  <2>2. claim \in Nat /\ stakes' = [stakes EXCEPT ![caller] = z]
    BY <1>1, <2>1, VestedIsNatural DEF ClaimVested
  <2> HIDE DEF claim
  <2>3. w \in Vesting /\ w.total = v.total /\ w.vested = v.vested + claim /\ v.total \in Nat /\ v.vested \in Nat
    BY <2>1, <2>2 DEF Vesting
  <2> HIDE DEF w
  <2>4. z.vesting = {w}
    BY <2>1 DEF Stake
  <2> HIDE DEF z
  <2>5. old = Saturating(v.total, v.vested) /\ new = Saturating(w.total, w.vested)
    BY <2>1, <2>3, <2>4, UnvestedIs
  <2>6. old \in Int /\ new \in Int /\ new <= old
    BY <2>2, <2>3, <2>5 DEF Saturating
  <2>7. OneVesting(stakes, stakes', caller, old, new)
    BY <1>0, <2>2, <2>6 DEF OneVesting
  <2> HIDE DEF old, new
  <2>8. Promised(stakes') = Promised(stakes) - old + new
    BY <1>0, <2>7, PromisesSwap
  <2> QED
    BY <1>0, <2>6, <2>8
<1>2. ASSUME stakes[caller].vesting = {}, ClaimAccrued(caller)
      PROVE  Promised(stakes') <= Promised(stakes)
  <2> DEFINE s == stakes[caller]
             sum == s.amount + (IF s.auto THEN Rewards(s) ELSE 0)
             z == [s EXCEPT !.amount = sum, !.stakedAt = block]
  <2>1. s \in Stake
    BY <1>0 DEF StakesInv, StakeSound
  <2>2. stakes' = [stakes EXCEPT ![caller] = z]
    BY <1>2 DEF ClaimAccrued
  <2> HIDE DEF sum
  <2>3. z.vesting = s.vesting
    BY <2>1 DEF Stake
  <2> HIDE DEF z
  <2>4. Promised(stakes') = Promised(stakes)
    BY <1>0, <2>2, <2>3, VestingStays
  <2> QED
    BY <1>0, <2>4
<1> QED
  BY <1>1, <1>2 DEF ClaimRewards

\* What a new stake promises leaves the pool.
LEMMA NewPromises ==
    ASSUME ClockInv, StakesInv, NEW caller \in Stakers, NEW amount, NEW lock, NEW original, NEW vesting,
           vesting \subseteq Vesting, AtMostOne(vesting), AddStake(caller, StakeOf(amount, lock, original, vesting))
    PROVE  /\ vesting = {} => Promised(stakes') = Promised(stakes)
           /\ \A v \in Vesting : vesting = {v} => Promised(stakes') = Promised(stakes) + Saturating(v.total, v.vested)
<1> DEFINE s == StakeOf(amount, lock, original, vesting)
           new == Unvested(s)
<1>1. Vests(stakes) /\ Promised(stakes) \in Int
  BY StakesVest
<1>2. caller \notin DOMAIN stakes /\ stakes' = With(stakes, caller, s)
  BY DEF AddStake
<1>3. s.vesting = vesting
  BY DEF StakeOf
<1> HIDE DEF s
<1>4. new \in Int
  BY <1>3, UnvestedIsNatural
<1>5. /\ DOMAIN stakes' = DOMAIN stakes \cup {caller} /\ stakes'[caller] = s
      /\ \A b \in DOMAIN stakes : stakes'[b] = stakes[b]
  BY <1>2 DEF With
<1>6. OneVesting(stakes, stakes', caller, 0, new)
  BY <1>2, <1>4, <1>5 DEF OneVesting
<1>7. /\ vesting = {} => new = 0
      /\ \A v \in Vesting : vesting = {v} => new = Saturating(v.total, v.vested)
  BY <1>3, UnvestedIs
<1> HIDE DEF new
<1>8. Promised(stakes') = Promised(stakes) - 0 + new
  BY <1>1, <1>6, PromisesSwap
<1>9. Promised(stakes') = Promised(stakes) + new
  BY <1>1, <1>4, <1>8
<1> QED
  BY <1>1, <1>7, <1>9

\* A stake that leaves takes its promise along.
LEMMA UnstakePromises ==
    ASSUME ClockInv, StakesInv, NEW caller \in Stakers, Unstake(caller)
    PROVE  Promised(stakes') = Promised(stakes) - Unvested(stakes[caller]) /\ Unvested(stakes[caller]) \in Int
  BY StakesVest, UnvestedIsNatural, PromisesSwap DEF Unstake, Vests, Without, OneVesting

\* Every entry of the ledger covers what its step takes from the pool or promises.
LEMMA LedgerStep ==
    ASSUME LedgerInv, LedgerNext
    PROVE  LedgerInv'
<1>0. /\ StakingInv /\ ClockInv /\ StakesInv /\ ConfigInv /\ DelegationsInv
      /\ pool \in Nat /\ Promised(stakes) \in Int /\ Vests(stakes)
  BY StakesVest DEF LedgerInv, StakingInv, ConfigInv
<1>1. StakingInv'
  BY <1>0, StakingInvStep DEF LedgerNext, StakingNext, UnstakeNext
<1>2. pool' \in Int
  BY <1>1 DEF StakingInv, ConfigInv
<1>3. ASSUME stakes' = stakes, pool' = pool, ledger' = ledger
      PROVE  LedgerInv'
  BY <1>0, <1>3, <1>1, LedgerBalances
<1>4. ASSUME FundNext, ledger' = [ledger EXCEPT !.in = @ + (pool' - pool)]
      PROVE  LedgerInv'
  <2>1. stakes' = stakes
    BY <1>4 DEF FundNext, FundRewardPool, stakeVars
  <2> DEFINE in == pool' - pool
  <2>2. in \in Int /\ 0 \in Int /\ 0 + (pool' - pool) + (Promised(stakes') - Promised(stakes)) <= in
    BY <1>0, <1>2, <2>1
  <2>3. ledger' = [ledger EXCEPT !.in = @ + in]
    BY <1>4
  <2> HIDE DEF in
  <2> QED
    BY <1>1, <2>2, <2>3, LedgerBalances
<1>5. ASSUME NEW a \in Stakers, Unstake(a), ledger' = [ledger EXCEPT !.in = @ + Penalty(stakes[a])]
      PROVE  LedgerInv'
  <2> DEFINE in == Penalty(stakes[a])
             left == Unvested(stakes[a])
  <2>1. a \in DOMAIN stakes /\ pool' = pool + left + in
    BY <1>5 DEF Unstake
  <2>2. in \in Int
    BY <1>0, <2>1, PenaltyIsNatural DEF StakesInv, StakeSound
  <2>3. Promised(stakes') = Promised(stakes) - left /\ left \in Int
    BY <1>0, <1>5, UnstakePromises
  <2>4. ledger' = [ledger EXCEPT !.in = @ + in]
    BY <1>5
  <2> HIDE DEF in, left
  <2>5. 0 \in Int /\ 0 + (pool' - pool) + (Promised(stakes') - Promised(stakes)) <= in
    BY <1>0, <2>1, <2>2, <2>3
  <2> QED
    BY <1>1, <2>2, <2>4, <2>5, LedgerBalances
<1>6. ASSUME ClaimNext, ledger' = [ledger EXCEPT !.out = @ + (pool - pool')]
      PROVE  LedgerInv'
  <2> DEFINE out == pool - pool'
  <2>1. ledger' = [ledger EXCEPT !.out = @ + out] /\ out \in Int /\ 0 \in Int
    BY <1>0, <1>2, <1>6
  <2>2. Promised(stakes') <= Promised(stakes) /\ Promised(stakes') \in Int
    <3>1. ASSUME NEW a \in Stakers, ClaimRewards(a)
          PROVE  Promised(stakes') <= Promised(stakes)
      BY <1>0, <3>1, ClaimPromises
    <3>2. ASSUME NEW a \in Stakers, ClaimValidatorCommission(a)
          PROVE  stakes' = stakes
      BY <3>2 DEF ClaimValidatorCommission, SetValidator, stakeVars
    <3>3. ASSUME NEW k, ClaimDelegationRewards(k[1], k[2])
          PROVE  stakes' = stakes
      BY <3>3 DEF ClaimDelegationRewards, stakeVars
    <3>4. stakes' = stakes => Promised(stakes') <= Promised(stakes)
      BY <1>0
    <3>5. Promised(stakes') <= Promised(stakes)
      BY <1>6, <3>1, <3>2, <3>3, <3>4 DEF ClaimNext
    <3>6. Promised(stakes') \in Int
      BY <1>1, PromisedNext
    <3> QED
      BY <3>5, <3>6
  <2>3. out + (pool' - pool) + (Promised(stakes') - Promised(stakes)) <= 0
    BY <1>0, <1>2, <2>2
  <2> HIDE DEF out
  <2> QED
    BY <1>1, <2>1, <2>3, LedgerBalances
<1>7. ASSUME StakeNext, ledger' = ledger
      PROVE  LedgerInv'
  <2>1. ASSUME NEW a \in Stakers, NEW amount \in AmountArgs, NEW lock \in LockArgs, StakeTokens(a, amount, lock)
        PROVE  LedgerInv'
    <3>1. AddStake(a, StakeOf(amount, lock, amount, {})) /\ pool' = pool
      BY <2>1 DEF StakeTokens
    <3>2. Promised(stakes') = Promised(stakes)
      BY <1>0, <3>1, NewPromises DEF AtMostOne
    <3>3. 0 + (pool' - pool) + (Promised(stakes') - Promised(stakes)) <= 0 /\ 0 \in Int
      BY <1>0, <3>1, <3>2
    <3> QED
      BY <1>1, <1>7, <3>3, LedgerBalances
  <2>2. ASSUME NEW a \in Stakers, NEW amount \in AmountArgs, NEW lock \in LockArgs, NEW rewards \in AmountArgs,
               NEW times \in VestingArgs, StakeWithVesting(a, amount, lock, rewards, times[1], times[2])
        PROVE  LedgerInv'
    <3> DEFINE v == [total |-> rewards, vested |-> 0, start |-> block, cliff |-> block + times[1],
                     end |-> block + times[1] + times[2]]
    <3>1. AddStake(a, StakeOf(amount, lock, rewards, {v})) /\ pool' = pool - rewards
      BY <2>2 DEF StakeWithVesting
    <3>2. rewards \in Nat /\ times[1] \in Nat /\ times[2] \in Nat /\ block \in Nat
      BY <1>0, StakingFacts DEF ClockInv
    <3>3. v \in Vesting /\ v.total = rewards /\ v.vested = 0
      BY <3>2 DEF Vesting
    <3> HIDE DEF v
    <3>4. Promised(stakes') = Promised(stakes) + Saturating(v.total, v.vested)
      BY <1>0, <3>1, <3>3, NewPromises DEF AtMostOne
    <3>5. Saturating(v.total, v.vested) = rewards
      BY <3>2, <3>3 DEF Saturating
    <3>6. 0 + (pool' - pool) + (Promised(stakes') - Promised(stakes)) <= 0 /\ 0 \in Int
      BY <1>0, <3>1, <3>2, <3>4, <3>5
    <3> QED
      BY <1>1, <1>7, <3>6, LedgerBalances
  <2>3. ASSUME NEW a \in DOMAIN stakes, NEW z, stakes' = [stakes EXCEPT ![a] = z], z.vesting = stakes[a].vesting, pool' = pool
        PROVE  LedgerInv'
    <3>1. Promised(stakes') = Promised(stakes)
      BY <1>0, <2>3, VestingStays
    <3>2. 0 + (pool' - pool) + (Promised(stakes') - Promised(stakes)) <= 0 /\ 0 \in Int
      BY <1>0, <2>3, <3>1
    <3> QED
      BY <1>1, <1>7, <3>2, LedgerBalances
  <2>4. ASSUME NEW a \in Stakers, NEW auto \in BOOLEAN, SetAutoCompound(a, auto)
        PROVE  LedgerInv'
    <3> DEFINE z == [stakes[a] EXCEPT !.auto = auto]
    <3>1. a \in DOMAIN stakes /\ stakes' = [stakes EXCEPT ![a] = z] /\ pool' = pool
      BY <2>4 DEF SetAutoCompound
    <3>2. stakes[a] \in Stake
      BY <1>0, <3>1 DEF StakesInv, StakeSound
    <3>3. z.vesting = stakes[a].vesting
      BY <3>2 DEF Stake
    <3> HIDE DEF z
    <3> QED
      BY <2>3, <3>1, <3>3
  <2>5. ASSUME NEW a \in Stakers, NEW d \in Stakers, DelegateGovernance(a, d)
        PROVE  LedgerInv'
    <3> DEFINE z == [stakes[a] EXCEPT !.delegate = {d}]
    <3>1. a \in DOMAIN stakes /\ stakes' = [stakes EXCEPT ![a] = z] /\ pool' = pool
      BY <2>5 DEF DelegateGovernance
    <3>2. stakes[a] \in Stake
      BY <1>0, <3>1 DEF StakesInv, StakeSound
    <3>3. z.vesting = stakes[a].vesting
      BY <3>2 DEF Stake
    <3> HIDE DEF z
    <3> QED
      BY <2>3, <3>1, <3>3
  <2> QED
    BY <1>7, <2>1, <2>2, <2>4, <2>5 DEF StakeNext
<1>8. ASSUME ConfigNext \/ ParamNext \/ ValidatorNext \/ DelegationNext \/ StakingTimeNext
      PROVE  stakes' = stakes /\ pool' = pool
  <2>1. \A a, bps : SetEarlyWithdrawalPenalty(a, bps) => UNCHANGED <<stakeVars, pool>>
    BY DEF SetEarlyWithdrawalPenalty
  <2>2. \A a, min, rate : UpdateStakingConfig(a, min, rate) => UNCHANGED <<stakeVars, pool>>
    BY DEF UpdateStakingConfig
  <2>3. \A a, kind : ProposeParamChange(a, kind) => UNCHANGED <<stakeVars, pool>>
    BY DEF ProposeParamChange
  <2>4. \A a, p, support : VoteOnProposal(a, p, support) => UNCHANGED <<stakeVars, pool>>
    BY DEF VoteOnProposal
  <2>5. \A a, p : CancelParamProposal(a, p) => UNCHANGED <<stakeVars, pool>>
    BY DEF CancelParamProposal
  <2>6. \A p : ExecuteParamProposal(p) => UNCHANGED <<stakeVars, pool>>
    BY DEF ExecuteParamProposal
  <2>7. \A a, self, rate : RegisterValidator(a, self, rate) => UNCHANGED <<stakeVars, pool>>
    BY DEF RegisterValidator
  <2>8. \A a, rate : UpdateCommissionRate(a, rate) => UNCHANGED <<stakeVars, pool>>
    BY DEF UpdateCommissionRate, SetValidator
  <2>9. \A a : DeactivateValidator(a) \/ ReactivateValidator(a) => UNCHANGED <<stakeVars, pool>>
    BY DEF DeactivateValidator, ReactivateValidator, SetValidator
  <2>10. \A a, c : SetSlashingCoordinator(a, c) => UNCHANGED <<stakeVars, pool>>
    BY DEF SetSlashingCoordinator
  <2>11. \A a, v : SlashValidator(a, v) => UNCHANGED <<stakeVars, pool>>
    BY DEF SlashValidator
  <2>12. \A a, v, amount : Delegate(a, v, amount) => UNCHANGED <<stakeVars, pool>>
    BY DEF Delegate
  <2>13. \A a, v : Undelegate(a, v) => UNCHANGED <<stakeVars, pool>>
    BY DEF Undelegate
  <2>14. \A a, v : ClaimUndelegated(a, v) => UNCHANGED <<stakeVars, pool>>
    BY DEF ClaimUndelegated
  <2>15. StakingTimeNext => UNCHANGED <<stakeVars, pool>>
    BY DEF StakingTimeNext
  <2>16. ConfigNext => UNCHANGED <<stakeVars, pool>>
    BY <2>1, <2>2 DEF ConfigNext
  <2>17. ParamNext => UNCHANGED <<stakeVars, pool>>
    BY <2>3, <2>4, <2>5, <2>6 DEF ParamNext
  <2>18. ValidatorNext => UNCHANGED <<stakeVars, pool>>
    BY <2>7, <2>8, <2>9, <2>10, <2>11 DEF ValidatorNext
  <2>19. DelegationNext => UNCHANGED <<stakeVars, pool>>
    BY <2>12, <2>13, <2>14 DEF DelegationNext
  <2>20. UNCHANGED <<stakeVars, pool>>
    BY <1>8, <2>15, <2>16, <2>17, <2>18, <2>19
  <2> QED
    BY <2>20 DEF stakeVars
<1> QED
  BY <1>3, <1>4, <1>5, <1>6, <1>7, <1>8 DEF LedgerNext

\* Rewards are paid from what was put in, for any number of stakers, validators and delegators and
\* in whatever order stakes, claims, slashes and withdrawals come: what was paid out, what is left
\* in the pool and what is set aside for vesting never exceed what the admin funded and what early
\* withdrawals forfeited (fund_reward_pool, stake_with_vesting, claim_rewards, unstake,
\* claim_delegation_rewards, claim_validator_commission).
THEOREM RewardsAreFunded == LedgerSpec => []RewardsWereFunded
<1>1. ChainInit /\ StakingInit /\ ledger = [in |-> 0, out |-> 0] => LedgerInv
  BY StakingInvInit, SumEmpty DEF StakingInit, Nothing, Reserved, LedgerInv, RewardsWereFunded
<1>2. LedgerInv /\ [LedgerNext]_<<stakingVars, ledger>> => LedgerInv'
  <2> SUFFICES ASSUME LedgerInv, LedgerNext \/ UNCHANGED <<stakingVars, ledger>> PROVE LedgerInv'
    OBVIOUS
  <2>1. CASE UNCHANGED <<stakingVars, ledger>>
    BY <2>1, StakingInvStep DEF LedgerInv, stakingVars, stakeVars, Reserved, RewardsWereFunded
  <2> QED
    BY <2>1, LedgerStep
<1>3. LedgerInv => RewardsWereFunded
  BY DEF LedgerInv
<1> QED
  BY <1>1, <1>2, <1>3, PTL DEF LedgerSpec
====

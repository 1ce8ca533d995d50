---- MODULE RecordProofs ----
(***************************************************************************)
(* Proofs about the audit trail, for any number of actors, kinds of events *)
(* and records: the chain of hashes is intact in every behaviour, every    *)
(* record is in the index of its actor and of its type, and a record that  *)
(* was changed afterwards is found out by every check that covers it.      *)
(***************************************************************************)
EXTENDS MCRecords, Sums, SequenceTheorems

----
\* Appending to a sequence of whatever elements: hashes nest without end, so that
\* records have no set of their own to be typed by.

Contents(s) == {s[i] : i \in DOMAIN s}
IsSequence(s) == s \in Seq(Contents(s))

\* An appended element is the last one, and all others keep their place.
LEMMA AppendAny ==
    ASSUME NEW s, IsSequence(s), NEW e
    PROVE  /\ IsSequence(Append(s, e))
           /\ Len(s) \in Nat /\ DOMAIN s = 1..Len(s)
           /\ Len(Append(s, e)) = Len(s) + 1
           /\ Append(s, e) # << >>
           /\ \A j \in 1..Len(s) : Append(s, e)[j] = s[j]
           /\ Append(s, e)[Len(s) + 1] = e
<1> DEFINE T == Contents(s) \cup {e}
           a == Append(s, e)
<1>1. s \in Seq(T)
  BY DEF IsSequence
<1>2. /\ a \in Seq(T) /\ Len(s) \in Nat /\ DOMAIN s = 1..Len(s) /\ DOMAIN a = 1..Len(a)
      /\ Len(a) = Len(s) + 1
      /\ \A j \in 1..Len(s) : a[j] = s[j]
      /\ a[Len(s) + 1] = e
  BY <1>1, AppendProperties, LenProperties
<1>3. a \in [1..Len(a) -> T]
  BY <1>2, LenProperties
<1>4. \A i \in 1..Len(a) : a[i] \in Contents(a)
  BY <1>2 DEF Contents
<1>5. a \in [1..Len(a) -> Contents(a)] /\ Len(a) \in Nat
  <2> HIDE DEF a, T
  <2> QED
    BY <1>2, <1>3, <1>4
<1>6. a \in Seq(Contents(a))
  <2> DEFINE C == Contents(a)
  <2>1. a \in [1..Len(a) -> C] /\ Len(a) \in Nat
    BY <1>5
  <2> HIDE DEF a, C
  <2>2. a \in UNION {[1..n -> C] : n \in Nat}
    BY <2>1
  <2>3. a \in Seq(C)
    BY <2>2, SeqDef
  <2> QED
    BY <2>3 DEF C
<1>7. a # << >>
  BY <1>2, EmptySeq
<1> QED
  BY <1>2, <1>6, <1>7 DEF IsSequence

----
\* The invariant

\* One of the two indexes over n records with the given keys: by key, the ids of the
\* records that have it, in order.
IsIndex(index, Keys, n, keys) ==
    /\ index \in [Keys -> Seq(Nat)]
    /\ \A k \in Keys : \A i \in DOMAIN index[k] :
          /\ index[k][i] \in 1..n /\ keys[index[k][i]] = k
          /\ i > 1 => index[k][i - 1] < index[k][i]
    /\ \A id \in 1..n :
          /\ keys[id] \in Keys
          /\ \E i \in DOMAIN index[keys[id]] : index[keys[id]][i] = id

ActorOf == [id \in 1..Len(auditRecords) |-> auditRecords[id].actor]
TypeOf == [id \in 1..Len(auditRecords) |-> auditRecords[id].type]

TrailInv ==
    /\ IsSequence(auditRecords)
    /\ ChainIntact
    /\ IsIndex(actorIndex, Actors, Len(auditRecords), ActorOf)
    /\ IsIndex(typeIndex, EventTypes, Len(auditRecords), TypeOf)

\* The empty trail satisfies it.
LEMMA TrailInvInit == AuditInit => TrailInv
  BY EmptySeq DEF AuditInit, IsSequence, ChainIntact, IsIndex, TrailInv

\* An index stays one when the id of a new record is appended under its key.
LEMMA IndexGrows ==
    ASSUME NEW Keys, NEW index, NEW n \in Nat, NEW keys, NEW keysNew, NEW k \in Keys,
           IsIndex(index, Keys, n, keys),
           \A id \in 1..n : keysNew[id] = keys[id],
           keysNew[n + 1] = k
    PROVE  IsIndex([index EXCEPT ![k] = Append(@, n + 1)], Keys, n + 1, keysNew)
<1> DEFINE new == [index EXCEPT ![k] = Append(@, n + 1)]
           old == index[k]
           grown == Append(old, n + 1)
<1>1. index \in [Keys -> Seq(Nat)] /\ old \in Seq(Nat)
  BY DEF IsIndex
<1>2. /\ grown \in Seq(Nat) /\ Len(old) \in Nat
      /\ DOMAIN old = 1..Len(old) /\ DOMAIN grown = 1..Len(old) + 1
      /\ \A i \in 1..Len(old) : grown[i] = old[i]
      /\ grown[Len(old) + 1] = n + 1
  BY <1>1, AppendProperties, LenProperties
<1>3. /\ new \in [Keys -> Seq(Nat)] /\ new[k] = grown
      /\ \A key \in Keys : key # k => new[key] = index[key]
  BY <1>1, <1>2 DEF grown
<1>0. \A key \in Keys : \A i \in DOMAIN index[key] :
          /\ index[key][i] \in 1..n /\ keys[index[key][i]] = key /\ keysNew[index[key][i]] = key
          /\ i > 1 => index[key][i - 1] < index[key][i]
  BY DEF IsIndex
<1> HIDE DEF new, grown
<1>4. ASSUME NEW key \in Keys, NEW i \in DOMAIN new[key]
      PROVE  /\ new[key][i] \in 1..n + 1 /\ keysNew[new[key][i]] = key
             /\ i > 1 => new[key][i - 1] < new[key][i]
  <2>1. CASE key # k
    <3>1. new[key] = index[key]
      BY <2>1, <1>3
    <3>2. /\ index[key][i] \in 1..n /\ keysNew[index[key][i]] = key
          /\ i > 1 => index[key][i - 1] < index[key][i]
      BY <3>1, <1>0
    <3> QED
      BY <3>1, <3>2
  <2>2. CASE key = k /\ i \in 1..Len(old)
    <3>1. /\ old[i] \in 1..n /\ keys[old[i]] = k
          /\ i > 1 => old[i - 1] < old[i]
      BY <2>2, <1>0, <1>2, SMTT(30)
    <3>2. new[key][i] = old[i]
      BY <2>2, <1>2, <1>3
    <3>3. i > 1 => new[key][i - 1] = old[i - 1]
      <4>1. i > 1 => i - 1 \in 1..Len(old)
        BY <2>2, <1>2
      <4> QED
        BY <2>2, <4>1, <1>2, <1>3
    <3>4. new[key][i] \in 1..n + 1 /\ keysNew[new[key][i]] = k
      BY <3>1, <3>2
    <3> QED
      BY <2>2, <3>1, <3>2, <3>3, <3>4
  <2>3. CASE key = k /\ i = Len(old) + 1
    <3>1. new[key][i] = n + 1
      BY <2>3, <1>2, <1>3
    <3>2. i > 1 => new[key][i - 1] \in 1..n
      <4> SUFFICES ASSUME i > 1 PROVE new[key][i - 1] \in 1..n
        OBVIOUS
      <4>1. i - 1 \in 1..Len(old) /\ new[key][i - 1] = old[i - 1]
        BY <2>3, <1>2, <1>3, SMTT(30)
      <4> QED
        BY <4>1, <1>2 DEF IsIndex
    <3> QED
      BY <2>3, <3>1, <3>2
  <2> QED
    BY <2>1, <2>2, <2>3, <1>2, <1>3, SMTT(30)
<1>5. ASSUME NEW id \in 1..n + 1
      PROVE  keysNew[id] \in Keys /\ \E i \in DOMAIN new[keysNew[id]] : new[keysNew[id]][i] = id
  <2>1. CASE id = n + 1
    <3>1. keysNew[id] = k /\ DOMAIN new[k] = 1..Len(old) + 1
      BY <2>1, <1>2, <1>3
    <3>2. Len(old) + 1 \in DOMAIN new[k] /\ new[k][Len(old) + 1] = id
      BY <2>1, <3>1, <1>2, <1>3
    <3> QED
      BY <3>1, <3>2
  <2>2. CASE id \in 1..n
    <3>1. keysNew[id] = keys[id] /\ keys[id] \in Keys
      BY <2>2 DEF IsIndex
    <3>2. PICK i \in DOMAIN index[keys[id]] : index[keys[id]][i] = id
      BY <2>2 DEF IsIndex
    <3>3. CASE keys[id] = k
      BY <3>1, <3>2, <3>3, <1>2, <1>3
    <3>4. CASE keys[id] # k
      BY <3>1, <3>2, <3>4, <1>3
    <3> QED
      BY <3>3, <3>4
  <2> QED
    BY <2>1, <2>2
<1>6. IsIndex(new, Keys, n + 1, keysNew)
  BY <1>3, <1>4, <1>5 DEF IsIndex
<1> QED
  BY <1>6 DEF new

\* An event extends the chain by a record whose hash holds, and disturbs no other.
LEMMA ChainExtended ==
    ASSUME TrailInv, NEW actor \in Actors, NEW type \in EventTypes, NEW detail \in Details,
           LogEvent(actor, type, detail)
    PROVE  IsSequence(auditRecords)' /\ ChainIntact'
<1> DEFINE n == Len(auditRecords)
           hash == RecordHash(latestHash, n + 1, actor, type, detail)
           r == [actor |-> actor, type |-> type, detail |-> detail, hash |-> hash]
<1>1. auditRecords' = Append(auditRecords, r) /\ latestHash' = hash
  BY DEF LogEvent
<1>2. IsSequence(auditRecords)
  BY DEF TrailInv
<1>3. /\ IsSequence(auditRecords') /\ n \in Nat /\ Len(auditRecords') = n + 1
      /\ auditRecords' # << >>
      /\ \A j \in 1..n : auditRecords'[j] = auditRecords[j]
      /\ auditRecords'[n + 1] = r
      /\ n = 0 <=> auditRecords = << >>
  BY <1>2, EmptySeq, <1>1, AppendAny DEF IsSequence
<1>4. ASSUME NEW id \in 1..Len(auditRecords') PROVE HashHolds(auditRecords', id)
  <2>1. CASE id \in 1..n
    <3>1. HashHolds(auditRecords, id)
      BY <2>1 DEF TrailInv, ChainIntact
    <3>2. PreviousHash(auditRecords', id) = PreviousHash(auditRecords, id)
      BY <2>1, <1>3 DEF PreviousHash
    <3> QED
      BY <3>1, <3>2, <2>1, <1>3 DEF HashHolds
  <2>2. CASE id = n + 1
    BY <2>2, <1>3 DEF TrailInv, ChainIntact, PreviousHash, HashHolds
  <2> QED
    BY <2>1, <2>2, <1>3
<1>5. latestHash' = auditRecords'[Len(auditRecords')].hash
  BY <1>1, <1>3
<1> QED
  BY <1>3, <1>4, <1>5 DEF ChainIntact

\* An event is entered in the index of its actor and of its type.
LEMMA IndexesExtended ==
    ASSUME TrailInv, NEW actor \in Actors, NEW type \in EventTypes, NEW detail \in Details,
           LogEvent(actor, type, detail)
    PROVE  /\ IsIndex(actorIndex, Actors, Len(auditRecords), ActorOf)'
           /\ IsIndex(typeIndex, EventTypes, Len(auditRecords), TypeOf)'
<1> DEFINE n == Len(auditRecords)
           r == [actor |-> actor, type |-> type, detail |-> detail,
                 hash |-> RecordHash(latestHash, n + 1, actor, type, detail)]
<1>1. /\ auditRecords' = Append(auditRecords, r)
      /\ actorIndex' = [actorIndex EXCEPT ![actor] = Append(@, n + 1)]
      /\ typeIndex' = [typeIndex EXCEPT ![type] = Append(@, n + 1)]
  BY DEF LogEvent
<1>2. IsSequence(auditRecords)
  BY DEF TrailInv
<1>3. r.actor = actor /\ r.type = type
  OBVIOUS
<1> HIDE DEF r
<1>4. /\ n \in Nat /\ Len(auditRecords') = n + 1
      /\ \A j \in 1..n : auditRecords'[j] = auditRecords[j]
      /\ auditRecords'[n + 1] = r
  BY <1>1, <1>2, AppendAny
<1>5. /\ \A id \in 1..n : ActorOf'[id] = ActorOf[id] /\ TypeOf'[id] = TypeOf[id]
      /\ ActorOf'[n + 1] = actor /\ TypeOf'[n + 1] = type
  BY <1>3, <1>4 DEF ActorOf, TypeOf
<1>6. IsIndex(actorIndex, Actors, n, ActorOf) /\ IsIndex(typeIndex, EventTypes, n, TypeOf)
  BY DEF TrailInv
<1>7. IsIndex(actorIndex', Actors, n + 1, ActorOf')
  <2> DEFINE keys == ActorOf
             keysNew == ActorOf'
  <2>1. IsIndex(actorIndex, Actors, n, keys) /\ keysNew[n + 1] = actor
        /\ \A id \in 1..n : keysNew[id] = keys[id]
    BY <1>5, <1>6
  <2> HIDE DEF keys, keysNew, n
  <2>2. IsIndex([actorIndex EXCEPT ![actor] = Append(@, n + 1)], Actors, n + 1, keysNew)
    BY <1>4, <2>1, IndexGrows
  <2> QED
    BY <1>1, <2>2 DEF keysNew
<1>8. IsIndex(typeIndex', EventTypes, n + 1, TypeOf')
  <2> DEFINE keys == TypeOf
             keysNew == TypeOf'
  <2>1. IsIndex(typeIndex, EventTypes, n, keys) /\ keysNew[n + 1] = type
        /\ \A id \in 1..n : keysNew[id] = keys[id]
    BY <1>5, <1>6
  <2> HIDE DEF keys, keysNew, n
  <2>2. IsIndex([typeIndex EXCEPT ![type] = Append(@, n + 1)], EventTypes, n + 1, keysNew)
    BY <1>4, <2>1, IndexGrows
  <2> QED
    BY <1>1, <2>2 DEF keysNew
<1> QED
  BY <1>4, <1>7, <1>8 DEF IsIndex

\* Every step, a stutter too, preserves the invariant.
LEMMA TrailInvStep == TrailInv /\ [AuditNext]_auditVars => TrailInv'
<1> SUFFICES ASSUME TrailInv, [AuditNext]_auditVars PROVE TrailInv'
  OBVIOUS
<1>1. CASE AuditNext
  BY <1>1, ChainExtended, IndexesExtended DEF AuditNext, TrailInv
<1>2. CASE UNCHANGED auditVars
  <2>1. UNCHANGED <<auditRecords, latestHash, actorIndex, typeIndex>>
    BY <1>2 DEF auditVars
  <2>2. IsSequence(auditRecords)' /\ ChainIntact'
    BY <2>1 DEF TrailInv, ChainIntact, IsSequence
  <2>3. ActorOf' = ActorOf /\ TypeOf' = TypeOf
    BY <2>1 DEF ActorOf, TypeOf
  <2>4. /\ IsIndex(actorIndex, Actors, Len(auditRecords), ActorOf)'
        /\ IsIndex(typeIndex, EventTypes, Len(auditRecords), TypeOf)'
    BY <2>1, <2>3 DEF TrailInv, IsIndex
  <2> QED
    BY <2>2, <2>4 DEF TrailInv
<1> QED
  BY <1>1, <1>2

\* The audit trail is chained in every reachable state.
LEMMA TrailInvAlways == AuditSpec => []TrailInv
<1> QED
  BY TrailInvInit, TrailInvStep, PTL DEF AuditSpec

----
\* Theorems

\* In every behaviour of the trail every record carries the hash of its contents and of its
\* predecessor, and the head is the hash of the newest record (log_event, verify_integrity).
THEOREM AuditChainIntact == AuditSpec => []ChainIntact
<1>1. TrailInv => ChainIntact
  BY DEF TrailInv
<1> QED
  BY <1>1, TrailInvAlways, PTL

\* In every behaviour the indexes by actor and by type hold each record once, in order, and
\* nothing else (log_event, get_actor_records, get_event_type_records).
THEOREM AuditIndexesComplete == AuditSpec => []IndexesComplete
<1>1. TrailInv => IndexesComplete
  <2> SUFFICES ASSUME TrailInv PROVE IndexesComplete
    OBVIOUS
  <2>1. /\ IsIndex(actorIndex, Actors, Len(auditRecords), ActorOf)
        /\ IsIndex(typeIndex, EventTypes, Len(auditRecords), TypeOf)
    BY DEF TrailInv
  <2>2. \A id \in 1..Len(auditRecords) :
            ActorOf[id] = auditRecords[id].actor /\ TypeOf[id] = auditRecords[id].type
    BY DEF ActorOf, TypeOf
  <2>3. \A a \in Actors : \A i \in DOMAIN actorIndex[a] :
          /\ actorIndex[a][i] \in 1..Len(auditRecords) /\ auditRecords[actorIndex[a][i]].actor = a
          /\ i > 1 => actorIndex[a][i - 1] < actorIndex[a][i]
    BY <2>1, <2>2 DEF IsIndex
  <2>4. \A t \in EventTypes : \A i \in DOMAIN typeIndex[t] :
          /\ typeIndex[t][i] \in 1..Len(auditRecords) /\ auditRecords[typeIndex[t][i]].type = t
          /\ i > 1 => typeIndex[t][i - 1] < typeIndex[t][i]
    BY <2>1, <2>2 DEF IsIndex
  <2>5. \A id \in 1..Len(auditRecords) :
          /\ \E i \in DOMAIN actorIndex[auditRecords[id].actor] : actorIndex[auditRecords[id].actor][i] = id
          /\ \E i \in DOMAIN typeIndex[auditRecords[id].type] : typeIndex[auditRecords[id].type][i] = id
    BY <2>1, <2>2, ZenonT(30) DEF IsIndex
  <2> QED
    BY <2>3, <2>4, <2>5 DEF IndexesComplete
<1> QED
  BY <1>1, TrailInvAlways, PTL

\* The head of the chain fixes the whole trail: records in the place of the logged ones, as
\* many of them, that verify from the first to the last and end in the hash that is the
\* latest, are the logged ones. verify_integrity makes the first check and leaves the
\* second to its caller: records whose hashes were computed anew pass it, with another
\* newest hash (log_event, verify_integrity).
THEOREM HeadFixesTrail ==
    ASSUME ChainIntact, Len(auditRecords) \in Nat, auditRecords # << >>, NEW found,
           VerifyIntegrity(found, 1, Len(auditRecords)), found[Len(auditRecords)].hash = latestHash
    PROVE  \A id \in 1..Len(auditRecords) :
              /\ found[id].actor = auditRecords[id].actor
              /\ found[id].type = auditRecords[id].type
              /\ found[id].detail = auditRecords[id].detail
              /\ found[id].hash = auditRecords[id].hash
<1> DEFINE n == Len(auditRecords)
           Same(id) == found[id].hash = auditRecords[id].hash
<1>1. n >= 1 /\ n \in Nat /\ Same(n)
  BY DEF VerifyIntegrity, ChainIntact
<1>2. \A id \in 1..n : HashHolds(found, id) /\ HashHolds(auditRecords, id)
  BY DEF VerifyIntegrity, ChainIntact
<1>3. ASSUME NEW id \in 1..n, Same(id)
      PROVE  /\ found[id].actor = auditRecords[id].actor
             /\ found[id].type = auditRecords[id].type
             /\ found[id].detail = auditRecords[id].detail
             /\ id > 1 => Same(id - 1)
  <2>1. RecordHash(PreviousHash(found, id), id, found[id].actor, found[id].type, found[id].detail) =
        RecordHash(PreviousHash(auditRecords, id), id, auditRecords[id].actor, auditRecords[id].type, auditRecords[id].detail)
    BY <1>2, <1>3 DEF HashHolds
  <2>2. PreviousHash(found, id) = PreviousHash(auditRecords, id)
    BY <2>1 DEF RecordHash
  <2>3. id > 1 => Same(id - 1)
    BY <2>2 DEF PreviousHash
  <2> QED
    BY <2>1, <2>3 DEF RecordHash
<1>4. \A id \in 1..n : Same(id)
  <2> DEFINE back == {k \in Nat : k < n /\ ~Same(n - k)}
  <2>1. ASSUME NEW k \in back, \A j \in back : k <= j
        PROVE  FALSE
    <3>1. k \in Nat /\ k < n /\ ~Same(n - k)
      OBVIOUS
    <3>2. k # 0
      BY <1>1, <3>1
    <3>3. k - 1 \in Nat /\ k - 1 < n /\ k - 1 \notin back
      BY <1>1, <2>1, <3>1, <3>2
    <3>4. Same(n - (k - 1)) /\ n - (k - 1) \in 1..n /\ n - (k - 1) > 1 /\ (n - (k - 1)) - 1 = n - k
      BY <1>1, <3>1, <3>2, <3>3
    <3> HIDE DEF Same
    <3>5. Same((n - (k - 1)) - 1)
      BY <1>3, <3>4
    <3> QED
      BY <3>1, <3>4, <3>5
  <2>2. back = {}
    <3>1. back \subseteq Nat
      OBVIOUS
    <3> HIDE DEF back
    <3> QED
      BY <2>1, <3>1, LeastNumber
  <2> TAKE id \in 1..n
  <2>3. n - id \in Nat /\ n - id < n /\ n - (n - id) = id
    BY <1>1
  <2>4. Same(n - (n - id))
    BY <2>2, <2>3
  <2> QED
    BY <2>3, <2>4
<1> QED
  BY <1>3, <1>4

----
\* The staking dashboard

StakerRecord == [balance : Nat, paid : Nat, pending : Nat, since : Nat]

\* What a staker has earned, times the precision and before it is rounded down.
Credit(r) == r.balance * (rewardPerToken - r.paid) + DashboardPrecision * r.pending

Credits == [s \in DashboardStakers |-> Credit(stakerRecords[s])]
Balances == [s \in DashboardStakers |-> stakerRecords[s].balance]
Holding == {s \in DashboardStakers : stakerRecords[s].balance > 0}

DashboardInv ==
    /\ block \in Nat
    /\ stakerRecords \in [DashboardStakers -> StakerRecord]
    /\ {rewardPerToken, dashboardStaked, dashboardStakers, unclaimedRewards, rewardsDistributed} \subseteq Nat
    /\ \A s \in DashboardStakers : stakerRecords[s].paid <= rewardPerToken
    /\ dashboardStaked = SumFunctionOnSet(Balances, DashboardStakers)
    /\ dashboardStakers = Cardinality(Holding)
    /\ SumFunctionOnSet(Credits, DashboardStakers) <= DashboardPrecision * unclaimedRewards
    /\ unclaimedRewards <= rewardsDistributed

\* A staker's earnings (compute_earned) are within the credit and, once settled, all of
\* it that is left.
LEMMA EarnedWithinCredit ==
    ASSUME DashboardInv, NEW s \in DashboardStakers
    PROVE  LET r == stakerRecords[s] IN
           /\ ComputeEarned(r) \in Nat /\ Credit(r) \in Nat
           /\ DashboardPrecision * ComputeEarned(r) <= Credit(r)
           /\ Settled(r) = [r EXCEPT !.pending = ComputeEarned(r), !.paid = rewardPerToken]
<1> DEFINE r == stakerRecords[s]
           gap == rewardPerToken - r.paid
           due == r.balance * gap
           share == due \div DashboardPrecision
<1>1. r \in StakerRecord /\ r.paid <= rewardPerToken /\ rewardPerToken \in Nat
  BY DEF DashboardInv
<1>2. r.balance \in Nat /\ r.paid \in Nat /\ r.pending \in Nat /\ gap \in Nat
  BY <1>1 DEF StakerRecord
<1>3. DashboardPrecision \in Nat \ {0}
  BY AnalyticsConstants
<1>4. due \in Nat
  BY <1>2, Products
<1>5. share \in Nat /\ DashboardPrecision * share <= due
  BY <1>3, <1>4, RoundedDown
<1>6. ComputeEarned(r) = share + r.pending
  BY <1>1, <1>2 DEF LessOrNone, ComputeEarned
<1>7. Credit(r) = due + DashboardPrecision * r.pending
  BY DEF Credit
<1> HIDE DEF r, gap, due, share
<1>8. DashboardPrecision * (share + r.pending) = DashboardPrecision * share + DashboardPrecision * r.pending
  BY <1>2, <1>3, <1>5, Products
<1>9. DashboardPrecision * r.pending \in Nat /\ DashboardPrecision * share \in Nat
  BY <1>2, <1>3, <1>5, Products
<1>10. /\ ComputeEarned(r) \in Nat /\ Credit(r) \in Nat
       /\ DashboardPrecision * ComputeEarned(r) <= Credit(r)
  BY <1>2, <1>4, <1>5, <1>6, <1>7, <1>8, <1>9
<1> QED
  BY <1>10 DEF r, Settled

\* The credits of all stakers, of which no one's exceeds the sum.
LEMMA CreditsSum ==
    ASSUME DashboardInv
    PROVE  /\ SumFunctionOnSet(Credits, DashboardStakers) \in Nat
           /\ \A s \in DashboardStakers :
                 Credit(stakerRecords[s]) <= SumFunctionOnSet(Credits, DashboardStakers)
<1>1. ASSUME NEW s \in DashboardStakers PROVE Credit(stakerRecords[s]) \in Nat
  BY EarnedWithinCredit
<1>2. \A s \in DashboardStakers : Credits[s] \in Nat /\ Credits[s] = Credit(stakerRecords[s])
  BY <1>1 DEF Credits
<1> HIDE DEF Credits
<1> QED
  BY <1>2, AnalyticsConstants, SumNatural

\* The totals after one record is settled and changed (record_stake, record_unstake,
\* claim_rewards), where nothing is distributed.
LEMMA RecordChanges ==
    ASSUME DashboardInv, NEW s \in DashboardStakers, NEW r \in StakerRecord,
           r.paid = rewardPerToken, UNCHANGED rewardPerToken,
           stakerRecords' = [stakerRecords EXCEPT ![s] = r]
    PROVE  LET old == stakerRecords[s] IN
           /\ stakerRecords' \in [DashboardStakers -> StakerRecord]
           /\ \A t \in DashboardStakers : stakerRecords'[t].paid <= rewardPerToken'
           /\ SumFunctionOnSet(Balances', DashboardStakers) =
                 SumFunctionOnSet(Balances, DashboardStakers) - old.balance + r.balance
           /\ SumFunctionOnSet(Credits', DashboardStakers) =
                 SumFunctionOnSet(Credits, DashboardStakers) - Credit(old) + DashboardPrecision * r.pending
           /\ Holding' = IF r.balance > 0 THEN Holding \cup {s} ELSE Holding \ {s}
<1> DEFINE old == stakerRecords[s]
<1>1. /\ stakerRecords \in [DashboardStakers -> StakerRecord] /\ rewardPerToken \in Nat
      /\ \A t \in DashboardStakers : stakerRecords[t].paid <= rewardPerToken
  BY DEF DashboardInv
<1>2. /\ stakerRecords' \in [DashboardStakers -> StakerRecord]
      /\ stakerRecords'[s] = r
      /\ \A t \in DashboardStakers : t # s => stakerRecords'[t] = stakerRecords[t]
  BY <1>1
<1>3. IsFiniteSet(DashboardStakers) /\ DashboardPrecision \in Nat
  BY AnalyticsConstants
<1>4. /\ \A t \in DashboardStakers : Balances[t] = stakerRecords[t].balance /\ Balances[t] \in Int
      /\ \A t \in DashboardStakers : Balances'[t] = stakerRecords'[t].balance /\ Balances'[t] \in Int
  BY <1>1, <1>2 DEF Balances, StakerRecord
<1>5. SumFunctionOnSet(Balances', DashboardStakers) =
          SumFunctionOnSet(Balances, DashboardStakers) - Balances[s] + Balances'[s]
  BY <1>2, <1>4, <1>3, SumChange
<1>6. Credits'[s] = DashboardPrecision * r.pending /\ Credits'[s] \in Int
  BY <1>2, <1>1, <1>3, Products DEF Credits, Credit, StakerRecord
<1>7. \A t \in DashboardStakers : Credits[t] = Credit(stakerRecords[t]) /\ Credits[t] \in Int
  <2>1. ASSUME NEW t \in DashboardStakers PROVE Credit(stakerRecords[t]) \in Nat
    BY EarnedWithinCredit
  <2> QED
    BY <2>1 DEF Credits
<1>8. \A t \in DashboardStakers \ {s} : Credits[t] = Credits'[t]
  BY <1>2 DEF Credits, Credit
<1>9. \A t \in DashboardStakers : Credits'[t] \in Int
  BY <1>6, <1>7, <1>8
<1>10. SumFunctionOnSet(Credits', DashboardStakers) =
          SumFunctionOnSet(Credits, DashboardStakers) - Credits[s] + Credits'[s]
  BY <1>3, <1>7, <1>8, <1>9, SumChange
<1>11. Holding' = IF r.balance > 0 THEN Holding \cup {s} ELSE Holding \ {s}
  BY <1>2 DEF Holding
<1>12. \A t \in DashboardStakers : stakerRecords'[t].paid <= rewardPerToken'
  BY <1>1, <1>2
<1> QED
  BY <1>2, <1>4, <1>5, <1>6, <1>7, <1>10, <1>11, <1>12

\* How many stakers hold something after one balance has changed.
LEMMA HoldersCounted ==
    ASSUME DashboardInv, NEW s \in DashboardStakers
    PROVE  /\ Cardinality(Holding) \in Nat
           /\ Cardinality(Holding \cup {s}) = Cardinality(Holding) + (IF stakerRecords[s].balance = 0 THEN 1 ELSE 0)
           /\ Cardinality(Holding \ {s}) = Cardinality(Holding) - (IF stakerRecords[s].balance = 0 THEN 0 ELSE 1)
<1>1. IsFiniteSet(Holding)
  BY AnalyticsConstants, FS_Subset DEF Holding
<1>2. (stakerRecords[s].balance = 0) <=> (s \notin Holding)
  BY DEF DashboardInv, StakerRecord, Holding
<1> QED
  BY <1>1, <1>2, FS_CardinalityType, FS_AddElement, FS_RemoveElement

\* Each message keeps the dashboard's books.
LEMMA StakeKeeps ==
    ASSUME DashboardInv, UNCHANGED block, NEW s \in DashboardStakers, NEW n \in StakeSizes, RecordStake(s, n)
    PROVE  DashboardInv'
<1> DEFINE old == stakerRecords[s]
           r == [Settled(old) EXCEPT !.balance = @ + n, !.since = block]
<1>1. n \in Nat /\ DashboardPrecision \in Nat /\ block \in Nat /\ n # 0
  BY AnalyticsConstants DEF DashboardInv, RecordStake
<1>2. /\ ComputeEarned(old) \in Nat /\ Credit(old) \in Nat
      /\ DashboardPrecision * ComputeEarned(old) <= Credit(old)
      /\ Settled(old) = [old EXCEPT !.pending = ComputeEarned(old), !.paid = rewardPerToken]
  BY EarnedWithinCredit
<1>3. old \in StakerRecord /\ rewardPerToken \in Nat
  BY DEF DashboardInv
<1>4. /\ r \in StakerRecord /\ r.paid = rewardPerToken
      /\ r.balance = old.balance + n /\ r.pending = ComputeEarned(old) /\ r.balance > 0
  <2> DEFINE z == Settled(old)
  <2>1. z \in StakerRecord /\ z.balance = old.balance /\ z.paid = rewardPerToken /\ z.pending = ComputeEarned(old)
    BY <1>2, <1>3 DEF StakerRecord
  <2> DEFINE b == z.balance + n
             y == [z EXCEPT !.balance = b]
  <2>2. b \in Nat /\ b > 0
    BY <1>1, <2>1 DEF StakerRecord
  <2>3. r = [y EXCEPT !.since = block]
    OBVIOUS
  <2> HIDE DEF z, b
  <2>4. y \in StakerRecord /\ y.balance = b /\ y.paid = z.paid /\ y.pending = z.pending
    BY <2>1, <2>2 DEF StakerRecord
  <2> HIDE DEF y, r
  <2>5. r \in StakerRecord /\ r.balance = b /\ r.paid = z.paid /\ r.pending = z.pending
    BY <1>1, <2>3, <2>4 DEF StakerRecord
  <2> QED
    BY <2>1, <2>2, <2>5 DEF b
<1>5. /\ stakerRecords' = [stakerRecords EXCEPT ![s] = r]
      /\ dashboardStaked' = dashboardStaked + n
      /\ dashboardStakers' = IF old.balance = 0 THEN dashboardStakers + 1 ELSE dashboardStakers
      /\ UNCHANGED <<rewardsDistributed, unclaimedRewards, rewardPerToken>>
  BY DEF RecordStake
<1> HIDE DEF r
<1>6. /\ stakerRecords' \in [DashboardStakers -> StakerRecord]
      /\ \A t \in DashboardStakers : stakerRecords'[t].paid <= rewardPerToken'
      /\ SumFunctionOnSet(Balances', DashboardStakers) =
            SumFunctionOnSet(Balances, DashboardStakers) - old.balance + r.balance
      /\ SumFunctionOnSet(Credits', DashboardStakers) =
            SumFunctionOnSet(Credits, DashboardStakers) - Credit(old) + DashboardPrecision * r.pending
      /\ Holding' = IF r.balance > 0 THEN Holding \cup {s} ELSE Holding \ {s}
  BY <1>4, <1>5, RecordChanges
<1>7. dashboardStaked' = SumFunctionOnSet(Balances', DashboardStakers) /\ dashboardStaked' \in Nat
  BY <1>1, <1>3, <1>4, <1>5, <1>6 DEF DashboardInv, StakerRecord
<1>8. dashboardStakers' = Cardinality(Holding') /\ dashboardStakers' \in Nat
  <2>1. /\ Cardinality(Holding) \in Nat /\ dashboardStakers = Cardinality(Holding)
        /\ Cardinality(Holding \cup {s}) = Cardinality(Holding) + (IF old.balance = 0 THEN 1 ELSE 0)
    BY HoldersCounted DEF DashboardInv
  <2>2. Holding' = Holding \cup {s}
    BY <1>4, <1>6
  <2> QED
    BY <1>5, <2>1, <2>2
<1>9. SumFunctionOnSet(Credits', DashboardStakers) <= DashboardPrecision * unclaimedRewards'
  <2>1. /\ SumFunctionOnSet(Credits, DashboardStakers) \in Nat
        /\ DashboardPrecision * unclaimedRewards \in Nat
        /\ DashboardPrecision * ComputeEarned(old) \in Nat
        /\ SumFunctionOnSet(Credits, DashboardStakers) <= DashboardPrecision * unclaimedRewards
    BY <1>1, <1>2, CreditsSum, Products DEF DashboardInv
  <2>2. SumFunctionOnSet(Credits', DashboardStakers) <= SumFunctionOnSet(Credits, DashboardStakers)
    BY <1>2, <1>4, <1>6, <2>1
  <2>3. SumFunctionOnSet(Credits', DashboardStakers) \in Int
    BY <1>2, <1>4, <1>6, <2>1
  <2> QED
    BY <1>5, <2>1, <2>2, <2>3
<1> QED
  BY <1>1, <1>5, <1>6, <1>7, <1>8, <1>9 DEF DashboardInv

\* Unstaking settles what was earned before it lowers balance and total
\* (record_unstake).
LEMMA UnstakeKeeps ==
    ASSUME DashboardInv, UNCHANGED block, NEW s \in DashboardStakers, NEW n \in StakeSizes, RecordUnstake(s, n)
    PROVE  DashboardInv'
<1> DEFINE old == stakerRecords[s]
           r == [Settled(old) EXCEPT !.balance = @ - n]
<1>1. /\ n \in Nat /\ DashboardPrecision \in Nat /\ block \in Nat /\ n # 0 /\ n <= old.balance
  BY AnalyticsConstants DEF DashboardInv, RecordUnstake
<1>2. /\ ComputeEarned(old) \in Nat /\ Credit(old) \in Nat
      /\ DashboardPrecision * ComputeEarned(old) <= Credit(old)
      /\ Settled(old) = [old EXCEPT !.pending = ComputeEarned(old), !.paid = rewardPerToken]
  BY EarnedWithinCredit
<1>3. old \in StakerRecord /\ rewardPerToken \in Nat
  BY DEF DashboardInv
<1>4. /\ r \in StakerRecord /\ r.paid = rewardPerToken
      /\ r.balance = old.balance - n /\ r.pending = ComputeEarned(old)
  <2> DEFINE z == Settled(old)
  <2>1. z \in StakerRecord /\ z.balance = old.balance /\ z.paid = rewardPerToken /\ z.pending = ComputeEarned(old)
    BY <1>2, <1>3 DEF StakerRecord
  <2> HIDE DEF z
  <2>2. /\ [z EXCEPT !.balance = @ - n] \in StakerRecord
        /\ [z EXCEPT !.balance = @ - n].balance = z.balance - n
        /\ [z EXCEPT !.balance = @ - n].paid = z.paid
        /\ [z EXCEPT !.balance = @ - n].pending = z.pending
    BY <1>1, <2>1 DEF StakerRecord
  <2> QED
    BY <2>1, <2>2 DEF z
<1>5. /\ stakerRecords' = [stakerRecords EXCEPT ![s] = r]
      /\ dashboardStaked' = LessOrNone(dashboardStaked, n)
      /\ dashboardStakers' = IF old.balance = n THEN LessOrNone(dashboardStakers, 1) ELSE dashboardStakers
      /\ UNCHANGED <<rewardsDistributed, unclaimedRewards, rewardPerToken>>
  BY DEF RecordUnstake
<1> HIDE DEF r
<1>6. /\ stakerRecords' \in [DashboardStakers -> StakerRecord]
      /\ \A t \in DashboardStakers : stakerRecords'[t].paid <= rewardPerToken'
      /\ SumFunctionOnSet(Balances', DashboardStakers) =
            SumFunctionOnSet(Balances, DashboardStakers) - old.balance + r.balance
      /\ SumFunctionOnSet(Credits', DashboardStakers) =
            SumFunctionOnSet(Credits, DashboardStakers) - Credit(old) + DashboardPrecision * r.pending
      /\ Holding' = IF r.balance > 0 THEN Holding \cup {s} ELSE Holding \ {s}
  BY <1>4, <1>5, RecordChanges
<1>7. old.balance <= dashboardStaked /\ dashboardStaked \in Nat /\ old.balance \in Nat
  BY AnalyticsConstants, SumNatural DEF DashboardInv, Balances, StakerRecord
<1>8. dashboardStaked' = SumFunctionOnSet(Balances', DashboardStakers) /\ dashboardStaked' \in Nat
  BY <1>1, <1>5, <1>7, <1>4, <1>6 DEF LessOrNone, DashboardInv
<1>9. dashboardStakers' = Cardinality(Holding') /\ dashboardStakers' \in Nat
  <2>1. /\ Cardinality(Holding) \in Nat /\ dashboardStakers = Cardinality(Holding)
        /\ Cardinality(Holding \cup {s}) = Cardinality(Holding)
        /\ Cardinality(Holding \ {s}) = Cardinality(Holding) - 1
    <3>1. old.balance # 0 /\ dashboardStakers = Cardinality(Holding)
      BY <1>1, <1>7 DEF DashboardInv
    <3>2. /\ Cardinality(Holding) \in Nat
          /\ Cardinality(Holding \cup {s}) = Cardinality(Holding) + 0
          /\ Cardinality(Holding \ {s}) = Cardinality(Holding) - 1
      BY <3>1, HoldersCounted
    <3> QED
      BY <3>1, <3>2
  <2>2. Cardinality(Holding \ {s}) \in Nat
    BY AnalyticsConstants, FS_Subset, FS_CardinalityType DEF Holding
  <2>3. CASE old.balance = n
    BY <1>1, <1>4, <1>5, <1>6, <2>1, <2>2, <2>3 DEF LessOrNone
  <2>4. CASE old.balance # n
    BY <1>1, <1>4, <1>5, <1>6, <1>7, <2>1, <2>4
  <2> QED
    BY <2>3, <2>4
<1>10. SumFunctionOnSet(Credits', DashboardStakers) <= DashboardPrecision * unclaimedRewards'
  <2>1. /\ SumFunctionOnSet(Credits, DashboardStakers) \in Nat
        /\ DashboardPrecision * unclaimedRewards \in Nat
        /\ DashboardPrecision * ComputeEarned(old) \in Nat
        /\ SumFunctionOnSet(Credits, DashboardStakers) <= DashboardPrecision * unclaimedRewards
    BY <1>1, <1>2, CreditsSum, Products DEF DashboardInv
  <2>2. SumFunctionOnSet(Credits', DashboardStakers) <= SumFunctionOnSet(Credits, DashboardStakers)
    BY <1>2, <1>4, <1>6, <2>1
  <2>3. SumFunctionOnSet(Credits', DashboardStakers) \in Int
    BY <1>2, <1>4, <1>6, <2>1
  <2> QED
    BY <1>5, <2>1, <2>2, <2>3
<1> QED
  BY <1>1, <1>5, <1>6, <1>8, <1>9, <1>10 DEF DashboardInv

\* A claim takes from the unclaimed rewards what it pays (claim_rewards).
LEMMA ClaimKeeps ==
    ASSUME DashboardInv, UNCHANGED block, NEW s \in DashboardStakers, ClaimDashboardRewards(s)
    PROVE  DashboardInv'
<1> DEFINE old == stakerRecords[s]
           claim == ComputeEarned(old)
           r == [Settled(old) EXCEPT !.pending = 0]
<1>1. DashboardPrecision \in Nat \ {0} /\ block \in Nat
  BY AnalyticsConstants DEF DashboardInv
<1>2. /\ claim \in Nat /\ Credit(old) \in Nat
      /\ DashboardPrecision * claim <= Credit(old)
      /\ Settled(old) = [old EXCEPT !.pending = claim, !.paid = rewardPerToken]
  BY EarnedWithinCredit
<1>3. old \in StakerRecord /\ rewardPerToken \in Nat
  BY DEF DashboardInv
<1>4. /\ r \in StakerRecord /\ r.paid = rewardPerToken
      /\ r.balance = old.balance /\ r.pending = 0
  BY <1>2, <1>3 DEF StakerRecord
<1>5. /\ stakerRecords' = [stakerRecords EXCEPT ![s] = r]
      /\ unclaimedRewards' = LessOrNone(unclaimedRewards, claim)
      /\ UNCHANGED <<dashboardStaked, dashboardStakers, rewardsDistributed, rewardPerToken>>
  BY DEF ClaimDashboardRewards
<1> HIDE DEF r, claim
<1>6. /\ stakerRecords' \in [DashboardStakers -> StakerRecord]
      /\ \A t \in DashboardStakers : stakerRecords'[t].paid <= rewardPerToken'
      /\ SumFunctionOnSet(Balances', DashboardStakers) =
            SumFunctionOnSet(Balances, DashboardStakers) - old.balance + r.balance
      /\ SumFunctionOnSet(Credits', DashboardStakers) =
            SumFunctionOnSet(Credits, DashboardStakers) - Credit(old) + DashboardPrecision * r.pending
      /\ Holding' = IF r.balance > 0 THEN Holding \cup {s} ELSE Holding \ {s}
  BY <1>4, <1>5, RecordChanges
<1>7. /\ SumFunctionOnSet(Credits, DashboardStakers) \in Nat
      /\ Credit(old) <= SumFunctionOnSet(Credits, DashboardStakers)
  BY CreditsSum
<1>8. /\ unclaimedRewards \in Nat /\ rewardsDistributed \in Nat /\ unclaimedRewards <= rewardsDistributed
      /\ dashboardStaked \in Nat /\ dashboardStaked = SumFunctionOnSet(Balances, DashboardStakers)
      /\ SumFunctionOnSet(Credits, DashboardStakers) <= DashboardPrecision * unclaimedRewards
  BY DEF DashboardInv
<1>9. /\ claim <= unclaimedRewards
      /\ DashboardPrecision * (unclaimedRewards - claim) =
            DashboardPrecision * unclaimedRewards - DashboardPrecision * claim
      /\ DashboardPrecision * claim \in Nat /\ DashboardPrecision * unclaimedRewards \in Nat
  <2>1. DashboardPrecision * claim \in Nat /\ DashboardPrecision * unclaimedRewards \in Nat
    BY <1>1, <1>2, <1>8, Products
  <2>2. DashboardPrecision * claim <= DashboardPrecision * unclaimedRewards
    BY <1>2, <1>7, <1>8, <2>1
  <2> QED
    BY <1>1, <1>2, <1>8, <2>1, <2>2, Products
<1>10. unclaimedRewards' = unclaimedRewards - claim /\ unclaimedRewards' \in Nat
  BY <1>2, <1>5, <1>8, <1>9 DEF LessOrNone
<1>11. SumFunctionOnSet(Credits', DashboardStakers) <= DashboardPrecision * unclaimedRewards'
  BY <1>1, <1>4, Products, <1>9, <1>10, <1>2, <1>6, <1>7, <1>8
<1>12. dashboardStaked' = SumFunctionOnSet(Balances', DashboardStakers)
  BY <1>3, <1>4, <1>5, <1>6, <1>8 DEF StakerRecord
<1>13. dashboardStakers' = Cardinality(Holding')
  <2>1. (old.balance > 0) <=> (s \in Holding)
    BY DEF Holding
  <2>2. Holding' = Holding
    BY <1>4, <1>6, <2>1
  <2> QED
    BY <1>5, <2>2 DEF DashboardInv
<1>14. {rewardPerToken', dashboardStaked', dashboardStakers', unclaimedRewards', rewardsDistributed'} \subseteq Nat
  BY <1>5, <1>10 DEF DashboardInv
<1>15. unclaimedRewards' <= rewardsDistributed'
  BY <1>2, <1>5, <1>8, <1>10
<1> QED
  BY <1>1, <1>6, <1>11, <1>12, <1>13, <1>14, <1>15 DEF DashboardInv

\* A distribution promises stakers no more than it adds to the unclaimed rewards
\* (distribute_reward).
LEMMA DistributeKeeps ==
    ASSUME DashboardInv, UNCHANGED block, NEW n \in RewardSizes, DistributeReward(n)
    PROVE  DashboardInv'
<1> DEFINE d == (n * DashboardPrecision) \div dashboardStaked
<1>1. n \in Nat /\ DashboardPrecision \in Nat \ {0} /\ dashboardStaked \in Nat \ {0}
      /\ IsFiniteSet(DashboardStakers)
  BY AnalyticsConstants DEF DashboardInv, DistributeReward
<1>2. d \in Nat /\ dashboardStaked * d <= n * DashboardPrecision /\ n * DashboardPrecision \in Nat
  BY <1>1, Products, RoundedDown
<1>3. /\ rewardPerToken' = rewardPerToken + d
      /\ rewardsDistributed' = rewardsDistributed + n
      /\ unclaimedRewards' = unclaimedRewards + n
      /\ UNCHANGED <<stakerRecords, dashboardStaked, dashboardStakers>>
  BY DEF DistributeReward
<1> HIDE DEF d
<1>4. /\ stakerRecords \in [DashboardStakers -> StakerRecord] /\ rewardPerToken \in Nat
      /\ \A t \in DashboardStakers : stakerRecords[t].paid <= rewardPerToken
      /\ dashboardStaked = SumFunctionOnSet(Balances, DashboardStakers)
      /\ unclaimedRewards \in Nat /\ rewardsDistributed \in Nat /\ unclaimedRewards <= rewardsDistributed
      /\ SumFunctionOnSet(Credits, DashboardStakers) <= DashboardPrecision * unclaimedRewards
  BY DEF DashboardInv
<1>5. Balances' = Balances /\ Holding' = Holding
  BY <1>3 DEF Balances, Holding
<1>6. \A t \in DashboardStakers :
          Credits[t] \in Int /\ Balances[t] \in Int /\ Credits'[t] = Credits[t] + d * Balances[t]
  BY <1>4, <1>3, <1>2, <1>1, Products DEF StakerRecord, Balances, Credits, Credit
<1>7. SumFunctionOnSet(Credits', DashboardStakers) =
          SumFunctionOnSet(Credits, DashboardStakers) + d * dashboardStaked
  BY <1>1, <1>2, <1>4, <1>6, SumLinear
<1>8. DashboardPrecision * unclaimedRewards' = DashboardPrecision * unclaimedRewards + n * DashboardPrecision
  BY <1>1, <1>3, <1>4
<1>9. SumFunctionOnSet(Credits', DashboardStakers) <= DashboardPrecision * unclaimedRewards'
  BY <1>1, <1>2, <1>4, Products, CreditsSum, <1>7, <1>8
<1>10. \A t \in DashboardStakers : stakerRecords'[t].paid <= rewardPerToken'
  BY <1>2, <1>3, <1>4 DEF StakerRecord
<1>11. {rewardPerToken', dashboardStaked', dashboardStakers', unclaimedRewards', rewardsDistributed'} \subseteq Nat
  BY <1>1, <1>2, <1>3, <1>4 DEF DashboardInv
<1>12. unclaimedRewards' <= rewardsDistributed'
  BY <1>1, <1>3, <1>4
<1>13. /\ stakerRecords' \in [DashboardStakers -> StakerRecord]
       /\ dashboardStaked' = SumFunctionOnSet(Balances', DashboardStakers)
       /\ dashboardStakers' = Cardinality(Holding') /\ block' \in Nat
  BY <1>3, <1>4, <1>5 DEF DashboardInv
<1> QED
  BY <1>9, <1>10, <1>11, <1>12, <1>13 DEF DashboardInv

\* The dashboard starts with nothing.
LEMMA DashboardInvInit == ChainInit /\ DashboardInit => DashboardInv
<1> SUFFICES ASSUME ChainInit, DashboardInit PROVE DashboardInv
  OBVIOUS
<1>1. /\ block = 1 /\ rewardPerToken = 0 /\ dashboardStaked = 0 /\ dashboardStakers = 0
      /\ unclaimedRewards = 0 /\ rewardsDistributed = 0
      /\ \A s \in DashboardStakers : stakerRecords[s] = NoStaker
      /\ stakerRecords \in [DashboardStakers -> StakerRecord]
  BY DEF ChainInit, DashboardInit, NoStaker, StakerRecord
<1>2. DashboardPrecision * 0 = 0 /\ 0 * (0 - 0) = 0
  BY AnalyticsConstants
<1>3. \A s \in DashboardStakers : Balances[s] = 0 /\ Credits[s] = 0
  BY <1>1, <1>2 DEF Balances, Credits, Credit, NoStaker
<1>4. SumFunctionOnSet(Balances, DashboardStakers) = 0 /\ SumFunctionOnSet(Credits, DashboardStakers) = 0
  BY <1>3, AnalyticsConstants, SumZero
<1>5. Holding = {}
  BY <1>1 DEF Holding, NoStaker
<1> QED
  BY <1>1, <1>2, <1>4, <1>5, FS_EmptySet DEF DashboardInv, NoStaker

\* Every step keeps the books.
LEMMA DashboardInvStep == DashboardInv /\ [DashboardMoves]_<<block, dashboardVars>> => DashboardInv'
<1> SUFFICES ASSUME DashboardInv, [DashboardMoves]_<<block, dashboardVars>> PROVE DashboardInv'
  OBVIOUS
<1>1. CASE DashboardNext /\ UNCHANGED block
  BY <1>1, StakeKeeps, UnstakeKeeps, ClaimKeeps, DistributeKeeps DEF DashboardNext
<1>2. CASE UNCHANGED dashboardVars /\ block' \in Nat
  BY <1>2 DEF dashboardVars, Balances, Holding, Credits, Credit, DashboardInv
<1>3. block \in Nat
  BY DEF DashboardInv
<1> QED
  BY <1>1, <1>2, <1>3 DEF DashboardMoves, NextBlock

\* In every behaviour of the staking dashboard its totals are those of the records, and what
\* was distributed and not yet claimed covers what all stakers have earned, for any precision
\* and whoever joins, leaves and claims in between (record_stake, record_unstake,
\* claim_rewards, distribute_reward).
THEOREM DashboardIsSolvent == DashboardSpec => []DashboardSolvent
<1>1. DashboardInv => DashboardSolvent
  <2> SUFFICES ASSUME DashboardInv PROVE DashboardSolvent
    OBVIOUS
  <2> DEFINE earned == [s \in DashboardStakers |-> ComputeEarned(stakerRecords[s])]
             zero == [s \in DashboardStakers |-> 0]
             scaled == [s \in DashboardStakers |-> DashboardPrecision * earned[s]]
  <2>1. ASSUME NEW s \in DashboardStakers
        PROVE  /\ ComputeEarned(stakerRecords[s]) \in Nat
               /\ Credits[s] \in Nat /\ DashboardPrecision * ComputeEarned(stakerRecords[s]) <= Credits[s]
    BY EarnedWithinCredit DEF Credits
  <2>2. /\ IsFiniteSet(DashboardStakers) /\ DashboardPrecision \in Nat \ {0} /\ unclaimedRewards \in Nat
        /\ SumFunctionOnSet(Credits, DashboardStakers) <= DashboardPrecision * unclaimedRewards
    BY AnalyticsConstants DEF DashboardInv
  <2>3. /\ \A s \in DashboardStakers : earned[s] \in Int /\ zero[s] = 0
        /\ \A s \in DashboardStakers : scaled[s] \in Int /\ scaled[s] <= Credits[s] /\ Credits[s] \in Int
        /\ \A s \in DashboardStakers : scaled[s] = zero[s] + DashboardPrecision * earned[s]
    BY <2>1, <2>2, Products
  <2> HIDE DEF earned, zero, scaled
  <2>4. /\ SumFunctionOnSet(scaled, DashboardStakers) =
              SumFunctionOnSet(zero, DashboardStakers) + DashboardPrecision * SumFunctionOnSet(earned, DashboardStakers)
        /\ SumFunctionOnSet(zero, DashboardStakers) = 0
        /\ SumFunctionOnSet(earned, DashboardStakers) \in Int
    BY <2>2, <2>3, SumLinear, SumZero, SumType
  <2>5. SumFunctionOnSet(scaled, DashboardStakers) <= SumFunctionOnSet(Credits, DashboardStakers)
    BY <2>2, <2>3, SumMonotone
  <2>6. DashboardPrecision * SumFunctionOnSet(earned, DashboardStakers) <= DashboardPrecision * unclaimedRewards
    BY <2>2, <2>3, SumType, <2>4, Products, <2>5
  <2>7. SumFunctionOnSet(earned, DashboardStakers) <= unclaimedRewards
    BY <2>2, <2>4, <2>6, Products
  <2> QED
    BY <2>7 DEF DashboardInv, DashboardSolvent, Balances, Holding, earned
<1> QED
  BY <1>1, DashboardInvInit, DashboardInvStep, PTL DEF DashboardSpec

----
\* What is final

\* A notarized hash is refused a second time, and no other message touches it.
LEMMA NotarizationsKept == [IpfsMoves]_<<block, ipfsVars>> => NotarizationsStay
<1> SUFFICES ASSUME [IpfsMoves]_<<block, ipfsVars>> PROVE NotarizationsStay
  OBVIOUS
<1>1. UNCHANGED notarizations => NotarizationsStay
  BY DEF NotarizationsStay
<1>2. DocumentsNext => UNCHANGED notarizations
  <2>1. \A caller, l, c, h, s, m : RegisterIpfsDocument(caller, l, c, h, s, m) => UNCHANGED notarizations
    BY DEF RegisterIpfsDocument
  <2>2. \A caller, id : PinDocument(caller, id) => UNCHANGED notarizations
    BY DEF PinDocument
  <2>3. \A caller, id : UnpinDocument(caller, id) => UNCHANGED notarizations
    BY DEF UnpinDocument
  <2>4. \A caller, id : ReportMaliciousFile(caller, id) => UNCHANGED notarizations
    BY DEF ReportMaliciousFile
  <2>5. \A caller, id, h : VerifyContentHash(caller, id, h) => UNCHANGED notarizations
    BY DEF VerifyContentHash
  <2>6. \A caller, rules : UpdateValidationRules(caller, rules) => UNCHANGED notarizations
    BY DEF UpdateValidationRules
  <2> QED
    BY <2>1, <2>2, <2>3, <2>4, <2>5, <2>6 DEF DocumentsNext
<1>3. \A caller, lot, metadata_ : ValidateAndRegisterMetadata(caller, lot, metadata_) => UNCHANGED notarizations
  BY DEF ValidateAndRegisterMetadata
<1>4. \A caller, lot, account, level : GrantAccess(caller, lot, account, level) => UNCHANGED notarizations
  BY DEF GrantAccess
<1>5. \A caller, mimeType : AddAllowedMimeType(caller, mimeType) => UNCHANGED notarizations
  BY DEF AddAllowedMimeType
<1>6. \A caller, lot, hash : NotarizeDocument(caller, lot, hash) => NotarizationsStay
  BY DEF NotarizeDocument, NotarizationsStay
<1>7. UNCHANGED ipfsVars => UNCHANGED notarizations
  BY DEF ipfsVars
<1> QED
  BY <1>1, <1>2, <1>3, <1>4, <1>5, <1>6, <1>7 DEF IpfsMoves, DocumentRightsNext

\* Checks and payments have numbers up to the counter, and a payment that is still open
\* was not completed.
PartyInv ==
    /\ requestCounter \in Nat
    /\ DOMAIN kycRequests \cup DOMAIN payments \subseteq 1..requestCounter
    /\ \A n \in DOMAIN payments :
          /\ payments[n] \in [payer : Parties, service : Nat, status : RequestStatuses, tokens : Nat, completed : Nat]
          /\ payments[n].status \in {"Pending", "Processing"} => payments[n].completed = 0
    /\ thirdServices \in Seq(ServiceConfig)
    /\ block \in Nat

\* At first no service is registered and nothing was asked for.
LEMMA PartyInvInit == ChainInit /\ ThirdPartyInit => PartyInv
  BY EmptySeq DEF ChainInit, ThirdPartyInit, PartyInv

\* Each message keeps the numbers, and what was final (register_service,
\* update_service_status, initiate_kyc_request, update_kyc_status,
\* initiate_fiat_payment, complete_payment).
LEMMA PartyStep == PartyInv /\ [ThirdPartyMoves]_<<block, thirdPartyVars>> => PartyInv' /\ RequestsAreFinal
<1> SUFFICES ASSUME PartyInv, [ThirdPartyMoves]_<<block, thirdPartyVars>> PROVE PartyInv' /\ RequestsAreFinal
  OBVIOUS
<1> USE ThirdPartyConstants
<1>0. /\ Len(thirdServices) \in Nat /\ DOMAIN thirdServices = 1..Len(thirdServices)
      /\ \A id \in DOMAIN thirdServices : thirdServices[id] \in ServiceConfig
  BY LenProperties, ElementOfSeq DEF PartyInv
<1>1. ASSUME NEW caller, NEW t \in ServiceTypes, NEW p \in Parties, NEW f \in FeeArgs,
             RegisterService(caller, t, p, f), UNCHANGED block
      PROVE  PartyInv' /\ RequestsAreFinal
  BY <1>1, <1>0, AppendProperties DEF ServiceConfig, ServiceStatuses, RegisterService, PartyInv, RequestsAreFinal
<1>2. ASSUME NEW caller, NEW id \in DOMAIN thirdServices, NEW s \in ServiceStatuses,
             UpdateServiceStatus(caller, id, s), UNCHANGED block
      PROVE  PartyInv' /\ RequestsAreFinal
  <2>1. /\ thirdServices' = [thirdServices EXCEPT ![id].status = s]
        /\ UNCHANGED <<kycRequests, payments, requestCounter>>
    BY <1>2 DEF UpdateServiceStatus
  <2> DEFINE q == [thirdServices[id] EXCEPT !.status = s]
  <2>2. q \in ServiceConfig
    BY <1>0 DEF ServiceConfig
  <2>3. [q EXCEPT !.status = "Active"] = [thirdServices[id] EXCEPT !.status = "Active"]
    BY <1>0 DEF ServiceConfig
  <2>4. thirdServices' = [thirdServices EXCEPT ![id] = q]
    BY <2>1
  <2> HIDE DEF q
  <2>5. thirdServices' \in Seq(ServiceConfig)
    BY <2>2, <2>4, ExceptSeq DEF PartyInv
  <2>6. \A k \in DOMAIN thirdServices : thirdServices'[k] = IF k = id THEN q ELSE thirdServices[k]
    BY <2>4, <1>0
  <2>7. \A k \in DOMAIN thirdServices :
            [thirdServices'[k] EXCEPT !.status = "Active"] = [thirdServices[k] EXCEPT !.status = "Active"]
    BY <2>3, <2>6
  <2> QED
    BY <1>2, <2>1, <2>5, <2>7 DEF PartyInv, RequestsAreFinal
<1>3. ASSUME NEW caller, NEW id \in DOMAIN thirdServices, NEW u \in Parties,
             InitiateKycRequest(caller, id, u), UNCHANGED block
      PROVE  PartyInv' /\ RequestsAreFinal
  BY <1>3 DEF InitiateKycRequest, Filed, PartyInv, RequestsAreFinal
<1>4. ASSUME NEW caller \in Parties, NEW id \in DOMAIN thirdServices, InitiateFiatPayment(caller, id),
             UNCHANGED block
      PROVE  PartyInv' /\ RequestsAreFinal
  <2> DEFINE q == [payer |-> caller, service |-> id, status |-> "Pending", tokens |-> 0, completed |-> 0]
  <2>1. /\ requestCounter' = requestCounter + 1
        /\ UNCHANGED <<thirdServices, kycRequests>>
        /\ DOMAIN payments' = DOMAIN payments \cup {requestCounter + 1}
        /\ payments'[requestCounter + 1] = q
        /\ \A n \in DOMAIN payments : n # requestCounter + 1 => payments'[n] = payments[n]
    BY <1>4 DEF InitiateFiatPayment, Filed
  <2>2. \A n \in DOMAIN payments : n # requestCounter + 1
    BY DEF PartyInv
  <2>3. caller \in Parties => q \in [payer : Parties, service : Nat, status : RequestStatuses, tokens : Nat, completed : Nat]
    BY <1>0 DEF RequestStatuses
  <2> QED
    BY <1>4, <2>1, <2>2, <2>3, SMTT(30) DEF PartyInv, RequestsAreFinal
<1>5. ASSUME NEW caller, NEW n \in DOMAIN kycRequests, NEW s, NEW l, NEW d,
             UpdateKycStatus(caller, n, s, l, d), UNCHANGED block
      PROVE  PartyInv' /\ RequestsAreFinal
  BY <1>5 DEF UpdateKycStatus, PartyInv, RequestsAreFinal
<1>6. ASSUME NEW caller, NEW n \in DOMAIN payments, NEW success \in BOOLEAN, NEW t \in PaymentTokens,
             CompletePayment(caller, n, success, t), UNCHANGED block
      PROVE  PartyInv' /\ RequestsAreFinal
  <2> DEFINE q == [payments[n] EXCEPT !.status = IF success THEN "Approved" ELSE "Failed", !.tokens = t,
                                      !.completed = block]
  <2>1. /\ payments' = [payments EXCEPT ![n] = q]
        /\ UNCHANGED <<thirdServices, kycRequests, requestCounter>>
        /\ payments[n].status \in {"Pending", "Processing"}
    BY <1>6 DEF CompletePayment
  <2>2. /\ q \in [payer : Parties, service : Nat, status : RequestStatuses, tokens : Nat, completed : Nat]
        /\ q.status \notin {"Pending", "Processing"}
    BY <1>6 DEF PartyInv, RequestStatuses
  <2> HIDE DEF q
  <2>3. /\ DOMAIN payments' = DOMAIN payments
        /\ \A k \in DOMAIN payments : payments'[k] = IF k = n THEN q ELSE payments[k]
    BY <2>1
  <2> QED
    BY <1>6, <2>1, <2>2, <2>3 DEF PartyInv, RequestsAreFinal
<1>7. CASE UNCHANGED thirdPartyVars /\ block' \in Nat
  BY <1>7 DEF thirdPartyVars, PartyInv, RequestsAreFinal
<1>8. CASE ThirdPartyNext /\ UNCHANGED block
  BY <1>1, <1>2, <1>3, <1>4, <1>5, <1>6, <1>8 DEF ThirdPartyNext
<1>9. block \in Nat
  BY DEF PartyInv
<1> QED
  BY <1>7, <1>8, <1>9 DEF ThirdPartyMoves, NextBlock

\* Metadata are records of their type, and the history knows of no version that is still
\* to come.
MetadataRecord ==
    [version : Nat, type : EstateTypes, hash : Digests, attributes : Nat, media : [MediaCategories -> Nat],
     legal : Seq(LegalDocumentRef), finalized : BOOLEAN, updated : Nat]
MetaInv ==
    /\ block \in Nat /\ documentCounter \in Nat
    /\ \A id \in DOMAIN metadata : metadata[id] \in MetadataRecord
    /\ \A e \in DOMAIN versionHistory : e[1] \in DOMAIN metadata /\ e[2] \in Nat /\ e[2] <= metadata[e[1]].version

\* A contract without metadata satisfies it.
LEMMA MetaInvInit == ChainInit /\ MetadataInit => MetaInv
  BY DEF ChainInit, MetadataInit, MetaInv

\* Editing a property that is not final leaves what is final, and the history.
SameContents(z, m) == [z EXCEPT !.legal = << >>] = [m EXCEPT !.legal = << >>] /\ Len(z.legal) = Len(m.legal)

\* An edit of one record of metadata keeps versions growing, and a finalized record
\* as it is.
LEMMA EditKeeps ==
    ASSUME MetaInv, NEW id \in DOMAIN metadata, NEW z \in MetadataRecord,
           metadata' = [metadata EXCEPT ![id] = z], z.version >= metadata[id].version,
           documentCounter' \in Nat, UNCHANGED <<block, versionHistory>>,
           metadata[id].finalized => SameContents(z, metadata[id])
    PROVE  MetaInv' /\ FinalizedStays
<1>1. DOMAIN metadata' = DOMAIN metadata /\ \A k \in DOMAIN metadata : metadata'[k] = IF k = id THEN z ELSE metadata[k]
  OBVIOUS
<1>2. metadata[id].version \in Nat /\ z.version \in Nat
  BY DEF MetaInv, MetadataRecord
<1>3. \A k \in DOMAIN metadata : metadata'[k] \in MetadataRecord
  BY <1>1 DEF MetaInv
<1>4. \A e \in DOMAIN versionHistory : e[2] <= metadata'[e[1]].version
  BY <1>1, <1>2 DEF MetaInv
<1>5. MetaInv'
  BY <1>1, <1>3, <1>4 DEF MetaInv
<1>6. FinalizedStays
  BY <1>1 DEF FinalizedStays, SameContents
<1> QED
  BY <1>5, <1>6

\* A new version, of a property that is new or not final, gets an entry of its own.
LEMMA VersionKeeps ==
    ASSUME MetaInv, NEW id, NEW z \in MetadataRecord, NEW entry,
           id \in DOMAIN metadata => ~metadata[id].finalized /\ z.version = metadata[id].version + 1,
           metadata' = Entered(metadata, id, z), versionHistory' = Entered(versionHistory, <<id, z.version>>, entry),
           UNCHANGED <<block, documentCounter>>
    PROVE  MetaInv' /\ FinalizedStays
<1>1. /\ DOMAIN metadata' = DOMAIN metadata \cup {id}
      /\ metadata'[id] = z /\ \A k \in DOMAIN metadata : k # id => metadata'[k] = metadata[k]
  BY DEF Entered
<1>2. /\ DOMAIN versionHistory' = DOMAIN versionHistory \cup {<<id, z.version>>}
      /\ \A e \in DOMAIN versionHistory : e # <<id, z.version>> => versionHistory'[e] = versionHistory[e]
  BY DEF Entered
<1>3. z.version \in Nat
  BY DEF MetadataRecord
<1>4. \A e \in DOMAIN versionHistory : e[1] \in DOMAIN metadata /\ e[2] \in Nat /\ e[2] <= metadata[e[1]].version
  BY DEF MetaInv
<1>5. id \in DOMAIN metadata => metadata[id].version \in Nat
  BY DEF MetaInv, MetadataRecord
<1>6. <<id, z.version>> \notin DOMAIN versionHistory
  BY <1>4, <1>3, <1>5
<1>7. ASSUME NEW e \in DOMAIN versionHistory'
      PROVE  e[1] \in DOMAIN metadata' /\ e[2] \in Nat /\ e[2] <= metadata'[e[1]].version
  BY <1>1, <1>3, <1>4, <1>5, <1>2
<1>8. MetaInv'
  BY <1>1, <1>7 DEF MetaInv
<1>9. FinalizedStays
  BY <1>1, <1>2, <1>6 DEF FinalizedStays
<1> QED
  BY <1>8, <1>9

\* Each message keeps what was final.
LEMMA MetaStep == MetaInv /\ [MetadataMoves]_<<block, metadataVars>> => MetaInv' /\ FinalizedStays
<1> SUFFICES ASSUME MetaInv, [MetadataMoves]_<<block, metadataVars>> PROVE MetaInv' /\ FinalizedStays
  OBVIOUS
<1> USE MetadataConstants
<1>0. block \in Nat /\ documentCounter \in Nat /\ \A id \in DOMAIN metadata : metadata[id] \in MetadataRecord
  BY DEF MetaInv
<1>1. ASSUME NEW caller \in Editors, NEW id \in Estates, NEW t \in EstateTypes, NEW h \in Digests,
             CreateMetadata(caller, id, t, h), UNCHANGED block
      PROVE  MetaInv' /\ FinalizedStays
  <2> DEFINE z == [version |-> 1, type |-> t, hash |-> h, attributes |-> 0, media |-> NoMedia, legal |-> << >>,
                   finalized |-> FALSE, updated |-> block]
  <2>1. << >> \in Seq(LegalDocumentRef) /\ NoMedia \in [MediaCategories -> Nat]
    BY EmptySeq DEF NoMedia
  <2>2. z \in MetadataRecord /\ z.version = 1
    BY <1>0, <2>1 DEF MetadataRecord
  <2>3. /\ metadata' = Entered(metadata, id, z) /\ id \notin DOMAIN metadata
        /\ versionHistory' = Entered(versionHistory, <<id, 1>>, [hash |-> h, by |-> caller])
        /\ documentCounter' = documentCounter
    BY <1>1 DEF CreateMetadata
  <2> HIDE DEF z
  <2> QED
    BY <1>1, <2>2, <2>3, VersionKeeps
<1>2. ASSUME NEW caller \in Editors, NEW id \in Estates, NEW t \in EstateTypes, NEW h \in Digests,
             UpdateMetadata(caller, id, t, h), UNCHANGED block
      PROVE  MetaInv' /\ FinalizedStays
  <2> DEFINE m == metadata[id]
             v == m.version + 1
             z == [version |-> v, type |-> t, hash |-> h, attributes |-> m.attributes, media |-> m.media,
                   legal |-> m.legal, finalized |-> m.finalized, updated |-> block]
  <2>1. id \in DOMAIN metadata /\ ~m.finalized
    BY <1>2 DEF UpdateMetadata, Editable
  <2>2. m \in MetadataRecord
    BY <1>0, <2>1
  <2>3. z \in MetadataRecord /\ z.version = m.version + 1
    BY <1>0, <2>2 DEF MetadataRecord
  <2>4. [m EXCEPT !.version = v, !.type = t, !.hash = h, !.updated = block] = z
    <3> DEFINE z1 == [version |-> v, type |-> m.type, hash |-> m.hash, attributes |-> m.attributes, media |-> m.media,
                      legal |-> m.legal, finalized |-> m.finalized, updated |-> m.updated]
               z2 == [z1 EXCEPT !.type = t]
               z3 == [z2 EXCEPT !.hash = h]
    <3> HIDE DEF m
    <3>1. [m EXCEPT !.version = v] = z1
      BY <2>2 DEF MetadataRecord
    <3>2. z2 = [version |-> v, type |-> t, hash |-> m.hash, attributes |-> m.attributes, media |-> m.media,
                legal |-> m.legal, finalized |-> m.finalized, updated |-> m.updated]
      OBVIOUS
    <3>3. z3 = [version |-> v, type |-> t, hash |-> h, attributes |-> m.attributes, media |-> m.media,
                legal |-> m.legal, finalized |-> m.finalized, updated |-> m.updated]
      <4> HIDE DEF z2
      <4> QED
        BY <3>2
    <3>4. [z3 EXCEPT !.updated = block] = z
      <4> HIDE DEF z3
      <4> QED
        BY <3>3
    <3> QED
      BY <3>1, <3>4
  <2>5. metadata' = [metadata EXCEPT ![id] = [m EXCEPT !.version = v, !.type = t, !.hash = h, !.updated = block]]
    BY <1>2, <2>1 DEF UpdateMetadata
  <2>6. /\ versionHistory' = Entered(versionHistory, <<id, z.version>>, [hash |-> h, by |-> caller])
        /\ documentCounter' = documentCounter
    BY <1>2, <2>3 DEF UpdateMetadata
  <2> HIDE DEF z
  <2>7. metadata' = Entered(metadata, id, z)
    BY <2>1, <2>4, <2>5 DEF Entered
  <2> QED
    BY <1>2, <2>1, <2>3, <2>6, <2>7, VersionKeeps
<1>3. ASSUME NEW caller \in Editors, NEW id \in Estates, FinalizeMetadata(caller, id), UNCHANGED block
      PROVE  MetaInv' /\ FinalizedStays
  <2> DEFINE z == [metadata[id] EXCEPT !.finalized = TRUE, !.updated = block]
  <2>1. id \in DOMAIN metadata /\ ~metadata[id].finalized
    BY <1>3 DEF FinalizeMetadata, Editable
  <2>2. z \in MetadataRecord /\ z.version = metadata[id].version /\ z.version \in Nat
    BY <1>0, <2>1 DEF MetadataRecord
  <2>3. metadata' = [metadata EXCEPT ![id] = z] /\ UNCHANGED <<versionHistory, documentCounter>>
    BY <1>3, <2>1 DEF FinalizeMetadata
  <2> HIDE DEF z
  <2>20. z.version >= metadata[id].version /\ documentCounter' \in Nat /\ UNCHANGED <<block, versionHistory>>
    BY <1>0, <1>3, <2>1, <2>2, <2>3
  <2>21. metadata[id].finalized => SameContents(z, metadata[id])
    BY <1>0, <1>3, <2>1, <2>2, <2>3
  <2> QED
    BY <2>20, <2>21, <1>0, <1>3, <2>1, <2>2, <2>3, EditKeeps
<1>4. ASSUME NEW caller \in Editors, NEW id \in Estates, AddCustomAttribute(caller, id), UNCHANGED block
      PROVE  MetaInv' /\ FinalizedStays
  <2> DEFINE n == metadata[id].attributes + 1
             z == [metadata[id] EXCEPT !.attributes = n, !.updated = block]
  <2>1. id \in DOMAIN metadata /\ ~metadata[id].finalized
    BY <1>4 DEF AddCustomAttribute, Editable
  <2>4. n \in Nat
    BY <1>0, <2>1 DEF MetadataRecord
  <2>3. metadata' = [metadata EXCEPT ![id] = z] /\ UNCHANGED <<versionHistory, documentCounter>>
    BY <1>4, <2>1 DEF AddCustomAttribute
  <2> HIDE DEF n
  <2>2. z \in MetadataRecord /\ z.version = metadata[id].version /\ z.version \in Nat
    BY <1>0, <2>1, <2>4 DEF MetadataRecord
  <2> HIDE DEF z
  <2>20. z.version >= metadata[id].version /\ documentCounter' \in Nat /\ UNCHANGED <<block, versionHistory>>
    BY <1>0, <1>4, <2>1, <2>2, <2>3
  <2>21. metadata[id].finalized => SameContents(z, metadata[id])
    BY <1>0, <1>4, <2>1, <2>2, <2>3
  <2> QED
    BY <2>20, <2>21, <1>0, <1>4, <2>1, <2>2, <2>3, EditKeeps
<1>5. ASSUME NEW caller \in Editors, NEW id \in Estates, NEW c \in MediaCategories, AddMediaItem(caller, id, c), UNCHANGED block
      PROVE  MetaInv' /\ FinalizedStays
  <2> DEFINE q == [metadata[id].media EXCEPT ![c] = @ + 1]
             z == [metadata[id] EXCEPT !.media = q, !.updated = block]
  <2>1. id \in DOMAIN metadata /\ ~metadata[id].finalized
    BY <1>5 DEF AddMediaItem, Editable
  <2>2. q \in [MediaCategories -> Nat]
    BY <1>0, <2>1 DEF MetadataRecord
  <2>3. metadata' = [metadata EXCEPT ![id] = z] /\ UNCHANGED <<versionHistory, documentCounter>>
    BY <1>5, <2>1 DEF AddMediaItem
  <2> HIDE DEF q
  <2>4. z \in MetadataRecord /\ z.version = metadata[id].version /\ z.version \in Nat
    BY <1>0, <2>1, <2>2 DEF MetadataRecord
  <2> HIDE DEF z
  <2>20. z.version >= metadata[id].version /\ documentCounter' \in Nat /\ UNCHANGED <<block, versionHistory>>
    BY <1>0, <1>5, <2>1, <2>3, <2>4
  <2>21. metadata[id].finalized => SameContents(z, metadata[id])
    BY <1>0, <1>5, <2>1, <2>3, <2>4
  <2> QED
    BY <2>20, <2>21, <1>0, <1>5, <2>1, <2>3, <2>4, EditKeeps
<1>6. ASSUME NEW caller \in Editors, NEW id \in Estates, AddLegalDocument(caller, id), UNCHANGED block
      PROVE  MetaInv' /\ FinalizedStays
  <2> DEFINE d == [id |-> documentCounter + 1, verifiedBy |-> "nobody"]
             q == Append(metadata[id].legal, d)
             z == [metadata[id] EXCEPT !.legal = q, !.updated = block]
  <2>1. id \in DOMAIN metadata /\ ~metadata[id].finalized
    BY <1>6 DEF AddLegalDocument, Editable
  <2>2. d \in LegalDocumentRef /\ metadata[id].legal \in Seq(LegalDocumentRef)
    <3>1. documentCounter + 1 \in Nat
      BY <1>0
    <3>2. d \in LegalDocumentRef
      BY <3>1 DEF LegalDocumentRef
    <3>3. metadata[id].legal \in Seq(LegalDocumentRef)
      BY <1>0, <2>1 DEF MetadataRecord
    <3> QED
      BY <3>2, <3>3
  <2>3. metadata' = [metadata EXCEPT ![id] = z] /\ UNCHANGED versionHistory /\ documentCounter' = documentCounter + 1
    BY <1>6, <2>1 DEF AddLegalDocument
  <2> HIDE DEF d
  <2>4. q \in Seq(LegalDocumentRef)
    BY <2>2, AppendProperties
  <2> HIDE DEF q
  <2>5. z \in MetadataRecord /\ z.version = metadata[id].version /\ z.version \in Nat
    BY <1>0, <2>1, <2>4 DEF MetadataRecord
  <2> HIDE DEF z
  <2>20. z.version >= metadata[id].version /\ documentCounter' \in Nat /\ UNCHANGED <<block, versionHistory>>
    BY <1>0, <1>6, <2>1, <2>3, <2>5
  <2>21. metadata[id].finalized => SameContents(z, metadata[id])
    BY <1>0, <1>6, <2>1, <2>3, <2>5
  <2> QED
    BY <2>20, <2>21, <1>0, <1>6, <2>1, <2>3, <2>5, EditKeeps
<1>7. ASSUME NEW caller \in Editors, NEW id \in Estates, NEW d, VerifyLegalDocument(caller, id, d), UNCHANGED block
      PROVE  MetaInv' /\ FinalizedStays
  <2>1. id \in DOMAIN metadata /\ UNCHANGED <<versionHistory, documentCounter>>
    BY <1>7 DEF VerifyLegalDocument
  <2>2. PICK i \in DOMAIN metadata[id].legal : metadata' = [metadata EXCEPT ![id].legal[i].verifiedBy = caller]
    BY <1>7 DEF VerifyLegalDocument
  <2> DEFINE l == metadata[id].legal
             e == [l[i] EXCEPT !.verifiedBy = caller]
             q == [l EXCEPT ![i] = e]
             z == [metadata[id] EXCEPT !.legal = q]
  <2>3. l \in Seq(LegalDocumentRef)
    BY <1>0, <2>1 DEF MetadataRecord
  <2>4. i \in 1..Len(l) /\ l[i] \in LegalDocumentRef
    BY <2>3, ElementOfSeq, LenProperties
  <2>5. e \in LegalDocumentRef
    BY <2>4 DEF LegalDocumentRef
  <2>6. metadata' = [metadata EXCEPT ![id] = z]
    BY <2>1, <2>2
  <2> HIDE DEF e
  <2>7. q \in Seq(LegalDocumentRef) /\ Len(q) = Len(l)
    BY <2>3, <2>4, <2>5, ExceptSeq
  <2> HIDE DEF q
  <2>8. z \in MetadataRecord /\ z.version = metadata[id].version /\ z.version \in Nat /\ z.legal = q
    BY <1>0, <2>1, <2>7 DEF MetadataRecord
  <2>9. [z EXCEPT !.legal = << >>] = [metadata[id] EXCEPT !.legal = << >>]
    BY <1>0, <2>1 DEF MetadataRecord
  <2>10. SameContents(z, metadata[id])
    BY <2>7, <2>8, <2>9 DEF SameContents
  <2> HIDE DEF z
  <2>20. z.version >= metadata[id].version /\ documentCounter' \in Nat /\ UNCHANGED <<block, versionHistory>>
    BY <1>0, <1>7, <2>1, <2>6, <2>8, <2>10
  <2>21. metadata[id].finalized => SameContents(z, metadata[id])
    BY <1>0, <1>7, <2>1, <2>6, <2>8, <2>10
  <2> QED
    BY <2>20, <2>21, <1>0, <1>7, <2>1, <2>6, <2>8, <2>10, EditKeeps
<1>8. UNCHANGED <<metadata, versionHistory, documentCounter>> /\ block' \in Nat => MetaInv' /\ FinalizedStays
  BY DEF MetaInv, FinalizedStays
<1>9. \A caller, account, isVerifier : SetVerifier(caller, account, isVerifier) =>
          UNCHANGED <<metadata, versionHistory, documentCounter>>
  BY DEF SetVerifier
<1>10. \A caller, l : UpdateLimits(caller, l) => UNCHANGED <<metadata, versionHistory, documentCounter>>
  BY DEF UpdateLimits
<1>11. CASE VersioningNext /\ UNCHANGED block
  BY <1>1, <1>2, <1>3, <1>11 DEF VersioningNext
<1>12. CASE AttachmentsNext /\ UNCHANGED block
  BY <1>0, <1>4, <1>5, <1>6, <1>7, <1>8, <1>9, <1>10, <1>12 DEF AttachmentsNext
<1>13. CASE UNCHANGED metadataVars /\ block' \in Nat
  BY <1>8, <1>13 DEF metadataVars
<1> QED
  BY <1>0, <1>11, <1>12, <1>13 DEF MetadataMoves, NextBlock

\* Whatever is final stays so: finalized metadata but for who verified their documents, the
\* history of versions, decided checks and completed payments, notarized hashes
\* (finalize_metadata, update_kyc_status, complete_payment, notarize_document).
THEOREM RecordsStayFinal == MetadataSpec /\ ThirdPartySpec /\ IpfsSpec => RecordsAreFinal
<1>1. MetadataSpec => [][FinalizedStays]_<<block, metadataVars>>
  BY MetaInvInit, MetaStep, PTL DEF MetadataSpec
<1>2. ThirdPartySpec => [][RequestsAreFinal]_<<block, thirdPartyVars>>
  BY PartyInvInit, PartyStep, PTL DEF ThirdPartySpec
<1>3. IpfsSpec => [][NotarizationsStay]_<<block, ipfsVars>>
  BY NotarizationsKept, PTL DEF IpfsSpec
<1>4. [FinalizedStays]_<<block, metadataVars>> => FinalizedStays
  BY DEF metadataVars, FinalizedStays
<1>5. [RequestsAreFinal]_<<block, thirdPartyVars>> => RequestsAreFinal
  BY DEF thirdPartyVars, RequestsAreFinal
<1>6. [NotarizationsStay]_<<block, ipfsVars>> => NotarizationsStay
  BY DEF ipfsVars, NotarizationsStay
<1> QED
  BY <1>1, <1>2, <1>3, <1>4, <1>5, <1>6, PTL DEF RecordsAreFinal
====

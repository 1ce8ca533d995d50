---- MODULE AuditTrail ----
(***************************************************************************)
(* The audit trail that the property registry keeps of its security        *)
(* events: records chained by hashes, with an index per actor and per type *)
(* of event. A hash is modelled by what it is computed from, so that       *)
(* different contents have different hashes. `detail` stands for severity, *)
(* resource, extra data and time of a record.                              *)
(***************************************************************************)
EXTENDS Integers, Sequences

CONSTANTS Actors, EventTypes, Details, MaxRecords

VARIABLES auditRecords, latestHash, actorIndex, typeIndex

auditVars == <<auditRecords, latestHash, actorIndex, typeIndex>>

ASSUME AuditConstants == MaxRecords \in Nat

Genesis == << >>

AuditInit ==
    /\ auditRecords = << >> /\ latestHash = Genesis
    /\ actorIndex = [a \in Actors |-> << >>]
    /\ typeIndex = [t \in EventTypes |-> << >>]

RecordHash(previous, id, actor, type, detail) == <<previous, id, actor, type, detail>>

\* Mutant: the new record is hashed without its predecessor.
LogEvent_Unchained(actor, type, detail) ==
    LET id == Len(auditRecords) + 1
        hash == RecordHash(Genesis, id, actor, type, detail)
    IN  /\ auditRecords' = Append(auditRecords, [actor |-> actor, type |-> type, detail |-> detail, hash |-> hash])
        /\ latestHash' = hash
        /\ actorIndex' = [actorIndex EXCEPT ![actor] = Append(@, id)]
        /\ typeIndex' = [typeIndex EXCEPT ![type] = Append(@, id)]

LogEvent(actor, type, detail) ==
    LET id == Len(auditRecords) + 1
        hash == RecordHash(latestHash, id, actor, type, detail)
    IN  /\ auditRecords' = Append(auditRecords, [actor |-> actor, type |-> type, detail |-> detail, hash |-> hash])
        /\ latestHash' = hash
        /\ actorIndex' = [actorIndex EXCEPT ![actor] = Append(@, id)]
        /\ typeIndex' = [typeIndex EXCEPT ![type] = Append(@, id)]

\* A page of an index: up to `limit` entries after the first `offset`.
Page(index, offset, limit) ==
    SubSeq(index, offset + 1, IF offset + limit < Len(index) THEN offset + limit ELSE Len(index))
ActorRecords(actor, offset, limit) == Page(actorIndex[actor], offset, limit)
TypeRecords(type, offset, limit) == Page(typeIndex[type], offset, limit)

\* Recomputes the hashes of a range of records, trusting the one before it.
PreviousHash(records, id) == IF id = 1 THEN Genesis ELSE records[id - 1].hash
HashHolds(records, id) ==
    records[id].hash = RecordHash(PreviousHash(records, id), id, records[id].actor, records[id].type, records[id].detail)
VerifyIntegrity(records, from, to) ==
    /\ from # 0 /\ from <= to /\ to <= Len(records)
    /\ \A id \in from..to : HashHolds(records, id)

AuditNext ==
    \E actor \in Actors, type \in EventTypes, detail \in Details :
        Len(auditRecords) < MaxRecords /\ LogEvent(actor, type, detail)

AuditSpec == AuditInit /\ [][AuditNext]_auditVars

----
\* Properties

\* Every range of records verifies, and the head of the chain is the hash of the newest
\* record (log_event, verify_integrity).
ChainIntact ==
    /\ \A id \in 1..Len(auditRecords) : HashHolds(auditRecords, id)
    /\ latestHash = IF auditRecords = << >> THEN Genesis ELSE auditRecords[Len(auditRecords)].hash

\* Each record is in the index of its actor and of its type, once and in order, and in no
\* other (log_event).
IndexesComplete ==
    /\ \A a \in Actors : \A i \in DOMAIN actorIndex[a] :
          /\ actorIndex[a][i] \in 1..Len(auditRecords) /\ auditRecords[actorIndex[a][i]].actor = a
          /\ i > 1 => actorIndex[a][i - 1] < actorIndex[a][i]
    /\ \A t \in EventTypes : \A i \in DOMAIN typeIndex[t] :
          /\ typeIndex[t][i] \in 1..Len(auditRecords) /\ auditRecords[typeIndex[t][i]].type = t
          /\ i > 1 => typeIndex[t][i - 1] < typeIndex[t][i]
    /\ \A id \in 1..Len(auditRecords) :
          /\ \E i \in DOMAIN actorIndex[auditRecords[id].actor] : actorIndex[auditRecords[id].actor][i] = id
          /\ \E i \in DOMAIN typeIndex[auditRecords[id].type] : typeIndex[auditRecords[id].type][i] = id

\* The trail can be relied on: chain and indexes are whole, and a record whose actor is
\* exchanged afterwards is found out by every range that holds it.
AuditTrailSound ==
    /\ ChainIntact /\ IndexesComplete
    /\ \A id \in 1..Len(auditRecords), a \in Actors :
          LET forged == [auditRecords EXCEPT ![id].actor = a] IN
          \A from \in 1..id, to \in id..Len(auditRecords) : VerifyIntegrity(forged, from, to) => a = auditRecords[id].actor
    /\ \A a \in Actors, n \in 0..Len(auditRecords) :
          n <= Len(actorIndex[a]) => ActorRecords(a, 0, n) \o ActorRecords(a, n, MaxRecords) = actorIndex[a]
    /\ \A t \in EventTypes, n \in 0..Len(auditRecords) :
          n <= Len(typeIndex[t]) => TypeRecords(t, 0, n) \o TypeRecords(t, n, MaxRecords) = typeIndex[t]
====

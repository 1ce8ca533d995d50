---- MODULE DatabaseSync ----
(***************************************************************************)
(* Coordination with off-chain databases: syncs that publishers announce,  *)
(* indexers confirm and anyone verifies by checksum; numbered snapshots    *)
(* and exports. Snapshot contents and the ranges of exports are not read   *)
(* by any message.                                                         *)
(***************************************************************************)
EXTENDS BlockClock, SequencesExt, FiniteSetsExt

CONSTANTS DatabaseAdmin, Nodes, DataTypes, Checksums, MaxSyncs, MaxExports

VARIABLES syncs, snapshotCounter, exports, indexers, indexerList, lastSyncBlock, publishers

databaseVars == <<syncs, snapshotCounter, exports, indexers, indexerList, lastSyncBlock, publishers>>

ASSUME DatabaseConstants == DatabaseAdmin \in Nodes /\ MaxSyncs \in Nat /\ MaxExports \in Nat

SyncStatuses == {"Initiated", "Confirmed", "Failed", "Verified"}
SyncRecord == [type : DataTypes, block : Nat, checksum : Checksums, status : SyncStatuses, by : Nodes]
IndexerInfo == [lastBlock : Nat, active : BOOLEAN]

DatabaseInit ==
    /\ syncs = << >> /\ snapshotCounter = 0 /\ exports = << >>
    /\ indexers = << >> /\ indexerList = << >>
    /\ lastSyncBlock = [t \in DataTypes |-> 0] /\ publishers = {}

EmitSyncEvent(caller, type, checksum) ==
    /\ caller = DatabaseAdmin \/ caller \in publishers
    /\ syncs' = Append(syncs, [type |-> type, block |-> block, checksum |-> checksum, status |-> "Initiated", by |-> caller])
    /\ lastSyncBlock' = [lastSyncBlock EXCEPT ![type] = block]
    /\ UNCHANGED <<snapshotCounter, exports, indexers, indexerList, publishers>>

\* In any status of the sync, by an indexer that is inactive too.
ConfirmSync(caller, id) ==
    /\ caller \in DOMAIN indexers /\ id \in DOMAIN syncs
    /\ syncs' = [syncs EXCEPT ![id].status = "Confirmed"]
    /\ indexers' = [indexers EXCEPT ![caller].lastBlock = syncs[id].block]
    /\ UNCHANGED <<snapshotCounter, exports, indexerList, lastSyncBlock, publishers>>

VerifySync(id, checksum) ==
    /\ id \in DOMAIN syncs
    /\ syncs' = [syncs EXCEPT ![id].status = IF syncs[id].checksum = checksum THEN "Verified" ELSE "Failed"]
    /\ UNCHANGED <<snapshotCounter, exports, indexers, indexerList, lastSyncBlock, publishers>>

RecordAnalyticsSnapshot(caller) ==
    /\ caller = DatabaseAdmin
    /\ snapshotCounter' = snapshotCounter + 1
    /\ UNCHANGED <<syncs, exports, indexers, indexerList, lastSyncBlock, publishers>>

RequestDataExport(caller, from, to) ==
    /\ caller = DatabaseAdmin /\ from <= to
    /\ exports' = Append(exports, "none")
    /\ UNCHANGED <<syncs, snapshotCounter, indexers, indexerList, lastSyncBlock, publishers>>

CompleteDataExport(caller, id, checksum) ==
    /\ caller = DatabaseAdmin /\ id \in DOMAIN exports
    /\ exports' = [exports EXCEPT ![id] = checksum]
    /\ UNCHANGED <<syncs, snapshotCounter, indexers, indexerList, lastSyncBlock, publishers>>

RegisterIndexer(caller, node) ==
    /\ caller = DatabaseAdmin /\ node \notin DOMAIN indexers
    /\ indexers' = [n \in DOMAIN indexers \cup {node} |-> IF n = node THEN [lastBlock |-> 0, active |-> TRUE] ELSE indexers[n]]
    /\ indexerList' = Append(indexerList, node)
    /\ UNCHANGED <<syncs, snapshotCounter, exports, lastSyncBlock, publishers>>

DeactivateIndexer(caller, node) ==
    /\ caller = DatabaseAdmin /\ node \in DOMAIN indexers
    /\ indexers' = [indexers EXCEPT ![node].active = FALSE]
    /\ UNCHANGED <<syncs, snapshotCounter, exports, indexerList, lastSyncBlock, publishers>>

SetPublisher(caller, node, may) ==
    /\ caller = DatabaseAdmin
    /\ publishers' = IF may THEN publishers \cup {node} ELSE publishers \ {node}
    /\ UNCHANGED <<syncs, snapshotCounter, exports, indexers, indexerList, lastSyncBlock>>

DatabaseNext ==
    \E caller \in Nodes :
        \/ \E t \in DataTypes, c \in Checksums : Len(syncs) < MaxSyncs /\ EmitSyncEvent(caller, t, c)
        \/ \E id \in DOMAIN syncs : ConfirmSync(caller, id) \/ \E c \in Checksums : VerifySync(id, c)
        \/ snapshotCounter < 1 /\ RecordAnalyticsSnapshot(caller)
        \/ \E from, to \in 0..1 : Len(exports) < MaxExports /\ RequestDataExport(caller, from, to)
        \/ \E id \in DOMAIN exports, c \in Checksums : CompleteDataExport(caller, id, c)
        \/ \E node \in Nodes : RegisterIndexer(caller, node) \/ DeactivateIndexer(caller, node)
        \/ \E node \in Nodes, may \in BOOLEAN : SetPublisher(caller, node, may)

----
\* Properties

DatabaseTypeOK ==
    /\ syncs \in Seq(SyncRecord) /\ exports \in Seq({"none"} \cup Checksums)
    /\ \A n \in DOMAIN indexers : indexers[n] \in IndexerInfo

\* A type's last block is that of its newest sync, syncs are in the order of their blocks,
\* an indexer stands at the block of a sync that was announced, never beyond, and each
\* indexer is listed once (emit_sync_event, confirm_sync, register_indexer).
DatabaseBooksAgree ==
    /\ DatabaseTypeOK
    /\ \A t \in DataTypes : lastSyncBlock[t] = Max({0} \cup {syncs[i].block : i \in {j \in DOMAIN syncs : syncs[j].type = t}})
    /\ \A i, j \in DOMAIN syncs : i <= j => syncs[i].block <= syncs[j].block
    /\ \A n \in DOMAIN indexers : indexers[n].lastBlock \in {0} \cup {syncs[i].block : i \in DOMAIN syncs}
    /\ Range(indexerList) = DOMAIN indexers /\ IsInjective(indexerList)
====

---- MODULE BridgeTracking ----
(***************************************************************************)
(* What the bridge reports about a request once it is under way: the       *)
(* status tracker of its two legs and the batches whose Merkle roots       *)
(* verify its transactions (contracts/bridge/src/lib.rs).                  *)
(*                                                                         *)
(* A transaction hash is modelled by what is hashed, so that two hashes    *)
(* agree exactly when the hashed data do; a relayer's hash has request 0.  *)
(***************************************************************************)
EXTENDS BridgeControl, Functions

CONSTANTS
    Roots,           \* Merkle roots a caller may submit
    RelayerHashes,   \* hashes of foreign transactions a relayer may report
    BatchArgs        \* <<size, duration>> an admin may configure

Hash == [request : Nat, src : Chains, dst : Chains, at : Nat]

ASSUME TrackingConstants ==
    /\ RelayerHashes \subseteq Hash
    /\ BatchArgs \subseteq (Nat \ {0}) \X (Nat \ {0})

VARIABLES
    tracker,        \* cross_chain_tx_status, by request id
    txHashIndex,    \* tx_hash_index
    batchWindow,    \* batch_window_counter and batch_window_start, per chain
    batchTx,        \* batch_transactions
    txBatch,        \* transaction_to_batch
    batchRoots,     \* batch_merkle_roots
    verifiedTx,     \* verified_transactions, those mapped to true
    batchConfig     \* <<batch_window_size, batch_window_duration>>

trackerVars == <<tracker, txHashIndex>>
batchVars == <<batchWindow, batchTx, txBatch, batchRoots, verifiedTx, batchConfig>>

Tracker ==
    [src : Chains, dst : Chains, srcStatus : ChainTxStatus, dstStatus : ChainTxStatus,
     overall : BridgeOperationStatus]

BatchKey == Chains \X Nat

TrackingTypeOK ==
    /\ tracker \in Seq(Tracker)
    /\ DOMAIN txHashIndex \subseteq Hash
    /\ \A h \in DOMAIN txHashIndex : txHashIndex[h] \in DOMAIN tracker
    /\ batchWindow \in [Chains -> [counter : Nat, start : Nat]]
    /\ DOMAIN batchTx \subseteq BatchKey
    /\ \A k \in DOMAIN batchTx : batchTx[k] \in Seq(Hash)
    /\ DOMAIN txBatch \subseteq Hash
    /\ \A h \in DOMAIN txBatch : txBatch[h] \in BatchKey
    /\ DOMAIN batchRoots \subseteq BatchKey
    /\ \A k \in DOMAIN batchRoots : batchRoots[k] \in Roots
    /\ verifiedTx \in SUBSET Hash
    /\ batchConfig \in (Nat \ {0}) \X (Nat \ {0})

TrackingInit ==
    /\ tracker = << >>
    /\ txHashIndex = << >>
    /\ batchWindow = [c \in Chains |-> [counter |-> 0, start |-> 0]]
    /\ batchTx = << >>
    /\ txBatch = << >>
    /\ batchRoots = << >>
    /\ verifiedTx = {}
    /\ batchConfig = <<10, 300>>

----
\* The tracker of one request

FreshTracker(src, dst) ==
    [src |-> src, dst |-> dst, srcStatus |-> "Submitted", dstStatus |-> "NotStarted",
     overall |-> "Pending"]

\* advance_cross_chain_status_on_execute
AdvancedTracker(t) ==
    [t EXCEPT !.srcStatus = "Confirmed", !.dstStatus = "Submitted", !.overall = "InTransit"]

\* Mutant: a rollback fails the tracker but not its legs.
FailedTracker_LegsKept(t) == [t EXCEPT !.overall = "Failed"]

\* fail_cross_chain_status: a leg that is already Confirmed stays so.
FailedTracker(t) ==
    LET Fail(leg) == IF leg = "Confirmed" THEN "Confirmed" ELSE "Failed"
    IN  [t EXCEPT !.srcStatus = Fail(@), !.dstStatus = Fail(@), !.overall = "Failed"]

IndexHash(hash, id) == txHashIndex' = MapInsert(txHashIndex, hash, id)

\* The source leg is looked at first, so that it is the one a report about a
\* chain that is both source and destination goes to.
ReportedTracker(t, chain, status) ==
    LET u == IF chain = t.src THEN [t EXCEPT !.srcStatus = status]
                              ELSE [t EXCEPT !.dstStatus = status]
    IN  [u EXCEPT !.overall = ComputeOverallStatus(u.srcStatus, u.dstStatus)]

UpdateChainTxStatus(caller, id, chain, status, hash) ==
    /\ caller = admin \/ caller \in operators
    /\ LET t == tracker[id]
       IN  /\ chain \in {t.src, t.dst}
           /\ IsValidChainStatusTransition(IF chain = t.src THEN t.srcStatus ELSE t.dstStatus,
                                           status)
           /\ tracker' = [tracker EXCEPT ![id] = ReportedTracker(t, chain, status)]
    /\ \/ hash = {} /\ UNCHANGED txHashIndex
       \/ \E h \in hash : IndexHash(h, id)
    /\ UNCHANGED <<controlVars, batchVars>>

ConfirmDestinationDelivery(caller, id, hash) ==
    UpdateChainTxStatus(caller, id, tracker[id].dst, "Confirmed", {hash})

TrackerNext ==
    \E caller \in Accounts, id \in 1..Len(tracker) :
        \/ \E chain \in Chains, status \in ChainTxStatus,
              hash \in {{}} \cup {{h} : h \in RelayerHashes} :
                 UpdateChainTxStatus(caller, id, chain, status, hash)
        \/ \E hash \in RelayerHashes : ConfirmDestinationDelivery(caller, id, hash)

----
\* Batches

\* Mutant: a new window keeps the number of the old one.
CurrentWindow_SameNumber(chain) ==
    LET w == batchWindow[chain]
    IN  IF w.start = 0 \/ Timestamp >= w.start + batchConfig[2]
        THEN [w EXCEPT !.start = Timestamp] ELSE w

\* get_or_create_batch_window: the window the chain's next transaction is in.
CurrentWindow(chain) ==
    LET w == batchWindow[chain]
    IN  IF w.start = 0 \/ Timestamp >= w.start + batchConfig[2]
        THEN [counter |-> w.counter + 1, start |-> Timestamp]
        ELSE w

TransactionsOf(key) == IF key \in DOMAIN batchTx THEN batchTx[key] ELSE << >>

AddTransactionToBatch(hash, chain) ==
    LET w   == CurrentWindow(chain)
        key == <<chain, w.counter>>
    IN  /\ batchWindow' = [batchWindow EXCEPT ![chain] = w]
        /\ batchTx' = MapInsert(batchTx, key, Append(TransactionsOf(key), hash))
        /\ txBatch' = MapInsert(txBatch, hash, key)
        /\ UNCHANGED <<batchRoots, verifiedTx, batchConfig>>

ConfigureBatchVerification(caller, args) ==
    /\ caller = admin
    /\ batchConfig' = args
    /\ UNCHANGED <<controlVars, trackerVars, batchWindow, batchTx, txBatch, batchRoots,
                   verifiedTx>>

SubmitBatchMerkleRoot(caller, key, root) ==
    /\ caller = admin \/ caller \in operators
    /\ key \in DOMAIN batchTx
    /\ batchTx[key] # << >>
    /\ batchRoots' = MapInsert(batchRoots, key, root)
    /\ UNCHANGED <<controlVars, trackerVars, batchWindow, batchTx, txBatch, verifiedTx,
                   batchConfig>>

VerifyBatchMerkleRoot(caller, key, root) ==
    /\ caller = admin \/ caller \in operators
    /\ key \in DOMAIN batchRoots
    /\ batchRoots[key] = root
    /\ verifiedTx' = verifiedTx \cup Range(batchTx[key])
    /\ UNCHANGED <<controlVars, trackerVars, batchWindow, batchTx, txBatch, batchRoots,
                   batchConfig>>

BatchNext ==
    \E caller \in Accounts :
        \/ \E args \in BatchArgs : ConfigureBatchVerification(caller, args)
        \/ \E key \in DOMAIN batchTx, root \in Roots :
              SubmitBatchMerkleRoot(caller, key, root) \/ VerifyBatchMerkleRoot(caller, key, root)

\* verify_bridge_transaction, a query
VerifyBridgeTransaction(hash) ==
    \/ hash \in verifiedTx
    \/ hash \in DOMAIN txBatch /\ txBatch[hash] \in DOMAIN batchRoots

----
\* Properties

\* The overall status a tracker shows is the one its two legs imply, with the
\* single exception of a rollback that comes after both legs are Confirmed: that
\* one is shown as Failed although neither leg is.
OverallStatusDerived ==
    \A id \in DOMAIN tracker :
        LET t == tracker[id]
        IN  \/ t.overall = ComputeOverallStatus(t.srcStatus, t.dstStatus)
            \/ t.overall = "Failed" /\ t.srcStatus = "Confirmed" /\ t.dstStatus = "Confirmed"

\* A transaction is in the batch it is mapped to, which belongs to the chain it
\* left from and to a window already opened; a root exists only for such a batch
\* and a verified transaction is in one that has a root. A request executed twice
\* at one time has one hash: if the admin shortens the windows in between, that
\* hash is in two batches, and it is mapped to the later one.
BatchesAgree ==
    /\ \A h \in DOMAIN txBatch : txBatch[h] \in DOMAIN batchTx /\ h \in Range(batchTx[txBatch[h]])
    /\ \A k \in DOMAIN batchTx :
          /\ k[2] \in 1..batchWindow[k[1]].counter
          /\ \A h \in Range(batchTx[k]) : /\ h \in DOMAIN txBatch
                                    /\ h.src = k[1]
                                    /\ k[2] <= txBatch[h][2]
    /\ DOMAIN batchRoots \subseteq DOMAIN batchTx
    /\ \A h \in verifiedTx : \E k \in DOMAIN batchRoots : h \in Range(batchTx[k])
====

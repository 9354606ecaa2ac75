-------------------------------- MODULE Reorg --------------------------------
(***************************************************************************)
(* The reorganisation coordinator (activate_best_chain and rollback) over  *)
(* the chainstate and the mempool.                                         *)
(*                                                                         *)
(* The coordinator disconnects the blocks above the fork point, connects   *)
(* those of the new branch, and gives the transactions of the disconnected *)
(* blocks back to the mempool.  If a block does not connect it goes back   *)
(* the same way.  Every block is a redb transaction of its own, so a crash *)
(* finds the chainstate at any block of the way.  The coordinator holds    *)
(* the header store and the mempool throughout; between activations the    *)
(* download manager connects blocks and peers send transactions.           *)
(*                                                                         *)
(* Headers and the block store are represented by what the coordinator     *)
(* asks of them: a best tip with more work than the active one, tips that  *)
(* were marked invalid, and the blocks that are in the block index.        *)
(***************************************************************************)
EXTENDS Chainstate, Mempool

CONSTANTS
    ChainWork,          \* ChainWork[b]: the work of the chain that ends in b
    Indexed,            \* blocks in the block index from earlier sessions
    MaxReorgDepth,      \* MAX_REORG_DEPTH
    PowerLoss,          \* power may fail, and not only the process
    MaxCrashes,         \* bound: crashes, power failures and exits
    MaxFaults           \* bound: block files that cannot be read

ASSUME ReorgAssumption ==
    /\ ChainWork \in [Block -> Nat] /\ Indexed \subseteq Block
    /\ MaxReorgDepth \in Nat /\ PowerLoss \in BOOLEAN
    /\ MaxCrashes \in Nat /\ MaxFaults \in Nat

VARIABLES
    pool,           \* the mempool
    indexed,        \* has_block: the blocks in the block index
    invalid,        \* invalid_tips of the header store
    pc,             \* what the coordinator is doing
    old_tip,        \* active_hash, the tip when it started
    target,         \* best_hash
    removed_txs,    \* mempool_removed_txs
    skipped,        \* a connected block was not taken out of the mempool
    crashes, faults \* counters for the bounds

vars == <<chainstate, pool, indexed, invalid, pc, old_tip, target, removed_txs,
          skipped, crashes, faults>>

Phase == {"idle", "disconnect", "connect", "undo_new", "redo_old"}

Init ==
    /\ InitChainstate
    /\ pool = EmptyPool
    /\ indexed = Indexed \cup {Root}
    /\ invalid = {}
    /\ pc = "idle" /\ old_tip = Root /\ target = Root
    /\ removed_txs = <<>>
    /\ skipped = FALSE
    /\ crashes = 0 /\ faults = 0

-----------------------------------------------------------------------------
(* Between activations.                                                    *)

\* connect_and_store of the download manager.  The mempool is updated if its
\* lock is free; the block reaches the index with a later flush, or not.
ConnectNext(b) ==
    /\ pc = "idle"
    /\ b # Root /\ Prev(b) = tip
    /\ ConnectBlock(b)
    /\ \/ pool' = WithoutBlock(pool, Txs[b]) /\ UNCHANGED skipped
       \/ skipped' = TRUE /\ UNCHANGED pool
    /\ indexed' \in {indexed, indexed \cup {b}}
    /\ UNCHANGED <<invalid, pc, old_tip, target, removed_txs, crashes, faults>>

\* accept_tx for a transaction from a peer.
AcceptTx(t) ==
    /\ pc = "idle"
    /\ Acceptable(pool, utxo, t)
    /\ pool' = Accepted(pool, t)
    /\ UNCHANGED <<chainstate, indexed, invalid, pc, old_tip, target, removed_txs,
                   skipped, crashes, faults>>

\* flush_store of the download manager.
Flush ==
    /\ FsyncUndo
    /\ UNCHANGED <<pool, indexed, invalid, pc, old_tip, target, removed_txs,
                   skipped, crashes, faults>>

-----------------------------------------------------------------------------
(* activate_best_chain.                                                    *)

\* find_fork_point.
ForkPoint(a, b) ==
    Chain[a][Max({i \in 1 .. Height(a) : i <= Height(b) /\ Chain[a][i] = Chain[b][i]})]

\* get_path: the blocks above f up to b.
Path(f, b) == SubSeq(Chain[b], Height(f) + 1, Height(b))

Fork == ForkPoint(old_tip, target)

\* The next block on the way from the tip up to b.
Above(b) == Chain[b][Height(tip) + 1]

\* The best header tip is not the active one; the branch is within the limits
\* and all its blocks are there.  Otherwise the call changes nothing.
Activate(b) ==
    /\ pc = "idle"
    /\ ChainWork[b] > ChainWork[tip]
    /\ Range(Chain[b]) \cap invalid = {}
    /\ LET f == ForkPoint(tip, b)
       IN  /\ Len(Path(f, tip)) <= MaxReorgDepth
           /\ Len(Path(f, b)) <= MaxReorgDepth
           /\ Range(Path(f, b)) \subseteq indexed
           /\ pc' = IF f = tip THEN "connect" ELSE "disconnect"
    /\ old_tip' = tip
    /\ target' = b
    /\ removed_txs' = <<>>
    /\ UNCHANGED <<chainstate, pool, indexed, invalid, skipped, crashes, faults>>

\* The call returns, and its local variables are gone.
Return ==
    /\ pc' = "idle"
    /\ old_tip' = Root /\ target' = Root
    /\ removed_txs' = <<>>

\* It returns an error with the chainstate where it is.
Abort ==
    /\ Return
    /\ UNCHANGED <<chainstate, pool, indexed, invalid, skipped, crashes>>

\* The file of the block that comes next, on the way there or on the way back,
\* cannot be read.
LoadFails ==
    /\ pc # "idle"
    /\ pc = "connect" => tip # target
    /\ pc = "redo_old" => tip # old_tip
    /\ faults < MaxFaults
    /\ faults' = faults + 1
    /\ Abort

DisconnectOld ==
    /\ pc = "disconnect"
    /\ tip \in indexed
    /\ DisconnectBlock(tip)
    /\ pc' = IF Prev(tip) = Fork THEN "connect" ELSE "disconnect"
    /\ UNCHANGED <<pool, indexed, invalid, old_tip, target, removed_txs, skipped,
                   crashes, faults>>

\* The block of the tip was never indexed, or its undo record is gone.
DisconnectFails ==
    /\ pc = "disconnect"
    /\ ~(tip \in indexed /\ CanDisconnect(tip))
    /\ Abort
    /\ UNCHANGED faults

\* The transactions of the block that are in the mempool.
Confirming(b) == SelectSeq(Txs[b], LAMBDA t : ~IsCoinbase(t) /\ t \in pool.txs)

ConnectNew ==
    /\ pc = "connect" /\ tip # target
    /\ ConnectBlock(Above(target))
    /\ removed_txs' = removed_txs \o Confirming(Above(target))
    /\ pool' = WithoutBlock(pool, Txs[Above(target)])
    /\ UNCHANGED <<indexed, invalid, pc, old_tip, target, skipped, crashes,
                   faults>>

\* rollback starts by disconnecting the new blocks, if there are any.
RollbackStart == IF tip = Fork THEN "redo_old" ELSE "undo_new"

\* A block of the new branch is not valid.
ConnectFails ==
    /\ pc = "connect" /\ tip # target
    /\ ~CanConnect(Above(target))
    /\ pc' = RollbackStart
    /\ UNCHANGED <<chainstate, pool, indexed, invalid, old_tip, target, removed_txs,
                   skipped, crashes, faults>>

\* The transactions of the disconnected blocks, in the order of disconnection.
DisconnectedTxs == FlattenSeq([i \in 1 .. Height(old_tip) - Height(Fork) |->
                                 Tail(Txs[Chain[old_tip][Height(old_tip) + 1 - i]])])

\* Variant: the transactions are checked against the UTXO set of the fork point.
ReaddedUnchecked == Readded(pool, UtxoOf[Fork], DisconnectedTxs)

\* readd_disconnected_txs against the new UTXO set.
PoolAfterReorg == Readded(pool, utxo, DisconnectedTxs)

\* switch_active_chain and the return of the transactions.
Reorganized ==
    /\ pc = "connect" /\ tip = target
    /\ pool' = PoolAfterReorg
    /\ Return
    /\ UNCHANGED <<chainstate, indexed, invalid, skipped, crashes, faults>>

-----------------------------------------------------------------------------
(* rollback.                                                               *)

RollbackDisconnect ==
    /\ pc = "undo_new"
    /\ DisconnectBlock(tip)
    /\ pc' = IF Prev(tip) = Fork THEN "redo_old" ELSE "undo_new"
    /\ UNCHANGED <<pool, indexed, invalid, old_tip, target, removed_txs, skipped,
                   crashes, faults>>

RollbackConnect ==
    /\ pc = "redo_old" /\ tip # old_tip
    /\ ConnectBlock(Above(old_tip))
    /\ UNCHANGED <<pool, indexed, invalid, pc, old_tip, target, removed_txs, skipped,
                   crashes, faults>>

\* Variant: rollback stops at the fork point.
RollbackDoneAtFork == tip \in {Fork, old_tip}

RollbackDone == tip = old_tip

\* The transactions that were taken out of the mempool return, and the branch
\* is not tried again.
RolledBack ==
    /\ pc = "redo_old" /\ RollbackDone
    /\ pool' = Readded(pool, utxo, removed_txs)
    /\ invalid' = invalid \cup {target}
    /\ Return
    /\ UNCHANGED <<chainstate, indexed, skipped, crashes, faults>>

-----------------------------------------------------------------------------
(* The end of the process.                                                 *)

\* The node starts again on undo files f; the mempool is empty.
Start(f, durable) ==
    /\ OpenChainstate(f, durable)
    /\ pool' = EmptyPool
    /\ skipped' = FALSE
    /\ Return
    /\ UNCHANGED <<indexed, invalid, faults>>

Died == crashes < MaxCrashes /\ crashes' = crashes + 1

\* The process is killed between two redb transactions.
Crash == Died /\ Start(undo_files, undo_synced)

\* It is killed in connect_block, after the undo record has been written and
\* before the transaction commits.
CrashInConnect(b) ==
    /\ Died
    /\ CanConnect(b) /\ NeedsUndo(b) /\ HasRoom(undo_current)
    /\ \/ pc = "idle" /\ Prev(b) = tip
       \/ pc = "connect" /\ tip # target /\ b = Above(target)
       \/ pc = "redo_old" /\ tip # old_tip /\ b = Above(old_tip)
    /\ Start(Written(undo_files, undo_current, Connected(utxo, b).undo), undo_synced)

\* Power fails; undo files may lose what was not synced.
PowerFailure ==
    /\ PowerLoss /\ Died
    /\ \E f \in Torn(undo_files, undo_synced) :
         Start(f, [n \in FileNumber |-> Len(f[n])])

\* rollback cannot go on: the process exits.
Exit ==
    /\ \/ pc = "undo_new" /\ ~CanDisconnect(tip)
       \/ pc = "redo_old" /\ tip # old_tip /\ ~CanConnect(Above(old_tip))
    /\ Start(undo_files, undo_synced)
    /\ UNCHANGED crashes

Coordinator ==
    \/ LoadFails
    \/ DisconnectOld \/ DisconnectFails
    \/ ConnectNew \/ ConnectFails \/ Reorganized
    \/ RollbackDisconnect \/ RollbackConnect \/ RolledBack \/ Exit

Next ==
    \/ \E b \in Block : ConnectNext(b) \/ Activate(b) \/ CrashInConnect(b)
    \/ \E t \in Tx : AcceptTx(t)
    \/ Flush
    \/ Coordinator
    \/ Crash
    \/ PowerFailure

Spec == Init /\ [][Next]_vars

-----------------------------------------------------------------------------

\* The state keeps its types; the mempool never exceeds max_size between two
\* operations on it, whichever of accept_tx, a block or a reorganisation it was.
TypeOK ==
    /\ \A o \in DOMAIN utxo : o \in Tx \X Nat /\ utxo[o] \in Coin
    /\ tip \in Block
    /\ \A b \in DOMAIN undo_index : b \in Block /\ undo_index[b] \in Location
    /\ \A n \in FileNumber : undo_synced[n] \in 0 .. Len(undo_files[n])
    /\ undo_current \in Position
    /\ pool.txs \subseteq Standard /\ pool.total_size \in 0 .. MaxSize
    /\ indexed \subseteq Block /\ invalid \subseteq Block
    /\ pc \in Phase /\ old_tip \in Block /\ target \in Block
    /\ Range(removed_txs) \subseteq Standard

\* At every redb commit, in the middle of a reorganisation or of a rollback and
\* after a crash at any of its blocks, the UTXO set is the one that connecting
\* the chain of the tip from nothing gives.
UtxoMatchesTip == ~reused => utxo = UtxoOf[tip]

\* load_undo: the undo index, if it has an entry for a block, leads to the
\* coins which that block spends, unless a rotation has opened a file with
\* leftovers in it.
UndoReadsBack ==
    ~reused =>
      \A b \in DOMAIN undo_index :
        /\ Readable(undo_files, undo_index[b])
        /\ ReadAt(undo_files, undo_index[b]) = UndoOf[b]

\* The comment on connect_block: bytes that a crash leaves in an undo file
\* without an index entry are harmless.
OrphansHarmless == utxo = UtxoOf[tip]

\* An activation that has disconnected the old branch, and is not cut short by a
\* crash or by a block file that cannot be read, ends with the whole new branch,
\* or with the old chain and the new tip marked invalid; in particular rollback
\* never has to exit, as long as no rotation of the undo files has opened a file
\* with leftovers in it.
AllOrNothing ==
    [][pc \notin {"idle", "disconnect"} /\ pc' = "idle"
       /\ crashes' = crashes /\ faults' = faults /\ ~reused
         => \/ tip' = target
            \/ tip' = old_tip /\ target \in invalid']_vars

\* The spends index of the mempool is exactly the inputs of its transactions,
\* no two of which spend the same outpoint, and total_size is their size.
PoolIndexed ==
    /\ DOMAIN pool.spends = UNION {InsOf(t) : t \in pool.txs}
    /\ \A t \in pool.txs : \A o \in InsOf(t) : pool.spends[o] = t
    /\ pool.total_size = MapThenSumSet(LAMBDA t : Size[t], pool.txs)

\* Between activations no transaction of the active chain is in the mempool,
\* unless the mempool was locked when a block was connected.
NoneConfirmed ==
    pc = "idle" /\ ~skipped =>
      \A b \in Range(Chain[tip]) : Range(Txs[b]) \cap pool.txs = {}

=============================================================================

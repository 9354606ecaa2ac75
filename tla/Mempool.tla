------------------------------ MODULE Mempool ------------------------------
(***************************************************************************)
(* The memory pool as a value and the operations on it: accepting a        *)
(* transaction, eviction, removal of what a connected block confirms or    *)
(* conflicts with, and the return of transactions of disconnected blocks.  *)
(*                                                                         *)
(* A pool is [txs, spends, total_size]: the accepted transactions, the     *)
(* index from a spent outpoint to the transaction that spends it, and the  *)
(* size counter.  Fee, script and size policies decide per transaction and *)
(* are the set Standard; an outpoint is <<txid, index>>.                   *)
(***************************************************************************)
EXTENDS Ledger, FiniteSetsExt

CONSTANTS
    Standard,       \* the transactions whose fee, scripts and size are accepted
    Size,           \* Size[t]: serialized size
    FeeRate,        \* FeeRate[t]: fee per byte
    MaxSize         \* max_size

ASSUME MempoolAssumption ==
    /\ Standard \subseteq Tx /\ MaxSize \in Nat
    /\ Size \in [Tx -> Nat \ {0}] /\ FeeRate \in [Tx -> Nat]

EmptyPool == [txs |-> {}, spends |-> <<>>, total_size |-> 0]

\* The spends index without the entries of some outpoints.
Unspent(spends, points) == [o \in DOMAIN spends \ points |-> spends[o]]

\* Variant: the spends index keeps the inputs of removed transactions.
WithoutTxsOnly(pool, ts) ==
    [txs        |-> pool.txs \ ts,
     spends     |-> pool.spends,
     total_size |-> pool.total_size - MapThenSumSet(LAMBDA t : Size[t], ts \cap pool.txs)]

\* Some transactions leave the pool, if they are in it.
WithoutTxs(pool, ts) ==
    LET gone == ts \cap pool.txs
    IN  [txs        |-> pool.txs \ gone,
         spends     |-> Unspent(pool.spends, UNION {InsOf(t) : t \in gone}),
         total_size |-> pool.total_size - MapThenSumSet(LAMBDA t : Size[t], gone)]

\* The given transactions of the pool and all that spend an output of one of them.
Descendants(pool, ts) ==
    LET D[n \in 0 .. Cardinality(pool.txs)] ==
          IF n = 0 THEN ts
          ELSE D[n - 1] \cup {pool.spends[o] :
                 o \in DOMAIN pool.spends \cap UNION {OutsOf(p) : p \in D[n - 1]}}
    IN  D[Cardinality(pool.txs)]

\* remove_with_descendants, for each of some transactions of the pool.
WithoutDescendants(pool, ts) == WithoutTxs(pool, Descendants(pool, ts))

\* The transaction with the lowest fee rate.
Worst(pool) == CHOOSE t \in pool.txs : \A u \in pool.txs : FeeRate[t] <= FeeRate[u]

\* Variant: the limit is not looked at.
NotEvicted(pool) == pool

\* evict_if_needed: while the pool is too large its worst transaction goes, with
\* its descendants.
Evicted(pool) ==
    LET EvictOne(p, n) ==
          IF p.total_size > MaxSize /\ p.txs # {} THEN WithoutDescendants(p, {Worst(p)}) ELSE p
    IN  FoldLeft(EvictOne, pool, [i \in 1 .. Cardinality(pool.txs) |-> i])

\* resolve_input_value: the input is in the UTXO set or an output of the pool.
Resolved(pool, utxo, o) == o \in DOMAIN utxo \/ \E p \in pool.txs : o \in OutsOf(p)

\* The checks of accept_tx.  The maturity of a coinbase is not among them.
Acceptable(pool, utxo, t) ==
    /\ t \in Standard /\ ~IsCoinbase(t)
    /\ t \notin pool.txs
    /\ \A o \in InsOf(t) : o \notin DOMAIN pool.spends /\ Resolved(pool, utxo, o)

\* accept_tx after its checks: insert, then evict.
Accepted(pool, t) ==
    Evicted([txs        |-> pool.txs \cup {t},
             spends     |-> [o \in DOMAIN pool.spends \cup InsOf(t) |->
                               IF o \in InsOf(t) THEN t ELSE pool.spends[o]],
             total_size |-> pool.total_size + Size[t]])

\* The transactions of the pool that spend an outpoint which txs spend.
Conflicts(pool, txs) ==
    {pool.spends[o] : o \in DOMAIN pool.spends \cap UNION {InsOf(t) : t \in Range(txs)}}

\* remove_block_txs: the confirmed transactions go alone, since their children
\* find the outputs in the UTXO set; those left that spend the same outpoints
\* go with their descendants.
WithoutBlock(pool, txs) ==
    LET rest == WithoutTxs(pool, Range(txs))
    IN  WithoutDescendants(rest, Conflicts(rest, txs))

\* readd_disconnected_txs: passes over the transactions until one adds nothing.
\* A pass that adds something shortens the list, so Len(txs) passes are enough.
Readded(pool, utxo, txs) ==
    LET Try(s, t) ==
          IF Acceptable(s.pool, utxo, t)
            THEN [s EXCEPT !.pool = Accepted(s.pool, t)]
            ELSE [s EXCEPT !.left = Append(@, t)]
        Pass(s, n) == FoldLeft(Try, [pool |-> s.pool, left |-> <<>>], s.left)
    IN  FoldLeft(Pass, [pool |-> pool, left |-> SelectSeq(txs, LAMBDA t : ~IsCoinbase(t))],
                 [i \in 1 .. Len(txs) |-> i]).pool

=============================================================================

------------------------------- MODULE Ledger -------------------------------
(***************************************************************************)
(* Transactions and blocks as data: what the chainstate, the mempool and   *)
(* the reorganisation coordinator are given.  The content of a transaction *)
(* is the outpoints it spends and how many outputs it has; an outpoint is  *)
(* <<transaction, output number>>.  The tree of blocks is given by the     *)
(* chain of each block, from the root, which is the block at height 1.     *)
(***************************************************************************)
EXTENDS Naturals, Sequences, FiniteSets, SequencesExt

CONSTANTS
    Tx,             \* transactions, coinbases included
    Ins,            \* Ins[t]: the outpoints t spends, in order; <<>> for a coinbase
    Outs,           \* Outs[t]: the number of outputs of t
    Block,          \* block hashes
    Root,           \* the block at height 1; it spends nothing
    Chain,          \* Chain[b]: the blocks from the root to b
    Txs             \* Txs[b]: the transactions of b, its coinbase first

IsCoinbase(t) == Ins[t] = <<>>

InsOf(t) == Range(Ins[t])

OutsOf(t) == {t} \X (1 .. Outs[t])

Height(b) == Len(Chain[b])

\* header.prev_hash of a block above the root.
Prev(b) == Chain[b][Height(b) - 1]

ASSUME LedgerAssumption ==
    /\ Ins \in [Tx -> Seq(Tx \X Nat)] /\ Outs \in [Tx -> Nat]
    /\ Root \in Block /\ Chain \in [Block -> Seq(Block)] /\ Chain[Root] = <<Root>>
    /\ \A b \in Block \ {Root} : Height(b) > 1 /\ Chain[b] = Append(Chain[Prev(b)], b)
    /\ Txs \in [Block -> Seq(Tx)]
    /\ \A b \in Block :
         /\ Txs[b] # <<>> /\ IsCoinbase(Txs[b][1])
         /\ \A i \in 2 .. Len(Txs[b]) : ~IsCoinbase(Txs[b][i])
    /\ Len(Txs[Root]) = 1

=============================================================================

----------------------------- MODULE Chainstate -----------------------------
(***************************************************************************)
(* The chainstate: the UTXO set, the tip and the undo index in redb, and   *)
(* the undo records in flat files.  A transaction of redb changes the UTXO *)
(* set, the undo index and the tip together; the undo record is appended   *)
(* to its file before that transaction commits, and is synced only later,  *)
(* by fsync_undo.                                                          *)
(*                                                                         *)
(* Amounts and scripts decide per block and are the set BadBlock.  A coin  *)
(* remembers the outpoint it was created as, which stands for its value    *)
(* and script, so that restoring the wrong coin is visible.                *)
(***************************************************************************)
EXTENDS Ledger, FlatFiles, TLC

CONSTANTS
    BadBlock,           \* blocks that fail the script or value checks
    CoinbaseMaturity    \* COINBASE_MATURITY

ASSUME ChainstateAssumption ==
    /\ BadBlock \subseteq Block \ {Root}
    /\ CoinbaseMaturity \in Nat

VARIABLES
    utxo,           \* UTXO_SET: outpoint -> coin
    tip,            \* TIP_KEY; the height beside it is Height(tip)
    undo_index,     \* UNDO_INDEX: block -> location
    undo_files,     \* contents of the rev files
    undo_synced,    \* how many entries of each file are known to be durable
    undo_current,   \* open file number and offset
    reused          \* a rotation has opened a file that was not empty

chainstate == <<utxo, tip, undo_index, undo_files, undo_synced, undo_current, reused>>

Coin == [out : Tx \X Nat, height : Nat, coinbase : BOOLEAN]

-----------------------------------------------------------------------------

\* insert_outputs: the coins a transaction creates.
NewCoins(t, h) ==
    [o \in OutsOf(t) |-> [out |-> o, height |-> h, coinbase |-> IsCoinbase(t)]]

\* The UTXO table without some outpoints.
Spent(u, points) == [o \in DOMAIN u \ points |-> u[o]]

\* The checks on an input: it is unspent, and mature if it is a coinbase's.
Spendable(u, o, h) ==
    /\ o \in DOMAIN u
    /\ u[o].coinbase => h >= u[o].height + CoinbaseMaturity

\* One transaction of connect_block.
ConnectTx(s, t, h) ==
    CASE IsCoinbase(t) -> [s EXCEPT !.utxo = NewCoins(t, h) @@ @]
      [] ~IsCoinbase(t) /\ s.ok /\ (\A o \in InsOf(t) : Spendable(s.utxo, o, h)) ->
           [ok   |-> TRUE,
            utxo |-> NewCoins(t, h) @@ Spent(s.utxo, InsOf(t)),
            undo |-> Append(s.undo, [i \in DOMAIN Ins[t] |-> s.utxo[Ins[t][i]]])]
      [] OTHER -> [s EXCEPT !.ok = FALSE]

\* What connect_block makes of UTXO set u: the new set, the undo record, and
\* whether the block is valid.
Connected(u, b) ==
    LET After[i \in 0 .. Len(Txs[b])] ==
          IF i = 0 THEN [ok |-> b \notin BadBlock, utxo |-> u, undo |-> <<>>]
          ELSE ConnectTx(After[i - 1], Txs[b][i], Height(b))
    IN  After[Len(Txs[b])]

\* disconnect_block loads undo data only if there are inputs to restore.
NeedsUndo(b) == Len(Txs[b]) > 1

\* The undo record has an entry per transaction and a coin per input.
UndoFits(b, undo) ==
    /\ Len(undo) = Len(Txs[b]) - 1
    /\ \A i \in 1 .. Len(undo) : Len(undo[i]) >= Len(Ins[Txs[b][i + 1]])

\* One transaction of disconnect_block: the outputs go, and the coins of the
\* undo record come back under the outpoints of the inputs.
DisconnectTx(u, x, coins) ==
    [o \in InsOf(x) |-> coins[CHOOSE k \in DOMAIN Ins[x] : Ins[x][k] = o]]
    @@ Spent(u, OutsOf(x))

\* Variant: the transactions are undone first to last.
DisconnectedForwards(u, b, undo) ==
    LET After[i \in 0 .. Len(Txs[b])] ==
          IF i = 0 THEN u
          ELSE DisconnectTx(After[i - 1], Txs[b][i], IF i = 1 THEN <<>> ELSE undo[i - 1])
    IN  After[Len(Txs[b])]

\* What disconnect_block makes of u, from the last transaction to the first;
\* transaction i has undo entry i - 1 since the coinbase has none.
Disconnected(u, b, undo) ==
    LET n == Len(Txs[b])
        Before[i \in 1 .. n + 1] ==
          IF i = n + 1 THEN u
          ELSE DisconnectTx(Before[i + 1], Txs[b][i], IF i = 1 THEN <<>> ELSE undo[i - 1])
    IN  Before[1]

-----------------------------------------------------------------------------

\* connect_block accepts b: the next height, whatever the parent, and a valid
\* block.
CanConnect(b) ==
    /\ Height(b) = Height(tip) + 1
    /\ Connected(utxo, b).ok

\* connect_block: the undo record is written to the open file, then the new
\* UTXO set, the undo index and the tip are committed in one transaction.
ConnectBlock(b) ==
    LET made == Connected(utxo, b)
    IN  /\ Height(b) = Height(tip) + 1
        /\ made.ok
        /\ utxo' = made.utxo
        /\ tip' = b
        /\ IF NeedsUndo(b)
             THEN /\ HasRoom(undo_current)
                  /\ undo_files' = Written(undo_files, undo_current, made.undo)
                  /\ undo_current' = Advanced(undo_current)
                  /\ undo_index' = (b :> Slot(undo_current)) @@ undo_index
                  /\ reused' = (reused \/ Reuses(undo_files, undo_current))
             ELSE UNCHANGED <<undo_files, undo_current, undo_index, reused>>
        /\ UNCHANGED undo_synced

\* disconnect_block accepts b: it is the tip and its undo record can be read.
CanDisconnect(b) ==
    /\ b = tip
    /\ NeedsUndo(b) => /\ b \in DOMAIN undo_index
                       /\ Readable(undo_files, undo_index[b])
                       /\ UndoFits(b, ReadAt(undo_files, undo_index[b]))

\* disconnect_block; the undo index keeps its entry.
DisconnectBlock(b) ==
    /\ CanDisconnect(b)
    /\ utxo' = Disconnected(utxo, b, IF NeedsUndo(b) THEN ReadAt(undo_files, undo_index[b])
                                     ELSE <<>>)
    /\ tip' = Prev(b)
    /\ UNCHANGED <<undo_index, undo_files, undo_synced, undo_current, reused>>

\* fsync_undo syncs the open file.
FsyncUndo ==
    /\ undo_synced' = [undo_synced EXCEPT ![undo_current.file] = Len(undo_files[undo_current.file])]
    /\ UNCHANGED <<utxo, tip, undo_index, undo_files, undo_current, reused>>

\* ChainState::open on undo files f: the UTXO set and the tip are as committed,
\* the undo index is compared with the files.
OpenChainstate(f, durable) ==
    /\ undo_files' = f
    /\ undo_synced' = durable
    /\ undo_index' = VerifiedIndex(f, undo_index)
    /\ undo_current' = Opened(f, undo_index)
    /\ UNCHANGED <<utxo, tip, reused>>

\* The UTXO set of the chain that ends in b, built from nothing, and the coins
\* that b spends in it.
UtxoOf[b \in Block] == Connected(IF b = Root THEN <<>> ELSE UtxoOf[Prev(b)], b).utxo

UndoOf == [b \in Block \ {Root} |-> Connected(UtxoOf[Prev(b)], b).undo]

InitChainstate ==
    /\ tip = Root
    /\ utxo = UtxoOf[Root]
    /\ undo_index = <<>>
    /\ undo_files = NoFiles
    /\ undo_synced = [n \in FileNumber |-> 0]
    /\ undo_current = [file |-> 0, offset |-> 0]
    /\ reused = FALSE

=============================================================================

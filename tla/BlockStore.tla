---------------------------- MODULE BlockStore ----------------------------
(***************************************************************************)
(* The block store: raw blocks in flat files, and an index in redb that is *)
(* committed by flush, in batches, after an fsync of the open file.        *)
(*                                                                         *)
(* The download manager is the only writer.  It keeps the hashes it has    *)
(* stored in memory (stored_hashes) and does not store one twice.  Any     *)
(* task may read.  The node may be killed between any two steps, and the   *)
(* machine may lose power, which also loses what was never synced.         *)
(***************************************************************************)
EXTENDS FlatFiles, Functions, TLC

CONSTANTS
    Block,          \* block hashes; the bytes of a block are its hash
    Scrap,          \* what a failed write leaves in the file
    FlushInterval,  \* FLUSH_INTERVAL
    PowerLoss,      \* power may fail, and not only the process
    MaxCrashes,     \* bound: crashes and power failures
    MaxFaults       \* bound: writes and flushes that fail

ASSUME BlockStoreAssumption ==
    /\ Scrap \notin Block
    /\ FlushInterval \in Nat \ {0} /\ PowerLoss \in BOOLEAN
    /\ MaxCrashes \in Nat /\ MaxFaults \in Nat

VARIABLES
    files,          \* contents of the blk files
    synced,         \* how many entries of each file are known to be durable
    current_file,   \* open file number and offset
    pending,        \* queued index entries, oldest first
    block_index,    \* BLOCK_INDEX in redb
    stored_hashes,  \* the download manager's memory of what is stored
    blocks_since_flush,
    flushing,       \* the entries flush has taken
    step,           \* where flush is: "idle", "taken" or "synced"
    unwritten,      \* blocks whose write failed since the node started
    crashes, faults,\* counters for the bounds
    reused,         \* a rotation has opened a file that was not empty
    partial         \* a failed write has left bytes behind

vars == <<files, synced, current_file, pending, block_index, stored_hashes,
          blocks_since_flush, flushing, step, unwritten, crashes, faults,
          reused, partial>>

Entry == [hash : Block, loc : Location]

Init ==
    /\ files = NoFiles
    /\ synced = [n \in FileNumber |-> 0]
    /\ current_file = [file |-> 0, offset |-> 0]
    /\ pending = <<>> /\ flushing = <<>> /\ step = "idle"
    /\ block_index = <<>>
    /\ stored_hashes = {} /\ unwritten = {}
    /\ blocks_since_flush = 0
    /\ crashes = 0 /\ faults = 0
    /\ reused = FALSE /\ partial = FALSE

-----------------------------------------------------------------------------

\* Variant: nothing flushes a full interval.
StoreDueAlways(b) ==
    /\ step = "idle"
    /\ b \notin stored_hashes
    /\ stored_hashes' = stored_hashes \cup {b}

\* The manager gets a block it does not remember having stored.  A full
\* interval is flushed by the same call, before the next block.
StoreDue(b) ==
    /\ step = "idle" /\ blocks_since_flush < FlushInterval
    /\ b \notin stored_hashes
    /\ stored_hashes' = stored_hashes \cup {b}

\* The queue with the index entry of the block about to be written.
Queued(b) == Append(pending, [hash |-> b, loc |-> Slot(current_file)])

\* store_block_data and store_block_unchecked: write at the end of the open
\* file, rotating if it is full, and queue the index entry.
StoreBlock(b) ==
    /\ StoreDue(b)
    /\ HasRoom(current_file)
    /\ files' = Written(files, current_file, b)
    /\ current_file' = Advanced(current_file)
    /\ pending' = Queued(b)
    /\ blocks_since_flush' = blocks_since_flush + 1
    /\ reused' = (reused \/ Reuses(files, current_file))
    /\ UNCHANGED <<synced, block_index, flushing, step, unwritten, crashes, faults, partial>>

\* The block is not stored: the next file cannot be opened, or the file, which
\* rotation may just have opened, takes only some of the bytes or none.  The
\* offset does not move.  The hash stays in stored_hashes, so the block is not
\* stored again before the node restarts.
StoreFails(b) ==
    /\ StoreDue(b)
    /\ faults < MaxFaults
    /\ \/ UNCHANGED <<files, current_file, reused, partial>>
       \/ /\ HasRoom(current_file)
          /\ current_file' = Slot(current_file)
          /\ reused' = (reused \/ Reuses(files, current_file))
          /\ \/ UNCHANGED <<files, partial>>
             \/ files' = Written(files, current_file, Scrap) /\ partial' = TRUE
    /\ unwritten' = unwritten \cup {b}
    /\ faults' = faults + 1
    /\ UNCHANGED <<synced, pending, block_index, blocks_since_flush, flushing, step,
                   crashes>>

\* flush takes the queue; without one it only resets the manager's counter.
TakePending ==
    /\ step = "idle"
    /\ pending' = <<>>
    /\ flushing' = pending
    /\ IF pending = <<>>
         THEN step' = "idle" /\ blocks_since_flush' = 0
         ELSE step' = "taken" /\ UNCHANGED blocks_since_flush
    /\ UNCHANGED <<files, synced, current_file, block_index, stored_hashes,
                   unwritten, crashes, faults, reused, partial>>

\* Variant: only a full interval is flushed.
FlushFull == blocks_since_flush >= FlushInterval /\ TakePending

\* flush_store on the timer or when the interval is full.
FlushDue == blocks_since_flush > 0 /\ TakePending

\* flush_store when the download has caught up, after catching up from disk
\* and on shutdown, whatever the counter says.
FlushAnyway == TakePending

\* The open file is synced, and no other file.
FlushSync ==
    /\ step = "taken"
    /\ synced' = [synced EXCEPT ![current_file.file] = Len(files[current_file.file])]
    /\ step' = "synced"
    /\ UNCHANGED <<files, current_file, pending, block_index, stored_hashes,
                   blocks_since_flush, flushing, unwritten, crashes, faults, reused,
                   partial>>

\* The locations of a batch.
Locations(q) ==
    [b \in {q[i].hash : i \in DOMAIN q} |->
        (CHOOSE e \in Range(q) : e.hash = b).loc]

\* Variant: the batch takes the place of the index.
CommittedAlone(q) == Locations(q)

\* All entries of the batch are inserted in one redb transaction.
Committed(q) == Locations(q) @@ block_index

FlushCommit ==
    /\ step = "synced"
    /\ block_index' = Committed(flushing)
    /\ flushing' = <<>> /\ step' = "idle"
    /\ blocks_since_flush' = 0
    /\ UNCHANGED <<files, synced, current_file, pending, stored_hashes, unwritten,
                   crashes, faults, reused, partial>>

\* Variant: a batch that could not be committed is dropped.
RestoredNot(q) == pending

\* On an error the entries go back to the queue.
Restored(q) == pending \o q

\* The fsync or the commit fails; flush_store logs it and counts anew.
FlushFails ==
    /\ step # "idle" /\ faults < MaxFaults
    /\ pending' = Restored(flushing)
    /\ flushing' = <<>> /\ step' = "idle"
    /\ blocks_since_flush' = 0
    /\ faults' = faults + 1
    /\ UNCHANGED <<files, synced, current_file, block_index, stored_hashes,
                   unwritten, crashes, reused, partial>>

-----------------------------------------------------------------------------

\* The node starts again on files f: the index is compared with them and the
\* download manager learns what the index holds.
Open(f) ==
    /\ crashes < MaxCrashes
    /\ crashes' = crashes + 1
    /\ files' = f
    /\ block_index' = VerifiedIndex(f, block_index)
    /\ current_file' = Opened(f, block_index)
    /\ stored_hashes' = DOMAIN VerifiedIndex(f, block_index)
    /\ pending' = <<>> /\ flushing' = <<>> /\ step' = "idle"
    /\ unwritten' = {}
    /\ blocks_since_flush' = 0
    /\ UNCHANGED <<faults, reused, partial>>

\* The process is killed; the files keep everything that was written.
Crash == Open(files) /\ UNCHANGED synced

\* Power fails; the files may lose what was not synced.
PowerFailure ==
    /\ PowerLoss
    /\ \E f \in Torn(files, synced) :
         Open(f) /\ synced' = [n \in FileNumber |-> Len(f[n])]

Next ==
    \/ \E b \in Block : StoreBlock(b) \/ StoreFails(b)
    \/ FlushDue
    \/ FlushAnyway
    \/ FlushSync
    \/ FlushCommit
    \/ FlushFails
    \/ Crash
    \/ PowerFailure

\* The manager's timer keeps flushing what was counted, and a flush ends.
Fairness == WF_vars(FlushDue) /\ WF_vars(FlushSync) /\ WF_vars(FlushCommit)

Spec == Init /\ [][Next]_vars /\ Fairness

-----------------------------------------------------------------------------

Tracked ==
    DOMAIN block_index \cup {e.hash : e \in Range(pending)} \cup {e.hash : e \in Range(flushing)}

\* The state keeps its types; a full interval is flushed before the next block is
\* stored, and flush holds entries exactly while it is under way.
TypeOK ==
    /\ \A n \in FileNumber : files[n] \in Seq(Block \cup {Scrap}) /\ synced[n] \in 0 .. Len(files[n])
    /\ current_file \in Position
    /\ Range(pending) \subseteq Entry /\ Range(flushing) \subseteq Entry
    /\ DOMAIN block_index \subseteq Block
    /\ \A b \in DOMAIN block_index : block_index[b] \in Location
    /\ stored_hashes \subseteq Block /\ unwritten \subseteq stored_hashes
    /\ blocks_since_flush \in 0 .. FlushInterval
    /\ step \in {"idle", "taken", "synced"}
    /\ (step = "idle") = (flushing = <<>>)

\* load_block: every entry of the index reads back the bytes of its own block,
\* through rotations, flushes that fail, crashes between the write, the fsync
\* and the commit, and files that lost their tails.  Two things spoil it, and
\* nothing else: a rotation into a file with leftovers in it, and a failed write
\* that left bytes behind; both make later blocks land past their offsets.
IndexReadsBack ==
    ~reused /\ ~partial =>
      \A b \in DOMAIN block_index :
        /\ Readable(files, block_index[b])
        /\ ReadAt(files, block_index[b]) = b

\* store_block_data skips a block it remembers: what the manager remembers is
\* in the index or on its way there, except for the writes that failed.
StoredIsTracked == stored_hashes \subseteq Tracked \cup unwritten

\* flush and store_block_unchecked never lose or move an index entry; only
\* opening the store on files that lost their tails clears the index.
IndexKept ==
    [][\/ \A b \in DOMAIN block_index :
            b \in DOMAIN block_index' /\ block_index'[b] = block_index[b]
       \/ ~Covers(files', block_index)]_vars

\* A stored block gets into the index unless its write or a flush fails or the
\* node restarts first.
EventuallyIndexed ==
    \A b \in Block :
      b \in stored_hashes ~> (b \in DOMAIN block_index \/ b \notin stored_hashes \/ faults > 0)

=============================================================================

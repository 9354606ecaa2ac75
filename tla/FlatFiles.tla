----------------------------- MODULE FlatFiles -----------------------------
(***************************************************************************)
(* The numbered append-only files that the block store (blk00000.dat ...)  *)
(* and the undo store (rev00000.dat ...) have in common: the place of the  *)
(* next entry, rotation to the next file, reading an entry back, and the   *)
(* comparison of an index with the files when a store is opened.           *)
(*                                                                         *)
(* Entries have one size, so that an offset counts entries; a read at an   *)
(* offset returns whatever entry the file holds there.                     *)
(***************************************************************************)
EXTENDS Naturals, Sequences, FiniteSets, FiniteSetsExt

CONSTANTS
    FileNumber,     \* 0 .. n: the files the model has room for
    MaxFileSize     \* max_file_size, in entries

ASSUME FlatFilesAssumption ==
    /\ 0 \in FileNumber /\ FileNumber \subseteq Nat /\ IsFiniteSet(FileNumber)
    /\ MaxFileSize \in Nat \ {0}

\* current_file: the open file and the offset the store believes it has.
Position == [file : FileNumber, offset : Nat]

\* An entry of an index: where the record of a key starts.
Location == Position

NoFiles == [n \in FileNumber |-> <<>>]

\* The open file cannot take one more entry.
Full(cur) == cur.offset > 0 /\ cur.offset + 1 > MaxFileSize

HasRoom(cur) == Full(cur) => cur.file + 1 \in FileNumber

\* Where the next entry is recorded: rotation opens the next file in append
\* mode and sets the offset to zero, whatever that file already holds.
Slot(cur) ==
    IF Full(cur) THEN [file |-> cur.file + 1, offset |-> 0] ELSE cur

\* The write itself goes to the end of the file.
Written(files, cur, x) == [files EXCEPT ![Slot(cur).file] = Append(@, x)]

Advanced(cur) == [Slot(cur) EXCEPT !.offset = @ + 1]

\* The next entry opens a file that already has entries in it.
Reuses(files, cur) == Full(cur) /\ files[Slot(cur).file] # <<>>

\* read_exact succeeds when the file is long enough.
Readable(files, loc) == loc.offset < Len(files[loc.file])

ReadAt(files, loc) == files[loc.file][loc.offset + 1]

\* Variant: an entry that starts at the end of the file is let through.
CoversStart(files, index) ==
    \A k \in DOMAIN index : index[k].offset <= Len(files[index[k].file])

\* verify_or_clear_index: every file is as long as its entries need.
Covers(files, index) == \A k \in DOMAIN index : Readable(files, index[k])

VerifiedIndex(files, index) == IF Covers(files, index) THEN index ELSE <<>>

\* The highest file number of the index that was kept, or zero.
OpenFile(index) == Max({index[k].file : k \in DOMAIN index} \cup {0})

\* open: append to the highest indexed file, at its length.
Opened(files, index) ==
    LET n == OpenFile(VerifiedIndex(files, index))
    IN  [file |-> n, offset |-> Len(files[n])]

\* What a power failure can leave of the files: each keeps what was synced and
\* possibly more of what was written.
Torn(files, synced) ==
    {[n \in FileNumber |-> SubSeq(files[n], 1, keep[n])] :
        keep \in {k \in [FileNumber -> 0 .. Max({Len(files[n]) : n \in FileNumber})] :
                    \A n \in FileNumber : synced[n] <= k[n] /\ k[n] <= Len(files[n])}}

=============================================================================

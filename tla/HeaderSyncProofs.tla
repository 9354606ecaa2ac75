-------------------------- MODULE HeaderSyncProofs --------------------------
(***************************************************************************)
(* Proofs about the lock and the cached height of HeaderSync, for any      *)
(* number of peers. They are stated for AnnounceNext, the larger of the    *)
(* two next-state relations.                                               *)
(***************************************************************************)
EXTENDS HeaderSync, TLAPS

\* pc and seen are functions on the peers.
Shape ==
    /\ pc \in [Peer -> Labels]
    /\ seen = [p \in Peer |-> seen[p]]

\* Who holds the lock: the task that validates, and the tasks that have read
\* the height and not stored it yet.
LockInv ==
    /\ writer # {} => readers = {}
    /\ \A p \in Peer : pc[p] \in {"validate", "ibd_check"} => writer = {p}
    /\ \A p \in Peer : pc[p] = "cache" => p \in readers /\ seen[p] = height

IInv == Shape /\ LockInv /\ CacheCurrent

\* The invariant holds when the node starts.
LEMMA InitIInv == Init => IInv
  BY DEF Init, IInv, Shape, LockInv, CacheCurrent, Labels

\* The steps that only move one task, none of them from or to a label the
\* invariant is about, and leave the store and the lock alone.
LEMMA QuietStep ==
  ASSUME IInv, NEW p \in Peer, NEW label \in Labels \ {"validate", "ibd_check", "cache", "refresh"},
         pc[p] \notin {"validate", "ibd_check", "cache", "refresh"},
         pc' = [pc EXCEPT ![p] = label],
         seen' = [q \in Peer |-> seen'[q]],
         \A q \in Peer \ {p} : seen'[q] = seen[q],
         UNCHANGED <<height, cached_height, lock>>
  PROVE  IInv'
  <1>1. Shape'
    BY ZenonT(30) DEF IInv, Shape, Labels
  <1>2. LockInv'
    BY DEF IInv, Shape, LockInv, lock
  <1>3. CacheCurrent'
    BY DEF IInv, Shape, CacheCurrent
  <1> QED
    BY <1>1, <1>2, <1>3 DEF IInv

\* A handler that returns from a label without lock is such a step.
LEMMA ReturnStep ==
  ASSUME IInv, NEW p \in Peer, NEW label \in {"idle", "down"}, Return(p, label),
         pc[p] \notin {"validate", "ibd_check", "cache", "refresh"},
         UNCHANGED <<height, cached_height, lock>>
  PROVE  IInv'
  <1>1. /\ label \in Labels \ {"validate", "ibd_check", "cache", "refresh"}
        /\ pc' = [pc EXCEPT ![p] = label]
        /\ seen' = [q \in Peer |-> seen'[q]]
        /\ \A q \in Peer \ {p} : seen'[q] = seen[q]
    BY SMTT(30) DEF IInv, Shape, Return, Goto, Labels
  <1> QED
    BY <1>1, QuietStep, ZenonT(30)

\* TakeWrite gives the lock to one task, with no reader left.
LEMMA TakeWriteStep ==
  ASSUME IInv, NEW p \in Peer, TakeWrite(p)
  PROVE  IInv'
  <1> USE DEF TakeWrite, CanWrite, Goto, store, task
  <1>1. Shape'
    BY DEF IInv, Shape, Labels
  <1>2. LockInv'
    BY DEF IInv, Shape, LockInv
  <1>3. CacheCurrent'
    BY DEF IInv, Shape, CacheCurrent
  <1> QED
    BY <1>1, <1>2, <1>3 DEF IInv

\* The commit moves the height while no other task has a height it read and
\* has not stored, because it holds the write lock.
LEMMA CommitStep ==
  ASSUME IInv, NEW p \in Peer, ValidateAndCommit(p)
  PROVE  IInv'
  <1> USE DEF ValidateAndCommit, DropStore, store, net
  <1>1. writer = {p} /\ readers = {} /\ pc[p] = "validate"
    BY DEF IInv, LockInv
  <1>2. \A q \in Peer : pc[q] # "cache" /\ (q # p => pc[q] \notin {"validate", "ibd_check"})
    BY <1>1 DEF IInv, LockInv
  <1>3. CASE height + 1 .. msg[p].last = {}
    <2>1. Return(p, "idle") /\ UNCHANGED <<height, cached_height, remote, readers>> /\ writer' = {}
      BY <1>1, <1>3
    <2>2. Shape'
      BY <2>1 DEF IInv, Shape, Labels, Return, Goto
    <2>3. LockInv'
      BY <1>1, <1>2, <2>1 DEF IInv, Shape, LockInv, Return, Goto
    <2>4. CacheCurrent'
      BY <1>1, <2>1 DEF IInv, Shape, CacheCurrent, Return, Goto
    <2> QED
      BY <2>2, <2>3, <2>4 DEF IInv
  <1>4. CASE height + 1 .. msg[p].last # {}
    <2>1. /\ Goto(p, "refresh") /\ height' = msg[p].last /\ UNCHANGED <<msg, seen, remote, readers>>
          /\ writer' = {}
      BY <1>1, <1>4
    <2>2. Shape'
      BY <2>1 DEF IInv, Shape, Labels, Goto
    <2>3. LockInv'
      BY <1>1, <1>2, <2>1 DEF IInv, Shape, LockInv, Goto
    <2>4. CacheCurrent'
      BY <2>1 DEF IInv, Shape, CacheCurrent, Goto
    <2> QED
      BY <2>2, <2>3, <2>4 DEF IInv
  <1> QED
    BY <1>3, <1>4

\* A refresh reads the height and keeps the guard ...
LEMMA RefreshReadStep ==
  ASSUME IInv, NEW p \in Peer, RefreshRead(p)
  PROVE  IInv'
  <1> USE DEF RefreshRead, CanRead, TakeRead, Goto, store, net
  <1>1. Shape'
    BY DEF IInv, Shape, Labels
  <1>2. LockInv'
    BY DEF IInv, Shape, LockInv
  <1>3. CacheCurrent'
    BY DEF IInv, Shape, CacheCurrent
  <1> QED
    BY <1>1, <1>2, <1>3 DEF IInv

\* ... so what it stores is the height still.
LEMMA RefreshStoreStep ==
  ASSUME IInv, NEW p \in Peer, RefreshStore(p)
  PROVE  IInv'
  <1> USE DEF RefreshStore, Goto, task, net
  <1>1. Shape'
    BY DEF IInv, Shape, Labels
  <1>2. LockInv'
    BY DEF IInv, Shape, LockInv
  <1>3. CacheCurrent'
    BY DEF IInv, LockInv, CacheCurrent
  <1> QED
    BY <1>1, <1>2, <1>3 DEF IInv

\* The steps of the fallback: the lock is not released before is_in_ibd.
LEMMA FallbackStep ==
  ASSUME IInv, NEW p \in Peer, ValidateFails(p) \/ IsInIbd(p)
  PROVE  IInv'
  <1>1. CASE ValidateFails(p)
    <2> USE <1>1 DEF ValidateFails, Goto, store, lock, task
    <2>1. Shape'
      BY DEF IInv, Shape, Labels
    <2>2. LockInv'
      BY DEF IInv, Shape, LockInv
    <2>3. CacheCurrent'
      BY DEF IInv, Shape, CacheCurrent
    <2> QED
      BY <2>1, <2>2, <2>3 DEF IInv
  <1>2. CASE IsInIbd(p)
    BY <1>2 DEF IsInIbd, CanRead, IInv, LockInv
  <1> QED
    BY <1>1, <1>2

\* Every step of every task preserves the invariant.
LEMMA NextIInv == IInv /\ [AnnounceNext]_vars => IInv'
  <1> SUFFICES ASSUME IInv, [AnnounceNext]_vars PROVE IInv'
    OBVIOUS
  <1>1. CASE UNCHANGED vars
    BY <1>1 DEF IInv, Shape, LockInv, CacheCurrent, vars, store, lock, task
  <1>2. CASE NewBlock
    BY <1>2 DEF NewBlock, IInv, Shape, LockInv, CacheCurrent, store, lock, task
  <1>3. ASSUME NEW p \in Peer, HandleVerack(p) PROVE IInv'
    BY <1>3, QuietStep, "idle" \in Labels \ {"validate", "ibd_check", "cache", "refresh"}, ZenonT(30)
    DEF HandleVerack, Goto, store, task, IInv, Shape, Labels
  <1>4. ASSUME NEW p \in Peer, HandleInv(p) \/ RequestAfterInv(p) PROVE IInv'
    <2>1. \E label \in {"idle", "inv"} :
            /\ pc' = [pc EXCEPT ![p] = label]
            /\ pc[p] \in {"idle", "inv"}
            /\ UNCHANGED <<height, cached_height, lock, seen>>
      BY <1>4 DEF HandleInv, RequestAfterInv, Goto, store, task
    <2>2. PICK label \in {"idle", "inv"} :
            /\ pc' = [pc EXCEPT ![p] = label]
            /\ pc[p] \in {"idle", "inv"}
            /\ UNCHANGED <<height, cached_height, lock, seen>>
      BY <2>1, ZenonT(30)
    <2>3. /\ label \in Labels \ {"validate", "ibd_check", "cache", "refresh"}
          /\ pc[p] \notin {"validate", "ibd_check", "cache", "refresh"}
      BY <2>2 DEF Labels
    <2> QED
      BY <2>2, <2>3, QuietStep, ZenonT(30) DEF IInv, Shape
  <1>5. ASSUME NEW p \in Peer, HandleHeaders(p) PROVE IInv'
    <2>1. CASE UNCHANGED <<pc, msg>>
      BY <1>5, <2>1 DEF HandleHeaders, IInv, Shape, LockInv, CacheCurrent, store, lock
    <2>2. CASE ~UNCHANGED <<pc, msg>>
      <3>1. /\ pc' = [pc EXCEPT ![p] = "write"]
            /\ pc[p] = "idle"
            /\ UNCHANGED <<height, cached_height, lock, seen>>
        BY <1>5, <2>2 DEF HandleHeaders, Goto, store
      <3>2. "write" \in Labels \ {"validate", "ibd_check", "cache", "refresh"}
        BY DEF Labels
      <3> QED
        BY <3>1, <3>2, QuietStep, ZenonT(30) DEF IInv, Shape
    <2> QED
      BY <2>1, <2>2
  <1>6. ASSUME NEW p \in Peer, FollowUp(p) PROVE IInv'
    BY <1>6, QuietStep, "persist" \in Labels \ {"validate", "ibd_check", "cache", "refresh"}, ZenonT(30)
    DEF FollowUp, Goto, store, task, IInv, Shape, Labels
  <1>7. ASSUME NEW p \in Peer, FollowUpFails(p) \/ PersistBatch(p) \/ PersistFails(p) PROVE IInv'
    BY <1>7, ReturnStep DEF FollowUpFails, PersistBatch, PersistFails, store, lock
  <1>8. ASSUME NEW p \in Peer, Disconnect(p) PROVE IInv'
    BY <1>8, QuietStep, "down" \in Labels \ {"validate", "ibd_check", "cache", "refresh"}, ZenonT(30)
    DEF Disconnect, Goto, store, task, IInv, Shape, Labels
  <1>9. ASSUME NEW p \in Peer, Exclude(p) \/ Readmit(p) PROVE IInv'
    BY <1>9 DEF Exclude, Readmit, IInv, Shape, LockInv, CacheCurrent, store, lock, task
  <1>10. ASSUME NEW p \in Peer, Announce(p) PROVE IInv'
    BY <1>10, QuietStep, "write" \in Labels \ {"validate", "ibd_check", "cache", "refresh"}, ZenonT(30)
    DEF Announce, Goto, store, task, IInv, Shape, Labels
  <1> QED
    BY <1>1, <1>2, <1>3, <1>4, <1>5, <1>6, <1>7, <1>8, <1>9, <1>10, TakeWriteStep, CommitStep,
       RefreshReadStep, RefreshStoreStep, FallbackStep
    DEF AnnounceNext, Next, Handler

\* The handlers never leave a stale height in the cache: chain_height() is
\* the height of the header store whenever no task is between its commit and
\* the end of refresh_chain_cache, for any number of peers and any headers.
THEOREM CacheIsCurrent == Spec => []CacheCurrent
  <1>1. IInv /\ [Next]_vars => IInv'
    BY NextIInv DEF AnnounceNext
  <1>2. IInv => CacheCurrent
    BY DEF IInv
  <1> QED
    BY InitIInv, <1>1, <1>2, PTL DEF Spec

\* is_in_ibd cannot take the read lock it asks for.
FallbackBlocked == \A p \in Peer : pc[p] = "ibd_check" => ~CanRead

\* A headers message that does not extend the tip never gets past is_in_ibd:
\* the task that calls it holds the write lock itself, so the read lock is
\* never granted and the fallback to accept_header is never reached.
THEOREM FallbackNeverRuns == AnnounceSpec => []FallbackBlocked
  <1>1. IInv => FallbackBlocked
    BY DEF IInv, LockInv, FallbackBlocked, CanRead
  <1> QED
    BY InitIInv, NextIInv, <1>1, PTL DEF AnnounceSpec
=============================================================================

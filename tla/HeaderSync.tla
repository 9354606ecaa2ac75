----------------------------- MODULE HeaderSync -----------------------------
(***************************************************************************)
(* Header synchronisation with several peers at once: the handlers of      *)
(* src/nodes/ that request, receive and save headers, one task per peer,   *)
(* and the parking_lot lock around the header store that they share.       *)
(*                                                                         *)
(* There is one chain; a header is its height, and the headers in memory   *)
(* are 1 .. height. HeaderStore has the tree, forks and the validation.    *)
(* parking_lot locks are not reentrant: a task that asks for a lock it     *)
(* already holds for writing waits for itself.                             *)
(***************************************************************************)
EXTENDS Integers, Sequences

CONSTANTS
    Peer,
    Reliable,    \* peers that stay connected, answer and can be sent to
    MaxHeight,   \* bound on the height of the network's chain
    BatchLimit,  \* MAX_HEADERS_PER_MSG
    DiskFaults   \* TRUE iff a redb transaction may fail

ASSUME SyncAssumption ==
    /\ Reliable \subseteq Peer
    /\ MaxHeight \in Nat
    /\ BatchLimit \in Nat \ {0}
    /\ DiskFaults \in BOOLEAN

VARIABLES
    remote,         \* the height of the peers' chain
    height,         \* HeaderStore::height
    disk,           \* headers in redb
    cached_height,  \* NodeManager::cached_height
    writer,         \* the task that holds the write lock, as a set
    readers,        \* the tasks that hold a read lock
    pc,             \* where the task of each peer is
    msg,            \* the first and the last header of the message it handles
    batch,          \* the headers it has committed and not yet persisted
    seen,           \* the height it read in refresh_chain_cache
    follow_up,      \* TRUE iff it has a locator to send
    requests,       \* getheaders the peer has not answered, by locator
    news,           \* peers with a new tip they have not announced to us
    excluded        \* strike_excluded

store == <<height, disk, cached_height>>
lock  == <<writer, readers>>
task  == <<msg, batch, seen, follow_up>>
net   == <<requests, news>>
vars  == <<remote, store, lock, pc, task, net, excluded>>

NoMessage == [first |-> 1, last |-> 0]

Goto(p, label) == pc' = [pc EXCEPT ![p] = label]

\* The handler returns; its locals are gone.
Return(p, label) ==
    /\ Goto(p, label)
    /\ msg' = [msg EXCEPT ![p] = NoMessage]
    /\ batch' = [batch EXCEPT ![p] = {}]
    /\ seen' = [seen EXCEPT ![p] = 0]
    /\ follow_up' = [follow_up EXCEPT ![p] = FALSE]

CanRead == writer = {}

CanWrite == writer = {} /\ readers = {}

\* Variant: the guard is dropped before the height is stored.
ReadAndDrop(p) == readers' = readers

TakeRead(p) == readers' = readers \cup {p}

\* Variant: the guard lives to the end of the handler.
KeepStore(p) == writer' = writer

\* drop(store)
DropStore(p) == writer' = writer \ {p}

---------------------------------------------------------------------------
Init ==
    /\ remote \in 0 .. MaxHeight
    /\ height = 0
    /\ disk = {}
    /\ cached_height = 0
    /\ writer = {} /\ readers = {}
    /\ pc = [p \in Peer |-> "down"]
    /\ msg = [p \in Peer |-> NoMessage]
    /\ batch = [p \in Peer |-> {}]
    /\ seen = [p \in Peer |-> 0]
    /\ follow_up = [p \in Peer |-> FALSE]
    /\ requests = [p \in Peer |-> <<>>]
    /\ news = {}
    /\ excluded = {}

\* The end of handle_verack: the handshake is over, header sync begins.
HandleVerack(p) ==
    /\ pc[p] = "down"
    /\ CanRead
    /\ Goto(p, "idle")
    /\ requests' = [requests EXCEPT ![p] = IF p \in excluded THEN <<>> ELSE <<height>>]
    /\ news' = news \ {p}
    /\ UNCHANGED <<remote, store, lock, task, excluded>>

\* handle_inv looks under a read lock whether the header store has the block
\* and, if not, whether the peer is excluded ...
HandleInv(p) ==
    /\ pc[p] = "idle"
    /\ p \in news
    /\ CanRead
    /\ news' = news \ {p}
    /\ Goto(p, IF remote > height /\ p \notin excluded THEN "inv" ELSE "idle")
    /\ UNCHANGED <<remote, store, lock, task, requests, excluded>>

\* ... and builds the locator under another, from the height it has by then.
RequestAfterInv(p) ==
    /\ pc[p] = "inv"
    /\ CanRead
    /\ requests' = [requests EXCEPT ![p] = Append(@, height)]
    /\ Goto(p, "idle")
    /\ UNCHANGED <<remote, store, lock, task, news, excluded>>

\* The peer answers a getheaders and handle_headers starts. The message holds
\* the headers that follow the locator; an empty one is ignored.
HandleHeaders(p) ==
    /\ pc[p] = "idle"
    /\ requests[p] # <<>>
    /\ LET from == Head(requests[p])
           last == IF from + BatchLimit <= remote THEN from + BatchLimit ELSE remote
       IN  IF last <= from
           THEN UNCHANGED <<pc, msg>>
           ELSE /\ Goto(p, "write")
                /\ msg' = [msg EXCEPT ![p] = [first |-> from + 1, last |-> last]]
    /\ requests' = [requests EXCEPT ![p] = Tail(@)]
    /\ UNCHANGED <<remote, store, lock, batch, seen, follow_up, news, excluded>>

\* header_store.write()
TakeWrite(p) ==
    /\ pc[p] = "write"
    /\ CanWrite
    /\ writer' = {p}
    /\ Goto(p, "validate")
    /\ UNCHANGED <<remote, store, readers, task, net, excluded>>

\* Variant: an off-by-one in the test for a full message.
OverfullMessage(m) == m.last - m.first + 1 > BatchLimit

\* The message has as many headers as a message can have.
FullMessage(m) == m.last - m.first + 1 = BatchLimit

\* validate_and_commit succeeds: the headers that are not known yet extend the
\* tip. Nothing is left to do for a message without a new header.
ValidateAndCommit(p) ==
    /\ pc[p] = "validate"
    /\ msg[p].first <= height + 1
    /\ LET new == height + 1 .. msg[p].last
       IN  IF new = {}
           THEN Return(p, "idle") /\ UNCHANGED height
           ELSE /\ height' = msg[p].last
                /\ batch' = [batch EXCEPT ![p] = new]
                /\ follow_up' = [follow_up EXCEPT ![p] = FullMessage(msg[p])]
                /\ Goto(p, "refresh")
                /\ UNCHANGED <<msg, seen>>
    /\ DropStore(p)
    /\ UNCHANGED <<remote, disk, cached_height, readers, net, excluded>>

\* refresh_chain_cache reads the height under a read guard ...
RefreshRead(p) ==
    /\ pc[p] = "refresh"
    /\ CanRead
    /\ TakeRead(p)
    /\ seen' = [seen EXCEPT ![p] = height]
    /\ Goto(p, "cache")
    /\ UNCHANGED <<remote, store, writer, msg, batch, follow_up, net, excluded>>

\* ... stores it in the atomic and drops the guard.
RefreshStore(p) ==
    /\ pc[p] = "cache"
    /\ cached_height' = seen[p]
    /\ readers' = readers \ {p}
    /\ Goto(p, IF follow_up[p] /\ p \notin excluded THEN "follow_up" ELSE "persist")
    /\ UNCHANGED <<remote, height, disk, writer, task, net, excluded>>

\* Variant: the locator starts at the next height.
LocatorPastTip(p) == msg[p].last + 1

\* build_locator under the write lock, right after the commit.
Locator(p) == msg[p].last

\* The next getheaders.
FollowUp(p) ==
    /\ pc[p] = "follow_up"
    /\ requests' = [requests EXCEPT ![p] = Append(@, Locator(p))]
    /\ Goto(p, "persist")
    /\ UNCHANGED <<remote, store, lock, task, news, excluded>>

\* It cannot be sent: the handler returns the error and the connection ends.
FollowUpFails(p) ==
    /\ pc[p] = "follow_up"
    /\ p \notin Reliable
    /\ Return(p, "down")
    /\ requests' = [requests EXCEPT ![p] = <<>>]
    /\ UNCHANGED <<remote, store, lock, news, excluded>>

\* Variant: only a message that is followed by another is saved.
SavedFull(p) == IF follow_up[p] THEN batch[p] ELSE {}

\* persist_batch
Saved(p) == batch[p]

\* The last step: persist_batch under a read lock.
PersistBatch(p) ==
    /\ pc[p] = "persist"
    /\ CanRead
    /\ disk' = disk \cup Saved(p)
    /\ Return(p, "idle")
    /\ UNCHANGED <<remote, height, cached_height, lock, net, excluded>>

\* redb fails; the error is logged and the batch dropped.
PersistFails(p) ==
    /\ DiskFaults
    /\ pc[p] = "persist"
    /\ CanRead
    /\ Return(p, "idle")
    /\ UNCHANGED <<remote, store, lock, net, excluded>>

---------------------------------------------------------------------------
\* A block is found somewhere; the peers have its header.
NewBlock ==
    /\ remote < MaxHeight
    /\ remote' = remote + 1
    /\ news' = Peer
    /\ UNCHANGED <<store, lock, pc, task, requests, excluded>>

\* The peer's connection ends between two messages, or because the getheaders
\* after an inv cannot be sent.
Disconnect(p) ==
    /\ p \notin Reliable
    /\ pc[p] \in {"idle", "inv"}
    /\ Goto(p, "down")
    /\ requests' = [requests EXCEPT ![p] = <<>>]
    /\ UNCHANGED <<remote, store, lock, task, news, excluded>>

\* Timeouts of requests exclude the peer until its strikes have decayed.
Exclude(p) ==
    /\ p \notin Reliable \cup excluded
    /\ excluded' = excluded \cup {p}
    /\ UNCHANGED <<remote, store, lock, pc, task, net>>

Readmit(p) ==
    /\ p \in excluded
    /\ excluded' = excluded \ {p}
    /\ UNCHANGED <<remote, store, lock, pc, task, net>>

\* A task that is in a handler goes on with it.
Handler(p) ==
    \/ RequestAfterInv(p)
    \/ TakeWrite(p)
    \/ ValidateAndCommit(p)
    \/ RefreshRead(p)
    \/ RefreshStore(p)
    \/ FollowUp(p)
    \/ PersistBatch(p)

Next ==
    \/ NewBlock
    \/ \E p \in Peer :
         \/ HandleVerack(p) \/ HandleInv(p) \/ HandleHeaders(p)
         \/ Handler(p)
         \/ FollowUpFails(p) \/ PersistFails(p)
         \/ Disconnect(p) \/ Exclude(p) \/ Readmit(p)

Spec == Init /\ [][Next]_vars

\* A task that is runnable runs, a lock that is released again and again is
\* granted at some point, and reliable peers connect, answer and announce.
Fairness ==
    /\ \A p \in Peer : SF_vars(Handler(p))
    /\ \A p \in Reliable :
         SF_vars(HandleVerack(p)) /\ SF_vars(HandleInv(p)) /\ WF_vars(HandleHeaders(p))

FairSpec == Spec /\ Fairness

---------------------------------------------------------------------------
\* A peer that was sent sendheaders announces its new tip with a headers
\* message instead of an inv.
Announce(p) ==
    /\ pc[p] = "idle"
    /\ p \in news
    /\ news' = news \ {p}
    /\ msg' = [msg EXCEPT ![p] = [first |-> remote, last |-> remote]]
    /\ Goto(p, "write")
    /\ UNCHANGED <<remote, store, lock, batch, seen, follow_up, requests, excluded>>

\* validate_and_commit fails: the first header is not the child of the tip.
\* The write guard lives on; the handler goes on to call is_in_ibd.
ValidateFails(p) ==
    /\ pc[p] = "validate"
    /\ msg[p].first > height + 1
    /\ Goto(p, "ibd_check")
    /\ UNCHANGED <<remote, store, lock, task, net, excluded>>

\* is_in_ibd takes a read lock. In initial block download the batch is then
\* ignored; otherwise accept_header refuses each header as an orphan.
IsInIbd(p) ==
    /\ pc[p] = "ibd_check"
    /\ CanRead
    /\ DropStore(p)
    /\ Return(p, "idle")
    /\ UNCHANGED <<remote, store, readers, net, excluded>>

AnnounceNext == Next \/ \E p \in Peer : Announce(p) \/ ValidateFails(p) \/ IsInIbd(p)

AnnounceSpec ==
    /\ Init /\ [][AnnounceNext]_vars
    /\ Fairness
    /\ \A p \in Peer : SF_vars(ValidateFails(p)) /\ SF_vars(IsInIbd(p))

---------------------------------------------------------------------------
Labels == {"down", "idle", "inv", "write", "validate", "ibd_check", "refresh", "cache",
           "follow_up", "persist"}

\* The state keeps its types, and the lock is never held by a writer and
\* somebody else.
TypeOK ==
    /\ remote \in 0 .. MaxHeight
    /\ height \in 0 .. remote
    /\ disk \subseteq 1 .. height
    /\ cached_height \in 0 .. height
    /\ writer \subseteq Peer /\ readers \subseteq Peer
    /\ writer # {} => readers = {}
    /\ pc \in [Peer -> Labels]
    /\ msg \in [Peer -> [first : Nat, last : 0 .. remote]]
    /\ batch \in [Peer -> SUBSET (1 .. height)]
    /\ seen \in [Peer -> 0 .. height]
    /\ follow_up \in [Peer -> BOOLEAN]
    /\ \A p \in Peer : requests[p] \in Seq(0 .. height)
    /\ news \subseteq Peer
    /\ excluded \subseteq Peer

\* chain_height() is the height of the header store whenever no task is
\* between its commit and the end of refresh_chain_cache: the refreshes of
\* several tasks never leave an older height behind.
CacheCurrent ==
    (\A p \in Peer : pc[p] \notin {"refresh", "cache"}) => cached_height = height

\* "Headers are persisted to redb on every batch insertion": when no handler
\* is running, every header in memory is in redb.
PersistedWhenIdle ==
    (\A p \in Peer : pc[p] \in {"down", "idle"}) => disk = 1 .. height

\* Every headers message is handled to the end: no handler waits for a lock
\* for ever, although each takes the lock of the header store three times.
Handled == \A p \in Peer : pc[p] = "write" ~> pc[p] \in {"idle", "down"}

\* Header sync "repeats until the peer's tip is reached": as long as all peers
\* stay and answer, the node gets to their tip, although the batches of one
\* are duplicates to the other and only the task that commits a batch asks for
\* the next. (It is not enough that one peer stays: when the peer whose batch
\* was committed leaves before it answers again, nobody asks the other.)
SyncReachesTip == <>[](height = remote)
=============================================================================

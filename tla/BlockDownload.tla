--------------------------- MODULE BlockDownload ---------------------------
(***************************************************************************)
(* The block download manager of src/nodes/block_download.rs: the sliding  *)
(* window of getdata requests over several peers, the reordering buffer,   *)
(* timeouts with strikes, peer disconnects, reorganisations and restarts.  *)
(*                                                                         *)
(* The manager is one task; pc is its place in the loop of run(). The rest *)
(* of the node moves between its steps: headers arrive, another task       *)
(* reorganises the chain, peers come and go, strikes decay.                *)
(*                                                                         *)
(* A block is named by its hash. Chain[b] is its ancestry above genesis,   *)
(* so b has height Len(Chain[b]). The active header chain and the chain of *)
(* connected blocks are sequences indexed by height.                       *)
(***************************************************************************)
EXTENDS Integers, Sequences, FiniteSets

CONSTANTS
    Block,
    Chain,            \* Chain[b]: the blocks from height 1 to b
    Rejected,         \* blocks connect_block refuses for their contents
    Unreadable,       \* stored blocks that cannot be read back
    Peer,
    Reliable,         \* peers that stay connected and answer every request in time
    WindowSize,       \* WINDOW_SIZE
    PerPeerLimit,     \* PER_PEER_LIMIT
    RefillThreshold,  \* REFILL_THRESHOLD
    MaxPending,       \* MAX_PENDING_BLOCKS
    MaxStrikes,       \* MAX_TIMEOUT_STRIKES
    MaxReorgs,        \* bound on the reorganisations of a run
    MaxRestarts       \* bound on the restarts of the node

ASSUME BlockAssumption ==
    /\ Chain \in [Block -> Seq(Block)]
    /\ \A b \in Block :
         /\ Chain[b] # <<>>
         /\ Chain[b][Len(Chain[b])] = b
         /\ \A i \in 1 .. Len(Chain[b]) : Chain[Chain[b][i]] = SubSeq(Chain[b], 1, i)
    /\ Rejected \subseteq Block
    /\ Unreadable \subseteq Block

ASSUME LimitAssumption ==
    /\ Reliable \subseteq Peer
    /\ WindowSize \in Nat \ {0}
    /\ PerPeerLimit \in Nat \ {0}
    /\ RefillThreshold \in Nat
    /\ MaxPending \in Nat \ {0}
    /\ MaxStrikes \in Nat \ {0}
    /\ MaxReorgs \in Nat
    /\ MaxRestarts \in Nat

VARIABLES
    active,               \* the header store's active chain, above genesis
    cached_height,        \* NodeManager::chain_height, an atomic copy
    connected,            \* the blocks of the chainstate, lowest first
    stored_hashes,
    in_flight,            \* requested block -> peer and height
    pending_blocks,       \* height -> block waiting to be connected
    next_height,
    next_connect_height,
    pc,                   \* where run() is
    up,                   \* connected peers
    gone,                 \* disconnect notices not yet received
    reorg_rx,             \* reorganisation notices not yet received
    timeout_strikes,
    strike_excluded,
    paused,               \* fill_window once found work and no peer for it
    reorgs,
    restarts

window  == <<in_flight, pending_blocks, next_height, next_connect_height>>
headers == <<active, cached_height>>
strikes == <<timeout_strikes, strike_excluded>>
bounds  == <<paused, reorgs, restarts>>
vars    == <<headers, connected, stored_hashes, window, pc, up, gone, reorg_rx,
             strikes, bounds>>

Height(b) == Len(Chain[b])

Least(a, b) == IF a <= b THEN a ELSE b

\* Variant: a lost block does not move next_height back.
RewoundNever(next, heights) == next

\* The least of next_height and the given heights: schedule_redownload.
Rewound(next, heights) ==
    IF heights = {} THEN next
    ELSE Least(next, CHOOSE h \in heights : \A k \in heights : h <= k)

Drop(f, S) == [x \in DOMAIN f \ S |-> f[x]]

Put(f, x, y) == [z \in DOMAIN f \cup {x} |-> IF z = x THEN y ELSE f[z]]

Requested(p) == {b \in DOMAIN in_flight : in_flight[b].peer = p}

\* peer_used
Used(p) == Cardinality(Requested(p))

InFlightEntry(b, p) == [peer |-> p, height |-> Height(b)]

HeightsOf(blocks) == {in_flight[b].height : b \in blocks}

ScanEnd == Least(cached_height, Len(active))

\* connect_block looks at the height only; whether it also accepts a block
\* whose parent is not the tip depends on the transactions.
ConnectResults(b, height) ==
    IF height # Len(connected) + 1 \/ b \in Rejected THEN {FALSE}
    ELSE IF Chain[b] = Append(connected, b) THEN {TRUE}
    ELSE {TRUE, FALSE}

---------------------------------------------------------------------------
Init ==
    /\ active \in {<<>>} \cup {Chain[b] : b \in Block}
    /\ cached_height = Len(active)
    /\ connected = <<>>
    /\ stored_hashes = {}
    /\ in_flight = <<>>
    /\ pending_blocks = <<>>
    /\ next_height = 1
    /\ next_connect_height = 1
    /\ pc = "catch_up"
    /\ up = Reliable
    /\ gone = {}
    /\ reorg_rx = <<>>
    /\ timeout_strikes = [p \in Peer |-> 0]
    /\ strike_excluded = {}
    /\ paused = FALSE
    /\ reorgs = 0
    /\ restarts = 0

---------------------------------------------------------------------------
\* catch_up_chainstate: one iteration connects the next block from disk; the
\* loop ends at the first block it does not have, cannot read or cannot
\* connect.
CatchUp ==
    /\ pc = "catch_up"
    /\ LET h == next_connect_height
           readable == h <= ScanEnd /\ active[h] \in stored_hashes \ Unreadable
       IN  \E ok \in IF readable THEN ConnectResults(active[h], h) ELSE {FALSE} :
             IF ok
             THEN /\ connected' = Append(connected, active[h])
                  /\ next_connect_height' = h + 1
                  /\ UNCHANGED pc
             ELSE /\ pc' = "fill"
                  /\ UNCHANGED <<connected, next_connect_height>>
    /\ UNCHANGED <<headers, stored_hashes, in_flight, pending_blocks, next_height, up,
                   gone, reorg_rx, strikes, bounds>>

\* Variant: buffered blocks take no room.
FreeSlotsOfWindow ==
    WindowSize - Cardinality(DOMAIN in_flight)

FreeSlots ==
    LET used == Cardinality(DOMAIN in_flight)
        outstanding == used + Cardinality(DOMAIN pending_blocks)
        room == Least(WindowSize - used, MaxPending - outstanding)
    IN  IF room < 0 THEN 0 ELSE room

\* The early returns of fill_window before it scans.
FillDue ==
    /\ FreeSlots >= RefillThreshold \/ DOMAIN in_flight = {}
    /\ up # {}
    /\ next_height <= cached_height

\* The heights from next_height on that the scan does not skip.
Wanted ==
    {h \in next_height .. ScanEnd :
        /\ active[h] \notin stored_hashes \cup DOMAIN in_flight
        /\ h \notin DOMAIN pending_blocks}

\* Phase 1 collects the lowest of them, as many as there are free slots.
Requestable == {h \in Wanted : Cardinality({k \in Wanted : k < h}) < FreeSlots}

\* Variant: next_height moves on before the free slots are looked at.
ScannedBeforeCheck ==
    IF ScanEnd < next_height THEN next_height
    ELSE IF Cardinality(Requestable) < FreeSlots THEN ScanEnd + 1
    ELSE Least(ScanEnd, 1 + CHOOSE h \in Requestable : \A k \in Requestable : k <= h) + 1

\* Where phase 1 leaves next_height: behind the last header, or behind the
\* height that used up the last slot.
Scanned ==
    IF FreeSlots = 0 \/ ScanEnd < next_height THEN next_height
    ELSE IF Cardinality(Requestable) < FreeSlots THEN ScanEnd + 1
    ELSE 1 + CHOOSE h \in Requestable : \A k \in Requestable : k <= h

Available ==
    {p \in up \ strike_excluded : Used(p) < PerPeerLimit}

\* Phase 2 gives contiguous runs of heights to peers, each filled to its
\* limit before the next is used. to maps the heights it could assign to
\* peers; the order of the peers is that of a hash map.
Assignment(to) ==
    LET load(p) == Used(p) + Cardinality({h \in DOMAIN to : to[h] = p})
    IN  /\ \A h \in DOMAIN to : \A k \in Requestable : k < h => k \in DOMAIN to
        /\ \A p \in Available : load(p) <= PerPeerLimit
        /\ DOMAIN to # Requestable => \A p \in Available : load(p) = PerPeerLimit
        /\ \A h, k \in DOMAIN to :
             (h < k /\ to[h] # to[k]) =>
               /\ load(to[h]) = PerPeerLimit
               /\ \A m \in DOMAIN to : m > k => to[m] # to[h]

\* fill_window with all its returns. The peers in failed are those whose
\* getdata could not be sent: their requests are dropped and rescheduled.
FillWindow ==
    /\ pc = "fill"
    /\ pc' = "select"
    /\ \/ /\ ~FillDue \/ Requestable = {}
          /\ next_height' = IF FillDue THEN Scanned ELSE next_height
          /\ UNCHANGED <<in_flight, paused>>
       \/ /\ FillDue /\ Requestable # {} /\ Available = {}
          /\ next_height' = Scanned
          /\ paused' = TRUE
          /\ UNCHANGED in_flight
       \/ /\ FillDue /\ Requestable # {} /\ Available # {}
          /\ \E assigned \in SUBSET Requestable :
             \E to \in [assigned -> Available] :
             \E failed \in SUBSET ({to[h] : h \in assigned} \ Reliable) :
               LET sent == {h \in assigned : to[h] \notin failed}
                   block(h) == active[h]
               IN  /\ Assignment(to)
                   /\ in_flight' =
                        [b \in DOMAIN in_flight \cup {block(h) : h \in sent} |->
                           IF b \in DOMAIN in_flight THEN in_flight[b]
                           ELSE InFlightEntry(b, to[Height(b)])]
                   /\ next_height' =
                        Rewound(Scanned, (Requestable \ assigned) \cup (assigned \ sent))
          /\ UNCHANGED paused
    /\ UNCHANGED <<headers, connected, stored_hashes, pending_blocks,
                   next_connect_height, up, gone, reorg_rx, strikes, reorgs, restarts>>

---------------------------------------------------------------------------
\* handle_received_block: a block that is not in flight is ignored, one that
\* does not parse or validate is requested again, the next block is connected
\* and stored, a later one is buffered, an earlier one is only stored. The
\* select branch goes on with every block that is waiting in the channel.
Receive(b, valid) ==
    /\ pc \in {"select", "received"}
    /\ pc' = "received"
    /\ IF b \notin DOMAIN in_flight
       THEN UNCHANGED <<connected, stored_hashes, window>>
       ELSE LET height == in_flight[b].height
                redownload == next_height' = Rewound(next_height, {height})
            IN
            /\ in_flight' = Drop(in_flight, {b})
            /\ \/ /\ ~valid
                  /\ redownload
                  /\ UNCHANGED <<connected, stored_hashes, pending_blocks,
                                 next_connect_height>>
               \/ /\ valid /\ height > next_connect_height
                  /\ IF Cardinality(DOMAIN pending_blocks) >= MaxPending
                     THEN redownload /\ UNCHANGED pending_blocks
                     ELSE /\ pending_blocks' = Put(pending_blocks, height, b)
                          /\ UNCHANGED next_height
                  /\ UNCHANGED <<connected, stored_hashes, next_connect_height>>
               \/ /\ valid /\ height < next_connect_height
                  /\ stored_hashes' = stored_hashes \cup {b}
                  /\ UNCHANGED <<connected, pending_blocks, next_height,
                                 next_connect_height>>
               \/ /\ valid /\ height = next_connect_height
                  /\ FALSE \in ConnectResults(b, height)
                  /\ redownload
                  /\ UNCHANGED <<connected, stored_hashes, pending_blocks,
                                 next_connect_height>>
    /\ UNCHANGED <<headers, up, gone, reorg_rx, strikes, bounds>>

\* The same handler for the block at next_connect_height that does connect:
\* connect_and_store, and then drain_pending.
ReceiveNext(b) ==
    /\ pc \in {"select", "received"}
    /\ b \in DOMAIN in_flight
    /\ in_flight[b].height = next_connect_height
    /\ TRUE \in ConnectResults(b, next_connect_height)
    /\ in_flight' = Drop(in_flight, {b})
    /\ connected' = Append(connected, b)
    /\ stored_hashes' = stored_hashes \cup {b}
    /\ next_connect_height' = next_connect_height + 1
    /\ pc' = "drain"
    /\ UNCHANGED <<headers, pending_blocks, next_height, up, gone, reorg_rx, strikes,
                   bounds>>

\* Variant: a buffered block that does not connect stays in the buffer.
DrainPendingKeeps ==
    /\ pc = "drain"
    /\ LET h == next_connect_height
           b == pending_blocks[h]
       IN  IF h \notin DOMAIN pending_blocks
           THEN /\ pc' = "received"
                /\ UNCHANGED <<connected, stored_hashes, window>>
           ELSE /\ \E ok \in ConnectResults(b, h) :
                     IF ok
                     THEN /\ pending_blocks' = Drop(pending_blocks, {h})
                          /\ connected' = Append(connected, b)
                          /\ stored_hashes' = stored_hashes \cup {b}
                          /\ next_connect_height' = h + 1
                          /\ UNCHANGED <<pc, next_height>>
                     ELSE /\ next_height' = Rewound(next_height, {h})
                          /\ pc' = "received"
                          /\ UNCHANGED <<connected, stored_hashes, pending_blocks,
                                         next_connect_height>>
                /\ UNCHANGED in_flight
    /\ UNCHANGED <<headers, up, gone, reorg_rx, strikes, bounds>>

\* drain_pending, one buffered block per step.
DrainPending ==
    /\ pc = "drain"
    /\ LET h == next_connect_height
           b == pending_blocks[h]
       IN  IF h \notin DOMAIN pending_blocks
           THEN /\ pc' = "received"
                /\ UNCHANGED <<connected, stored_hashes, window>>
           ELSE /\ pending_blocks' = Drop(pending_blocks, {h})
                /\ \E ok \in ConnectResults(b, h) :
                     IF ok
                     THEN /\ connected' = Append(connected, b)
                          /\ stored_hashes' = stored_hashes \cup {b}
                          /\ next_connect_height' = h + 1
                          /\ UNCHANGED <<pc, next_height>>
                     ELSE /\ next_height' = Rewound(next_height, {h})
                          /\ pc' = "received"
                          /\ UNCHANGED <<connected, stored_hashes, next_connect_height>>
                /\ UNCHANGED in_flight
    /\ UNCHANGED <<headers, up, gone, reorg_rx, strikes, bounds>>

\* The channel is empty.
Drained ==
    /\ pc = "received"
    /\ pc' = "scan"
    /\ UNCHANGED <<headers, connected, stored_hashes, window, up, gone, reorg_rx,
                   strikes, bounds>>

\* The timer branch of the select.
Sleep ==
    /\ pc = "select"
    /\ pc' = "scan"
    /\ UNCHANGED <<headers, connected, stored_hashes, window, up, gone, reorg_rx,
                   strikes, bounds>>

\* handle_peer_disconnect
PeerDisconnected(p) ==
    /\ pc = "select"
    /\ p \in gone
    /\ gone' = gone \ {p}
    /\ in_flight' = Drop(in_flight, Requested(p))
    /\ next_height' = Rewound(next_height, HeightsOf(Requested(p)))
    /\ pc' = "scan"
    /\ UNCHANGED <<headers, connected, stored_hashes, pending_blocks,
                   next_connect_height, up, reorg_rx, strikes, bounds>>

\* handle_reorg
HandleReorg ==
    /\ pc = "select"
    /\ reorg_rx # <<>>
    /\ reorg_rx' = Tail(reorg_rx)
    /\ next_connect_height' = Head(reorg_rx) + 1
    /\ next_height' = Head(reorg_rx) + 1
    /\ in_flight' = <<>>
    /\ pending_blocks' = <<>>
    /\ pc' = "scan"
    /\ UNCHANGED <<headers, connected, stored_hashes, up, gone, strikes, bounds>>

\* handle_timeout_scan. stale is the set of requests older than the timeout;
\* every peer with one of them gets one strike, and a peer that reaches
\* MAX_TIMEOUT_STRIKES loses its other requests too.
TimeoutScan(stale) ==
    /\ pc = "scan"
    /\ pc' = "fill"
    /\ LET late == {in_flight[b].peer : b \in stale} \ strike_excluded
           struck(p) == Least(timeout_strikes[p] + 1, MaxStrikes)
           out == {p \in late : struck(p) = MaxStrikes}
           removed == stale \cup UNION {Requested(p) : p \in out}
       IN  /\ in_flight' = Drop(in_flight, removed)
           /\ next_height' = Rewound(next_height, HeightsOf(removed))
           /\ timeout_strikes' =
                [p \in Peer |-> IF p \in late THEN struck(p) ELSE timeout_strikes[p]]
           /\ strike_excluded' = strike_excluded \cup out
    /\ UNCHANGED <<headers, connected, stored_hashes, pending_blocks,
                   next_connect_height, up, gone, reorg_rx, bounds>>

---------------------------------------------------------------------------
\* A batch of headers extends the active chain, here by one header, and the
\* handler refreshes the cached height. catch_up_chainstate reads that height
\* once, so headers that arrive during it count as arriving after it.
HeaderBatch(b) ==
    /\ pc # "catch_up"
    /\ Chain[b] = Append(active, b)
    /\ active' = Chain[b]
    /\ cached_height' = Height(b)
    /\ UNCHANGED <<connected, stored_hashes, window, pc, up, gone, reorg_rx, strikes,
                   bounds>>

\* accept_header extends the active chain; nothing refreshes the cached height.
HeaderAccepted(b) ==
    /\ pc # "catch_up"
    /\ Chain[b] = Append(active, b)
    /\ active' = Chain[b]
    /\ UNCHANGED <<cached_height, connected, stored_hashes, window, pc, up, gone,
                   reorg_rx, strikes, bounds>>

\* What activate_best_chain needs to move the chainstate to chain: the blocks
\* to disconnect and those to connect can be read, and the latter connect.
CanActivate(chain, store) ==
    LET common == {i \in 1 .. Len(chain) :
                      i <= Len(connected) /\ chain[i] = connected[i]}
        off(s) == {s[i] : i \in 1 .. Len(s) \ common}
    IN  /\ off(chain) # {}
        /\ off(chain) \cup off(connected) \subseteq store \ Unreadable
        /\ off(chain) \cap Rejected = {}

\* try_activate_best_chain in another task, taken as one step: the chainstate
\* and the active chain move to the chain of b and the manager is told the
\* new height.
Reorganized(b) ==
    /\ reorgs < MaxReorgs
    /\ reorgs' = reorgs + 1
    /\ \E c \in Block : connected = Chain[c]
    /\ CanActivate(Chain[b], stored_hashes)
    /\ Chain[b] # SubSeq(active, 1, Least(Height(b), Len(active)))
    /\ active' = Chain[b]
    /\ connected' = Chain[b]
    /\ reorg_rx' = Append(reorg_rx, Height(b))
    /\ UNCHANGED <<cached_height, stored_hashes, window, pc, up, gone, strikes, paused,
                   restarts>>

PeerUp(p) ==
    /\ p \notin up
    /\ up' = up \cup {p}
    /\ UNCHANGED <<headers, connected, stored_hashes, window, pc, gone, reorg_rx,
                   strikes, bounds>>

\* A connection ends; the end of an outgoing one sends the manager a notice.
PeerDown(p) ==
    /\ p \in up \ Reliable
    /\ up' = up \ {p}
    /\ gone' \in {gone, gone \cup {p}}
    /\ UNCHANGED <<headers, connected, stored_hashes, window, pc, reorg_rx, strikes,
                   bounds>>

\* scan_header_timeouts: a getheaders request that was not answered.
HeaderTimeout(p) ==
    /\ p \in up \ (strike_excluded \cup Reliable)
    /\ timeout_strikes' =
         [timeout_strikes EXCEPT ![p] = Least(timeout_strikes[p] + 1, MaxStrikes)]
    /\ strike_excluded' = IF timeout_strikes'[p] = MaxStrikes
                          THEN strike_excluded \cup {p} ELSE strike_excluded
    /\ UNCHANGED <<headers, connected, stored_hashes, window, pc, up, gone, reorg_rx,
                   bounds>>

\* Variant: the count of strikes is not looked at.
DecayStrikeAlways(p) ==
    /\ timeout_strikes' = [timeout_strikes EXCEPT ![p] = timeout_strikes[p] - 1]
    /\ strike_excluded' = strike_excluded \ {p}
    /\ UNCHANGED <<headers, connected, stored_hashes, window, pc, up, gone, reorg_rx,
                   bounds>>

\* decay_strikes, one peer whose interval has expired.
DecayStrike(p) ==
    /\ timeout_strikes[p] > 0
    /\ timeout_strikes' = [timeout_strikes EXCEPT ![p] = timeout_strikes[p] - 1]
    /\ strike_excluded' = IF timeout_strikes[p] = 1 THEN strike_excluded \ {p}
                          ELSE strike_excluded
    /\ UNCHANGED <<headers, connected, stored_hashes, window, pc, up, gone, reorg_rx,
                   bounds>>

\* Variant: new() does not look at the chainstate.
ResumeAtFirst(chain) == 1

\* new() resumes behind the tip of the chainstate.
ResumeHeight(chain) == Len(chain) + 1

\* A crash and the next start. The index of the block store lacks what was not
\* flushed and what could not be written; the chainstate has lost nothing, unless its database
\* was unusable and is recreated empty; the header store comes back with the
\* heaviest chain it had on disk. The activation at startup moves the
\* chainstate to that chain if it has all the blocks and the header store
\* knows the chainstate's tip.
Restart ==
    /\ restarts < MaxRestarts
    /\ restarts' = restarts + 1
    /\ stored_hashes' \in SUBSET stored_hashes
    /\ active' \in {active} \cup {Chain[b] : b \in Block}
    /\ cached_height' = Len(active')
    /\ in_flight' = <<>>
    /\ pending_blocks' = <<>>
    /\ next_height' = 1
    /\ connected' \in {connected, <<>>}
         \cup {s \in {active'} : connected # <<>> /\ CanActivate(s, stored_hashes')}
    /\ next_connect_height' = ResumeHeight(connected')
    /\ pc' = "catch_up"
    /\ up' = Reliable
    /\ gone' = {}
    /\ reorg_rx' = <<>>
    /\ timeout_strikes' = [p \in Peer |-> 0]
    /\ strike_excluded' = {}
    /\ paused' = FALSE
    /\ UNCHANGED reorgs

---------------------------------------------------------------------------
\* The requests a timeout scan may find stale.
CanBeStale == {b \in DOMAIN in_flight : in_flight[b].peer \notin Reliable}

Manager ==
    \/ CatchUp
    \/ FillWindow
    \/ DrainPending
    \/ Drained
    \/ Sleep
    \/ \E p \in Peer : PeerDisconnected(p)
    \/ HandleReorg
    \/ \E stale \in SUBSET CanBeStale : TimeoutScan(stale)

Next ==
    \/ Manager
    \/ \E b \in Block, valid \in BOOLEAN : Receive(b, valid)
    \/ \E b \in Block : ReceiveNext(b)
    \/ \E b \in Block : HeaderBatch(b) \/ HeaderAccepted(b) \/ Reorganized(b)
    \/ \E p \in Peer : PeerUp(p) \/ PeerDown(p) \/ HeaderTimeout(p) \/ DecayStrike(p)
    \/ Restart

Spec == Init /\ [][Next]_vars

\* A requested block arrives in good order.
Answer(b) == b \in DOMAIN in_flight /\ (Receive(b, TRUE) \/ ReceiveNext(b))

\* The getdata for the block goes out.
Request(b) == b \notin DOMAIN in_flight /\ FillWindow /\ b \in DOMAIN in_flight'

\* The manager's task is never starved; a connection does not fail each time
\* just when a block is requested from it; a block that is requested again and
\* again arrives at some point, and so does one that would stay requested for
\* ever, where the code lets the request expire and asks another peer; strikes
\* decay with time; peers reconnect.
Fairness ==
    /\ WF_vars(Manager)
    /\ \A b \in Block : SF_vars(Request(b)) /\ SF_vars(Answer(b))
    /\ \A p \in Peer : WF_vars(DecayStrike(p)) /\ WF_vars(PeerUp(p))

FairSpec == Spec /\ Fairness

---------------------------------------------------------------------------
\* The state keeps its types; in particular a peer has between none and
\* MAX_TIMEOUT_STRIKES strikes, whatever order timeouts and decay take.
TypeOK ==
    /\ active \in Seq(Block)
    /\ cached_height \in Nat
    /\ connected \in Seq(Block)
    /\ stored_hashes \subseteq Block
    /\ DOMAIN in_flight \subseteq Block
    /\ in_flight \in [DOMAIN in_flight -> [peer : Peer, height : Nat]]
    /\ DOMAIN pending_blocks \subseteq Nat
    /\ pending_blocks \in [DOMAIN pending_blocks -> Block]
    /\ next_height \in Nat
    /\ next_connect_height \in Nat
    /\ pc \in {"catch_up", "fill", "select", "received", "drain", "scan"}
    /\ up \subseteq Peer
    /\ gone \subseteq Peer
    /\ reorg_rx \in Seq(Nat)
    /\ timeout_strikes \in [Peer -> 0 .. MaxStrikes]
    /\ strike_excluded \subseteq Peer
    /\ paused \in BOOLEAN
    /\ reorgs \in 0 .. MaxReorgs
    /\ restarts \in 0 .. MaxRestarts

\* Requested and buffered blocks together never exceed MAX_PENDING_BLOCKS, so
\* no block that arrives is ever discarded for want of room; no more than
\* WINDOW_SIZE blocks are in flight.
OutstandingBounded ==
    /\ Cardinality(DOMAIN in_flight) <= WindowSize
    /\ Cardinality(DOMAIN in_flight) + Cardinality(DOMAIN pending_blocks) <= MaxPending

\* The height is accounted for: its block is stored, requested or buffered.
Accounted(h) ==
    \/ active[h] \in stored_hashes \cup DOMAIN in_flight
    \/ h \in DOMAIN pending_blocks

\* next_height never leaves a height behind: as long as fill_window has not
\* had to pause, every height below it is stored, requested or buffered,
\* through timeouts, exclusions, failed sends, bad blocks and disconnects.
NoHeightLost ==
    (~paused /\ reorg_rx = <<>>) =>
        \A h \in 1 .. Len(active) : h < next_height => h < next_connect_height \/ Accounted(h)

\* Until another task reorganises the chain, the manager and the chainstate
\* agree on the next block to connect, after restarts too. (From then on they
\* may not: a block handled before the notice connects at the old height.)
ConnectInSync == reorgs = 0 => next_connect_height = Len(connected) + 1

\* drain_pending leaves nothing behind: outside of it, every buffered block is
\* above the next height to connect, so a later arrival will reach it, through
\* gaps, bad blocks and reorganisations.
BufferIsAhead ==
    pc # "drain" => \A h \in DOMAIN pending_blocks : h > next_connect_height

\* "Connects a block to the chain, updating the UTXO set": connect_block builds
\* a chain, every connected block is the child of the one below it.
ConnectedIsChain ==
    \A i \in 1 .. Len(connected) : Chain[connected[i]] = SubSeq(connected, 1, i)

\* The chainstate reaches the height the manager knows of.
EventuallyConnected == <>[](Len(connected) >= cached_height)

\* fill_window advances next_height past heights it then finds no free peer
\* for, and returns without moving it back: those heights are lost. As long as
\* that does not happen the chainstate reaches the height the manager knows
\* of, although any block may arrive out of order, damaged or again, and a
\* peer may leave, fail to take a request or not answer.
ConnectedUnlessPaused == []~paused => EventuallyConnected

\* "If all connected peers become excluded, recovery happens naturally through
\* strike decay and new peer connections": once the peers stay connected and
\* eligible, the chainstate reaches the height the manager knows of.
RecoversFromExclusion ==
    <>[](up = Peer /\ strike_excluded = {}) => EventuallyConnected
=============================================================================

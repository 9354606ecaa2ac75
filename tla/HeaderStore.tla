---------------------------- MODULE HeaderStore ----------------------------
(***************************************************************************)
(* The header tree of src/headers.rs with its redb backend, and the steps  *)
(* that the rest of the node takes on it: a headers message (a batch that  *)
(* extends the active tip, or single fork headers), the persistence of a   *)
(* batch after the lock is released, the success and the failure of a      *)
(* chain activation, the purge of stale forks and a restart.               *)
(*                                                                         *)
(* A hash commits to the header and, through prev_hash, to every ancestor. *)
(* Chain[h] is that ancestry, from genesis to h; the walks over prev_hash  *)
(* in the code read it as long as every header on the way is stored.       *)
(*                                                                         *)
(* The loops that run under one write lock (the commit of a batch, the two *)
(* loops of purge_stale_forks) take one step per iteration; phase tells    *)
(* which loop holds the lock, and nothing else runs until it is idle.      *)
(***************************************************************************)
EXTENDS Integers, Sequences, FiniteSets

CONSTANTS
    Hash,            \* the headers peers can announce, genesis included
    Genesis,
    Chain,           \* Chain[h]: the headers from genesis to h
    Work,            \* work_from_bits of the header's bits
    GoodBits,        \* headers whose bits are what the difficulty rules expect
    GoodPow,         \* headers whose scrypt hash meets their target
    Checkpoint,      \* height -> the hash the chain must have there
    MaxForkAge,      \* MAX_FORK_AGE
    MaxForkHeaders,  \* MAX_FORK_HEADERS
    MaxReorgDepth,   \* MAX_REORG_DEPTH
    AcceptsForks,    \* TRUE iff handle_headers gets as far as accept_header
    MaxBatch,        \* bound on the new headers of one message
    MaxTasks,        \* handler tasks, one per connected peer
    MaxRestarts      \* bound on the restarts of the node

\* The header prev_hash names; meaningful for every header but genesis.
Prev(h) == Chain[h][Len(Chain[h]) - 1]

Depth(h) == Len(Chain[h]) - 1

Members(s) == {s[i] : i \in 1 .. Len(s)}

Last(s) == s[Len(s)]

ASSUME ChainAssumption ==
    /\ Genesis \in Hash
    /\ Chain \in [Hash -> Seq(Hash)]
    /\ Chain[Genesis] = <<Genesis>>
    /\ \A h \in Hash \ {Genesis} :
         /\ Len(Chain[h]) > 1
         /\ Chain[h] = Append(Chain[Prev(h)], h)
    /\ \A h \in Hash : \A i \in 1 .. Len(Chain[h]) :
         Chain[Chain[h][i]] = SubSeq(Chain[h], 1, i)

ASSUME ParameterAssumption ==
    /\ Work \in [Hash -> Nat \ {0}]
    /\ GoodBits \subseteq Hash
    /\ GoodPow \subseteq Hash
    /\ DOMAIN Checkpoint \subseteq Nat
    /\ IsFiniteSet(DOMAIN Checkpoint)
    /\ MaxForkAge \in Nat
    /\ MaxForkHeaders \in Nat
    /\ MaxReorgDepth \in Nat
    /\ AcceptsForks \in BOOLEAN
    /\ MaxBatch \in Nat
    /\ MaxTasks \in Nat
    /\ MaxRestarts \in Nat

Entry == [height : Nat, chainwork : Nat]

VARIABLES
    by_hash,         \* stored headers -> height and cumulative work
    active_chain,    \* the active chain; index i holds height i - 1
    tips,
    best_known_tip,  \* [hash, work]
    invalid_tips,
    backend,         \* TRUE iff the redb backend is attached
    disk,            \* table headers_v2
    disk_invalid,    \* table invalid_tips
    phase,           \* the loop that holds the write lock
    todo,            \* commit loop: validated headers still to be inserted
    batch,           \* commit loop: headers inserted so far
    doomed,          \* purge loops: tips still to be looked at
    unpersisted,     \* batches committed to memory, not yet handed to redb
    lost,            \* headers that were in memory and never reached redb
    reorgs,          \* tasks that still have to call try_activate_best_chain
    restarts

memory == <<by_hash, active_chain, tips, best_known_tip, invalid_tips>>
stored == <<backend, disk, disk_invalid>>
locals == <<phase, todo, batch, doomed>>
tasks  == <<unpersisted, lost, reorgs>>
vars   == <<memory, stored, locals, tasks, restarts>>

Known == DOMAIN by_hash

ActiveTip == Last(active_chain)

ActiveSet == Members(active_chain)

TipHeight == Len(active_chain) - 1

LastCheckpoint ==
    IF DOMAIN Checkpoint = {} THEN 0
    ELSE CHOOSE n \in DOMAIN Checkpoint : \A m \in DOMAIN Checkpoint : m <= n

Merge(f, g) ==
    [x \in DOMAIN f \cup DOMAIN g |-> IF x \in DOMAIN f THEN f[x] ELSE g[x]]

Without(f, S) == [x \in DOMAIN f \ S |-> f[x]]

\* A task is busy from the headers message until it has persisted its batch
\* or called try_activate_best_chain.
FreeTask == Cardinality(unpersisted) + reorgs < MaxTasks

---------------------------------------------------------------------------
\* Variant: the forks are not looked at.
RecomputedActive(bh, chain, ts) ==
    {[hash |-> Last(chain), work |-> bh[Last(chain)].chainwork]}

\* Variant: the highest tip wins, not the heaviest.
RecomputedByHeight(bh, chain, ts) ==
    LET cands == (ts \cap DOMAIN bh) \cup {Last(chain)}
    IN  {[hash |-> t, work |-> bh[t].chainwork] :
            t \in {c \in cands : \A u \in cands : bh[u].height <= bh[c].height}}

\* What recompute_best_tip leaves in best_known_tip: the active tip, unless
\* some tip has strictly more work. Which of several equally heavy tips wins
\* depends on the iteration order of a HashSet.
RecomputedBest(bh, chain, ts) ==
    LET work(h) == bh[h].chainwork
        cands == {t \in ts \cap DOMAIN bh : work(t) > work(Last(chain))}
        heaviest == {t \in cands : \A u \in cands : work(u) <= work(t)}
    IN  {[hash |-> t, work |-> work(t)] :
            t \in IF cands = {} THEN {Last(chain)} ELSE heaviest}

\* descends_from: the walk from tip reaches anc over stored headers only.
DescendsFrom(tip, anc) ==
    \E i \in 1 .. Len(Chain[tip]) :
        /\ Chain[tip][i] = anc
        /\ \A j \in i + 1 .. Len(Chain[tip]) : Chain[tip][j] \in Known

\* Variant: the walk does not stop at the active chain.
ForkSegmentToRoot(tip) ==
    {x \in Members(Chain[tip]) \cap Known :
        \A i \in Depth(x) + 1 .. Len(Chain[tip]) - 1 :
            \A c \in Known \ {Genesis} :
                Prev(c) = Chain[tip][i] => c = Chain[tip][i + 1]}

\* The headers remove_fork deletes: the tip itself, unless it is active or
\* unknown, and then every ancestor up to the first that is active, unknown
\* or has another stored child.
ForkSegment(tip) ==
    {x \in Members(Chain[tip]) :
        \A i \in Depth(x) + 1 .. Len(Chain[tip]) :
            LET y == Chain[tip][i] IN
            /\ y \in Known \ ActiveSet
            /\ y # tip =>
                 \A c \in Known \ {Genesis} :
                     Prev(c) = y => c = Chain[tip][i + 1]}

RemoveFork(tip) ==
    /\ by_hash' = Without(by_hash, ForkSegment(tip))
    /\ tips' = tips \ {tip}

---------------------------------------------------------------------------
\* make_fresh, then apply_backend_load on an empty database.
Fresh ==
    [h \in {Genesis} |-> [height |-> 0, chainwork |-> Work[Genesis]]]

Init ==
    /\ by_hash = Fresh
    /\ active_chain = <<Genesis>>
    /\ tips = {Genesis}
    /\ best_known_tip = [hash |-> Genesis, work |-> Work[Genesis]]
    /\ invalid_tips = {}
    /\ backend = TRUE
    /\ disk = Fresh
    /\ disk_invalid = {}
    /\ phase = "startup" /\ todo = <<>> /\ batch = {} /\ doomed = {}
    /\ unpersisted = {} /\ lost = {} /\ reorgs = 0
    /\ restarts = 0

---------------------------------------------------------------------------
\* validate_batch on a headers message. Headers that are already stored are
\* skipped, so the message stands for its new headers; each must chain to
\* the one before it, the first to the active tip.
ValidBatch(fresh) ==
    \A i \in 1 .. Len(fresh) :
        LET h == fresh[i]
            height == TipHeight + i
        IN  /\ Prev(h) = IF i = 1 THEN ActiveTip ELSE fresh[i - 1]
            /\ h \in GoodBits
            /\ height \in DOMAIN Checkpoint => h = Checkpoint[height]
            /\ height > LastCheckpoint => h \in GoodPow

\* Variant: the height is counted from the active tip.
EntryOnTip(h) ==
    [height |-> TipHeight + 1, chainwork |-> by_hash[Prev(h)].chainwork + Work[h]]

\* What is stored of a new header: one above its parent, with the work of both.
EntryOn(h) ==
    [height |-> by_hash[Prev(h)].height + 1,
     chainwork |-> by_hash[Prev(h)].chainwork + Work[h]]

\* validate_and_commit takes the write lock and starts its commit loop. A
\* batch that does not validate changes nothing.
ValidateAndCommit(fresh) ==
    /\ phase = "idle"
    /\ FreeTask
    /\ fresh # <<>>
    /\ Members(fresh) \cap Known = {}
    /\ ValidBatch(fresh)
    /\ phase' = "commit"
    /\ todo' = fresh
    /\ UNCHANGED <<memory, stored, batch, doomed, tasks, restarts>>

\* One iteration: commit_to_memory. After the last one the lock is released
\* and the task goes on with the batch it has to persist.
CommitToMemory ==
    /\ phase = "commit"
    /\ LET h == Head(todo)
           entry == EntryOn(h)
           done == batch \cup {h}
       IN  /\ tips' = (tips \ {Prev(h)}) \cup {h}
           /\ by_hash' = Merge([x \in {h} |-> entry], by_hash)
           /\ active_chain' = Append(active_chain, h)
           /\ best_known_tip' =
                IF entry.chainwork > best_known_tip.work
                THEN [hash |-> h, work |-> entry.chainwork]
                ELSE best_known_tip
           /\ todo' = Tail(todo)
           /\ IF Tail(todo) = <<>>
              THEN /\ phase' = "idle"
                   /\ batch' = {}
                   /\ unpersisted' =
                        unpersisted \cup {[x \in done |-> by_hash'[x]]}
              ELSE /\ batch' = done
                   /\ UNCHANGED <<phase, unpersisted>>
    /\ UNCHANGED <<invalid_tips, stored, doomed, lost, reorgs, restarts>>

\* persist_batch, under a read lock: one redb transaction. On an error the
\* handler logs and drops the batch; it also drops it, without trying, when
\* the getheaders it sends first cannot be sent.
PersistBatch(b) ==
    /\ phase = "idle"
    /\ b \in unpersisted
    /\ unpersisted' = unpersisted \ {b}
    /\ \/ /\ disk' = IF backend THEN Merge(b, disk) ELSE disk
          /\ UNCHANGED lost
       \/ /\ backend
          /\ lost' = lost \cup DOMAIN b
          /\ UNCHANGED disk
    /\ UNCHANGED <<memory, backend, disk_invalid, locals, reorgs, restarts>>

\* Variant: any stored header can be extended.
ExtendsAny(h) == TRUE

\* A header on top of an invalid tip is refused.
ExtendsValid(h) == Prev(h) \notin invalid_tips

\* accept_header, the path of a header that need not extend the active tip.
\* NeedReorg makes the task call try_activate_best_chain later.
AcceptHeader(h) ==
    /\ AcceptsForks
    /\ phase = "idle"
    /\ FreeTask
    /\ h \notin Known
    /\ ExtendsValid(h)
    /\ Prev(h) \in Known
    /\ h \in GoodBits
    /\ LET entry == EntryOn(h)
           better == entry.chainwork > best_known_tip.work
           extends == ActiveTip = Prev(h)
       IN  /\ entry.height > LastCheckpoint => h \in GoodPow
           /\ disk' = IF backend THEN Merge([x \in {h} |-> entry], disk) ELSE disk
           /\ tips' = (tips \ {Prev(h)}) \cup {h}
           /\ by_hash' = Merge([x \in {h} |-> entry], by_hash)
           /\ best_known_tip' = IF better THEN [hash |-> h, work |-> entry.chainwork]
                                ELSE best_known_tip
           /\ active_chain' = IF better /\ extends THEN Append(active_chain, h)
                              ELSE active_chain
           /\ reorgs' = IF better /\ ~extends THEN reorgs + 1 ELSE reorgs
    /\ UNCHANGED <<invalid_tips, backend, disk_invalid, locals, unpersisted, lost,
                   restarts>>

---------------------------------------------------------------------------
\* The height of find_fork_point(a, b): the length of the common prefix of
\* the two chains, less one.
ForkHeight(a, b) ==
    LET common == {i \in 1 .. Len(Chain[a]) :
                      /\ i <= Len(Chain[b])
                      /\ Chain[a][i] = Chain[b][i]}
    IN  Cardinality(common) - 1

\* A call of activate_best_chain is due: the one at startup, before the node
\* has any peer, or that of a task that saw NeedReorg.
ActivationDue ==
    \/ phase = "startup"
    \/ phase = "idle" /\ reorgs > 0

\* The call is over; at startup that lets the network start.
ActivationCounted == reorgs' = IF phase = "startup" THEN reorgs ELSE reorgs - 1

\* The early returns of activate_best_chain before it touches the chainstate,
\* for a chainstate whose tip is cs: the tip is not the best one already,
\* both chains are stored down to the fork point, neither side of the
\* reorganisation is deeper than MAX_REORG_DEPTH, and the blocks are there.
\* A node that has not restarted stores a block of the active header chain
\* when it connects it, so having to connect such blocks it gets NeedBlocks;
\* after a restart the block store may be ahead of the chainstate, behind a
\* block that is missing.
Activates(cs) ==
    LET best == best_known_tip.hash
        fork == ForkHeight(cs, best)
        stored_above(h) ==
            \A i \in fork + 1 .. Len(Chain[h]) : Chain[h][i] \in Known
    IN  /\ cs # best
        /\ (phase = "idle" /\ restarts = 0) => best \notin ActiveSet
        /\ stored_above(cs)
        /\ stored_above(best)
        /\ Depth(cs) - fork <= MaxReorgDepth
        /\ Depth(best) - fork <= MaxReorgDepth

\* The loop over the tips that are more than MAX_FORK_AGE behind.
Stale(bh, ts, height) ==
    {t \in ts \cap DOMAIN bh : height - bh[t].height > MaxForkAge}

\* activate_best_chain has connected the best chain: switch_active_chain, and
\* the caller starts purge_stale_forks under the same lock.
Reorganized(cs) ==
    /\ ActivationDue
    /\ Activates(cs)
    /\ LET new_tip == best_known_tip.hash
           chain == Chain[new_tip]
           ts == (tips \cup {ActiveTip}) \ {new_tip}
       IN  /\ Members(chain) \subseteq Known
           /\ active_chain' = chain
           /\ tips' = ts
           /\ best_known_tip' \in RecomputedBest(by_hash, chain, ts)
           /\ doomed' = Stale(by_hash, ts, by_hash[new_tip].height)
    /\ phase' = "purge_age"
    /\ ActivationCounted
    /\ UNCHANGED <<by_hash, invalid_tips, stored, todo, batch, unpersisted, lost,
                   restarts>>

PurgeAge ==
    /\ phase = "purge_age"
    /\ \E t \in doomed :
        /\ RemoveFork(t)
        /\ doomed' = doomed \ {t}
    /\ UNCHANGED <<active_chain, best_known_tip, invalid_tips, stored, phase, todo,
                   batch, tasks, restarts>>

\* Variant: forks are counted, and not their headers.
ForkCount == Cardinality(tips)

ForkHeaders == Cardinality(Known) - Len(active_chain)

\* The age loop is over; the count loop looks at all tips that are left.
PurgeAgeDone ==
    /\ phase = "purge_age"
    /\ doomed = {}
    /\ phase' = "purge_count"
    /\ doomed' = IF ForkHeaders > MaxForkHeaders THEN tips \cap Known ELSE {}
    /\ UNCHANGED <<memory, stored, todo, batch, tasks, restarts>>

\* The height sort_unstable_by_key read when the loop started; a header that
\* an earlier iteration deleted still has its place in the order.
PurgeCount ==
    /\ phase = "purge_count"
    /\ ForkHeaders > MaxForkHeaders
    /\ \E t \in doomed :
        /\ \A u \in doomed : Depth(t) <= Depth(u)
        /\ RemoveFork(t)
        /\ doomed' = doomed \ {t}
    /\ UNCHANGED <<active_chain, best_known_tip, invalid_tips, stored, phase, todo,
                   batch, tasks, restarts>>

PurgeDone ==
    /\ phase = "purge_count"
    /\ doomed = {} \/ ForkHeaders <= MaxForkHeaders
    /\ phase' = "idle"
    /\ doomed' = {}
    /\ best_known_tip' \in RecomputedBest(by_hash, active_chain, tips)
    /\ UNCHANGED <<by_hash, active_chain, tips, invalid_tips, stored, todo, batch,
                   tasks, restarts>>

\* connect_block failed and the rollback succeeded: mark_invalid(best_hash).
MarkInvalid(cs) ==
    /\ ActivationDue
    /\ Activates(cs)
    /\ best_known_tip.hash \notin Members(Chain[cs])
    /\ LET hash == best_known_tip.hash
           bad == {hash} \cup {t \in tips : DescendsFrom(t, hash)}
       IN  /\ invalid_tips' = invalid_tips \cup bad
           /\ tips' = tips \ bad
           /\ disk_invalid' = IF backend THEN disk_invalid \cup bad ELSE disk_invalid
           /\ best_known_tip' \in RecomputedBest(by_hash, active_chain, tips \ bad)
    /\ phase' = "idle"
    /\ ActivationCounted
    /\ UNCHANGED <<by_hash, active_chain, backend, disk, todo, batch, doomed,
                   unpersisted, lost, restarts>>

\* The call comes to nothing: the node is in initial block download, the
\* mempool lock is taken, blocks are missing or the reorganisation too deep.
ActivationSkipped ==
    /\ ActivationDue
    /\ phase' = "idle"
    /\ ActivationCounted
    /\ UNCHANGED <<memory, stored, todo, batch, doomed, unpersisted, lost, restarts>>

---------------------------------------------------------------------------
\* try_load_from_backend: the tips are the headers no other header refers to.
LoadedTips ==
    {h \in DOMAIN disk :
        /\ \A c \in DOMAIN disk \ {Genesis} : Prev(c) # h
        /\ h \notin disk_invalid}

\* Variant: the highest tip is taken, not the heaviest.
LoadedHighest ==
    {[hash |-> t, work |-> disk[t].chainwork] :
        t \in {u \in LoadedTips : \A v \in LoadedTips : disk[v].height <= disk[u].height}}

LoadedBest ==
    IF LoadedTips = {} THEN {[hash |-> Genesis, work |-> 0]}
    ELSE {[hash |-> t, work |-> disk[t].chainwork] :
            t \in {u \in LoadedTips :
                     \A v \in LoadedTips : disk[v].chainwork <= disk[u].chainwork}}

\* A crash at any point, and the start that follows it. If the best tip does
\* not chain to genesis on disk the load fails and the node goes on in memory
\* only. The start calls activate_best_chain once.
Restart ==
    /\ restarts < MaxRestarts
    /\ restarts' = restarts + 1
    /\ \E best \in LoadedBest :
         LET chain == Chain[best.hash]
             intact == Members(chain) \subseteq DOMAIN disk
         IN  /\ backend' = intact
             /\ by_hash' = IF intact THEN disk ELSE Fresh
             /\ active_chain' = IF intact THEN chain ELSE <<Genesis>>
             /\ tips' = IF intact THEN LoadedTips ELSE {Genesis}
             /\ best_known_tip' =
                  IF intact THEN best ELSE [hash |-> Genesis, work |-> Work[Genesis]]
             /\ invalid_tips' = IF intact THEN disk_invalid ELSE {}
    /\ phase' = "startup" /\ todo' = <<>> /\ batch' = {} /\ doomed' = {}
    /\ lost' = lost \cup batch \cup UNION {DOMAIN b : b \in unpersisted}
    /\ unpersisted' = {} /\ reorgs' = 0
    /\ UNCHANGED <<disk, disk_invalid>>

---------------------------------------------------------------------------
\* Messages of at most MaxBatch new headers; headers that chain to one another
\* are all different.
Messages ==
    {m \in UNION {[1 .. n -> Hash \ {Genesis}] : n \in 1 .. MaxBatch} :
        \A i, j \in DOMAIN m : m[i] = m[j] => i = j}

Next ==
    \/ \E fresh \in Messages : ValidateAndCommit(fresh)
    \/ CommitToMemory
    \/ \E b \in unpersisted : PersistBatch(b)
    \/ \E h \in Hash \ {Genesis} : AcceptHeader(h)
    \/ \E cs \in Known : Reorganized(cs)
    \/ PurgeAge
    \/ PurgeAgeDone
    \/ PurgeCount
    \/ PurgeDone
    \/ \E cs \in Known : MarkInvalid(cs)
    \/ ActivationSkipped
    \/ Restart

Spec == Init /\ [][Next]_vars
---------------------------------------------------------------------------
\* A table of headers, in memory or on disk: each has an entry at the height of
\* its own ancestry.
Table(f) ==
    /\ DOMAIN f \subseteq Hash
    /\ f \in [DOMAIN f -> Entry]
    /\ \A h \in DOMAIN f : f[h].height = Depth(h)

\* The state keeps its types. In particular every header in memory, on disk and
\* in a batch on its way there has the height of its own ancestry, whether it
\* came with a batch, as a fork header or from a reload.
TypeOK ==
    /\ Table(by_hash)
    /\ active_chain \in Seq(Hash)
    /\ tips \subseteq Hash
    /\ best_known_tip \in [hash : Hash, work : Nat]
    /\ invalid_tips \subseteq Hash
    /\ backend \in BOOLEAN
    /\ Table(disk)
    /\ disk_invalid \subseteq Hash
    /\ phase \in {"startup", "idle", "commit", "purge_age", "purge_count"}
    /\ todo \in Seq(Hash)
    /\ batch \subseteq Hash
    /\ doomed \subseteq Hash
    /\ \A b \in unpersisted : Table(b)
    /\ lost \subseteq Hash
    /\ reorgs \in Nat
    /\ restarts \in 0 .. MaxRestarts

\* The active chain is the stored ancestry of its tip, indexed by height: no
\* purge, reorganisation, fallback to accept_header or reload ever leaves
\* active_chain with a header that is not stored, not the child of the one
\* before it, or not at its own height.
ActiveChainLinked ==
    /\ active_chain = Chain[ActiveTip]
    /\ \A i \in 1 .. Len(active_chain) :
         /\ active_chain[i] \in Known
         /\ by_hash[active_chain[i]].height = i - 1

\* best_known_tip is a stored header with at least the work of the active tip
\* and of every tip, although it is updated incrementally by three functions
\* and recomputed by three others.
BestIsHeaviest ==
    phase = "idle" =>
        /\ best_known_tip.hash \in Known
        /\ \A h \in {ActiveTip} \cup (tips \cap Known) :
             by_hash[h].chainwork <= by_hash[best_known_tip.hash].chainwork

\* mark_invalid takes a fork out of the candidates: in a node that has not
\* restarted, the best tip, which the next activation will try to connect,
\* never has an ancestor that was marked invalid, whatever headers arrive
\* later.
FailedForkNotRetried ==
    (phase = "idle" /\ restarts = 0) =>
        invalid_tips \cap Members(Chain[best_known_tip.hash]) = {}

\* "headers are cheap to re-fetch on crash": whatever a crash or a failed write
\* keeps from the database, the next start loads it and goes on saving to it.
LoadsAfterCrash == backend

\* A running node never gives up work: whatever the order of batches, forks,
\* failed activations and purges, a step leaves the active chain with at
\* least the cumulative work it had.
ActiveWorkMonotone ==
    [][restarts' = restarts =>
         by_hash'[Last(active_chain')].chainwork >= by_hash[ActiveTip].chainwork]_vars

\* A restart that loses nothing in flight comes back with an active chain of
\* at least the work it had, as long as no header marked invalid descends
\* from the active tip.
RestartKeepsWork ==
    [][(/\ restarts' # restarts
        /\ backend
        /\ phase # "commit"
        /\ unpersisted = {}
        /\ lost = {}
        /\ \A x \in disk_invalid : ActiveTip \notin Members(Chain[x])) =>
         /\ backend'
         /\ by_hash'[Last(active_chain')].chainwork >= by_hash[ActiveTip].chainwork]_vars

\* After purge_stale_forks there are no more than MAX_FORK_HEADERS headers off
\* the active chain, however many forks share them and in whatever order they
\* are removed; what it cannot reach is the ancestry of headers that
\* mark_invalid has taken out of the tips.
PurgeBoundsForks ==
    [][phase = "purge_count" /\ phase' = "idle" =>
         LET forks == (Known \ ActiveSet)'
         IN  \/ Cardinality(forks) <= MaxForkHeaders
             \/ \A h \in forks : \E x \in invalid_tips : h \in Members(Chain[x])]_vars

=============================================================================

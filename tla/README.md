# Verification of the ironcat node

TLA+ models of ironcat, a Catcoin full node in Rust (`src/src/`), with TLC runs on small instances and TLAPS proofs.
`PROJECT.json` lists the components, the runs with their properties, the mutants that break each property, the source
lines behind every definition, the findings, the hazards and the theorems.

## The system

A tokio process. One task per peer connection parses messages and runs the handlers of `nodes/handler_*.rs`; background
tasks download blocks (`nodes/block_download.rs`), decay strikes, scan for header timeouts, reap and retry peers, relay
transactions and draw the UI. They share:

| state | guard | durable in |
| --- | --- | --- |
| header tree (`headers.rs`) | `parking_lot::RwLock`, not reentrant | redb, one transaction per batch |
| chainstate: UTXO set, tip, undo index (`chainstate/`) | redb write transaction, `RwLock` on the tip | redb; undo records in `rev*.dat` |
| block store (`storage/block_store.rs`) | mutexes | `blk*.dat`, index flushed every 500 blocks |
| mempool (`mempool/mod.rs`) | `tokio::sync::RwLock` | not durable |
| peers, strikes, bans (`nodes/mod.rs`) | `DashMap` | `peers.dat`, `banlist.dat` |

How the parts interact:

1. A `headers` message is validated and committed under the header store's write lock. The handler then refreshes the
   cached height, asks the peer for more, and persists the batch, each under its own lock. A batch that does not extend
   the active tip falls back to `accept_header`, which stores forks and may call for an activation.
2. The download manager follows the cached height, requests blocks from several peers, reorders them, connects them to
   the chainstate and appends them to the block store.
3. `activate_best_chain` moves the chainstate and the mempool from one branch to another while it holds the header store
   and the mempool. It then tells the download manager to start over.
4. At startup the stores are opened one after the other, each compared with its files, and an activation is tried.

What makes this hard is the order of these steps between tasks, a crash or power failure between two stores, timeouts
that race late answers, and one step of several failing.

## Modules

| module | models | state and actions |
| --- | --- | --- |
| `HeaderStore` | `headers.rs`, its redb backend, the callers' order of steps | tree, active chain, tips, best tip, invalid tips, tables on disk; commit, persist, `accept_header`, activation, purge, restart |
| `HeaderSync` | `handler_headers`, `handler_inv`, `handler_verack`, the cached height | the lock and one program counter per peer task; every place where a handler takes or drops the lock is a step |
| `BlockDownload` | `block_download.rs`, strikes and exclusion in `nodes/mod.rs` | the manager's fields and its place in `run()`; peers, headers, reorganisations and restarts move in between |
| `FlatFiles` | what the block and undo stores have in common | operators: rotation, offsets, reading, the check on open, what a power failure leaves |
| `BlockStore` | `block_store.rs`, `store_block_data`, `flush_store` | files, queue, index, the manager's memory; store, the three steps of flush, failures, crashes |
| `Ledger` | transactions and blocks as data | constants and what follows from them |
| `Chainstate` | `chainstate/` | operators and actions for `connect_block`, `disconnect_block`, `open`, `fsync_undo` |
| `Mempool` | `mempool/mod.rs` | operators on a pool: acceptance, eviction, removal, return |
| `Reorg` | `reorg.rs` over `Chainstate` and `Mempool` | one block per step of activation and rollback; downloads, transactions and crashes |
| `HeaderStoreProofs`, `HeaderSyncProofs` | | inductive invariants and theorems |
| `MC*` | | instances for TLC |

Variables and operators keep the names of the source. An operator introduced by the comment "Variant" is a plausible bug
of the definition after it and is used by the mutants only.

Abstractions that a reader should know:

- A hash is a model value and `Chain` gives its ancestry. Proof of work, difficulty bits, scripts and amounts are
  verdicts given as constants (`GoodPow`, `GoodBits`, `BadBlock`, `Rejected`, `Standard`).
- Entries of flat files have one size, so an offset counts entries. A block write that stops half way leaves an entry
  `Scrap` and does not move the offset; a failed undo write is not modelled.
- A redb transaction is atomic and durable. In `Reorg` it does not fail; in `HeaderStore`, `HeaderSync` and `BlockStore`
  it may.
- `BlockDownload` and `HeaderStore` each take an activation as one step, succeeding or failing. `Reorg` has its steps,
  and takes the header store as a set of invalid tips and the block store as the set `indexed`.
- In `Reorg` the download manager connects only children of the tip, between activations. `connect_block` has neither
  guard. What happens when it connects something else is the subject of `ConnectedIsChain` in `BlockDownload`, and the
  race for the tip is not modelled. `UtxoMatchesTip`, `UndoReadsBack` and `AllOrNothing` are to be read under this
  condition: they are about activation, rollback, undo data and crashes, not about which block the manager offers.
- `HeaderStore` and `Reorg` model the interfaces of their components. In the running node the path through
  `accept_header` is cut off after the handler's self-wait (see `MCAnnounced` and the theorem `FallbackNeverRuns`);
  what these modules show of forks describes the code for when that path is reached. The constant `AcceptsForks` of
  `HeaderStore` says whether it is: `MCHeaderGap` sets it to `FALSE`, so that its counterexample needs no fork header.
- Before a restart a task activates only a best tip off the active header chain. The code has no such test: with the
  best tip on that chain it would have to connect blocks the chainstate does not have yet, which the manager stores only
  when it connects them, so `activate_best_chain` returns `NeedBlocks`. After a restart the block store may be ahead of
  the chainstate, and `Activates` has no such condition.
- `handle_inv` takes the read lock twice; `HandleInv` and `RequestAfterInv` are the two steps.
- Only the end of an outgoing connection (`schedule_retry`) sends the download manager a notice; `PeerDown` allows both.

## Runs

State counts are distinct states; each passing run explores its whole instance.

| run | states | what it shows |
| --- | --- | --- |
| `MCHeaderStore` | 293,405 | Tables record true heights; the active chain stays linked and never loses work; the best tip is the heaviest candidate; a failed fork is not tried again; a purge leaves at most `MAX_FORK_HEADERS` fork headers; a clean restart keeps the work. |
| `MCHeaderSync` | 1,025,177 | The cached height is not left behind by handlers that refresh it at the same time. |
| `MCHeaderSyncLive` | 86,060 | Every message is handled to the end, the node reaches the peers' tip, and what is in memory is saved. |
| `MCBlockDownload` | 530,792 | Through timeouts, bad and late blocks, a reorganisation by another task and a restart on either branch: requests and buffer keep their limits, no height is left behind, manager and chainstate agree, no buffered block is stranded. |
| `MCDownloadLive` | 14,504 | The chainstate reaches the height the manager knows of, unless `fill_window` pauses. |
| `MCBlockStore` | 745,693 | The index leads to the right bytes; what the manager remembers as stored is in the index or on its way; flush loses no entry; stored blocks get indexed. |
| `MCReorg` | 395,791 | The UTXO set is always that of the tip; undo records read back; an activation ends with the new branch or the old one; the mempool's index is exact and holds nothing confirmed. |

Conditions in the properties, and why they are there:

- `IndexReadsBack`, `UndoReadsBack`, `UtxoMatchesTip` and `AllOrNothing` hold until a rotation opens a file that is not
  empty (`reused`). The case beyond is `MCOrphanedUndo`. `IndexReadsBack` also excepts a failed write that left bytes
  behind (`partial`): `store_block_unchecked` does not move its offset then, so the blocks that follow are recorded in
  front of where they are. With either exception left out TLC finds a counterexample.
- `NoHeightLost` and `ConnectedUnlessPaused` hold until `fill_window` finds work and no peer that can take it (`paused`);
  beyond it lies `MCDownloadRecovers`. This does not need exclusion: the window is 512 heights wide and a peer takes 48,
  so a node with few peers, all full, passes over heights and does not come back to them before it restarts.
- `NoHeightLost` is stated for an empty channel of reorganisation notices, `ConnectInSync` up to the first
  reorganisation: a block of the old branch that is handled before the notice moves the manager's next height.
- `PurgeBoundsForks` excepts the ancestry of headers marked invalid, which are no longer among the tips.
- `NoneConfirmed` holds unless the mempool was locked when a block was connected (`skipped`): `connect_and_store` then
  leaves the mempool alone.
- `StoredIsTracked` excepts blocks whose write failed, and `EventuallyIndexed` runs in which a write or flush failed.
- `AllOrNothing` excepts a crash and a block file that cannot be read; the latter is not rolled back by the code.
- `FailedForkNotRetried` is stated for a node that has not restarted. The activation at startup starts from the
  chainstate's tip, which may be behind the header store's; when it fails it marks the active tip of the header store
  invalid, and the active tip can then still be the best one.
- `RestartKeepsWork` is stated for a restart that finds nothing unsaved; the others are the subject of `MCHeaderGap`.
- `SyncReachesTip` is checked with peers that all stay connected. Of two peers that send the same batch only the first
  is asked for more, so the property fails when that peer leaves (see below).

### Findings

Five runs state what a comment, a message or a document of the repository says, and TLC finds it violated.

| run | the repository says | what happens |
| --- | --- | --- |
| `MCAnnounced` | `nodes/handler_headers.rs:58`: "Don't disconnect on failure -- the peer may have sent orphan or fork headers that we can't connect yet" | On a batch that does not validate, the handler calls `is_in_ibd`, which asks for a read lock while the handler holds the write lock. It waits for itself, and every user of the header store waits for it. |
| `MCDownloadRecovers` | `docs/networking.md:168`: "If all connected peers become excluded, recovery happens naturally through strike decay and new peer connections." | `fill_window` moves `next_height` before it finds that no peer is available. The heights it passed are not requested again. Peers that are full have the same effect as excluded ones. |
| `MCConnectedIsChain` | `chainstate/mod.rs:197`: "Connects a block to the chain, updating the UTXO set"; `docs/consensus.md:211`: at startup the activation is called "to reconcile any inconsistency between the header store's best tip and the chainstate tip" | An activation at startup that lacks blocks is not tried again. The blocks are fetched and stored later, but those at or below the chainstate's height are never connected, and the first one above the old tip is connected to it, since `connect_block` compares heights and not parents. |
| `MCHeaderGap` | `nodes/handler_headers.rs:171`: "headers are cheap to re-fetch on crash"; `docs/storage.md:40`: "headers are persisted to redb on every batch insertion, then committed to the in-memory store" | Batches are committed first and persisted outside the lock, so a continuation can be on disk without its parent when the node stops. The load then fails ("broken chain during load"), and the node runs without its header database at this and every later start. |
| `MCOrphanedUndo` | `chainstate/mod.rs:358`: "orphaned bytes in the flat file are harmless" | A crash after the undo write into a fresh file and before the commit leaves bytes that the index does not know. The next rotation into that file records offsets from 0 while it appends behind them, so later records are read from the wrong place and a disconnect restores the wrong coins. |

### Bounds

- `MCHeaderStore`, `MCHeaderGap`: seven headers in three branches, the lower of which can be the better tip and two of
  which share a header off the active chain. Two handler tasks, batches of up to two, one restart, `MaxForkAge` 1 and
  `MaxForkHeaders` 2: both purge loops run, and two batches can be persisted in either order.
- `MCHeaderSync`, `MCHeaderSyncLive`: two peers, three headers, batches of two: a full batch with a follow-up and a last,
  short one. Two tasks are enough for the races, since each is between two holders of the lock.
- `MCBlockDownload`: a branch of two blocks and one of three on a common root, a window of two, two peers with one
  request each, one strike, one reorganisation and one restart. `MCDownloadLive`: two peers that answer and a third that
  may not, excluded by its first strike; a window of three, wider than what the first two take, so that `fill_window`
  runs out of peers during an assignment and before it, and rewinds only in the first case.
- `MCBlockStore`: three blocks in files of two entries, so the third rotates; a flush interval of two; one fault and two
  crashes or power failures, so that a second crash finds what the first one left.
- `MCReorg`: a common root, two branches of two blocks, a third block that spends an output twice; two conflicting
  transactions, a child and an independent one that fills the mempool; undo files of two entries; one crash, one fault.
  There is room for four undo records, so a rollback that connects two blocks again does not complete in this instance.
  With `MaxFileSize = 3` it does, and all properties hold there too (1,097,107 states); that takes three times as long.

Peers are symmetric in `MCHeaderSync` and `MCBlockDownload`, where no property is temporal. Deadlock is checked in all
passing runs but `MCHeaderStore`, which stops when all headers are known and the restart is used up, and
`MCHeaderSyncLive`, which stops when everything is synchronised. In `BlockStore` an empty flush, in `Reorg` a sync of the
undo file and in the others the coming and going of peers are always possible, so for them this check says little.

### Fairness

- `HeaderSync`: strong fairness for each handler task. tokio runs a runnable task, and `parking_lot` locks are fair
  eventually, so a lock that is free again and again is granted. Reliable peers complete the handshake, announce and
  answer.
- `BlockDownload`: weak fairness for the manager's task. A block that is requested again and again arrives at some
  point, a request goes out if it can again and again, strikes decay by their timer, peers reconnect.
- `BlockStore`: the manager's timer flushes what was counted, and a flush that has begun ends.
- `HeaderStore` and `Reorg` have safety and action properties only and assume no fairness.

## Proofs

TLAPS proves, for every value of the constants that satisfies the named assumptions:

| module | theorem | statement |
| --- | --- | --- |
| `HeaderStoreProofs` | `TypeCorrect`, `Linked`, `Heaviest` | `Spec => []TypeOK`, `[]ActiveChainLinked`, `[]BestIsHeaviest` |
| `HeaderStoreProofs` | `NeverLosesWork` | `Spec => ActiveWorkMonotone` |
| `HeaderSyncProofs` | `CacheIsCurrent` | `CacheCurrent` always, for any number of peers |
| `HeaderSyncProofs` | `FallbackNeverRuns` | a task at `is_in_ibd` is the writer, so its read lock is not granted |

*HeaderStore.* The assumptions are `ChainAssumption` (a header's ancestry is that of its parent and itself) and
`ParameterAssumption` (work is positive, bounds are naturals). `ActiveChainLinked` is not inductive. The commit loop
needs to know that what it still has to insert continues the active tip and is not stored yet (`CommitInv`). A reload
needs every table, in memory, on disk and on its way there, to record true heights and work (`StoresInv`). The best
tip needs to cover the active tip and all candidates outside the purge loops, with an exception for the work of
genesis, which a reload records as zero (`BestInv`). `IInv` is the conjunction of these with `LinkInv` and the types.
Each action has a lemma; `NeverLosesWork` follows from `IInv` by looking at the actions that change the active chain.

*HeaderSync.* The assumption is `SyncAssumption`. `IInv` adds to `CacheCurrent` who holds the lock at which label
(`LockInv`): a task that validates is the only holder, and a task that has read the height and not stored it yet is
a reader, so the height cannot move under it. The proofs are for `AnnounceNext`, the larger next-state relation.

Model-checked only: all liveness, which is out of the prover's reach; the other safety properties of these two modules
(`FailedForkNotRetried`, `RestartKeepsWork`, `PurgeBoundsForks`, `PersistedWhenIdle`); everything about `BlockDownload`,
`BlockStore` and `Reorg`. What the recursive functions of `Chainstate` and `Mempool` compute for every input needs
induction over data, which is out of reach as well.

## Where code and documents differ, without a run

- `switch_active_chain` makes the old tip a candidate and `remove_fork` may delete a header with stored children
  (`headers.rs:1047`, `1166`). The active chain is not affected (`ActiveChainLinked`).
- After `mark_invalid` the valid parent of the failed tip is not a candidate.
- `MAX_FORK_HEADERS` (`docs/consensus.md:202`) is enforced only after a reorganisation (`PurgeBoundsForks`).
- `accept_header` does not look at checkpoints; the batch path does.
- Exclusion by header timeouts leaves block requests in flight until they time out; `docs/networking.md:164` says they
  are "immediately cleared".
- The cached height is not refreshed after `accept_header` or a reorganisation.
- `catch_up_chainstate` stops at the first missing block; stored blocks behind it connect only after the next restart.
- A follow-up `getheaders` that cannot be sent ends the handler before the batch is persisted (`handler_headers.rs:161`).
- Of two peers that send the same batch only the first is asked for more. If it leaves, synchronisation waits for the
  next announcement, while `docs/networking.md:182` says requests repeat "until the peer's tip is reached".
- `docs/storage.md:193` says that a cleared undo index is rebuilt "as blocks are re-connected". The tip stays, so the
  blocks are not connected again, and a reorganisation below the tip fails for lack of undo data.
- `activate_best_chain` returns without rollback when a block file cannot be read or a disconnect fails.
- `flush` syncs the open file only. A batch that crossed a rotation is indexed before its first part is durable; after
  a power failure the whole block index is cleared.
- A block whose write failed stays in `stored_hashes`, and bytes that a failed write leaves are not accounted for until
  the next start (`block_store.rs:189`). A failed flush resets `blocks_since_flush`, so the timer waits
  for another block before it tries again.
- `remove_block_txs` drops conflicting transactions that a rollback does not restore. A pool transaction keeps its place
  when its parent, of a disconnected block, is not accepted again. `accept_tx` does not check coinbase maturity.

## Not modelled

The script engine and scrypt (pure functions on bytes, taken as verdicts), the user interface, DNS seeding, and the
encodings of messages, blocks and transactions. Not modelled yet, in the order of the plan:

1. The peer manager: connection life cycle, reactivation, retries, reaper, bans and address votes, with its files.
2. Pure algorithms against reference definitions: difficulty rules, compact targets, subsidy, varints, the locator.
3. The receive queue and framing; address gossip; serving blocks and headers; transaction relay.
4. A composition of `Reorg` and `BlockDownload`, for the tip that `connect_block` reads before its write transaction,
   and a refinement: `Reorg` implements the one-step activation of `HeaderStore`.
5. Proofs: `IndexReadsBack` and `StoredIsTracked` of `BlockStore`, the bounds of `BlockDownload`, `PurgeBoundsForks`.

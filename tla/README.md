# A TLA+ model of databend-meta

databend-meta is a replicated key-value store: a Raft cluster (openraft) whose
state machine is a leveled, multi-version map with a TTL index, watch streams,
transactions and snapshots. This directory holds a model of it that TLC checks
on small instances and, for its core, theorems that TLAPS proves for every
value of the constants.

Everything here is translated from `src/`. Code of other crates (openraft,
`map-api`, `seq-marked`, `rotbl`, `raft-log`, `watcher`) is modelled only as
far as `src/` relies on it, and is marked external in `PROJECT.json`.

## The system and its parts

| Part | Source (under `src/crates/`) | State | What changes it |
| --- | --- | --- | --- |
| Leveled MVCC map | `server/raft-store/src/leveled_store` | writable level, immutable levels, one database | commit, freeze, merge of two levels, replacement by a database |
| State machine store | `server/raft-store/src/sm_v003`, `immutable_compactor`, `server/service/src/store/meta_raft_state_machine` | the current `SMV003`, writer and compactor semaphore | apply a batch, build a snapshot, compact in memory, install a snapshot |
| Applier | `server/raft-store/src/applier`, `state_machine_api_ext.rs` | sequence counter, keys, expire index, nodes, change events | one log entry: upsert, transaction, node and feature commands, expiry |
| Snapshot directory | `server/raft-store/src/sm_v003/snapshot_*.rs`, `writer_*.rs` | files ordered by snapshot id | write, rename, clean, load the last |
| Raft log store | `server/service/src/store/meta_raft_log`, `server/raft-store/src/raft_log_v004` | vote, committed, entries, purge point | append, truncate, purge, flush callback |
| Store opening | `server/service/src/store/store.rs` | node id, log, state machine | open, export |
| Raft network and service | `server/service/src/network.rs`, `meta_service/raft_service_impl.rs` | payload-size hint, client cache, received snapshot file | append, split append, vote, snapshot streams |
| Meta node | `server/service/src/meta_node` | raft handle, tasks, watch dispatcher | start, boot, join, leave, stop |
| Leader and forwarder | `server/service/src/meta_service` | none | read or write on the leader, forward to it |
| Watch | `meta_service/watcher.rs`, `meta_node.rs` | registered watchers, event queue | register, initial flush, change events, disconnect |
| gRPC service | `server/service/src/api/grpc` | tokens | handshake, requests |
| Client | `client/client` | endpoint list, current endpoint, pooled connections | request, rotate endpoint, retry |
| kvapi, Log entries and transactions | `common/kvapi*`, `server/types` | none | pure: conditions, branches, conversions |
| Version compatibility | `common/version` | none | pure: feature spans |
| On-disk upgrade | `server/raft-store/src/ondisk` | data-version header | upgrade steps |
| Import and export, sled store, codecs, metrics, runtime, configuration | various | | I/O, observation, encodings |

How they interact. openraft owns the log and calls the store: a single worker
applies committed batches and installs snapshots; a task it spawns builds
snapshots; a third task, started when the store is opened, merges in-memory
levels on a timer. These tasks share the leveled map and meet only at two
capacity-1 semaphores. Readers take neither. A built or received snapshot is a
file; a restart loads the newest file and openraft replays the log above it,
which works only if the log was purged no further. The applier turns each entry
into changes of the map and into change events for the watch dispatcher.

The hard behaviours are the interleavings of those tasks, the awaits inside a
snapshot build, state machines that are superseded while somebody still works
on them, crashes between writing, cleaning and purging, batches that fail half
way, and readers that hold no lock. `PROJECT.json` lists each at its line
(`hazards`) with the properties that would catch it going wrong.

## Modules

| Module | Models |
| --- | --- |
| `LeveledMap` | The map as pure operators: versions and their order, bounded reads, `get`, freeze, merging two levels, compaction into a database, replacement, commit. |
| `StateMachineStore` | One node: applier batches, snapshot builder, in-memory compactor, snapshot install, log purge, crash and restart. |
| `ReplicatedMap` | The abstract promise: a node shows one state of the log as a whole, moves forward only, and recovers to a durable state. |
| `StateMachineReaders` | The store composed with MVCC readers that hold no permit. |
| `Applier` | One log entry as pure operators: expiry, upsert with both indexes, predicates, transaction operations, node and feature commands, change events. |
| `ApplierNodes` | Two nodes that apply the same log one await at a time, a leader that never stops and a follower that restarts and installs snapshots, each with a watcher. |
| `MC...` | Symmetry sets and model values for TLC. |
| `LeveledMapProofs`, `StateMachineApplyProofs`, `StateMachineLevelsProofs`, `StateMachineStoreProofs`, `StateMachineRefinement` | Proofs. |

### LeveledMap

A value is represented by the sequence number it was written with: numbers are
never reused, so this loses nothing the properties tell apart. A version is a
number and a tombstone bit. A delete does not increase the counter, so a
tombstone may carry the number of the value it deletes and sorts after it
(`SeqMarked::order_key`); that tie is where merges could go wrong, and it is
kept. A level is a table of versions plus a full copy of the system data, of
which the sequence counter and the last applied index are kept. A point read
stops at the first level with the key (`ImmutableGet`), a range read merges all
levels (`MergedVersions`); that the two agree is a property and not an
assumption. The expire index, a second table of each level with the same code,
is modelled in `Applier`.

### StateMachineStore

| Variable | In the code |
| --- | --- |
| `log`, `hist` | openraft's committed entries, and the reference state after each prefix |
| `sms` | every `SMV003` this process has had; the last is the current one, the others may still be used by a build, the compactor or a reader |
| `permit` | the holder of the compactor semaphore |
| `writer` | the holder of the writer semaphore, as far as it is held over an await: a batch or a watch request. Builder and compactor wait for it but freeze and drop it in one step |
| `applier` | `Applier`: the batch's first index, the base sequence number and the staged view |
| `builder` | `do_build_snapshot`, one control point per await |
| `inmem` | `compact_loop` |
| `install` | the received snapshot between its move to the final path and its opening |
| `disk` | snapshot files: content and the unique part of the id |
| `raftSnap`, `purged` | what openraft believes about the newest snapshot, and how far it purged |

Actions: `ApplyStart`, `ApplyEntry`, `ApplyCommit` (`apply_entries`:
`last_applied` is written through at once while data is staged); `WatchPermit`
and `WatchDone` (`handle_watch` keeps the writer permit while it registers the
watcher and reads its range; what it reads is not modelled); `BuildStart` to
`BuildClean`, with `BuildRelease` for the blocking task that drops the compactor
and its permit, `BuildError`, `BuildOpenError` (the file is renamed but cannot be
opened, and stays) and `BuildCleanFails`; `CompactStart` to `CompactMerge`, and
`CompactStop` when the weak reference no longer upgrades; `InstallMove`,
`InstallReplace` and `InstallError`, with builds, their cleaning and crashes in
between; `Purge`, `Restart`. `ApplyError`, an I/O error inside a batch, belongs
to `FaultySpec` only: see the findings.

A received snapshot keeps the id its leader gave it. Its unique part is another
clock's, so it may be older or newer than those of the files here: 0 or one more
than all of them. A move that fails leaves the directory as it was and stops
raft; it has no action of its own, as stopping adds nothing. Requests that still read a
superseded state machine own it too and may keep the compactor's weak reference
alive, so `CompactStart` is not tied to the current one; `CompactStop` happens
only when neither the store nor a build owns it.

Entries (`AllOpKinds`) are upserts of four kinds, a put, a put that is expired on
arrival, a delete and an update of an existing key, and blank ones. The other
commands are the subject of `Applier`.

The choice between merging and leaving levels alone depends on level sizes
between the two limits; sizes are not kept, so both outcomes are allowed there,
and any adjacent pair may be merged.

### StateMachineReaders

A reader opens a snapshot (the state machine of the moment and its sequence
number) and reads keys one by one (`get_many_kv`) or lists at once (`list_kv`),
with any steps of the store in between.

### Applier and ApplierNodes

`Applier` works on a record `s`: the sequence counter, `kv` (the primary index,
a partial function to records of number, value and expire time), `index` (the
expire index, from expire time and number to key), `start` (the cleanup time,
which is shared by successive state machines and is in no snapshot), nodes,
features and membership, and what the `Applier` struct holds: queued changes
and what is left to do of the current entry. A key is a directory and a number,
so that a prefix is a directory and `put_sequential` makes keys of numbers; a
value is a number of one digit or a text, ordered as their bytes. `MaxU64` is
the width of counters, which `fetch_increase` saturates at and the key count of
a condition wraps at. Predicates are trees from the constant set `Predicates`,
closed under children, and are evaluated by a recursive function over it.

`ApplierNodes` has one action per await: `CleanStart` (list the expired keys,
save the time), `CleanKey`, `Command` (last applied, the command, the choice of
a branch), `Operation`, `PrefixKey` (the loop of `delete_by_prefix`),
`SendChange`, `Finish`; and `Save`, `Restart`, `Install` of the follower. The
staging of a batch is left to `StateMachineStore`: here every node sees its own
changes at once, as the applier does through its view. A batch is an entry.
Every entry has a time: the leader sets one on each it writes
(`MetaLeader::write`), so the 0 of an entry without a time occurs only for blank
and membership entries. `hist` records the leader's data after each entry; the
follower is compared with it. The nodes share nothing but the log, so the follower takes its steps
only between two entries of the leader: other orders reach no other data.

## Runs

Passing runs:

| Run | Instance | What it shows |
| --- | --- | --- |
| `store_levels` | 2 keys, 3 entries (puts, deletes, updates), 3 freezes | Every order of applying, freezing, merging and building leaves every copy of the data equal to the replayed log: reads (`ReadsMatchLog`), the batch's own view (`WriterViewExact`), snapshot files (`SnapshotsMatchLog`); the levels a build replaces are those it compacted (`CompactedLevelsPresent`); point and range reads agree (`GetAgreesWithRange`); the log reaches the newest file (`LogReachesSnapshot`). |
| `store_restart` | 1 key, puts and entries expired on arrival, 2 freezes, a received snapshot, a crash | The same with a snapshot installed under a running build, the build's cleaning between the steps of the install, and a crash anywhere; the node never moves backwards (`NeverBackwards`) and implements the abstract map (`ImplementsReplicatedMap`). |
| `store_live` | 1 key, 2 entries, watch requests at any time, an install, with fairness | Every committed entry is applied in the end although watches and freezes compete for the writer permit (`EveryEntryApplied`), and neither the builder nor the compactor waits for ever (`TasksFinish`). |
| `readers` | 2 keys, 3 entries, 1 reader | What a reader can rely on: isolation from the writer while nothing is merged, replaced or deleted (`CalmReadsRepeat`), and in any case no value older than the snapshot and none that is only staged: a key is missing, or has the value of the snapshot's state or of a later committed one (`NoOlderNoStagedValue`). |
| `applier_ttl` | 2 keys, 3 entries, 3 times, a clock that may go back, a crash, an install | The expire index has exactly the expiring records (`ExpireIndexExact`); nothing but expired keys is cleaned (`OnlyExpiredCleaned`); unless the clock goes back and a snapshot is installed, expired keys are gone when a command runs (`ExpiredRemovedInOrder`) and a replay from any snapshot with another cleanup time gives the same data (`ReplicasAgree`); the events of applied entries reproduce the data (`WatchersFollowEntries`) and chain up (`ChangesChain`; no `delete_by_prefix` here, see `applier_prefix_events`). |
| `applier_txn` | 3 transactions with nested predicates and every operation, system commands | Indexes and watchers under transactions and the loop of `delete_by_prefix`; counting at most n + 1 keys gives the exact verdict (`KeyCountExact`). |

Runs that end in a violation, each a disagreement between a text of the
repository and its code (quoted under `findings`):

| Run | Shows |
| --- | --- |
| `store_apply_error` | A batch that fails half way leaves `last_applied` advanced and drops the changes. A build that already waits for the writer permit then saves a snapshot that lacks the effects of the entries its id names. |
| `readers_repeatable` | A snapshot taken for reading is not a repeatable view: merging drops the versions it needs, a new database holds only the newest ones, and a tombstone with an unchanged number slips into it. |
| `compactor_stops` | The compactor holds a weak reference to the state machine that was current when the store was opened; the first installed snapshot ends it for the rest of the process. |
| `applier_prefix_events` | `delete_by_prefix` queues the change of each key twice; the second event has a previous value that is already gone. |
| `applier_clock` | With a clock that goes back, an install leaves a cleanup time beyond records of the snapshot: they expire on the leader and stay on the follower. |
| `applier_install_watch` | Watchers of a follower are not told of the changes that arrive in a snapshot. |

### Bounds

`MaxLog`, `MaxFreezes`, `MaxInstalls` and `MaxCrashes` bound the counters, and
`Watches` says whether watch requests come in. They change no data, so only
`store_live`, which is about the permits, has them. Each run proposes the kinds
of entries that its question needs (`OpKinds`): no passing run proposes blank
entries, for which the safety properties are proved only.
Three freezes are the least with which a merge of two levels can happen under a
third and while a build runs; two keys let a level have one key and lack the
other; three entries give a value, its tombstone and a rewrite. `CompactMin`
and `CompactMax` are 2 (6 and 20 in the code), so that merging starts at two
levels; `KeepSnapshots` is 1 (3 in the code), the harshest cleaning. One crash
suffices as a restart returns to a state made of files and log alone. Deadlock
is not checked, as the bounds stop every behaviour; `TasksFinish` states what
matters instead. For the applier, three times are the least with a clock going back past an
expire time, three entries the least for an entry that sets the cleanup time,
one that writes behind it and one that should clean; `MaxU64` is 2, so that
counters saturate within a run. Key symmetry is used only in runs without temporal properties.

### Fairness

Tokio's semaphores queue their waiters, so a waiter that is enabled again and
again gets its permit: strong fairness on the five steps that wait for one,
`ApplyStart`, `BuildPermit`, `BuildFreeze`, `CompactPermit` and `CompactFreeze`.
A started apply, watch, build, compaction or install is polled until it ends:
weak fairness on the other steps. A batch is committed at the latest when it has
reached the end of the log. Nothing is promised about new entries, watch
requests, starts of builds, the timer, failures, new installs, purges or crashes.
An install that fails stops raft, so `EveryEntryApplied` is excused then.

### Mutants

Each property of a passing run has a mutant in `PROJECT.json`: a changed
definition, kept next to the original under its own name, with which TLC finds
the property violated. They are bugs one could write: a freeze without the writer
permit, a merge of non-adjacent levels, a dropped tombstone, a condition that
reads the base instead of the view, a watch that keeps the permit, the two permits in the
other order, cleaning the newest files, and so on.

## Theorems

The proofs need only the named assumptions on the constants
(`KindsAssumption`, `BoundsAssumption`): `Keys` is any set, the bounds any
numbers, at least one file is kept, and the compactor leaves fewer than two
levels alone.

`Spec => []Inv` (`Invariance`). None of the checked properties is inductive
alone; `Inv` (in `StateMachineApplyProofs`) says of each copy of the data which
prefix of the log it shows:

- `HistOK`: `hist` is the reference semantics run over the log, and no value has
  a number above the counter;
- `MapsOK`: every state machine is `Sound` (versions of a newer level never sort
  before those of an older one, and all are bounded by the counter)
  and shows the state at its last
  committed entry. `Sound` is what makes "first level that has the key" right;
- `ViewOK`: what a batch has staged for a key is its state after the last
  applied entry, and unstaged keys have not changed since the batch began;
- `PermitOK`: each semaphore's holder is the task whose control point says so,
  and no batch runs in the middle of an install. With it, the compactor cannot
  run between a build's freeze and replacement;
- `BuildOK`: those levels are still the levels of the captured state machine and
  show the state at the newest level's index;
- `DiskOK`: each file, the one being installed included, is the replayed log up
  to its index.

`LeveledMapProofs` has the facts about the operators (what a freeze, a merge, a
commit and a replacement do to the versions of a key and to `Sound`);
`StateMachineApplyProofs`, `StateMachineLevelsProofs` and
`StateMachineStoreProofs` have one lemma per action. From `Inv` follow

- `TypeCorrect`, `ReadsAreTheLog`, `WriterSeesTheLog`, `SnapshotsAreTheLog`,
  `ReplacedLevelsPresent` and `GetIsRange`: six of the invariants above;
- `LogIsComplete`: with `Reaches` (openraft's snapshot index, the index of a
  build about to clean and that of an install under way are covered by some
  file) the purge never passes the
  newest file, whichever files are cleaned and wherever the process dies;
- `ForwardOnly`: `NeverBackwards`, one lemma per group of actions;
- `Refinement`: the store implements `ReplicatedMap`. A step without a restart
  either only grows the log or moves forward and shows `hist` at the new index
  (`ShownOK`); a restart lands on the loaded file.

Only model-checked: liveness (`EveryEntryApplied`, `TasksFinish`), since
fairness is out of the prover's reach, the readers, and the applier. `FaultySpec` is not the
subject of any theorem; its invariant is false.

## Not modelled, and the plan

Modelled so far: the leveled map, the state machine store, snapshot files as far
as their order and content go, and the applier. The rest, in the order in which
it is to be added:

1. Proofs about `Applier`: exactness of the expire index as an inductive
   invariant, with distinct numbers of live records; that every record's expire
   time is at or after the cleanup time, which gives `ExpiredRemoved` and
   `ReplicasAgree`.
2. `RaftLogStore`: append, truncate, purge, vote and committed with the flush
   callback, a crash that loses what was not flushed; abstract specification: a
   durable log that openraft is told about only when it is durable. Theorem:
   nothing acknowledged is lost.
3. `Watch`: registration, initial flush and live events through one queue, with
   state machine replacement; each watcher sees every key's changes in order.
4. `AppendNetwork`: splitting an append by payload size, back-off, partial
   success and the replies of the receiving side.
5. `SnapshotTransfer`: chunks, the receiver, the version fallback, install.
6. `Cluster`: boot, join, leave, forwarding with retries, against crashes
   between the steps.
7. `Client`: endpoint rotation and retry. 8. `VersionCompat`: feature spans as a
   pure algorithm against a direct definition. 9. `CompactPolicy`: level counts
   and sizes. 10. `Upgrade`: on-disk upgrade steps against a crash.

Then compositions: applier with watch (events before commit), log store with
state machine store (a restart that replays a log that was not flushed).

Left out for good: import and export, codecs, the sled reader, metrics, the
runtime layer, configuration and request plumbing are I/O or encodings of
single values without state that a model could tell apart. Byte formats,
logging and error texts are abstracted everywhere. Raft itself is openraft's:
the committed log is given.

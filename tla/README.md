# DBVM specifications

TLA+ models of DBVM, a virtual machine whose file tree lives in one SQLite
database: the content store with its reference-counted chunks, the sessions and
agent runs that materialize the tree, let a command change it and bring the changes
back, the watcher that tells them what changed, the overlay of a writable Delta on a
read-only Base, the supervisor that runs commands inside the sandbox, the encoding of
blobs, the migration of old databases, and the files processes share outside any
database. Paths below are relative to the repository;
`PROJECT.json` maps every definition to its lines.

1. [Inventory](#1-inventory)
2. [Modules and the code](#2-modules-and-the-code)
3. [Runs](#3-runs)
4. [Bounds](#4-bounds)
5. [Fairness](#5-fairness)
6. [Proofs](#6-proofs)
7. [Where the code departs from its documentation](#7-where-the-code-departs-from-its-documentation)
8. [Not modelled](#8-not-modelled)
9. [Plan](#9-plan)

## 1. Inventory

### Components

| Component | Source | State it keeps | Operations |
|---|---|---|---|
| Content store | `src/vm/{schema,store,read}.rs` | `vm_fs` rows, `vm_file_chunks`, `vm_blobs` with `refcnt` (triggers), `vm_dirty` | add, deferred range write and truncate, remove, finalize of hashes, migration |
| Content snapshots | `src/vm/snapshot.rs` | `vm_snapshots`, `vm_snapshot_fs`, `vm_snapshot_chunks` | create, restore, delete, retain, diff |
| Undo records | `src/vm/undo.rs` | `vm_undo`, `vm_undo_fs`, `vm_undo_chunks` | begin, capture, apply, delete, diff |
| FUSE mount | `src/fuse.rs` | a node table read when the mount starts | create, write, truncate, rename, unlink, unmount |
| Tree materialize and sync | `src/vm/tree.rs` | none of its own: it relates a host tree to the store | materialize, prune, full sync, path sync |
| Session | `src/session.rs` | the open tree, the watcher, the step lock, a request counter | start, exec, rollback, rewind, close |
| Tree watcher | `src/session/watch.rs` | watch descriptors, the set of changed paths, an overflow flag | take, discard |
| Session supervisor | `src/session/init.c`, `Session::run` | the FIFO, request directories, one child | take, fork, wait, kill, reap |
| Write policy | `src/policy.rs` | `vm_policies` rows and the triggers made from them | set and clear rules, bypass during undo and restore |
| Agent steps | `src/agent.rs` | `agent_steps`, the step lock | run_step, run_agent, run_agent_fused, run_agent_on_overlay |
| Overlay | `src/overlay.rs` | Base (read-only), Delta (a store), `vm_whiteouts` | lookup, list, write, mkdir, remove, range write, truncate, materialize, absorb |
| Codec and dictionaries | `src/vm/codec.rs` | `vm_dicts`, `vm_blobs.compressed` and `dict_id`, a process-wide dictionary cache | train, encode, decode |
| Injection, maintenance, import | `src/inject.rs`, `src/vm/{maint,import}.rs` | none of their own | merge a package; rechunk, recompress, gc; bulk load |
| Caches and work directories | `src/vm/cache.rs`, `src/bundle_cache.rs`, `src/bin/self-exec.rs` | directories and entries guarded by lock files | create, reclaim, drop; put, copy out, prune; extract, hold, evict |
| Sandbox, model proxy, disk image, memory trace, ELF tools, command line | the rest | little or none | see [section 8](#8-not-modelled) |

### How they interact

* Every writer is a SQLite connection. Statements of one savepoint or `BEGIN
  IMMEDIATE` are atomic; between two of them any other connection may commit. A
  process that dies loses its open transaction and nothing else.
* Live tree, snapshots and undo records share `vm_blobs`. The counts are kept by
  triggers on three tables, so what a delete or an insert does depends on what every
  other owner holds.
* A mount writes chunks at once and leaves the file's hash stale, marked by a row of
  `vm_dirty`; unmounting, opening, snapshots and syncs finalize it, one file per
  transaction.
* A session owns the step lock, so one session or agent step works on a database at
  a time; mounts and tools do not take it.
* `exec` runs a command through the supervisor, takes the watcher's change set, opens
  an undo record, syncs, and then records the step, or applies and deletes the
  undo record and restores the tree. Each of these is a transaction of its own.
* The host and the supervisor share a directory: a FIFO of request numbers, one
  directory per request, the status file written last. There is no cancel message.
* The kernel's event queue stands between the commands and the watcher: a directory is
  watched only after its creation was read, and events name a directory by the name it
  had when its watch was set.
* A blob is decoded with the dictionary its row names; dictionaries are appended, never
  changed, and numbered per database.
* Processes that share no database meet in the cache and work directories, by rename,
  unlink and `flock`.

### What is hard, and what makes each component correct

| Component | Hard behaviour | Correct when |
|---|---|---|
| Store | interleaved savepoints, crash between deferred write and finalize, rewriting a chunk with its own content | every chunk row has its blob, counts are exact, a file's chunk list has exactly its size, a hash is fresh or marked |
| Snapshots, undo | shared references, concurrent create and delete, repeated capture of one path | a snapshot never changes; an undo record leads back to the state before its first capture |
| Session | errors and crashes between transactions, watcher overflow, rewinds followed by commands | rewind restores the recorded state; tree and database agree between commands; a step reported is durable |
| Supervisor | the host gives up on a running command, deadlines race `setsid` | commands run one at a time in order, a timeout leaves no process of the group, every request is answered |
| Watcher | directories created, filled and moved before their events are read, overflow, watches rebuilt under running commands | every change made before a take is in its answer, or the answer is `full` |
| Agent steps | runs of several processes, kills, refused writes, scaffolding in the tree | no run takes back another's writes, the records chain, every waiting run ends |
| Codec | retraining, packages with dictionaries of their own, a pack that encodes with an old one, the shared cache | every blob decodes to the content its key names |
| Migration | old databases with wrong counts and dangling hashes, death between steps | no content is lost, an interrupted migration can go on, the result is a current database |
| Caches, work directories | create races with reclaim, eviction with copy and launch, kills anywhere | no directory in use is reclaimed, none leaks, no partial entry is used, no launch waits forever |
| Overlay | whiteouts at several depths, partial chunk lists, absorb stopped in the middle | the merged view changes exactly as the call says; a Delta entry is never hidden; absorbing leaves the run's tree |

The hazards, each at its line and with the properties aimed at it, are in
`PROJECT.json`.

## 2. Modules and the code

| Module | Models | Extends |
|---|---|---|
| `VmImage` | a database as a value, and each SQL statement with its triggers as an operator on it | |
| `VmStore` | connections, transactions, mounts, tools | `VmImage` |
| `Session` | a session between its tree, the watcher and the database | |
| `ChangeSet` | what a session needs of the watcher (abstract) | |
| `Watch` | the watcher: inotify watches, the event queue, take | implements `ChangeSet` |
| `Steps` | `run_step`, `run_agent`, `run_agent_fused` under the step lock | |
| `Overlay` | Base, Delta and whiteouts, and an agent run on them; the Delta is a `VmImage` | `VmImage` |
| `Supervisor` | `Session::run` and `init.c` | |
| `Codec` | encodings, dictionaries, pack, recompress, inject | |
| `Migrate` | opening a database of an older schema | |
| `HostFiles` | work directories, content cache, bundle cache | |
| `MCVmStore`, `MCSession`, `MCOverlay`, `MCWatch`, `MCCodec` | symmetry, path trees, contents and worlds for TLC | the module they name |
| `VmImageProofs` | lemmas on the operators: references, and the entry each one leaves | `VmImage` |
| `VmStoreProofs`, `OverlayProofs` | theorems | the module they name and `VmImageProofs` |
| `SessionProofs`, `StepsProofs`, `HostFilesProofs` | theorems | the module they name |
| `SessionPartsProofs` | theorems | `Watch`, `Supervisor` |
| `FormatProofs` | theorems | `Codec`, `Migrate` |

**VmImage.** An image has `row` (per owner and path: kind, size, hash), `chunk` (per
owner, path and index: a piece or none), `blobs` and `refcnt` (the keys and counts of
`vm_blobs`), `dirty` and `saved`. Owners are the live tree, the snapshots and the undo
records. The triggers of `schema.rs` are part of `InsertChunks` and `DeleteChunks`: a
blob is deleted when its count falls to zero, in the statement that does it.
A blob is named by its content (sha256 taken as injective), sizes count chunks, and
a file hash is the chunk list it was computed from, so a stale hash is visible.

**VmStore.** `disk` is the committed image; `work` is what the holder of the write
lock sees. A connection is closed, a mount or a tool. An operation that the code does
in one savepoint is one action; one that reads first and locks later is several:
`WriteStat` reads the size, `WriteBegin` takes the lock, `WriteChunk` writes a chunk,
`WriteCommit` sets size and dirty mark. `finalize_dirty` visits its list one
transaction at a time. `Crash` and `Fail` may happen in the middle of any call;
`Fail` stands for every error a call can return. A mount decides by `view`,
its node table, which only it updates. The test whether a file is still dirty,
which `finalize_file` makes just before its savepoint, is part of it here.
Three histories record what two connections can do to each other: `late`, the marks
others set since a call listed `vm_dirty`; `copied`, the paths that a snapshot or a record
took with such a mark; `raced`, the paths that a deferred write gave a size computed
from one outdated by then.

**Session.** `exec` is the chain `Exec`, `RunEnd`, `UndoBegin`, `SyncBegin`,
`SyncPresent`/`SyncMissing` per path, `SyncEnd`, then `InsertStep`, or `UndoApply`,
`UndoDelete`, `Restore`, `Discard`. `Touch` is a write by the command or by a process
it left behind. `Stop` closes the session or kills the process at any point. An error
of a sync in the middle keeps its transaction open where the code does. The rows before
each undo record, and the records a rewind has passed, are history variables in the
image. No modelled path contains another, a directory is empty, and whether a changed
file agrees with its row in size, second of mtime, mode and stamp is a free choice
(`alike`; a stamp of 0 matches every other), for the sync and for the materialize.
`adrift`, `halted` and `shaky` are histories: the paths on which one of the code's known
gaps has acted and that still differ, whether a refused deletion has ended a full sync of this
session, and the steps reported after that. `env`, chosen
initially from `Worlds`, says what the session meets: directories, background
writers, a supervisor that fails to answer, read-only paths, refused contents, LIKE
wildcards.

**ChangeSet and Watch.** `ChangeSet` has four variables: the paths that differ from
what was synced, whether a take is under way, what differed when it began, and what is in
doubt. Its `End` leaves nothing of the third that is not in the fourth. `Watch` has the tree, the kernel's watches and queue and
the fields of `TreeWatch`. Changes of the tree append the events inotify
would raise (`Queued`: none for an inode without a watch, an overflow at the end of a full
queue); `ReadEvent` is one turn of `drain`; `WalkOpen`, `WalkWatch` and `WalkList`
are the steps of `watch_tree` on one directory, between which commands go on writing;
`TakeFull` and `Rewatch` remove and set all watches. The refinement mapping is
`dirty` for the paths whose state differs from the synced one, `pc # "idle"` for a
take, and for `doubt` the paths that are gone and that a full sync took in while their
directory had no watch yet (the history `unseen`). `Above`, a path and the directories above it, is what `vm_sync_paths` deletes by: the
rows below a path that is gone. `Session` is written on what `ChangeSet` promises.

**Steps.** A run is `Ask`, `Acquire`, `SnapBefore`, then `Materialize`, `Command`,
`SyncRead`, `SyncWrite` or `Mount`, `FusedWrite`, and `DiffLive`, `RollBack` or
`SnapAfter`, `Record`: the transactions of `agent.rs` in their order. `Tool` is any other
program that writes the database, which takes no step lock. `last` (who wrote a row)
and `gap` (rows changed outside a recorded run) are history variables.

**Overlay.** Direct calls (`Write`, `Mkdir`, `Remove`, `WriteRange`,
`TruncateRange`) alternate with agent runs: `Start` materializes the merged view and
takes any resulting tree, `AbsorbEntry` goes over its paths, `AbsorbGone` removes
what is missing, `Finish` keeps the run or restores the Delta, not the whiteouts. The
Base is any table of rows, also one with rows below a file or below nothing; the tree of a run is
a tree. `Abandon` is an error
return in the middle of an absorb. The snapshot of a run is the value of the Delta,
and counts as deleted at the run's end. Symlinks, modes and times are left out. Two
histories: `buried`, the Delta rows that a rollback put back under a whiteout and that are
still there, and `respun`, set when a range writes a piece again that it has just rewritten
in place.

**Supervisor.** Host and supervisor are two processes, and the command and one helper
stand for those it starts. Time is abstract: a deadline or the host's patience may end
at any moment, also before the child has called `setsid`; `kill(-pid)` then
reaches nobody, and the history `missed` has the request.
`Daemonize` is a helper that leaves the group; the code lets it live until the sandbox
ends.

**Codec.** A body is a term: how it was encoded, from what, with which dictionary; it
decodes only the same way, so a wrong flag or dictionary is an error. Which encoding is
smaller is a free choice. `Train`, `Ensure`, `PackStart`/`PackEncode`/`PackWrite`,
`Recompress` and `Inject` are the writers (an injection that does not verify is rolled
back and leaves nothing; the inline content `recompress` moves first is an `Ensure`); `DecodeBlock` and `ChunkByKey` the reader, with
the dictionary cache and, for flag 0, the search for a zstd or gzip magic. `Inside` says
which contents are compressed streams themselves.

**Migrate.** A database is a record of rows, chunk lists, blobs, the counter of
`vm_meta`, the triggers that exist and the form of its keys. Each `Migrate_n_to_m` is one
step of `schema.rs` with the effect of the triggers present at that point; `Fails` says
on which databases its SQL fails. `Init` has new databases, databases of schema 0 and 1
with any hashes, any blobs, some written with a dictionary, and wrong counts, and databases of
schema 5 with a dictionary. Any number of processes may migrate at once, each from the
version it read (`ver`); the history `stale` says that one of them, overtaken by another, has run
one of steps 1 to 5, which rewrite tables. Assumed of old databases: `vm_dict` exists where
schema 5 or a dictionary blob does, and the text keys of schema 1 to 3 do not collide.

**HostFiles.** `WorkDir::create` is `Create`, the reclaim of every lock file found
(`ReclaimOpen`, `ReclaimLock`, `ReclaimDir`, `ReclaimFile`), `MkDtemp`, `Stage` (lock under
a temporary name) and `Publish` (rename). `CopyOut`, `Copy`, `PutExists`, `Write`,
`WriteEnd` and `Rename` are the content cache; `Prune` and `PruneTemp` remove entries and
temporary files of writes in progress, whose rename then fails (`RenameFails`). A start of
a packed program is `Launch`, a turn of `Library`, a write if the entry is missing or of the wrong
size, `HoldOpen` and `HoldLock` per private library, `EvictList` to `EvictRemove`, `Run` and
`Exit`; without a link there is nothing to evict for (`NoBundle`). A file is an inode, so an
entry renamed over a held one is told apart from it. `Crash` drops every lock.

## 3. Runs

| Run | Shows |
|---|---|
| `store_single` | One connection at a time with mounts, tools, snapshot, undo record, files of two chunks, symlinks, crash and failure anywhere: exact counts (`RefcountExact`), chunk lists that match sizes (`ChunkListExact`), and live hashes fresh or marked (`LiveHashFresh`). |
| `store_paths` | Two paths and an undo record: renames over existing files and repeated captures keep `ChunkListExact` and the state a record leads back to (`UndoKeepsOrigin`). |
| `store_concurrent` | Two connections interleaved at every transaction boundary: exact counts, exact chunk lists, no stale hash in a snapshot but through a late mark (`SavedHashFresh`), and a snapshot that never changes (`SnapshotImmutable`), with mounts acting on stale node tables. |
| `session_all` | Commands, rollbacks, rewinds, refused contents, watcher overflow and crashes, in three worlds: a rewind restores the rows before its command (`RewindExact`), steps reported are committed unless a deletion was refused before (`Durable`), and tree and rows agree between commands on every path that is not adrift (`Synced`). |
| `watch_all` | A nested tree written, moved and removed at any moment, a queue of four events, a walk that fails, too few watches, also while the watches are rebuilt: the watcher implements `ChangeSet` (`NoneLost`) and, when idle and sure, watches every directory under its present name (`Covered`). |
| `steps_all` | Two runs of any kind and a tool: no run takes back what another run wrote meanwhile (`NoLostWrite`), recorded runs start where the one before them ended (`Chained`), the files of a tree run's own agent are not reported (`ScaffoldHidden`), and a run that waits ends, whoever is killed (`Ends`). |
| `overlay_all` | Every call and agent runs, kept or rolled back, on every Base of depth three: exact Delta counts (`DeltaRefsExact`), a layer for every chunk (`LayersWhole`), no hidden Delta entry (`DeltaVisible`), listings that match lookups (`ListExact`), an absorb that leaves the run's tree (`AbsorbExact`), and writes and removals that change the view as asked and nowhere else (`WriteExact`, `RemoveExact`). |
| `supervisor_all` | Three requests with every order of exits, timeouts, giving up and the sandbox's end: `InOrder`, `OneCommand`, `GroupKilled`, and every request answered (`Answered`), except behind a kill that came before `setsid`. |
| `codec_all` | A target and a package that train, store, pack, recompress and are injected into each other: every blob but a raw archive reads back its content, whatever the cache holds (`Readable`). |
| `codec_archive` | A counterexample: a raw archive is unpacked on read; see section 7. |
| `migrate_crash` | Old databases in any condition, two processes that migrate, also at once, die between steps and write once they have it open: until an overtaken one rewrites tables, content is kept (`ContentKept`), no step meets tables it fails on (`StepsApply`), `vm_verify --deep` finds nothing but files that could not be read before either (`VerifyDeep`), and an open database is like a new one (`OpenedCurrent`). |
| `host_files` | Two processes that create, reclaim, copy, prune, launch with two libraries and evict, and die anywhere: no directory is reclaimed under its owner (`InUse`), none is left that nothing can find (`Reclaimable`), no partial entry is copied out (`CopyWhole`), every launch reaches its guest (`Launches`). |

Where the code is known to break a property, the step that does it is in the model and enters
what it touched in a history variable, and the property exempts exactly that: a path, a step, a
request, or the database from then on. No action reads a history, so it hides no behaviour. The
exemptions are `raced` and `copied` (store), `adrift` and `shaky` (session), `unseen` (watcher),
`buried`, `respun` and `Revived` (overlay), `missed` (supervisor), `stale` (migration) and
`lost` (work directories); section 7 lists the faults behind them. The type invariants of `Codec`, `Session` and `Overlay`, and
those that `StepsProofs`, `HostFilesProofs`, `SessionPartsProofs` and `FormatProofs` state, hold
on the same instances; they are proved, and not listed with the runs.

`CHECK_DEADLOCK FALSE` is set where the system may stop or the bounds stop it: the
supervisor, whose session ends; the overlay, where a view that cannot be materialized and a
full quota leave nothing to do; `Watch`, `Steps` and `HostFiles`, which end when the bounds on
changes, runs and operations are used up.

## 4. Bounds

| Constant | Values | Why enough |
|---|---|---|
| `Path` | 1 or 2 (store, session), 4 in a tree of depth 3 (overlay) | counts couple paths only through shared blobs, for which two owners of one path already suffice; renames need two; whiteouts need an ancestor, a sibling and a grandchild |
| `Piece` | 2 | equal and different content |
| `MaxChunks` | 2 where chunk lists are in question, else 1 | first, last, boundary and growth by one chunk |
| `Conn` | 2 with one chunk, 1 with two | every race in the code is between two connections; a size outdated by one chunk is reached with one chunk, too |
| `Snap`, `Undo` | 1 each | records do not refer to each other; the proofs cover any number |
| `MaxUndo`, `undos` | 3 in the calm world, 2 in the others | a rewind past a rewound record needs three commands |
| `MaxSeq` | 3 | a request given up, its successor and one more queued; the proofs cover any number |
| `Bodies`, `Wide`, `Quota`, `MaxFile` | one-chunk files above, two-chunk files and range writes at the deepest path; 2 and 4 chunks | Base files larger than the Delta's part, a quota that can be met and exceeded |
| `Rollback` | `{TRUE, FALSE}` | runs are kept and rolled back |
| `Dir`, `File`, `Ino` of `Watch` | a nested directory, one it can be moved to, a file in each; three inodes | a move under another name and a directory made again while events of the old one are queued |
| `MaxOps`, `MaxQueue`, `MaxWatch` | 6 changes, 4 events, 3 watches | create, fill, move and remove before one take; overflow and a refused watch both happen |
| `MaxRuns`, `MaxTools` | 2 runs, 1 tool write | every loss is between two runs, or a run and a tool |
| `Content`, `Inside`, `Dict`, `Room` of `Codec` | a content, an archive of it, two dictionaries, two ids in the target and one in the package | an injected id differs from the package's, and a retrained one from the pack's |
| `File`, `Piece`, `Opener` of `Migrate` | 2 each | shared and distinct blobs; one process dies and another goes on, or overtakes it |
| `Name`, `Inode`, `MaxJobs`, `Programs` of `HostFiles` | 3, 5, 4 operations of 2 processes, a launch counted once per library; a program with two libraries | a directory made, abandoned and reclaimed while the next is made; an entry held, renamed over and evicted; two launches that each hold one library and ask for the other |

Symmetry is used for paths, pieces and connections of `VmStore`, inodes of `Watch` and
dictionaries of `Codec`, which the specifications treat alike and whose runs check no
liveness (`NoneLost` is a safety property: `ChangeSet` states no fairness).

## 5. Fairness

`Supervisor`: weak fairness of the supervisor's own steps (its loop polls with a timeout
and the clock advances, so an enabled reap or deadline is taken), of a forked child's
`setsid` (it is runnable and calls nothing that blocks before it), of the host's write to
the FIFO (opened non-blocking) and of its polling for an answer. Nothing is assumed of the
command: it may run forever, and its helpers may too. Nothing is assumed of the host's
patience either, so `Answered` does not hold merely because the host gives up. A supervisor that
waits for a command its kill missed waits as long as the command runs; `Answered` names this case.

`Steps`: weak fairness of each process's steps (`Progress`). A sandbox ends because
`run_captured` kills it at its deadline; the lock comes free because its holder returns or
dies, and the kernel releases the `flock` of either. Runs are bounded, so weak fairness is enough for
`Acquire`; without the bound the kernel's wake-up order would have to be fair too.
Kills, refusals and sandbox failures are not fair.

`HostFiles`: weak fairness of each process's steps in the caches (`CacheStep`). None of
the calls waits but `LOCK_SH` for an evictor, which is what `Launches` is about. A guest
that runs on is not needed to end: `Launches` stops at the guest.

The other modules state safety only: a database call may be refused by a busy lock
forever.

## 6. Proofs

TLC checks small instances; TLAPS proves the following for every value of the constants
that satisfies the assumptions of the modules:

* `ImageAssumption`, `StoreAssumption`: distinct placeholder values, finite sets of paths,
  snapshots and undo records, `MaxChunks` a positive number.
* `OverlayAssumption`: ancestors form a strict order closed upwards; the contents are files.
* `SessionAssumption`: paths are numbered (the order of a walk), contents differ from the
  markers, a world names paths.
* `SupervisorAssumption`: `MaxSeq` a natural number.
* `StepsAssumption`, `CodecAssumption`, `HostFilesAssumption`: markers such as `"none"` and
  `"tool"` are no process, database, name or content; bounds are natural numbers; there
  is an inode.
* `MigrateAssumption`: finite sets of files and pieces, and a marker that is no key.
* `WatchAssumption`: finitely many directories, each name once in its directory, no directory
  below itself, markers that are no inode, bounds that are natural numbers.

No theorem has a hypothesis besides these: what the code does not keep is exempted in the
property, by the histories of section 3, and the theorems hold for every number of
connections, processes, worlds and rollbacks.

| Module | Theorem | Statement |
|---|---|---|
| `VmStoreProofs` | `TypeCorrect` | `Spec => []TypeOK` |
| | `RefcountsExact` | `Spec => []RefcountExact` |
| | `SnapshotsImmutable` | `Spec => SnapshotImmutable` |
| | `UndoOriginKept` | `Spec => UndoKeepsOrigin` |
| | `ChunkListsExact` | `Spec => []ChunkListExact` |
| | `LiveHashesFresh` | `Spec => []LiveHashFresh` |
| | `SavedHashesFresh` | `Spec => []SavedHashFresh` |
| `SessionProofs` | `SessionSafe`, `SessionTypeCorrect` | `Spec => []RewindInv`, `Spec => []TypeOK` |
| | `RewindsExact` | `Spec => []RewindExact` |
| | `ReportedIsDurable` | `Spec => []Durable` |
| | `TreeSynced` | `Spec => []Synced` |
| `OverlayProofs` | `OverlaySafe` | `Spec => []LayerInv` |
| | `LayersAlwaysWhole` | `Spec => []LayersWhole` |
| | `RemovesExact` | `Spec => RemoveExact` |
| | `DeltaRefsCounted`, `OverlayTypeCorrect` | `Spec => []DeltaRefsExact`, `Spec => [](~respun => TypeOK)` |
| | `DeltaNeverHidden` | `Spec => []DeltaVisible` |
| | `ListsExact` | `Spec => []ListExact` |
| | `WritesExact` | `Spec => WriteExact` |
| | `AbsorbsExact` | `Spec => []AbsorbExact` |
| `StepsProofs` | `StepsSafe` | `Spec => []StepsInv` |
| | `TrailChained` | `Spec => []Chained` |
| | `NoWriteLost` | `Spec => NoLostWrite` |
| | `AgentFilesHidden` | `Spec => ScaffoldHidden` |
| `SessionPartsProofs` | `WatchSafe` | `WatchSpec => []WatchInv` |
| | `WatchCovers` | `WatchSpec => []Covered` |
| | `WatchImplements` | `WatchSpec => NoneLost`, that is `Abstract!Spec` of `ChangeSet` |
| | `SupervisorTypeCorrect` | `Spec => []TypeOK` |
| | `CommandsInOrder` | `Spec => []InOrder` |
| | `OneCommandAtATime` | `Spec => []OneCommand` |
| | `TimeoutKillsGroup` | `Spec => []GroupKilled` |
| `FormatProofs` | `CodecSafe`, `CodecTypeCorrect` | `Spec => []CodecInv`, `Spec => []TypeOK` |
| | `StoredReadsBack` | `Spec => []Readable` |
| | `MigrateSafe` | `MigrateSpec => []MigrateInv` |
| | `MigrationKeepsContent` | `MigrateSpec => []ContentKept` |
| | `MigratedVerifies` | `MigrateSpec => []VerifyDeep` |
| | `MigrationResumes` | `MigrateSpec => []StepsApply` |
| | `OpenIsCurrent` | `MigrateSpec => []OpenedCurrent` |
| `HostFilesProofs` | `HostSafe` | `Spec => []HostInv` |
| | `NeverReclaimedInUse` | `Spec => []InUse` |
| | `AlwaysReclaimable` | `Spec => []Reclaimable` |
| | `CopiesAreWhole` | `Spec => []CopyWhole` |

None of the properties is inductive as it stands. TLC also checks the invariants below,
without their typing parts, on the instances of the modules' runs and finds no error.

**The store: counts.** `RefcountExact` alone is not inductive: a trigger adds one to a count
that must be the number of *all* chunk rows, and deletes a blob at zero, which is right
only if no chunk row is without a blob. The invariant is
`StoreInv == Whole(disk) /\ Whole(work) /\ ControlOK /\ GoalOK`. `Whole` says an image is
well typed, every count is the number of chunk rows of its piece, no chunk row is
orphaned, and a snapshot has rows exactly while it exists; `GoalOK` ties a call's target to its
kind, so that a sync never captures into a snapshot. `VmImageProofs` shows that every
operator keeps `Whole`, from lemmas on how the number of references changes with one
inserted chunk row and with a set of deleted ones; `VmStoreProofs` then has one step per
action. `Whole(work)` is needed because `work` becomes `disk`, and `Whole(disk)`
because a crash makes `disk` become `work`.

**The store: transactions.** The second half of `VmImageProofs` says for every operator which
*entry* (row and chunks) it leaves at each owner and path. `TxInv` says that an open
transaction has changed no snapshot, and that a sync under way has not moved the state its
record leads back to; `SnapshotsImmutable` and `UndoOriginKept` follow for any number of
connections. The other three rest on `CallInv`: the committed image is `Faithful` (chunk lists
exact, hashes fresh or marked, none stale in a saved tree, but for `raced` and `copied`
paths), and each call under way knows what it has to. A write knows that it began within
the size it read (`StatHolds`) and, unless that is outdated, how far it has come (`HalfWritten`);
a snapshot or sync knows that a mark is on its list or came late. When the write commits, either
the size is still the one it read, and the chunk list is exact, or the path enters `raced`.

**Sessions.** `RewindsExact` is about a chain of undo records. The lemma it rests on is that
a rewind gives each path the row of the *oldest* record, from the target on, that holds it,
or its present row. From this, a capture followed by a write leaves every rewind's
result alone as long as it is made into the youngest record (`Open`), and so do applying and
then dropping a record (`Applied`). `RewindInv` says so of every database the session can fall
back on: the committed one, the uncommitted one and the savepoint. `DurableInv` has
in addition that a transaction is open only inside a full sync or after one that was `halted`,
and that every database the session can fall back on has the steps reported before that;
`SyncInv` says for each place of `exec` on which of its lists a path is whose row
differs from the tree and that is not adrift.

**The overlay.** `LayerInv` is `LayersWhole` with what makes it inductive, for the Delta and
for the snapshot a rollback returns to: a path without a row has no chunks, so a new row
shows the Base's. A range write is a loop; that its recursive function exists, and that after
each turn the range is in place up to there, is proved by the least number for which it is
not so. The turns do not keep the counts: a chunk rewritten with its own content loses its blob
if it was the last reference. Once that has happened a blob named in the range stays missing
(`Unspoiled`), unless the range names it again, which sets `respun` (`Once`); so `refresh_delta_file` fails and the write does
not commit; this is the argument of `DeltaRefsCounted`. `BurialInv` says that the hidden Delta rows
are those a rollback buried. The view is reasoned about with
`Shown`, a function of a Delta and a set of whiteouts: `ClearShows` says what
`clear_whiteouts_for` hides and reveals, and the `...Leaves` lemmas what each call leaves at
its path and beside it. `AbsorbInv` says that the entries walked so far are shown and that
none of them lies below one still to come, so that no later write of the walk can disturb
them except by making an ancestor a directory, which the tree has there too.

**Agent steps.** `StepsInv`: a process past the lock holds it (`Exclusive`), a row that differs
from a run's first snapshot was written by that run or a tool (`OwnSince`), between
runs the rows are what the last recorded one left unless `gap` says otherwise (`Continues`,
`Follows`, `Ending`), and the agent's files are out of the tree before it is mirrored
(`ScaffoldOut`).

**The supervisor.** The invariant is `TypeOK`, `Queue` (the FIFO holds the numbers
after the current request without a gap, and, while the sandbox lives, all that were
sent), `Progress` (requests before the current one have a status, later ones no process),
`Current` (only the current request has an unreaped process) and `Reported` (a result is
the status, and a status of a run command follows its reaping). `InOrder` needs
`Queue`: without it a take might skip a request. `GroupKilled` needs `Killed` in
addition: between a kill that found the group and the reap the command is a zombie, so it cannot
start another helper.

**The watcher.** `WatchInv` is about what a take *will* do, because a watcher that has not read
its queue knows less than the kernel. `Doomed` says that the take that reads what is queued
answers `full`: `full` is set, or an overflow is queued, or a move under a descriptor that
no earlier `ignored` takes away. Unless it is doomed, four things hold. `Watches`: watches are
those of present directories under their names, and other descriptors those of removed
ones. `Events`: each queued event has its directory in `dirs` when its turn comes, and the
queue is not beyond its limit. `Found`: every directory is watched, or `Pending`: a walk visits
it or something above it, or a queued `create_dir` will start one. `Accounted`: a path
that differs from the database is in `paths` or named by a queued event, or is new and
pending, or was `unseen` by the last full sync. The last of the four is what `NoneLost` needs: with the queue empty and no walk under way
nothing is pending, so whatever differs is in `paths` or in doubt, and `TakePaths` maps to `End`.
While the watches are rebuilt nothing need be accounted for, because a full sync follows; what
`Found` says holds then too, so that the first take after it knows where to look.
The proof turned up a case that a first version of the invariant missed: a directory can be
opened, moved away, replaced by a new one that gets the watch, and moved back before its
entries are read, all unseen because its parent has no watch yet. It is then listed without
a watch of its own; `Listed` covers this, because its parent is still to be visited. The
order of the walk matters in the same way: what appears after a directory's watch raises an
event, and what was there before is found by the listing.

**The codec.** `CodecInv`: a row's flag is the form of its body, and its dictionary id names the
dictionary the body was made with, in its own database; the cache agrees with `vm_dicts`; and
a pack under way still has the dictionary of its id. It is kept because dictionaries are only
appended (`Grown`) and because `inject` maps ids.

**Migration.** `MigrateInv` says for every value of `user_version` which tables, triggers and form
of keys the database has (`Schema`), from which version on counters and reference counts
are right (`Counted`: a database of schema 1 may have any counts, and 4 -> 5 counts anew) and
blobs have their dictionaries (`Decodable`), and how far each process is behind the database
(`Turns`): with steps 1 to 5 to go, `user_version` has only risen since it looked, and later an
overtaken process may set it back but adds nothing twice and takes nothing away. All of it holds
until `stale`. Each step a process runs at the database's own version is then shown to apply, but for
dictionary blobs at 3 -> 4, and to carry every readable file over (`Carried`): 3 -> 4 renames keys,
4 -> 5 turns one blob into a list, 5 -> 6 gives old compressed rows their dictionary.

**Files on the host.** `HostInv`: `Owned` (who has the lock of a directory, by place),
`Private` (a directory whose lock file has no name yet is on nobody's list), `Removing` and
`Findable`; and for the caches that what a copy will read and a rename will publish is
whole.

**Only model-checked.** `Answered`, `Ends` and `Launches`: liveness under fairness is outside
the prover's reach. All other properties of the passing runs have a
theorem of their own.

## 7. Where the code departs from its documentation

With a run that shows it:

* `codec_archive`: a block of flag 0 whose bytes begin like zstd or gzip is unpacked when it
  is read (`codec.rs:259`), and the key check refuses the result: a small `.gz` or
  `.zst` file that was stored raw cannot be read. `docs/vm.md:6` says `compressed 0=raw`.

Recorded in a history variable that the property exempts; without the exemption TLC shows
each of them:

* Store, `raced`, `ChunkListExact`: a range write or truncate reads the file's size before it
  takes the write lock (`store.rs:304`); a truncate by another connection in between leaves a file
  with fewer chunk rows than its size.
* Store, `copied`, `SavedHashFresh` and, after a restore or an undo, `LiveHashFresh`:
  `snapshot_create` and a sync finalize before their savepoint (`snapshot.rs:76`); a deferred
  write of a mount in between puts a stale hash in the snapshot or the record.
* Session, `shaky`, `Durable`: a refused deletion in a full sync returns with its transaction
  open; later commands report success inside it and are lost on close.
* Session, `adrift`, `Synced`: a changed file of the same size, second, mode and stamp passes
  for its row, and a stamp of 0 matches every other, which is what a file that changed while it
  was read is stored with, "and the next sync re-reads it" (`store.rs:119-122`); a refused deletion
  loses the rest of the change set; `LIKE 'p/%'` of a deleted path matches other paths when
  its name holds `_` or `%`; a restore that fails, a directory over a file, and a background
  write between materialize and `discard` leave a path as it is.
* Watch, `unseen`, `NoneLost`: a directory made by a background process after the new walk of
  `watch_tree` has passed its parent (`watch.rs:125`) is synced by the full sync that follows, but
  has no watch until the next take reads its creation; what is removed from it before that
  is in no answer, because the walk then marks only what is there. With `a` and `a/b` made
  during the rebuild and `a/b` removed before the next take, the row of `a/b` stays. The
  comment at `watch.rs:12-13` says every doubt falls back to the full walk.
* Overlay, `buried`, `DeltaVisible` and `ListExact`: rolling back an agent run restores the
  Delta's rows and not its whiteouts (`agent.rs:112`), so a restored entry is hidden, but listed.
* Overlay, `respun`, `DeltaRefsExact`: a range write over two chunks whose first is rewritten
  with its own, only, content and whose second has the same content loses a reference, against
  "Delta must verify deep" in `tests/overlay_cow.rs`.
* Overlay, `Revived`, `WriteExact`: where an ancestor was removed, writing a path shows again the Base
  paths below it: after `remove d` and `mkdir d/e`, `d/e/y` is back. `clear_whiteouts_for`
  skips them by prefix (`overlay.rs:393`), against the comment at `overlay.rs:368-371`.
* Supervisor, `missed`, `Answered` and `GroupKilled`: a deadline that passes before `setsid`
  kills nobody, and the supervisor waits for the command without a limit.
* Migrate, `stale`, all four properties: a process reads `user_version` outside any
  transaction (`schema.rs:53`). One that read it before another finished runs old steps
  on a current database; 1 -> 2 counts references by `vm_fs.hash` and deletes chunk
  blobs, and the version goes back. The comment at `schema.rs:51` speaks of a crash only.

Stated in a module and checked by no run, because the code does not keep it:

* Overlay, `ReadWhole`: a copy-on-write change of a file's first chunks looks like a complete
  chunk list (`chunks_are_dense`), and reading fails. `View`, and with it `WriteExact`, takes the
  content from the layers instead.
* HostFiles, `HeldKept`: an entry a launch holds loses its name all the same, because
  `enforce_cache_limit` and `vm_cache_prune` walk `bundle/` too and take no lock, a rename
  may replace it, and an evictor does not look again after it has the lock. The comment at
  `bundle_cache.rs:3-5` says held entries are kept. The launch's link is symbolic, so a
  guest that loads its library late may find it gone.

Seen while modelling, without a run of their own:

* Overlay: writing a chunk with the content it has can fail.
  `write_range` and `truncate_range` clear the path's own whiteout before they look it
  up, so removed Base content comes back. `materialize` fails where the Delta changed
  the kind of a Base path. The quota counts Base files that are hidden and not the
  Delta files over them, and truncation that grows a file is not counted. A
  read-only prefix is checked on the path alone: removing its parent hides it.
* Store: a dirty file replaced by a directory keeps its `vm_dirty` row.
* Migration: blobs written with a dictionary make 3 -> 4 fail, because it decodes without the
  database (`schema.rs:122`, `codec.rs:246`); such a database cannot be opened. A file whose
  hash had no blob ends with a size and without chunks, which `vm_verify --deep` reports as drift.
* Tree sync: in a path sync, the child of a directory that became a file answers ENOTDIR,
  which counts as a failure and not as a deletion.
* Session: a rewind to a record that an earlier rewind passed applies records of rows that have
  changed since.
* Supervisor: the directory of a request the host gave up on is not removed.
* Agent steps: `run_agent_fused` removes its scaffolding after the mount is gone
  (`agent.rs:483-489`), so it stays in the database and in the reported changes. A refused
  deletion returns before any `agent_steps` row is written. A refused write records an
  empty change list although the other writes stay. Mounts and tools take no
  step lock, so a mirror deletes what they wrote meanwhile. A VM that has its own
  `/opt/fwd.cjs` loses it.
* Work directories: a process killed between `mkdtemp` and the rename of its lock file
  leaves a directory nothing finds again; a directory that cannot be removed loses its
  lock file all the same (`lost` in `HostFiles`).
* Bundle cache: a `hold` that fails because the entry has just been evicted is ignored
  (`self-exec.rs:140`), and the guest starts with a dangling link.

## 8. Not modelled

* Logical counters other than the blob counter of `Migrate`, symlink resolution and the
  chunk cache of the store; snapshots of the database file; diff and verify, which only
  read.
* The temporary cache files a killed process leaves, which a prune may find.
* `rechunk`, `gc`, the rows and checks of `inject`, the walk and index drop of the bulk
  import: each is a sequence of store operations under its own transactions.
* Changes of policy rules while a session or run is under way.
* In `Watch`: hard links and writes through a mapping, for which inotify raises no event;
  a moved directory with subdirectories of its own; `discard`, which is a take whose
  answer is dropped (`Session` has it).
* The sandbox's command lines, cgroup files and seccomp program; the model proxy
  (each connection forwards its own byte streams; shared are a stop flag and two
  counters); disk image and memory trace (raw bytes); ELF parsing and closure tables (file
  formats); the command line (parsing and reports).

## 9. Plan

Done, in this order: `VmImage` and `VmStore` with their proofs, because everything else
writes through them; `Session`; `Overlay`, on `VmImage`; `Supervisor` with its proofs; then
`Steps`, `ChangeSet` and `Watch`, `Migrate`, `Codec`, `HostFiles`.

Theorems were proved for the store and the supervisor first, then for `HostFiles`, `Steps`,
`Codec`, `Session` and `Overlay`, and last for `Migrate` and for `Watch` with its refinement of
`ChangeSet`.

Next, models: `rechunk` and `gc` as actions of `VmStore`; `Policy`, with rules set and
cleared while a sync runs; nested paths in `Session`, with the ENOTDIR case of section 7.

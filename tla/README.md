# Vision Shark verification

TLA+ models of Vision Shark (`src/vision_shark`), a local gateway that receives
a vehicle's CAN and DoIP traffic without ever writing to it, records it,
identifies the vehicle and offers what it knows to an operator. The modules
cover the parts that keep state and in which threads, coroutines, processes,
crashes or failures meet, and the algorithms on which what it tells the operator
rests. TLC checks small instances; TLAPS proves, for every instance, the safety
properties of the parts that keep state, and that the store implements the log it
promises.

Paths below are relative to `src/vision_shark`.

## 1. Inventory

| Part | State | Operations | What is hard | What makes it correct |
|---|---|---|---|---|
| Recording store `storage.py` | SQLite tables, the open transaction, `_pending`, `_last_commit`, `_next_seq` | start, append, append batch, stop, flush, read; close, open | batched commits, crashes, commits and batches that fail | frames numbered without a gap, bounded loss, a stop saves its frames |
| Capture runtime `runtime.py`, `transports.py`, `playback.py` | source, receive thread, active recording, drop counter and baseline, `recent` | connect, disconnect, start and stop recording; the receive loop | API threads and receive threads between short lock sections; the join that may give up | a recording called complete is; one receiver; every open recording can be stopped |
| Orchestrator `orchestrator.py`, `session.py` | the session, the endpoint, the DoIP proof | connect, identify, learn, disconnect | coroutines that await under a lock, routes that bypass it | readiness rests on an exchange with the bound endpoint |
| Health and production gate `health.py`, `production.py` | none | evaluate | read state of three components | as above |
| Profile registry `profile_distribution.py` | profiles, active versions, assignments, peer state, bundle files | import, assign, synchronize | a database and a directory to keep in step; two processes; kills | the active version is the newest; a recorded catalog is installed |
| HTTP gateway `http_security.py`, `secure_app.py` | sessions, idempotency cache | login, logout, expiry, reserve, complete | awaits between check and use; eviction; duplicates | a key runs once, a replay is one's own |
| Intent broker and audit log `intent_broker.py`, `audit_log.py` | intents, events | enqueue, update, append | two locks in turn, failures between them | terminal states stay, changes are logged |
| Passive ISO-TP `isotp_passive.py` | open streams | consume, expire | frames missed and late, keys that interleave, the 4-bit sequence | a message given out is one that arrived whole |
| Shared-memory ring `dataplane.py` | slots | publish, read | a writer that laps the reader or dies inside a slot | no torn sample |
| DoIP client `doip_transport.py` | socket, what it has not read of it | connect, prove, read, close | late answers, alive checks, refusals | an answer belongs to its request |
| Live decoder `live_decoder.py` | latest values | feed, snapshot | multiplexed messages, staleness, a bound on the values | what is shown as fresh is of one frame, the newest |
| Research store `research_context.py`, `field_api.py` | immutable documents, events | put, seed, add event, compare | requests that each open a store of their own; a seed cut short | what was answered as stored is stored, once |
| Training commands `learning_cli.py` with `training.py`, `learning_dataset.py`, `learning_provenance.py`, `model_registry.py` | the provenance registry's file, a checkpoint and its sidecar; in a command the epochs so far | train, register dataset, register model | overlapping commands on the same files; kills between the checkpoint and its sidecar; losses that are NaN | windows are histories; the best epoch is saved; a model has its datasets and its own metadata |
| Update staging `update_staging.py` | `state.json`, artifacts | stage | kills between and inside the two writes | what is staged is what the state names; no rollback |
| Tuning `tuning_core.py`, `tuning_artifacts.py`, `tuning_api.py`, `tuning_cli.py` | none between requests | parse, decode, patch, diff, export | formats with their own ideas of an address, rounding, overlaps | a patch changes what was asked for and nothing else; a file reads back |
| Bundles and catalogs `profile_distribution.py`, `main.py` | archives and catalogs at a path | create, verify, import, sign, publish | files replaced between two looks at them; two SELECTs | what is signed is what is installed; what is published, peers accept |
| Perception and planning (shadow) `autonomy/`, `autonomy_api.py` | tracks, a feature memory, their clocks | step, reset, plan, score | requests that interleave unlocked; weights that must dominate others | one object is one track; stop outside the design domain; no gain buys a collision |
| Case selection `autonomy/data_engine.py` | none | score, select, benchmark | limits and ties | nothing harder is left out |
| Laboratory reports `communication_lab.py`, `startup_comm_lab.py` | none | simulate, analyse | faults between samples, events in any order | a report shows what is in its input |
| Interchange `interchange.py`, `large_interchange.py`, `mf4_interchange.py`, `main.py` | the recording being written | export, import | texts that lose what their format has no place for; files replaced or broken off | what is read back is what was recorded; complete means whole |
| OpenClaw `openclaw.py` | none | authorize, execute | - | a decision table |
| Passive analysis, OEM tables, numerical code, other routes | none of their own | - | - | out of scope, see section 7 |

How they interact: a route of `api.py` runs in a thread pool or as a coroutine.
It calls the orchestrator, which calls the runtime, or it calls the runtime
itself. The runtime's receive thread appends to the store. `health.py` and
`production.py` read the session and the runtime. In the secured server each
route is behind the gateway's middleware, and the intent routes end in the
broker and the audit log. The profile registry, bundles, catalogs, the training
commands and large transfers run in command-line processes only, which meet in
their files. The autonomy routes share one planning world and one memory; the
research routes share a database and nothing else.

## 2. Modules

`CaptureLog` is an abstract specification; every other module below is
translated from the code. An operator whose comment begins with `Slip` is not
part of a model: it is a mistake that the operator after it could have been
written with, kept to show that the properties notice it.

**RecordingStore** (`storage.py`). Each operation is under one lock, so it is
one action. `live` is what the connection sees, `durable` what is committed;
`pending`, `sinceCommit` and `nextSeq` are `_pending`, the clock since
`_last_commit` and `_next_seq`. `FlushLocked` is `_flush_locked`, with its
threshold, its interval and its force flag. `Faults` says what may go wrong: a
commit raises and leaves the transaction open, or an `executemany` raises with
rows inserted. `Restart` is a kill, or a close, followed by a new
`RecordingStore`. **CaptureLog** is what the store promises: a list of
append-only logs and a saved copy that is always a whole earlier state of it.
The store implements it (`ImplementsLog`) under the mapping `LogsOf`, which
reads the rows of each table in order of their numbers.

**CaptureRuntime** (`runtime.py`). A block under `Runtime._lock` is one action,
and so is each piece of code between two such blocks. A client is an API thread
on its way through `_connect`, `disconnect` or `stop_recording`:
`TakeRecording`, `StoreStop`, `DropSource`, `CloseSource`, `JoinReceiver`,
`InstallSource`. A receive thread is on its way through `_loop`: `LoopTest`,
`ReadFrame` / `ReadNothing` / `ReadFails`, `CopyDrops`, `Ingest`,
`EndReceive`. Sources number the frames on their wire, so a loss shows as a
hole. The store is reduced to the frames each recording has been given.

**Orchestrator** (`orchestrator.py` with `health.py` and `production.py`).
Coroutines under one lock: what runs between two awaits is one action. A
runtime call is one step here; `CaptureRuntime` has its inside. `ApiConnect`
stands for the routes that change the source without the orchestrator.
`CommunicationProven` and `VehicleReady` are what the gate and the health
report compute.

**ProfileRegistry** (`profile_distribution.py`). Processes that each run one
operation of the registry. A SELECT, a copy and a transaction are steps of
their own; a process may be killed between any two. A synchronization runs an
import for each bundle it misses, each assignment in a transaction, and then
records the catalog.

**SecurityGateway** (`http_security.py`), **IntentBroker**
(`intent_broker.py`, the append of `audit_log.py`) and their composition
**ApiService**: a request is admitted, reserves its key, runs one route, and
the gateway keeps or loses what the route answered. A restart empties the
gateway and leaves the databases. `dropped` is a history variable: the keys the
cache no longer knew at some time.

**SequenceWindows** (`autonomy/learning_dataset.py`,
`autonomy/training_contracts.py`) has the history windows of a manifest as pure
operators; `Histories` is the reference definition they are compared with.
**LearningCli** (`learning_cli.py` with `autonomy/training.py`,
`autonomy/learning_provenance.py` and `model_registry.py`) extends it with the
commands: one process each, which trains epoch by epoch (`Epoch`, `Fitted`),
replaces the checkpoint (`Save`), writes its sidecar in place (`OpenSidecar`,
`WriteSidecar`), reads the registry once (`Load`) and overwrites it
(`RegisterDataset`, `RegisterModel`); between these it reads the checkpoint's
digest and its sidecar (`Digest`, `Describe`). A stamp stands for a digest. A
command may be killed anywhere (`Abandon`).

**Parts that share no state with the rest** have a module each, with a
next-state relation of its own; `MCParts` puts them side by side (section 3).

*On the vehicle's side.* **IsoTpAssembler** (`isotp_passive.py`): a sender per
key, frames that the listener misses or gets late; `received` is a history
variable, the messages that arrived whole. **SharedMemoryRing**
(`dataplane.py`): slots are written and read word by word, in any order, by a
writer that may lap the reader; the reader's two looks at the header are steps
of their own, and it asks for any number, the one being written included.
**DoipClient** (`doip_transport.py`): a gateway that answers late, after any
number of pending answers (0x78), unasked, or not at all, a socket that keeps
what was not read, and `prove_readonly_session`, which opens a connection of its
own. **LiveDecoder**
(`live_decoder.py`): values that age, are refreshed by the frames that carry
them and are thrown out for room. **UpdateStager** (`update_staging.py`): the
artifact is replaced in one step, `state.json` emptied and then written.

*Perception and planning.* **HybridPlanner** (`autonomy/hybrid.py`) and
**PlanningWorld** (`autonomy/planning_world.py`) are pure operators in integers
whose units make the motion exact: from objects, paths and wishes to the
trajectory that is selected, and from cameras, lanes and policies to the
candidate that is shown. **TemporalWorld** (`autonomy/temporal_world.py`,
`temporal_memory.py`) is the tracker and the memory as what the steps of a call
make of their state. **AutonomyService** (`autonomy_api.py`) composes them as the
routes do: a request is the sequence of its looks at the shared world and memory,
and requests interleave, inside the tracker's `update` too. There, finding a track
for a detection (`Associate`), writing it (`TakeUp`) and ageing one track (`Age`)
are steps; a loop over tracks that come or go may break off (`BreaksOff`). Two
coarsenings are left: all that is written of one track is one step, and so is
the choice of a free name. A track that has been replaced under its name is taken
for the one it was.

*Research and workshop.* **ResearchStore** (`research_context.py`,
`field_api.py`, the seed of `all_terrain_research.py`): a request looks a
document up, inserts it and logs it, in three steps, in a store of its own; the
process may be killed anywhere. **TuningWorkspace** (`tuning_core.py`,
`tuning_artifacts.py`, `tuning_api.py`, `tuning_cli.py`): images, maps, patches
and the three file formats as operators; each request or command is one action.
**HardCases** (`autonomy/data_engine.py`) and **FaultLab**
(`communication_lab.py`, `startup_comm_lab.py`): what a request gets for its
answer, compared with reference definitions.

*Exchange.* **BundleExchange** and **FleetCatalog** (`profile_distribution.py`,
`main.py`): bundles and catalogs are files at a path that processes create,
verify, replace and read in several looks; `ProfileRegistry` has the tables
behind them. **FrameFormats** (`domain.py`, `interchange.py`, `api.py`): a
recording written as candump, JSON lines or CSV and read again.
**CaptureTransfer** (`large_interchange.py`, `mf4_interchange.py`, `main.py`):
Parquet and MF4 files read twice by an import, once for their size and once for
their frames, and written group by group by an export; `RecordingStore` has what
the store commits and when.

## 3. Runs

| Run | Instance | Shows |
|---|---|---|
| `store` | threshold 2, interval 1, batches of 2, two recordings of 2 frames, all faults, restarts anywhere | `GapFree`; `LossBound` and `QuiescentIsDurable`, both until a write fails and again from the next commit on; the refinement `ImplementsLog`, which has no frame lost but by a restart and no stop durable before its frames |
| `runtime` | one client, two connections, two recordings, three wire positions; the store may raise | `CompleteIsContiguous`; `OneConnectionAtATime`; `RequestsReturn` |
| `runtime_two_clients` | two clients, two connections, joins that may give up | `OpenIsOwned`, `StoppedIsFinal` |
| `registry`, profiles | one process, one pack in three versions with one signed twice, five catalogs | `InstalledHasFile`, `ActiveIsNewest`, `UsedIsInstalled`, `PeerOnlyForward`, after any failure or kill |
| `registry`, research | two researchers, a seed of two documents, one of which a route puts with other contents; contexts of two recordings that weigh alike or differ, two of them for one recording | `AnsweredIsStored`, `ReportsAgree` |
| `learning` | two commands, two manifests of one name, one model, three epochs with two losses and NaN, two checkpoints | `WindowsAreHistories`, `BestIsSaved`, `ModelsAreGrounded`, `EntriesStay` |
| `api` | three requests, two sessions, a cache of one entry, entries that live for one tick | `OncePerKey`, `AnswersAreOwn`, `HistoryIsSound` |
| `parts` | sixteen parts, below | what each is to keep, below |

`OneConnectionAtATime`, `ProofsAreOwn`, `AnswersAreOwn`, `UsedIsInstalled`,
`ModelsAreGrounded` and `HistoryIsSound` are conjunctions of named parts, each
stated and explained in its module; the type invariant of a module is one of
them, or is proved (section 5).

The bounds are the least at which the interesting cases happen: a batch that
crosses the threshold; two recordings open at once; a connection that replaces
another; a hole of one frame between two recorded ones; a duplicate that comes
before, during and after the request it repeats, and after its entry was
evicted or expired; a catalog with the sequence of another one; a recording
with a gap, two samples at one time and a change of cameras; a loss that is NaN
before, between and after others; a checkpoint replaced between the two reads of
a registration; a report that has read one context when the other is put. Two wire positions would not do for `CompleteIsContiguous` (a
hole needs three), and one version would not do for `ActiveIsNewest`.

### The parts

`MCParts` explores each part by itself: `part` is chosen in the initial state,
and all the others stay as they begin. So the states add up and do not multiply,
and a property of one part is not weakened by another. Callers are threads that
nothing tells apart, which is the symmetry (as researchers are in `registry`, where
`MCRegistries` puts `ProfileRegistry` and `ResearchStore` side by side in the same
way). Modules whose
requests keep nothing (planner, world, tuning, cases, laboratory, formats)
answer one request per behaviour, over every input of the instance.

| Property | Part | Instance |
|---|---|---|
| `ProofsAreOwn` | `Orchestrator` | two workflows, two endpoints: one is bound, or proven, while the other is asked for |
| `AssembledAsReceived` | `IsoTpAssembler` | two keys, messages of 1, 3, 4 and 5 frames of which at most 4 fit, sequence numbers modulo 3, two frames missed in a row; the number wraps within a message. With messages of two frames the property fails (below) |
| `AcceptedIsWhole` | `SharedMemoryRing` | two slots of two payload words, five samples: a read may be lapped once and twice, and may ask for a sample that is being written or still to come |
| `AnswersOwnRequest` | `DoipClient` | three requests, two packets unread: a pending answer and the final one, or one of them and an alive check |
| `FreshIsNewest` | `LiveDecoder` | a multiplexed message and a plain one, room for three of their five values |
| `StagedIsRecorded` | `UpdateStager` | two roles, three versions |
| `StopsOutsideOdd` | `HybridPlanner` | scenes: standing to fast, five sets of objects, lanes and model paths that agree, disagree, bend or are missing, stale worlds and models |
| `RiskIsNotTraded` | `PlanningWorld` | frames with none, two or three policies, two of one name among them, and two lanes |
| `OneClockDecides`, `TracksAreDetections` | `AutonomyService`, `TemporalWorld` | two callers, three requests; looks in order, at one time, backwards, malformed before and after the world has seen them; cars that cross; updates that overlap step by step |
| `PatchIsExact` | `TuningWorkspace` | two pages of four bytes, bytes below 4, files in all three formats, with both kinds of extended addresses, and segments that touch a page's end and the top; maps of one and two bytes, both byte orders, signed, with negative factors, that overlap |
| `InstalledIsSigned`, and `CreatedVerifies` of every order | `BundleExchange` | two creators, two versions, two key pairs of which one is trusted; evidence in a file that is too large, and in one that only a sum of files may reach |
| `PublishedIsAcceptable` | `FleetCatalog` | two exports, two versions of one profile and another profile, one vehicle |
| `NothingBetterIsLeft` | `HardCases` | up to four of five moments of a drive; two candidates over six paths, with points before the start, out of order and missing |
| `ReportsAreSound` | `FaultLab` | two faults of four kinds that begin and end between samples, at two rates of which one does not divide the second; all orders of three or four events |
| `TextsAreKept` | `FrameFormats` | up to two frames of five sorts, and three lines of other programs; three frames may be imported |
| `TransfersAreWhole` | `CaptureTransfer` | six files, whole, broken, too long; two imports, files replaced twice, batches of two |

Bytes, pages, sequence numbers and widths are scaled down where a property needs
their limits to be met; each scaled constant is named for what it stands for.

### Disagreements between the code and what is said of it

Each has a run in which TLC finds the counterexample, and a finding in
`PROJECT.json` with the quotation.

- `runtime_drops`: the last block of a `disconnect` clears the drop baseline of
  a recording that another request has started meanwhile. Its stop then reports
  it complete, with a hole. The same block clears `source_kind`, so that a
  recording may even be started on a replay, which `start_recording` refuses.
- `orchestrator_exchange`: `diagnostics_read` becomes true although the probe's
  answer was no UDS exchange, against the docstring of
  `connect_doip_endpoint`.
- `orchestrator_simulator`: `POST /api/connect` puts the simulator under a
  ready SocketCAN session, and its frames then prove the vehicle, against
  `REPAIR_STATUS.md`.
- `tuning_overlap`: the documentation says that overlapping edited maps are
  rejected; an edit that changes nothing leaves no region to overlap, and another
  one may undo it.
- `registry_rollback`: two `profile import` processes that overlap leave the
  older version active, against the test and the survey document that say the
  active profile never goes back.

Weaker points, visible in the models and without a run: on a bus that falls
silent frames stay uncommitted past `max_commit_interval_ms`, because only an
append looks at the clock; an `append_frame` that raises ends the receive thread
while the runtime still says it is connected (`ConnectedIsReceiving` excepts
that thread); a join that gives up lets a last frame of the old connection into
the new one's `recent` and recording; while a second endpoint is being proven,
the production gate takes the first one's proof for it; with two processes on
one registry, the refused insert of a bundle both import takes its file away,
and of two synchronizations the older may be the one recorded last; of two training
commands that overlap the later one overwrites the other's registry entries
(`EntriesStay` excepts it); `train` goes on when its dataset's name is entered
with other contents; `evaluate` never compares a checkpoint with the digest in
its sidecar.

In the parts: the DoIP client, and the proof it gives, are called bounded, but only
each `recv` has a timeout: a gateway that goes on sending what `connect` and
`read_uds` pass over keeps a call for ever, and with it the orchestrator's lock; a
ring buffer's next payload is written before its number, so that a reader in between
accepts words of two samples, which `test_shared_memory_overwrite_detection` does
not reach (`AcceptedIsWhole` excepts a writer one lap ahead); sixteen consecutive
ISO-TP frames missed in a row go unnoticed, because the number wraps, and so may
two: the end of one message and the first frame of the next, of which the second
frame then has the number waited for, so that one message is put together from two
(`IsoTpAssumption` rules both out; it admits any single missing frame, and longer
gaps only where the lengths of the messages let the number tell them); a duplicate
name shows a policy with another one's evaluation (`RiskIsNotTraded` excepts it); a
step that the memory refuses has already moved the world's clock; two updates of the
tracker that overlap may take one track for two detections, age one that was just
seen, or break off with an error (`TracksAreDetections` judges an update that was
alone with the tracks from its first look to its last); a sample asked for before
`publish` has returned its number may come with the timestamp, the flags and the
length of the one before it in the slot, which cuts its payload (`AcceptedIsWhole`
excepts just these words); after a pending answer the final one is what the next
read of the connection returns (`AnswersOwnRequest` excepts reads after it, and
after one that raised; proofs cannot be affected); a map's bounds are tested before
rounding, so that a candidate may lie half a step beyond them (`PatchIsExact` states
just that much); the upper address of an Intel-hex export wraps past the top;
`training-manifest` does not take the limit per fingerprint that its body offers; a
creation or an export that fails unlinks whatever is at its output path by then; the
count a Parquet import was announced with is never compared with what it read; the
step between voltage samples is truncated, so that the last ones come early.

## 4. Fairness

Only `runtime` checks liveness. It assumes weak fairness of every receive
thread and of every request under way, but not that anyone makes a request:
operating-system threads are scheduled, and `source.read` comes back within its
0.25 s timeout, so the thread always reaches the test of `running`. The DoIP client
and the orchestrator have no liveness property: whether a call returns, and with it
the lock that is held across it, depends on what the gateway goes on sending, of
which nothing may be assumed. All other properties are safety properties and assume
no fairness.

## 5. Proofs

Eight modules hold the theorems. Five are about the component they are named
after; `PartsProofs`, `RoutesProofs` and `AutonomyProofs` take several parts one after
another. Each argument is the same: an invariant that a step keeps by itself, proved
action by action, and the property as its consequence. What makes each invariant
stronger than the property is the point of the proof.

`RecordingStoreProofs`: for every threshold, interval, bound and set of faults,
from `StoreAssumption` alone (the constants are numbers, the threshold and the
interval positive).

- `TypeCorrect`: `Spec => []TypeOK`; `Invariance`: `Spec => []IInv`
- `NumberedWithoutGap`: `Spec => []GapFree`
- `FramesHaveRecordings`, `CommittedIsKept`, `StopSaves`: no frame without its
  recording; what is committed stays; a durable stop has its frames
- `LossIsBounded`: `Spec => []LossBound`, and `QuiescentSaved`:
  `Spec => []QuiescentIsDurable`, both of which say nothing from a failed write
  to the next commit
- `StoreImplementsLog`: `Spec => ImplementsLog`

`GapFree` is not inductive: an append takes its number from `_next_seq`, not
from the table. `IInv` therefore adds to the types that the rows of each
recording are numbered `0..n-1`, with `_next_seq` either unknown or at most
`n`, and that what is committed is part of what the connection sees. A
`_next_seq` below `n` is what a failed batch leaves; the primary key then
refuses every append, which keeps the numbering and is the reason why the
invariant can be this weak. The argument goes in two halves: every operation
but a restart only adds to the live tables and commits one of the states they
go through (`NextGrows`), and that keeps `IInv` (`GrowingKeeps`); a restart
makes the committed tables the live ones (`RestartKeeps`). The two theorems on
loss rest on `SavedIsCounted`: without a failed write each uncommitted row is
counted in `_pending`. The refinement needs `GapFree` too: only because rows are
numbered from 0 on does reading them in the order of their numbers give a log to
whose end an append adds (`FramesRead`, `BatchRead`). Then each of the store's
steps maps to a creation, an append, a close, a save or a crash of `CaptureLog`,
or to none (`StepMaps`).

`CaptureRuntimeProofs`: for any number of clients, connections, recordings and
frames, whether or not joins give up, from `RuntimeAssumption` (the bounds are
numbers, `None` is none).

- `TypeCorrect`: `Spec => []TypeOK`; `Invariance`: `Spec => []IInv`
- `OpenStaysOwned`: `~StorageMayFail /\ Spec => []OpenIsOwned`
- `StoppedStaysFinal`: `Spec => StoppedIsFinal`, also when the store raises
- `ConnectionIsOne`: `OneByOne /\ Spec => []OneConnectionAtATime`
- `CompleteMeansContiguous`: `OneByOne /\ Spec => []CompleteIsContiguous`

The types alone need `Bound`: whoever holds a number of a source or a recording
holds one that exists, and a source has dropped no more than its position. That a
stop is final needs `Held`: a recording that is not the runtime's is in the hands
of one client at most, and as long as anyone has it, it is open. Without the
first half two clients could stop it twice, without the second a frame could
follow. `OpenStaysOwned` needs the store not to raise, because a stop that fails
leaves the recording open with nobody to try again; the code has no such retry.

The last two theorems say in their statement under what they hold: `OneByOne`,
requests one at a time and joins that do not give up. Both fail without it; the
run `runtime_drops` shows it for the second. `Lone`, the invariant they add, says
where the receive thread is in the life of its source: that the two belong
together (`Attached`), that a thread that is not the connection's has a client
waiting for it (`Alone`), and that the drop counter of the runtime has what the
source had dropped when the thread last looked (`Followed`). From that each frame
that is recorded either follows the last one or follows frames that the counter
will show, so that a stop which finds the counter at its baseline finds no hole
(`ContiguousGrows`).

`ProfileRegistryProofs`: for any number of processes that share the registry,
and any bundles, vehicles and catalogs, from `RegistryAssumption` (what the
verification of bundles and catalogs guarantees of them).

- `TypeCorrect`: `Spec => []TypeOK`; `Invariance`: `Spec => []IInv`
- `UsedStaysInstalled`: `Spec => []UsedIsInstalled`
- `FilesStayInPlace`, `NewestStaysActive`: `OneProcess /\ Spec => []InstalledHasFile`
  and `[]ActiveIsNewest`
- `PeerGoesForward`, `ActiveGoesForward`: `OneProcess /\ Spec => PeerOnlyForward`
  and `ActiveNeverRollsBack`

The run checks `UsedIsInstalled` with one process, the proof covers several. A
catalog being recorded says nothing by itself of its bundles, so `IInv` follows
each process through its synchronization (`Progress`): what it no longer misses
of its catalog is installed, and before it assigns or records, all of it. Other
processes cannot undo that, because `import_bundle` only ever adds rows. The
other four are not invariants of several processes (section 3, where
`registry_rollback` violates the last of them), and their theorems say so:
`OneProcess` is that there is one at most. What two processes break is `Current`:
that an import between its SELECT and its transaction still has the active
version it read, and that nobody has taken the file it has put in place.

`ApiServiceProofs`: for any number of requests, sessions, keys and intents and
any capacity and lifetime of the cache, from `GatewayAssumption` and
`IntentsAssumption` (numbers, of which the capacity and the lifetime are positive).

- `AnswersStayOwn`: `Spec => []AnswersAreOwn`
- `KeysActOnce`: `Spec => []OncePerKey`
- `HistoryStaysSound`: `Spec => []HistoryIsSound`

An answer that is replayed comes from an entry of the cache, so `GatewayInv` says
of each entry that its request has come and, if it holds an answer, has been
executed, and that no key has two entries. It also has to survive what the cache
does to itself, for which `Selects` says what filtering a sequence leaves
(`KeptInOrder`); it is proved by induction over its length. The
library's induction theorems take an operator as a parameter, which the provers
cannot instantiate; `Induct` states the same of a set, from the well-foundedness
of `<`. `OnceInv` is the heart of `KeysActOnce`: two requests whose routes
have begun have different keys, or the cache has lost the key in between; with
`BrokerInv`, in which every change has the one request that made it, a key stands
for one change. `BrokerInv` also has the place of each handler between its change
and its log entry.

`LearningCliProofs`: for any number of commands, manifests, models and epochs
and any losses, from `LearningAssumption` (manifests are valid and finite, losses
are numbers or NaN) and `WindowAssumption` (steps, stride and gap are positive).

- `TypeCorrect`: `Spec => []TypeOK`
- `ModelsStayGrounded`: `Spec => []ModelsAreGrounded`
- `BestStaysSaved`: `Spec => []BestIsSaved`
- `EntriesAreKept`: `Spec => EntriesStay`
- `WindowsStayHistories`: `Spec => []WindowsAreHistories`

The last one compares the code's sorted list and slices with `Histories`, which has
neither. That a finite set of samples can be sorted at all is an induction over its
size (`Sortable`: aside from one sample, the rest is sorted, and the later of the
one and their last is the last of all), so `Ordered` is the recording without a gap
in it (`OrderedSorts`). A slice of it passes nobody over (`WindowsAre`); and a
history begins somewhere in it and, as nobody is passed over, goes on with the next
sample each time (`HistoriesAre`).

A command overwrites the registry with a copy it read long before, so `IInv`
demands of each copy what it demands of the file (`Sound`); the two ways a copy
grows keep it (`DatasetEntered`, `ModelEntered`). `Progress` says what a command
has read when it enters a model, and that `best_epoch` is the best of the epochs
so far (`EpochKeepsBest`).

`PartsProofs`, each for any values of the constants:

- `ProofsStayOwn`: `Spec => []ProofsAreOwn`, of `Orchestrator`, from
  `OrchestratorAssumption` (`None` is no name and no proof). `SessionIInv` adds what
  each workflow has left behind while it awaits (`Awaiting`): the lock is its own,
  so the session it comes back to is the one it left, although the runtime may be
  another. The lock makes `Awaiting` hold for one workflow at a time, which is why
  the two lemmas about entering and resuming cover all actions.
- `AcceptedStaysWhole`: `RingSpec => AcceptedIsWhole`, from `RingAssumption` (two
  slots or more). `Written` says of each word of each slot which sample it belongs
  to: that of the last `Slots` samples the writer has come to, for that word. It
  needs two facts of arithmetic (`Apart`, `Lap`): samples less than a lap apart are
  in different slots, samples a lap apart in the same. `PayloadFirst` that the
  header of a sample is written after its payload, so that a number which stands in
  its slot vouches for the payload but not for the rest of the header. `Copying` says
  that what a reader has copied is its sample until the writer is a lap ahead, but
  for the header if it came early; once the writer has passed the slot's sequence
  number, `Written` makes the reader's second look fail.
- `StagedStaysRecorded`: `StagerSpec => []StagedIsRecorded`, without an assumption.
  A `state.json` that has been emptied says nothing, so the invariant demands of the
  state that a stage has in hand what it demands of the one recorded, and that the
  artifact it will name is in place before the file is emptied.
- `PublishedStaysAcceptable`: `CatalogSpec => []PublishedIsAcceptable`, without an
  assumption, for any number of exports, profiles and vehicles.
- `AnswersStayApart`: `DoipSpec => AnswersOwnRequest`. The client takes the first
  answer that comes as its own, so the invariant is about what may still come
  (`NothingElsePending`): on a connection on which every earlier read got its final
  answer, nothing is owed or under way but what answers the request waited for, any
  number of pending answers and after them the final one. A proof has such a
  connection (`ConnectionOfItsOwn`).
- `AssembledStaysReceived`: `IsoTpSpec => []AssembledAsReceived`, from
  `IsoTpAssumption`. `Follows` says of each key that what is collected is the
  beginning of one message, and where the sender has come since: it is still at
  that message, ahead by the frames just missed, or at a later one, and then the rest
  of the one and the start of the other were all missed in a row. The assumption
  makes the next number wrong in both cases. That is where the proof found the
  assumption too weak: a bound on the burst alone does not exclude a message put
  together from two (section 3).
- `FreshStaysNewest`: `DecoderSpec => []FreshIsNewest`, without an assumption the
  proof needs but that ages are numbers. Active values are of the last frame of their
  message, stale or not, and a signal has one value: what is thrown out cannot break
  either, what is stored could, if the values a frame does not carry were not made
  passive first.

- `InstalledStaysSigned`: `ExchangeSpec => []InstalledIsSigned`, from
  `OrdersAssumption` (evidence is given as a list). Whoever packs a bundle anew may
  leave out, repeat or change members but not make a signature, so every signature
  at the path is one that was made (`IsArchive`, kept by each of the ways of
  packing); `ReadIsSigned` carries what an import has verified from its reading to
  its copy, as long as the path was not given another bundle. That what is verified
  holds the listed files and nothing else (`VerifiedIsBundle`) rests on the two
  checks together: no member twice, and the members are exactly those listed.

`RoutesProofs`, likewise:

- `LoggedStaysStored`: `ResearchSpec => []AnsweredIsStored`, and
  `ReportsStayInAgreement`: `ResearchSpec => []ReportsAgree`, for any
  researchers and documents, from `SeedAssumption` (the seed is a sequence and not
  empty). `Putting` follows a request: what it no longer brings is stored, and the
  sources of what it is about to insert are; `Comparing`, that what it has read of
  a context is still stored, and that it has not missed one that was stored when it
  began. Rows are only added, one to a key, so others cannot undo either, and two
  reports have found the same contexts (`FoundAgree`), which weigh the same either
  way round (`ScoreIsSymmetric`).
- `TransfersStayWhole`: `TransferSpec => []TransfersAreWhole`, for any files and
  any limits, from `FilesAssumption` (files are sequences of groups of rows, the rows
  of an MDF file have their fields, a batch is not empty). `Reading` says of an
  import that the file it opened is what it has appended, what is in its batch and
  what is left, one after another; so a batch that is lost costs the end and never
  the middle. That every frame recorded is one that `Frame` accepts is a lemma
  about the conversion (`RowFrame`), that what a file holds is a sequence of such
  frames one about `FlattenSeq`, by induction (`FlattenTyped`, `Induct`).

`AutonomyProofs`: for any callers and bodies, from `BodiesAssumption` (times are
counted from 0, detections are a list, and each has a confidence).

- `OneClockStaysFirst`: `AutonomySpec => []OneClockDecides`

`OneAtATime` says how the three clocks lie while requests do not overlap: neither
of the later ones is ahead of the first, but between the two halves of a reset.

- `StopsWhenOutside`: `HybridSpec => []StopsOutsideOdd`, for any scenes, from
  `ScenesAssumption` (numbers are numbers and a confidence lies between 0 and 100
  per cent, as `_path_confidence` clamps it)

Every trajectory runs along a path and changes its acceleration by no more than it
may (`OnwardIsAlong`, `FollowingIsAlong`), so that each term of its score is bounded
whatever is around it (`MeanIsBounded`, `ProximityIsBounded`, `ScoreIsBounded`): a stop
scores at most 93.6 with a reference path within 50 m, any other candidate at least
100 (`StopScoresLess`). What a definition by recursion computes over the 25 points, or
the 15 bits of a root, is found by induction in the form of sets (`Unrolls`, `Stays`).

- `RiskStaysWithFallback`: `PlanningSpec => []RiskIsNotTraded`, for any frames, from
  `FramesAssumption` (that of scenes, and confidences between 0 and 100 per cent,
  as `_candidate_from_dict` and `normalize_camera_detections` clamp them)

The evaluation with the least score is shown, so its risk exceeds the fallback's
by no more than what all other terms of the fallback's score add up to, since its
own are not negative. The fallback is a trajectory of the planner, which bounds
them: clearance by 20, lane keeping by 0.25, comfort by 0.4 and confidence by 1
come to less than the 22 that a risk of 0.22 costs. With candidates that bear one
name the trajectory shown may be another one, which is why the property excludes
them.

- `TracksStayDetections`: `AutonomySpec => TracksAreDetections`, for any bodies and
  any callers, whose steps interleave in any way

The property speaks of an update that ends without another request having changed
a track since it began; the invariant, `WorldIInv`, has to follow it there through
the steps of all the others. As long as it is alone, `TakesAlone` holds of it: the
names it has used are tracks seen at its time, one for each detection it has taken
up, what it has found for the next one is free (`ChoiceIsFree`: a track that none
went to, or a name that is not in the world, by `NamedIsNew`, since one of more names
than there are tracks is unused), and what it has aged was seen recently enough. A
step of another request leaves the tracks as they are or ends its being alone
(`OtherLooks`), which is what the history variable is for. What a step writes of a
track touches no other (`BegunIsWritten`, `ContinuedIsWritten`, `UnseenIsAged`).
`IsWorld`, the little that is needed of the world, is that its tracks are finitely
many; it holds whatever overlaps. That the cameras' detections are fused to a finite
list rests on a fold over a set taking one member after another (`FoldUnfolds`).

- `NothingBetterStaysLeft`: `HardCaseSpec => []NothingBetterIsLeft`, for any bodies,
  from `SelectionsAssumption` (the limits are those `DataEngineSelectBody` accepts,
  numbers are numbers) and `BenchmarksAssumption` (points have their fields)

Both halves are about an answer computed from one body. What is selected is a choice
(`IsChoice`) that each scenario, the hardest first, is put to: it is in order, within
both limits, and whatever was left out met one that was reached, by scenarios that
come before it. `TakenIsChoice` carries this from one scenario to the next, and since
finitely many places have a last one in any strict order (`LastOfOrder`), the fold
of `select` reaches all of them (`SelectedIsChoice`). A trajectory's point at a time
is its earliest, its latest, or lies between two neighbours (`PointIsWhole`), so
equal trajectories are measured as equal (`MeasuredIsSound`), the least of the errors
is there and bears the name of the best (`LeadIsNearest`), and two ends differ by no
more than the greatest distance of a pair (`ApartIsGreatest`).

Only model-checked: `CreatedVerifies`, which compares sums over the files of a
bundle and is evaluated as an assumption of `MCParts`; the answers of requests that
keep nothing, compared with a reference definition over every input of an instance,
by folds or recursion (`PatchIsExact`, `ReportsAreSound`, `TextsAreKept`): a proof
of those would be an induction over each of their sequences and say little more than
the definitions compared; and the liveness property of `runtime`, which is beyond the prover.

## 6. Plan

What is left, in order of worth:

1. `LiveDecoder` attached to `CaptureRuntime`, and `DoipClient` in the place of
   the orchestrator's proof step.
2. `evaluate` and the calibration registry next to `LearningCli`; a storage that
   fails under an interchange import; SQLite's own rollback on a full disk.

## 7. Not modelled

Left out everywhere: wording, JSON, and what a parser refuses before any state is
reached (a bundle, a catalog or a file is one that was accepted, unless its
fields matter, as in `FrameFormats`, `CaptureTransfer` and `TuningWorkspace`);
signatures, which are reduced to who holds which key pair and whether it is
trusted (an export of a catalog with a key its peers do not trust is left out);
roles, CSRF tokens and limits on bodies; the hash chain of the audit log;
what SQLite does to the open transaction on a full disk; failures of the intent
database and of the store under an import; a kill of an export between the
moment its catalog is in place and its verification. Payloads and timestamps are
left out where frames are only counted or ordered.

Perception and planning are modelled in integers, in units in which the motion
of the instances is exact; rounding of floating-point numbers is not. The
learned world and the older planning core, the numerical code of training,
export and evaluation, and the passive statistics keep no state and have no
reference to compare them with but themselves. OEM tables are constants.
Discovery of adapters asks the operating system; parsing of CAN databases is
left to a library in part and to bit arithmetic otherwise. `PROJECT.json` lists
every part with its status, and every hazard with the properties that cover it.

# Formal models of Immich Accelerator

Immich Accelerator runs the worker half of an Immich server, and its machine
learning service, natively on an Apple Silicon Mac while the rest of Immich runs
elsewhere (usually in Docker). This directory holds TLA+ specifications of the
parts of it in which order, failure and concurrency decide whether it is
correct, TLC configurations that check them on small instances, and proofs,
checked by TLAPS, of what holds for every instance.

Paths below are relative to the repository. `__main__.py` is
`immich_accelerator/__main__.py`; `Models.swift` and the other Swift files of the
ML service are in `native-ml/Sources/immich-ml-native/`; the shims are in
`immich_accelerator/hooks/`.

## 1. Inventory

| Component | State it keeps | Operations | Talks to | What is hard |
|---|---|---|---|---|
| **Watch loop** (`_watch_worker`, `_watch_without_worker`, `cmd_watch`) | `backend_down_since`, `media_down_since`, `backend_paused`, `media_paused`, `worker_handled`; `paused.json`, `notice.json` | one cycle every 30 s: backends probe, media probe and remount, media read, fd watchdog, crash check, version check | Postgres, Redis, the mount table, launchd, every command through files and `config.json` | two outages that overlap over one marker; commands and signals between any two steps; a watcher that dies with a pause on |
| **Commands** (`start`, `stop`, `component`, `setup`, `update`) | the start lock, `config.json` | start, stop, switch a component | the same files, in processes of their own | run beside the loop |
| **Process supervision** (`read_pid`, `write_pid`, `kill_pid`, `_signal_service`, `_adopt_live_worker`) | `*.pid` | read, write, adopt, signal a group | `ps`, signals | PID reuse; a pid file rewritten between a read and a removal; who owns a process group |
| **ML reconciliation** (`reconcile_ml`, `_start_ml_preferred`, `_ml_verify_or_fallback`, `ml_port_state`) | the unresponsive timer, the port | start native, fall back to the venv, restart a silent one, adopt | port 3003, `lsof` | one port, two engines, foreign listeners; a cold start that looks like silence |
| **Server build** (`download_immich_server`, `extract_immich_server`, `_follow_server_version`, `_prune_old_server_versions`) | `server/<version>`, shared `build-data` and its stamp, the start lock | fetch, stamp, follow, update, prune | GHCR or Docker | killed half way; one build-data for several servers; a prune beside a fetch |
| **Remount** (`_attempt_remount`, `remount`, `is_mounted`, `library_mount`) | `remount_state`, the recipe in `config.json`, a cache of resolved paths | back off, refuse after an auth failure | `mount` | probes that cannot answer; nested shares |
| **The /build link** (`_ensure_build_link`, `_read_synthetic_conf`, uninstall) | `/etc/synthetic.conf`, `/etc/synthetic.d/immich-accelerator` | write, migrate, activate, remove | `sudo`, macOS at boot | two shared files rewritten whole by commands that fail one by one |
| **Configuration** (`save_config`, `load_config`, `component_enabled`) | `config.json`, `config.tmp` | read, replace | everything | lost updates; a temporary name that all writers share |
| **Self-test** (`_spawn_selftest`, `cmd_selftest`, `add_ml_selftest`, `selftest_due`, `selftest.mjs`) | its result file and its lock | run detached, save, wait for the ML service, save again | the worker's node, the ML service | runs beside one another, releases in between, time-outs |
| **Requeue** (`_auto_requeue`, `requeue_missing`) | `auto-requeue.json` | once a day when idle | Immich's API | partial refusal |
| **Launcher hand-over** (`_move_onto_launcher`, `_upgraded_on_disk`, `stop_all_fast`, `service/main.swift`) | the mark of the last try, the launchd job | move the service under the launcher, forward signals | brew, launchd | failure half way; signals that come too early |
| **HEIC/RAW decode shim** (`heic_decode_shim.js`) | `activeDecodes`, `decodeWaitQueue`, `recentDecodes` | take and give back a slot; stage, decode; share a decode | vips, sips, Sharp, the file system | waits that time out, decoders nobody can kill, entries replaced before their promise settles |
| **Job retry shim** (`job_retry_shim.js`) | `localAttempts` | add attempts, back off | BullMQ | bounded table |
| **Database shims, ffmpeg wrapper** | none beyond a call | rewrite arguments | pg, ffmpeg | (pure) |
| **Native ML service: registry** (`Models.swift`, `GPULock.swift`) | the zoo model, the two towers, ArcFace, times of use | hand out, load, evict | MLX, onnxruntime, request threads | a load of gigabytes outside the lock, a condition variable, eviction beside inference |
| **Native ML service: server** (`Server.swift`) | connections, a slot count | read, time out, answer | Immich | the timer against the handler |
| **Inference code** (`SigLIPNative.swift`, `CLIP*.swift`, `Face*.swift`, `ort_shim.c`) | weights | numeric | | (numeric) |
| **Dashboard, menu bar app** | caches | poll, run commands | all of the above | (presentation) |

What makes them correct, in a line each:

* watch loop: the worker is down exactly while an outage has lasted for the grace;
  it comes back by itself; what `status` says of it is true;
* supervision: a signal only reaches processes that are ours; a healthy service
  never loses its pid file;
* ML: at most one engine of ours on the port, and one in the end;
* server build: `config.json` names a whole build; stale build data is never taken for
  current; pruning spares what runs; the watcher ends up on Immich's version;
* remount: no mount over a mount; a refused password is not tried again; a share that
  can be had is mounted in the end;
* /build link: nobody else's line is lost, and ours stays until it is taken out;
* configuration: an interrupted save is harmless; a saved switch is not undone by
  another writer;
* self-test: a result speaks for its version, and no start passes over a version whose
  checks were not all answered;
* launcher: a stop stops everything; a move that fails leaves the services supervised;
* decode shim: slots are neither leaked nor handed out twice; everybody is
  answered; a shared frame is never of an older file, and is let go;
* registry: one load at a time, nobody sleeps for ever, a failed load costs
  nothing, what is unused is released.

`PROJECT.json` lists the hazards behind these at their lines, and for each the
properties that catch it.

## 2. Modules

| Module | Of | Role |
|---|---|---|
| `PauseWatch` | the watch loop and the commands beside it | specification |
| `PauseWatchProofs` | | theorems |
| `SlotPool` | what the decode semaphore promises | abstract specification |
| `DecodeSlots` | semaphore and decode of the HEIC/RAW shim | specification; implements `SlotPool` |
| `DecodeSlotsProofs` | | theorems, the refinement among them |
| `DecodeReuse` | `decodeOnceForReuse` | specification, over decodes as `DecodeSlots` has them |
| `HeicShim` | | the sum of `DecodeSlots` and `DecodeReuse` |
| `DecodeReuseProofs` | | theorems about `DecodeReuse` and the sum |
| `NativeModels` | the model registry of the ML service | specification |
| `NativeModelsProofs` | | theorems |
| `MLService` | the ML engine of a Mac without a worker: pid file, start and fallback, reconciliation, commands | specification |
| `MLServiceProofs` | | theorems |
| `Supervisor` | the worker's processes: pid file, adoption, start lock, group signals | specification |
| `Launcher` | the launchd job, its launcher, the hand-over and the signals | specification |
| `Worker` | | the sum of `PauseWatch`, `Supervisor` and `Launcher` |
| `ServiceProofs` | | theorems about `Supervisor`, `Launcher` and the sum |
| `ServerBuild` | fetching, placing, stamping, following and pruning server builds | specification |
| `ServerBuildProofs` | | theorems |
| `ConfigFile` | `config.json` and everybody who saves it | specification |
| `Remount` | what the loop remembers of the library's mount | specification |
| `BuildLink` | the two synthetic files and `/build` | specification |
| `SelfTest` | who runs one, its lock, its result | specification |
| `Upkeep` | | the sum of `ServerBuild` and the four modules before this one |
| `UpkeepProofs` | | theorems about those four and the sum |
| `MCPauseWatch`, `MCHeicShim`, `MCNativeModels`, `MCMLService`, `MCServerBuild`, `MCUpkeep` | | instances for TLC |

**Sums.** Components that share no state are checked in one run. A behaviour of
`HeicShim` is one of `DecodeSlots` or `DecodeReuse`; one of `Worker` is of `PauseWatch`,
`Supervisor` or `Launcher`; one of `Upkeep` is of `ServerBuild`, `ConfigFile`, `Remount`,
`BuildLink` or `SelfTest`. The sums leave the constants open, and the `MC` modules with
their configurations give them values. A variable (`half`, `part`) says which one a behaviour is of; the others
are held in one of their initial states, so the states of a sum are the sum of the
states, and each property is the one its module states. `MCNativeModels` has two crews
of request threads in the same way. What joins components, where they do meet, is part
of the module that needs it: `PauseWatch` has the remount as an outcome, `Supervisor`
has the interleavings that `MLService` does not, and so on.

In every module a comment `Mutant of X` precedes variants of a definition that a
plausible bug would give; they show that a property can fail and are used by no
specification.

### PauseWatch

One watcher process, its loop, and the world around it. Variables correspond to
`_watch_worker`'s locals of the same meaning, to the two files, to two keys of
`config.json` and to three facts of the world (backends answer, the library is in
the mount table, a start would succeed). Three more (`silentFor`, `unseenFor`,
`exposed`) are histories that only the properties read.

A cycle is split where another process can act between two reads:

| `pc` | Lines of `_watch_worker` | Actions |
|---|---|---|
| `sleep` | 7513-7559 | `Wake`, `SwitchOff`, `UpgradedOnDisk` |
| `backends` | 7560-7625 | `BackendsDown`, `BackendsBack` |
| `media` | 7627-7680 | `LibraryGone`, `LibraryMounted`, `LibraryUnguarded` |
| `mediaio` | 7681-7721 | `MediaRead` |
| `crash` | 7739-7795 | `FdRestart`, `CrashCheck` |
| `follow` | 7797-7816 | `VersionUnchanged`, `FollowVersion` |

Beside it: `UserStart`, `UserStop`, `ComponentWorker`, `ComponentMl`, `EditConfig`
(commands), `WatcherLaunch`, `WatcherSigterm`, `WatcherCrash` (launchd and the
kernel), `WorkerExit`, `WorldChanges`.

Assumptions, all of them abstractions that keep the control:

* the install has recorded a network mount for its library (the only kind of
  library the media guard acts on) and a media id;
* `cmd_start` holds the start lock, so a call of it is one step; the lock's own
  timeout of 180 s, after which a start goes ahead beside another, is in `Supervisor`;
* preflights, node, sharp and the spawn are one fact, `startable`;
* `_attempt_remount` may or may not bring the mount back; what it remembers
  is in `Remount`;
* `component worker on|off` saves and acts in one step;
* `ParentShare` says whether the library's mount is nested in another network
  share. `ensure_media_ready` treats the two layouts differently.

### SlotPool and DecodeSlots

The worker is one thread of JavaScript, so an action is what runs between two
returns to the event loop, continuations of settled promises included.
`acquireDecodeSlot` is `Call`, a waiter's timer `TimesOut`, `releaseDecodeSlot`
is `Release` inside `End`. Staging, each decoder and the deadline are actions of
their own. A decoder in uninterruptible I/O (`DecoderHangs`) keeps its slot, as
the comment at `heic_decode_shim.js:352` says it does. Under
`held <- Holders, line <- decodeWaitQueue` every step is one of `SlotPool` or a
stutter.

### DecodeReuse

The Map is the sequence of decodes that have an entry, in insertion order;
`timers` are those with a running `setTimeout`. A file has a version (mtime and
size). The frame of a decode may show any version of the file between its begin
and its end. A second open that shares a decode in flight also shares its
failure; the code does so knowingly (the call falls back to Sharp) and no
property forbids it.

### NativeModels

Request threads ask for a model, get it, infer and answer. `zoo(for:)` is one
action per stretch under `zooCond`; `clipVisual`, `clipText` and `arcface` hold
their lock over a first load, so a load is a state others can see
(`building`). The idle timer is `Period` and `evictIdle` one action per lock it
takes. `NSCondition` may wake without a broadcast.

### MLService

Three processes share `ml.pid` and the port with no lock over both: the watcher of
a Mac without a worker (`_watch_without_worker`), a command (`stop`, `start`,
`start --force`, `component ml on|off`), and a reader (`status`, the menu bar).
`at` holds where each is and its locals. Every look at the file, the port or a
process and every effect is a step, so another process can act between any two:

| `step` | Code | Actions |
|---|---|---|
| `read`, `check` | `read_pid`, which continues at `ret` | `ReadFile`, `CheckPid` |
| `kill`, `killWait` | `kill_pid`, which continues at `then` | `Kill`, `KillWait` |
| `attempt`, `stamp`, `settle` | `_start_ml_preferred`, `start_service` | `Attempt`, `Stamp`, `Settle` |
| `healthy`, `fallback` | `_ml_verify_or_fallback` | `Healthy`, `HealthyFails`, `Fallback` |
| `disable`, `judge`, `portWait`, `adopt`, `adoptWrite` | `reconcile_ml`, `adopt_live_ml` | `Disable`, `Ping`, `PortWait`, `Occupied`, `Adopt`, `AdoptWrite` |
| `boot`, `stale`, `startGo` | `_watch_without_worker`, `_start_without_worker` | `Boot`, `KillStale`, `StartGo` |
| `fastStop`, `fastWait` | `stop_all_fast` | `FastStop`, `FastWait` |

Engines are processes that run or are zombies of the actor that spawned them.
They bind the port or exit, crash, fall silent, and exit on SIGTERM unless they
are silent. Time is a `Tick` of 30 s; only `_ml_healthy` waits that long.

Assumptions:

* a native engine is installed and preferred, and the venv is there to fall back to;
* the start time in a pid file tells a reused pid (it can be missing; `Supervisor`);
* `lsof` or `ps` may not tell (`CannotTell`): a start then starts nothing and an
  adoption finds nothing. Otherwise `_our_ml_process` finds any engine of ours for
  this port that runs, whether it holds the port or not;
* an engine that works binds within the grace, and a socket is released within 30 s.

With ml off, `reconcile_ml` stops what the pid file names. `kill_pid` removes the
file seconds after it read it, whoever it names by then, so a switch-off in the
middle of a start can leave an engine with no file; with ml off nothing adopts
it, and it serves on. `ConfigIsReached` therefore only speaks of the tracked
engine in that case.

### Supervisor

What `worker.pid` names and who really runs. Processes have a pid, a group, a time of
birth and a kind (the leader, a child that the scan finds, a helper that it does not, a
stranger). A stop, two starts and `status` act on them; `ps` may fail, a stamp may be
missing or in the words of another locale, a process may hang in the kernel, and a pid
is used again. Reads are one step here; `MLService` has what happens inside them.

A start that waited 180 s for the lock goes on without it, as the code does;
`OneWorker` then claims nothing (`unlocked`), nor where `ps` told nothing (`blind`) or
a stamp that could not be compared was accepted (`onTrust`). When the leader of the
session is dead, the helpers below it survive a stop; `StopTakesAll` says so.

### Launcher

The launchd job: `plist` says what it starts, `job` whether it is loaded, `main` what
runs in it. `LauncherSpawns`, `LauncherForwards` and `Reaped` are `main.swift`;
`MoveOntoLauncher`, `MarkTried`, `AskBrew` and `WaitForStop` are `_move_onto_launcher`
step by step, with the installed version it read at its start (`moving`); `BeginLoop`
and `StartServices` are the beginning of a watch loop; `UpgradedOnDisk` and
`GracefulStop` its two ways out. Until a loop begins, SIGTERM has its default action
(`Deaf`). brew is external: it boots the job out, waits for its end, writes the plist
anew and loads it, and may fail before or between; one `brew services` runs at a time.

Two limits of what the code promises are in the properties as histories: a watcher that
dies before its handlers are set leaves what the previous watcher had started
(`unheard`), and a brew that dies between its stop and its start leaves the job off
(`wanted`).

### ServerBuild

Two processes, the watcher and a person's command, each at a step of one of their
operations; a killed process leaves everything as it was at that step.

| Steps | Code | Actions |
|---|---|---|
| `fetch`, `copy`, `wipe`, `fill`, `sharp`, `swap`, `rename`, `stamp` | `_server_build_for`, `extract_immich_server`, `download_immich_server`, `_finalize_build_data` | `Fetch`, `CopyServer`, `WipeBuildData`, `FillBuildData`, `RebuildSharp`, `RemoveOldServer`, `RenameStaging`, `FinalizeBuildData` |
| `save` | `cmd_update`, `_follow_server_version`, setup | `SaveConfig` |
| `import`, `isharp`, `ibuild` | `_import_server` | `ImportServer`, `ImportSharp`, `ImportBuildData` |
| `lock`, `preflight`, `launch`, `spawn`, `prune` | `cmd_start`, `_prune_old_server_versions` | `AcquireStartLock`, `Preflight`, `Launch`, `Spawn`, `PruneOldServerVersions` |

`FollowServerVersion`, `CrashCheck` and `FollowRetry` are the loop's part. A server tree
has its `main.js` and a Sharp (missing, of Linux, native). Build data has a plugin in some
of the two layouts, and a stamp; of which release a plugin is, nothing in it says and
nothing in the code looks. `CopiedFrom` is the release that a copy out of a container yields:
`docker cp` takes the container by its name, so it is what the container runs by then. An
import takes the tarballs it finds, the build data's of any release, the server's with a
Sharp or without.

`beside` says whether the watcher and a command may be at work at the same time; a behaviour
in which they may has smaller bounds (`MaxBeside`). `WorkerKeepsItsBuild` speaks of both
kinds. The other promises speak of one process at a time: an `update` or a setup and the
watcher share no lock, and `RecordedIsThere` does not hold of the two (run
`ServerBuild_prune`).

Three histories say what the properties leave out: `cut`, directories that were left half
written, half removed or imported without a Sharp; `stray`, that build data was filled with
another release than it was fetched for; `unlocked`, who made its last start without the
start lock (its file could not be opened, or another start had it for three minutes).

Left out: retries against ghcr.io, the WebAssembly fallback of Sharp, a skipped layer of build
data, a half removed plugin. Detection of Immich and the choice of its container are one step.

`ConfigNamesABuild` speaks of the directory in `config.json`, and leaves out the moment in
which that directory is being replaced (`Replaced`). Setup does that. Anybody else does only
after a setup that recorded the version Immich runs beside the directory of another: when
Immich goes back, the watcher follows to a directory that is in use.

### ConfigFile

A writer is at a step with a copy of the file. `Open` truncates `config.tmp`, `Write`
fills it (over what another writer may have put there), `Rename` makes it
`config.json`; a handle stays on the file when its name goes. The watcher loads at the
start of a cycle and may save twice; commands are `component`, `update`, the full setup
and `setup --ml-only`. What a configuration holds is reduced to the two switches with a
meaning for the loop, the preset `ml_only`, whether a worker is described, and two
facts the accelerator finds out (version, mount). `Enabled` is `component_enabled`.
`mishaps` records two saves at once (`overlap`) and a save over one that came after its
load (`stale`).

### Remount

The cycle's media part as `AttemptRemount`, `RemountWorks`, `RemountRejected`,
`RemountFails` and `RecordRecipe`, over a mount table with the library's own share and
one around it. `state` is `remount_state`; `cache` is what `_resolve_for_mount_table`
keeps. `Backoff` counts cycles. `excuse` marks the two cases in which a mount over a
mount is nobody's mistake but the table's: it could not be read, or a person mounted
after it was read.

### BuildLink

A file is the set of its lines; `Foreign` are other people's. `Sudo` is one command that
works, is refused, or is interrupted. `EnsureMigrates` and the `Migrate...` steps are
the migration at `__main__.py:699`, `EnsureAsks` to `Activate` the ordinary way,
`Uninstall` and the `Strip...` steps the removal. `Boot` makes the link of what the
files hold. A rewrite is two steps, the read and the `sudo tee`, and a person may edit the
file between them. `clean` and `undone` are histories: this uninstall has not failed, and
somebody took the entry out.

### SelfTest

Runs begin by a start (`due`), a person or CI; each takes the lock or leaves; the result
is saved, the ML service is waited for, and the result is saved again. A version stands
for the pair of releases that `selftest_due` compares. Probes of `status` take the lock
for a moment, as the code does, and can make a run leave. `passed` and `mlDone` are
histories of what really ran, and `halved` of the versions of which a run made its first
save and not its second. `Askers` says who asks for self-tests.

## 3. Runs

| Run | Bounds | States | Shows |
|---|---|---|---|
| `PauseWatch` (`MCPauseWatch`) | `Grace = 4`; `Supervisor`: 3 pids, 4 births, 1 fault; `Launcher`: 2 upgrades, 2 orders, 2 faults | 641 114 | hold: `WorkerTypeOK`; `FilesTellTheTruth`, `ExposureBounded`, `PauseStaysExplained`, `LoopKeepsWorkerPaused`, `PauseOutlastsGrace`, `WorkerFollowsTheWorld`; `OneWorker`, `SignalsAreAimed`; `HandOverIsClean`, `ServicesReturn` |
| `PauseWatch_explained` | `Grace = 1` | | `LoopStopsExplained` does not hold |
| `PauseWatch_gate` | `Grace = 1`, `ParentShare` | | `StartsOnTheLibrary` does not hold |
| `HeicShim` (`MCHeicShim`) | 3 callers, 1 slot, 2 decoders; 2 jobs, 3 files, 3 promises, Map of 2, 1 change of one file | 66 298 | hold: `ShimTypeOK`; `SlotsAccounted`, `DecodeIsBounded`, `CallsAnswered`, `IsASlotPool`; `FramesAccounted`, `PixelsAreCurrent`, `OnlyItsOwnEventsForget`, `FramesForgotten` |
| `NativeModels` (`MCNativeModels`) | 3 threads over 2 zoo models and ArcFace, or 2 over one model of each kind | 198 291 | hold: `TypeOK`, `LoadsAreSerial`, `ZooModelKept`, `Settles` |
| `NativeModels_mlx` | 3 threads, all models | | `MlxIsSerialized` does not hold: a tower is loaded beside an inference |
| `MLService` (`MCMLService`) | 4 processes, `Grace = 2`, `MCBounds` | 258 855 | hold: `TypeOK`, `JudgedOnItsOwnSilence`, `NothingRunsUntracked`, `ConfigIsReached` |
| `MLService_death` | one crash | | `DeathEndsTheWait` does not hold |
| `Upkeep` (`MCUpkeep`) | see below | 921 153 | hold: `UpkeepTypeOK`; `ConfigNamesABuild`, `CurrentHasItsPlugin`, `WorkerKeepsItsBuild`, `FollowSettles`; `InterruptedSaveIsHarmless`, `EnabledAsAsked`, `FactsReturn`; `AttemptsAreSafe`, `LibraryServed`; `EntriesKeptOrGone`; `ResultIsTrue` |
| `ServerBuild_prune` (`MCServerBuild`) | 1 move, `update`, both at work | | `RecordedIsThere` does not hold |
| `SelfTest_killed` (`SelfTest`) | 1 run at a time and 2 in all, 1 kill | | `NotDueMeansAnswered` does not hold |
| `ConfigFile_stale` | 1 command, 1 move | | `SwitchPersists` does not hold |

Why the bounds are enough:

* `Grace` in cycles of 30 s: 4 is the code's own 120 s, so the run is not a
  reduction. Timers and histories stop counting at the grace, which is the only
  number they are compared with (`ExposureBounded` counts one past its bound). A
  counterexample needs no more than a grace of one cycle.
* three callers and one slot: one decodes and two wait, so a waiter can give up in
  front of another and behind it, and a release finds a queue of two, one and none.
  Two decoders give a chain that can be cut between them. The theorems hold for any
  number of slots.
* three threads and two zoo models: one loads, one waits for the same model and
  one for the other. `TTL` counts runs of the idle timer; one separates "used
  since the last run" from "not used since", which is all that is compared.
* a Map of two entries and three files: a new entry evicts the oldest while the
  other stays. One change of a file is enough for an entry to be replaced while
  its decode is in flight. With three promises one can be kept or shared while
  two are in flight; a promise that was dropped serves again.

* `MLService`: what can go wrong is given by budgets (`MCBounds`): one slow start,
  one silence, one crash, one foreign service and one SIGTERM, with and without a
  reader; one command beside a slow start, a crash or a silence; or inspections that
  do not tell beside a crash, a foreign service and a SIGTERM (two of them), a reader,
  or a command. Each fault can
  fall between any two steps and meet the recovery from another. Four processes
  are enough for these: a start always finds a free one. A grace of two cycles
  separates an engine that loads (one cycle at most) from one that is silent.

* `Supervisor`: three pids are a worker, its child or helper, and one that comes later;
  a fourth birth needs a pid that was used before. One fault (a `ps` that tells
  nothing, a stamp that is missing, a hang) at any step.
* `Launcher`: two upgrades give a move that failed for one release and is asked for
  again by the next; two orders let a person stop or restart in the middle of a move;
  two faults let a failed move meet a crash.
* `ServerBuild` in `Upkeep`: one release of each plugin layout, so every fetch meets
  data of the other layout; an Immich that moves twice goes there and back; two steps
  that fail or processes that are killed, and one command of any kind, with one process at
  work at a time. Where the command may fall between any two steps of the watcher, it is
  one move and one fault: that is enough for a stop, a follow and a start of another
  version between the spawn and the prune of one start. Local and split installs are both
  initial states.
* `ConfigFile` in `Upkeep`: one process of commands beside the watcher, two commands,
  one change of a fact, one fault. Two writers are what a lost update and a shared
  temporary file need; the second command shows what the first left.
* `Remount` in `Upkeep`: the waits are 0, 2 and 3 cycles for the code's 0, 60, 300 and
  900 s, so there is a first, one that grew and a last that stays; two mounts and three faults.
* `BuildLink` in `Upkeep`: one foreign line, two edits by hand, two faults.
* `SelfTest` in `Upkeep`: two runs at a time and three in all, two versions, one
  release, two faults.

No run uses symmetry: each has liveness properties, or is small.

`CHECK_DEADLOCK FALSE` is in `PauseWatch.cfg`, `Upkeep.cfg`, `ServerBuild_prune.cfg`,
`SelfTest_killed.cfg` and `ConfigFile_stale.cfg`. There the system may really stop: a launchd job that was turned
off, a `/build` link nobody touches, a self-test that ended, once the bounds on what
people and faults do are used up. Everywhere else the check is on.

### Fairness

* `PauseWatch`: the loop goes on (`WF` of a cycle's steps: every probe in it has a
  timeout), launchd relaunches a watcher that exited (`KeepAlive`), and a switch
  of the component is acted on. Nothing is assumed of people, of the world, or
  of the watchdogs; the liveness properties are conditional on those falling quiet.
* `DecodeSlots`: Node runs timers; staging races the deadline; `execFile`'s timeout
  ends a decoder that is not stuck. Nothing makes a stuck decoder return.
* `DecodeReuse`: timers fire, and a decode that is not stuck settles, which is
  what `CallsAnswered` of `DecodeSlots` says.
* `NativeModels`: threads run, loads end, the timer goes on. Whoever keeps trying
  for a lock gets it in the end (strong fairness of the steps that need one): macOS
  does not promise the order of a lock's waiters, but it starves none for ever.

* `MLService`: processes that are scheduled take their steps, launchd relaunches the
  watcher, an engine that works gets to bind, SIGTERM ends one that is not silent,
  sockets are released, and time passes (strong fairness of `Tick`, which waits for
  everybody who is about to act). A silent engine need never recover.

* `Launcher`: launchd, brew and the processes that run take their steps (`System`).
  Nothing is assumed of people and of faults.
* `ServerBuild`: a process that runs takes its next step (each external call has a
  timeout); the crash check and the retry of a follow come round, and the stack comes
  back. The version check gets its turn although a start that is refused can make it
  unavailable in between: it comes in the same cycle after the crash check (`SF` of
  `FollowServerVersion`). `FollowSettles` speaks of one process at work at a time.
* `ConfigFile` and `Remount`: the loop goes on (`WF` of its steps).
* `Supervisor`, `BuildLink`, `SelfTest`: none; their properties are safety.

### What the model refutes

Each is a statement of the repository that the code does not keep; the run's
counterexample is a short history.

1. `StartsOnTheLibrary` (`PauseWatch_gate`). `ensure_media_ready`, when its probe
   of the root cannot answer, passes over any network mount that covers the root
   (`__main__.py:3339`). With the library's mount nested in another share, the
   parent passes for it, and the worker starts over the parent's directory. The
   watch loop does not make this mistake: it asks for the recorded mount.
2. `LoopStopsExplained` (`PauseWatch_explained`). A worker started by hand during a pause is
   stopped again with no reason shown, since the marker is written only when a pause begins.
3. `MlxIsSerialized` (`NativeModels_mlx`). The metal lock is said to be held around every MLX
   call, so that nothing else reaches Metal in the middle of an inference
   (`GPULock.swift:13-15`). A CLIP tower is loaded without it (`CLIP.swift:19`,
   `CLIPText.swift:20`), beside an inference of another thread. So is the cache cleared by
   the eviction (`Models.swift:182`): with no request for a CLIP model in the
   configuration, TLC finds that instead.
4. `DeathEndsTheWait` (`MLService_death`). `_ml_healthy` promises to bail out when
   the process dies. The process is a child nobody reaps during the wait, so
   `os.kill(pid, 0)` finds the zombie and the wait lasts its 90 s (`WaitIsOver`).
5. `RecordedIsThere` (`ServerBuild_prune`). `_prune_old_server_versions` is to be
   called only when the old build is safe to delete (`__main__.py:1940-1943`). While
   `update` fetches, the watcher's crash check starts the old version again, and that
   start prunes every other build, the one `update` then records among them.
6. `SwitchPersists` (`ConfigFile_stale`). A component switch is said to persist
   (`docs/usage.md:156`). The watcher saves the whole configuration it loaded at the
   start of its cycle, when it records a mount (`__main__.py:7729`) or after a follow
   (`:7408`), over a switch that was set in between.
7. `NotDueMeansAnswered` (`SelfTest_killed`). A result that lacks an answer of the ML service
   is to be pending, so that the next start asks again (`__main__.py:469-471`). The node
   checks are saved as passed and not pending before the wait for the service
   (`:327-341`, `:6774`); a run that is killed in the wait leaves that, and the ML checks of
   that version never run. `ResultIsTrue`, which holds, leaves out exactly the versions of
   which a run made its first save and not its second (`halved`).

### Seen on the way

Behaviours met while reading the code for the models, which no property of a run
speaks about.

* Stop by signal. `stop_all_fast`, which the SIGTERM of `brew services stop` runs, leaves
  `paused.json`, which `cmd_stop` takes care to remove (`__main__.py:6665-6666`), so `status`
  blames the library for a worker that was turned off.
* Server build. A stamp is said to be a claim of completeness for its version, and to close the
  hole of a stale plugin of the other layout (`__main__.py:1831-1833`, `:1845-1862`,
  `:1886-1895`). `_finalize_build_data` looks for a plugin of either layout. An
  `immich-build.tar.gz` of another release beside an imported server, or a container that
  was replaced while it was copied from, is stamped with the version asked for;
  `CurrentHasItsPlugin` leaves both out (`stray`). An import of a server without its Sharp
  has replaced the directory in use before it fails (`__main__.py:4457-4475`).
* Server build. With Immich moved, a local `start` beside a running worker fetches and
  records the new version and then returns with "Already running"; the watcher compares
  `config.json` only, so the old worker goes on. `_follow_server_version`'s "the worker
  is left stopped" (`__main__.py:7378`) does not last: the next crash check starts the
  old version. A prune beside a follow's own fetch leaves the install down until the
  next follow. With both at work an `update` may record a build while a start spawns the
  one before.
* Remount. The mount of a nested library may drop between the probe and the recording of
  the recipe; the parent then passes for it, and its recipe replaces the right one. A
  library behind a symbolic link has its recipe recorded, and is neither judged missing
  nor mounted. A table that cannot be read twice in a row allows a mount over a mount.
* Self-test. `selftest --immich-version` saves its result in the same file and asks nothing
  of ML, so a version that is installed later counts as tested. A run of the old version that
  holds the lock makes the new one's leave.
* /build link. `SYNTHETIC_CONF.exists()` (`__main__.py:703`) raises in a directory that
  may not be searched; the model takes it as no step. A `sudo cat` that fails before a
  `tee` that works loses the other lines, which `ForeignKept` leaves out.
* Configuration. Two saves at once share `config.tmp`: the file may be torn, or the
  second rename finds nothing and its process ends. A `config.json` that does not parse
  is a `ValueError` nobody catches, so the watcher crashes and is relaunched for ever.
  Setup erases a `require_media_ready` set by hand.
* Launcher. A SIGTERM to a relaunched watcher whose handlers are not set yet leaves the
  services of the watcher before it running after a stop.

## 4. Proofs

The theorems hold for every value of the constants, under the assumptions the modules
name: `GraceAssumption`, `ParentShareAssumption`, `CallersAssumption`, `SlotsAssumption`,
`DecodersAssumption`, `ReuseAssumption`, `ModelsAssumption`, `TTLAssumption`,
`PidsAssumption`, `BoundsAssumption`, `VersionsAssumption`, `LayoutAssumption` and
`CommandsAssumption`; for the modules that a sum instantiates
(`Supervisor`, `Launcher`, `ConfigFile`, `Remount`, `BuildLink`, `SelfTest`) their
`Assumption`, which `WorkerAssumption` and `UpkeepAssumption` state. TLC evaluates all of
them.

**`PauseWatchProofs`.** None of the invariants is inductive alone: that the marker
tells the truth needs the pause flags to agree with their timers, and that the
worker is not exposed needs the media timer to run at least as long as the
exposure. `IInv` is the conjunction of `TypeOK`, `TimersInv` (a pause has a timer
at the grace; the histories are no shorter than the timers), `ExposureInv` (how
far `exposed` may be in front of `mediaTimer` at each `pc`),
`MarkerNamesThePause` and `NoticeNamesTheOutage`. `Inductive` has one step per
action. From it: `TypeCorrect`, `MarkerTheorem`, `NoticeTheorem`, their
conjunction `FilesTheorem`, `ExposureTheorem`, and the action properties `GraceTheorem`, `HeldDownTheorem`,
`ExplainedTheorem`.

**`DecodeSlotsProofs`.** `IInv` is `TypeOK`, `QInv` (the queue holds each waiting
caller once and no settled one), `SlotsAccounted` and `CopyBelongsToDecode`. The
work is in the removal from the middle of the queue and in the cardinality of the
holders when a slot changes hands. `BoundedTheorem` is `CopyTheorem` and the
guard of the one action that tries another decoder. `Refinement` proves `Spec => IsASlotPool`: the
lemma on `RemoveAt` and the fact that no settled waiter is in the queue turn
`Release`'s search into `SlotPool`'s `Head`.

**`NativeModelsProofs`.** `IInv` is `TypeOK`, `WantsInv` (what a thread asked for
agrees with where it is), `OneLoadAtATime`, `NoLostWakeup` and `ZooClock` (the
zoo's time of use is never older than the last hand-out), from which
`ZooModelKept` follows. `LoadsTheorem` is the first two of its parts together.

**`MLServiceProofs`.** `JudgedOnItsOwnSilence` is not inductive: that a condemned
engine has existed for the grace needs the watcher's timer to be no older than the
process it is for. `IInv` is `TypeOK`, that fact (`TimerInv`) and the property.
Both survive a step that starts no process anybody knows of and ages none (`Tame`),
by an actor that does not condemn (`Moves`): `ActorStep`. Each action is shown to
be such a step, but for two: `Ping`, which condemns, and `Tick`, which ages the
timer and the processes alike and finds nobody between the decision and the kill.
A new process has a number nobody knows, which is why a timer or an actor that
holds a dead one's number is not misled.

`NothingRunsUntracked` is about the behaviours in which no command and no reader runs
(`Unshared`), the file being lost to a reader in others. Its invariant is `Solo`. `Placed`
says at which of the watcher's steps the file names the pid it holds (from `read_pid`'s
check to the kill, and while a start is being watched) and at which the file is gone (an
attempt, an adoption, the wait for the port); an engine is spawned or adopted only where it
is gone, and by `Tracked` everything that runs there was told to stop. `read_pid` and
`kill_pid` come back to many places, so `Placed` also bounds where they may return to.
`Alone` adds that every engine is the watcher's child: a stop that found no file still ends
them all, which is why `Tracked` survives its exit, the one step after which nothing else
excuses a process. `RecordSolo` covers a step that starts nothing and takes no living
process's name from the file (`Quiet`); a spawn, the stamp of a new pid, the SIGTERM and
the exit are shown one by one. TLC checked `Solo` first, with blind looks beside the
other troubles.

**`DecodeReuseProofs`.** `FramesAccounted` speaks of the Map and its timers, and
`PixelsAreCurrent` of callers that were answered; neither says what holds while a decode is
in flight. `ReuseInv` adds `Entries` (who has an entry is not dropped, and its timer runs
exactly when it has settled; a promise without an entry is forgotten once it settles) and
`Awaited` (a promise shows nothing older than its key, its key is no newer than the file,
and whoever awaits it asked no later than that key). The work is in the sequence: taking
one entry out by its place, cutting the head off a full Map, and that both leave every
other entry once. `OnlyOwnEventsForget` is an action property: the late callback of a
replaced entry takes nothing.

**`ServiceProofs`.** *Launcher.* `JobInv` is `TypeOK` and: a watcher is there when what
starts it is (`JobProcesses`); the SIGTERM of a stop is with the watcher or still held by a
launcher (`JobStop`); services belong to the watcher that will stop them (`JobServices`); a
release writes its mark before it asks (`JobMove`). From it `HandOversAreClean`.
*Supervisor.* `PidInv` is `TypeOK` and: a stranger has a group of its own and is nobody's
child (`PidProcesses`); a process born at the time in the file, with the pid in the file, is
no stranger (`PidRecorded`); from the scan to the spawn the lock is held and no worker
runs, and any two that work are of one group (`PidOne`). `OneWorkerAtMost` needs the last,
`SignalsHitTheirOwn` the one before. Both rest on lemmas about what `read_pid` can settle
on and what `kill_pid` can kill, for any state of the process table.

**`ServerBuildProofs`.** `BuildTypes` (the types, and for each step what a process there
must have with it) is inductive, whoever works beside whom. `WorkerAndItsBuild` is proved of
both processes at work: from the moment it loads its configuration to the end of its prune,
through the fetch it may make of its own, a start has the lock or went on without it, so a
worker that runs when it comes to prune is its own, or one of the starts is in `unlocked`
(`LockInv`). What makes it delicate is that every step of the other process, up to the
saving of a new version, keeps that: each is shown to take no lock and spawn nothing
(`Quiet`), but for `AcquireStartLock` and `Spawn`.

The other two speak of one process at work, as their properties do, and `BuildInv` says for
that case (`AloneInv`) that one process works at a time, that build data (unless `stray`) holds
one layout at most, its stamp is of a version with that layout, and who is about to fill has
cleared (`DataInv`), and that a tree with a `main.js` is whole or was cut short, while the
tree a process builds is at least as far as its step (`TreesInv`). From it
`RecordedBuildIsThere` and `BuildDataServesItsVersion`. TLC checked `BuildInv` and `LockInv`
with the bounds of `Upkeep` (650 574 distinct states).

**`UpkeepProofs`.** *ConfigFile.* That an interrupted save is harmless needs that a save
which nobody overlapped has `config.tmp` for itself from the truncation to the rename
(`FileSaves`); that the switches are as asked needs that a copy nobody has saved beneath is
the file with the request put in (`FileCopies`). *Remount.* `MountRecipe`: an attempt is for
the recipe on record, which was not mounted; `MountRefused`: after a refusal the state
stays blocked while the library is not mounted, so no attempt follows. *BuildLink.* A
rewrite holds what the file held when it was read (`content = kept`); `/build` is ours only
with an entry in one of the files, unless it was taken out (`LinkEntry`); and a clean
uninstall has read the entry it is to strip (`LinkRemoval`). *SelfTest.* Whoever has a
result in memory holds the lock, and the file has that result (`TestHolds`). A file that lets
a start pass its version over has its ML answers, is in the hands of a run that is yet to add
them, or is of a version in `halved` (`TestAnswered`).

**Sums.** `ShimTypesCorrect`, `WorkerTypesCorrect` and `UpkeepTypesCorrect` show that a
behaviour of a sum is one of each of its components, so what is proved of a component holds
where TLC checks it.

What the proofs found in the models:

* `ConfigNamesABuild`, as it was stated, left out a replacement by setup only. It was
  not inductive, and no strengthening of it was: with two setups and two moves a follow
  replaces the recorded directory too (see `ServerBuild` above). The runs have one setup.
* `Supervisor` assumed nothing of `MaxBorn`, while an initial state has a worker that was
  born; it must not be 0.
* `DecodeReuse` has to know that `Nothing` is no decode, no path and no version.

Only model-checked:

* every liveness property (`WorkerFollowsTheWorld`, `CallsAnswered`, `FramesForgotten`,
  `Settles`, `ConfigIsReached`, `ServicesReturn`, `FollowSettles`, `FactsReturn`,
  `LibraryServed`), since liveness under fairness is beyond this prover.

## 5. Not modelled

* Inference code, tokenizers, image transforms: numeric.
* Dashboard and menu bar: they show what the other components write, and run commands.
* Requeue of missed assets: sequential calls whose model would restate their guards.
* Job retry shim: sets the options of a job once; what comes of them is BullMQ's.
* Database shims, ffmpeg wrapper, encoding presets: rewrite one command line or one
  call, with no state between calls.
* Native ML HTTP server (`Server.swift`): connections, their timer against the handler,
  and the limit on concurrent requests. It has state a model could explore; see the plan.
* Setup's questions, the Docker compose file it edits, Homebrew: interaction and I/O.
  What setup does to builds, to `config.json` and to `/build` is in the modules of those.
* Scripts and packaging: not part of the running system.

Each model leaves out logging and wording.

## 6. Plan

1. `NativeServer`: a connection is closed once and its slot given back once.
2. A refinement for `ConfigFile`: an atomic register of switches, which it implements while
   nobody saves beneath a copy.

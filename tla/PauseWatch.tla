----------------------------- MODULE PauseWatch -----------------------------
(***************************************************************************)
(* The watch loop of the accelerator (immich_accelerator/__main__.py), as   *)
(* far as it decides whether the Immich worker may run: the outages of the  *)
(* backing services (Postgres, Redis) and of the library's network mount,   *)
(* the shared pause marker that `status` reads, the notice that asks a      *)
(* person to act, the crash check, the fd watchdog, and the commands a user *)
(* runs beside the loop (start, stop, component on/off).             *)
(*                                                                         *)
(* A cycle of _watch_worker is split where another process can act between  *)
(* two of its reads: wake, backends, media, media read, crash check,        *)
(* version check.  cmd_start holds the start lock for its whole run, so     *)
(* each call of it is one step.  Time is counted in cycles of the loop's    *)
(* 30 second sleep.  What _attempt_remount remembers between calls is not   *)
(* part of this module; its effect on the mount is.                         *)
(***************************************************************************)
EXTENDS Integers

CONSTANTS
  Grace,        \* MEDIA_UNREACHABLE_GRACE, in cycles of the loop
  ParentShare   \* the library's mount lies inside another network share

ASSUME GraceAssumption == Grace \in Nat \ {0}
ASSUME ParentShareAssumption == ParentShare \in BOOLEAN

VARIABLES
  backendsUp,     \* Postgres and Redis accept connections
  mounted,        \* the mount table lists the library's mount point
  startable,      \* preflight, node, sharp and the spawn would succeed
  requireMedia,   \* config.json: require_media_ready
  workerOn,       \* config.json: is the worker component enabled
  worker,         \* a worker process is running
  marker,         \* paused.json: the reason shown for a stopped worker
  notice,         \* notice.json: what a person has to act on
  watch,          \* which loop the watcher is in, "off" when it is not running
  pc,             \* where in its cycle _watch_worker is
  seen,           \* require_media_ready as loaded at the start of the cycle
  handled,        \* worker_handled
  backendTimer,   \* cycles since backend_down_since, Nil for None
  mediaTimer,     \* cycles since media_down_since, Nil for None
  backendPaused,  \* backend_paused
  mediaPaused,    \* media_paused
  silentFor,      \* history: cycles since the loop last found the backends up
  unseenFor,      \* history: cycles since the loop last found the mount
  exposed         \* history: cycles the supervised worker has run unmounted

world   == <<backendsUp, mounted, startable>>
config  == <<requireMedia, workerOn>>
files   == <<marker, notice>>
locals  == <<pc, seen, handled, backendTimer, mediaTimer, backendPaused, mediaPaused>>
history == <<silentFor, unseenFor, exposed>>
vars    == <<world, config, worker, files, watch, locals, history>>

Nil == -1

Upto(n, limit) == IF n < limit THEN n + 1 ELSE limit

\* Mutant of Tick: no bound on the clock.
TickPastGrace(timer) == IF timer = Nil THEN Nil ELSE timer + 1

\* One more cycle on a down-since timer; a timer that is not running stays so.
Tick(timer) == IF timer = Nil THEN Nil ELSE Upto(timer, Grace)

\* Mutant of Running: every failed probe starts the grace again.
RunningAgain(timer) == 0

\* The timer after a failed probe: started by the first one of a run.
Running(timer) == IF timer = Nil THEN 0 ELSE timer

\* Mutant of Ended: an outage that is over counts for the next one.
EndedCounting(timer) == timer

\* The timer after a probe that found everything back.
Ended(timer) == Nil

TypeOK ==
  /\ backendsUp \in BOOLEAN /\ mounted \in BOOLEAN /\ startable \in BOOLEAN
  /\ requireMedia \in BOOLEAN /\ workerOn \in BOOLEAN /\ worker \in BOOLEAN
  /\ marker \in {"none", "backend-unreachable", "library-unreachable"}
  /\ notice \in {"none", "local-network", "media-permission"}
  /\ watch \in {"off", "worker", "noworker"}
  /\ pc \in {"sleep", "backends", "media", "mediaio", "crash", "follow"}
  /\ seen \in BOOLEAN /\ handled \in BOOLEAN
  /\ backendPaused \in BOOLEAN /\ mediaPaused \in BOOLEAN
  /\ backendTimer \in Nil..Grace
  /\ mediaTimer \in Nil..Grace
  /\ silentFor \in 0..Grace
  /\ unseenFor \in 0..Grace
  /\ exposed \in 0..(Grace + 2)

-----------------------------------------------------------------------------
(* Starting and stopping the services.  The operators take the worker,      *)
(* marker and notice the call finds and constrain their primed values.      *)

\* The media gate of _cmd_start: a probe that cannot answer lets the start go
\* ahead over any network mount that covers the library's path today.  (A media
\* folder that is a dangling link refuses too: that is ~startable.)
GatePasses == ~requireMedia \/ mounted \/ ParentShare

\* ensure_media_ready's effect on the notice, when it lets the start pass.
GateNotice(found) ==
  IF ~requireMedia THEN {found}
  ELSE {"media-permission",   \* macOS holds the read
        found}                \* the read failed in some other way
       \cup (IF mounted        \* the marker was read
             THEN {IF found = "media-permission" THEN "none" ELSE found}
             ELSE {})

\* _cmd_start of an enabled worker.  `running` is what read_pid finds; whether
\* it raised (start_service saw the worker exit) or returned is `raised`.
StartWithWorker(force, running, foundMarker, foundNotice, raised) ==
  LET stops == running /\ force   \* cmd_stop runs before the later checks
      up    == running /\ ~force
      baseMarker == IF stops THEN "none" ELSE foundMarker
      baseNotice == IF stops THEN "none" ELSE foundNotice
  IN
  \/ \* refused by the preflight, or already running
     /\ ~raised
     /\ ~startable \/ up
     /\ worker' = running /\ marker' = foundMarker /\ notice' = foundNotice
  \/ \* refused by the node, sharp or media check, after the stop
     /\ ~raised /\ ~up
     /\ ~startable \/ ~GatePasses
     /\ worker' = FALSE /\ marker' = baseMarker /\ notice' = baseNotice
  \/ \* the worker is spawned, and exits at once or stays up
     /\ ~up
     /\ GatePasses
     /\ raised => ~startable
     /\ ~raised => startable
     /\ worker' = ~raised
     /\ marker' = baseMarker
     /\ notice' \in GateNotice(baseNotice)

\* _start_without_worker; with --force it may stop a running ML service.
StartWithoutWorker(force, foundMarker, foundNotice) ==
  /\ worker' = FALSE
  /\ \/ marker' = foundMarker /\ notice' = foundNotice
     \/ force /\ marker' = "none" /\ notice' = "none"

CmdStart(force, running, foundMarker, foundNotice, raised) ==
  \/ workerOn /\ StartWithWorker(force, running, foundMarker, foundNotice, raised)
  \/ ~workerOn /\ ~raised /\ StartWithoutWorker(force, foundMarker, foundNotice)

CmdStop == worker' = FALSE /\ marker' = "none" /\ notice' = "none"

\* A pause, in its first cycle and in every later one: whoever started the
\* worker meanwhile, it is stopped again.
Hold(paused, reason) ==
  /\ worker' = FALSE
  /\ marker' = IF paused THEN marker ELSE reason

\* Mutant of Resume: the marker outlives the pause.
ResumeUnmarked(found) ==
  IF worker
  THEN notice' = found /\ UNCHANGED <<worker, marker, handled>>
  ELSE /\ \E raised \in BOOLEAN : CmdStart(TRUE, FALSE, marker, found, raised)
       /\ handled' = TRUE

\* The end of the last pause, in the cycle that found it over.
Resume(found) ==
  IF worker
  THEN marker' = "none" /\ notice' = found /\ UNCHANGED <<worker, handled>>
  ELSE /\ \E raised \in BOOLEAN : CmdStart(TRUE, FALSE, "none", found, raised)
       /\ handled' = TRUE

-----------------------------------------------------------------------------
(* The watcher process.                                                     *)

FreshLocals ==
  /\ pc' = "sleep" /\ seen' = FALSE /\ handled' = FALSE
  /\ backendTimer' = Nil /\ mediaTimer' = Nil
  /\ backendPaused' = FALSE /\ mediaPaused' = FALSE

\* _watch_worker up to its loop: drop stale markers, stop a worker of another
\* version, bring up what is missing.  An error of that start ends the watcher.
EnterWorkerLoop ==
  \E stale, mlMissing \in BOOLEAN :
    LET up == worker /\ ~stale
    IN  /\ FreshLocals
        /\ IF ~up \/ mlMissing
           THEN \E raised \in BOOLEAN :
                  /\ CmdStart(TRUE, up, "none", "none", raised)
                  /\ watch' = IF raised THEN "off" ELSE "worker"
           ELSE /\ worker' = worker /\ marker' = "none" /\ notice' = "none"
                /\ watch' = "worker"

\* _watch_without_worker up to its loop; with no ML process to supervise it
\* runs _start_without_worker, which stops a worker that is still up.
EnterWorkerlessLoop(running) ==
  /\ FreshLocals
  /\ watch' = "noworker"
  /\ marker' = "none" /\ notice' = "none"
  /\ worker' \in {FALSE, running}

\* launchd (KeepAlive) or `brew services start` runs cmd_watch.
WatcherLaunch ==
  /\ watch = "off"
  /\ IF workerOn THEN EnterWorkerLoop ELSE EnterWorkerlessLoop(worker)
  /\ UNCHANGED <<world, config>>

\* SIGTERM: stop_all_fast, then exit.  It runs between any two steps.
WatcherSigterm ==
  /\ watch # "off"
  /\ watch' = "off"
  /\ worker' = FALSE
  /\ FreshLocals
  /\ UNCHANGED <<world, config, files>>

\* The watcher dies without its handler (SIGKILL, an uncaught error).
WatcherCrash ==
  /\ watch # "off"
  /\ watch' = "off"
  /\ FreshLocals
  /\ UNCHANGED <<world, config, worker, files>>

\* A brew upgrade landed: stop the services and exit for launchd to relaunch.
UpgradedOnDisk ==
  /\ watch # "off" /\ pc = "sleep"
  /\ watch = "worker" <=> workerOn
  /\ CmdStop
  /\ watch' = "off"
  /\ FreshLocals
  /\ UNCHANGED <<world, config>>

\* The worker was enabled while the worker-free loop ran.
SwitchOn ==
  /\ watch = "noworker" /\ workerOn
  /\ EnterWorkerLoop
  /\ UNCHANGED <<world, config>>

\* The worker was disabled while the worker loop ran.
SwitchOff ==
  /\ watch = "worker" /\ pc = "sleep" /\ ~workerOn
  /\ EnterWorkerlessLoop(FALSE)
  /\ UNCHANGED <<world, config>>

-----------------------------------------------------------------------------
(* One cycle of _watch_worker.                                              *)

Wake ==
  /\ watch = "worker" /\ pc = "sleep" /\ workerOn
  /\ pc' = "backends"
  /\ seen' = requireMedia
  /\ handled' = FALSE
  /\ backendTimer' = Tick(backendTimer)
  /\ mediaTimer' = Tick(mediaTimer)
  /\ UNCHANGED <<world, config, worker, files, watch, backendPaused, mediaPaused>>

\* The notice of a failed probe: `refused` is local_network_refused's answer.
BackendNotice(refused) ==
  IF backendTimer = Nil
  THEN IF refused THEN "local-network" ELSE notice
  ELSE IF ~refused /\ notice = "local-network" THEN "none" ELSE notice

BackendsDown ==
  /\ watch = "worker" /\ pc = "backends"
  /\ ~backendsUp
  /\ backendTimer' = Running(backendTimer)
  /\ \E refused \in BOOLEAN : notice' = BackendNotice(refused)
  /\ IF backendTimer' >= Grace
     THEN /\ backendPaused' = TRUE
          /\ Hold(backendPaused, "backend-unreachable")
          /\ pc' = "sleep"
     ELSE /\ pc' = "media"
          /\ UNCHANGED <<backendPaused, marker, worker>>
  /\ UNCHANGED <<world, config, watch, seen, handled, mediaTimer, mediaPaused>>

WithoutLocalNetwork == IF notice = "local-network" THEN "none" ELSE notice

\* Mutants of HandOver: the marker keeps the old reason; it is cleared; the
\* worker is started over the other outage.
HandOverUnmarked ==
  notice' = WithoutLocalNetwork /\ UNCHANGED <<worker, marker, handled>>
HandOverCleared ==
  /\ marker' = "none" /\ notice' = WithoutLocalNetwork
  /\ UNCHANGED <<worker, handled>>
HandOverStarts == Resume(WithoutLocalNetwork)

\* The backends are back and the library is not: the marker changes hands.
HandOver ==
  /\ marker' = "library-unreachable" /\ notice' = WithoutLocalNetwork
  /\ UNCHANGED <<worker, handled>>

\* Postgres and Redis answer again: end the backend pause, or hand its marker
\* to the media pause that is still on.
BackendsBack ==
  /\ watch = "worker" /\ pc = "backends"
  /\ backendsUp
  /\ backendTimer' = Ended(backendTimer)
  /\ backendPaused' = FALSE
  /\ CASE ~backendPaused ->
            /\ notice' = IF backendTimer = Nil THEN notice ELSE WithoutLocalNetwork
            /\ UNCHANGED <<worker, marker, handled>>
       [] backendPaused /\ mediaPaused -> HandOver
       [] backendPaused /\ ~mediaPaused -> Resume(WithoutLocalNetwork)
  /\ pc' = "media"
  /\ UNCHANGED <<world, config, watch, seen, mediaTimer, mediaPaused>>

\* The library's mount point is missing from the mount table.
LibraryGone ==
  /\ watch = "worker" /\ pc = "media"
  /\ seen /\ ~mounted
  /\ mediaTimer' = Running(mediaTimer)
  /\ mounted' \in BOOLEAN   \* _attempt_remount, tried within the grace
  /\ IF mediaTimer' < Grace
     THEN UNCHANGED <<mediaPaused, worker, files>>
     ELSE /\ mediaPaused' = TRUE
          /\ Hold(mediaPaused, "library-unreachable")
          /\ notice' = IF ~mediaPaused /\ notice = "media-permission"
                       THEN "none" ELSE notice
  /\ pc' = "sleep"
  /\ UNCHANGED <<backendsUp, startable, config, watch, seen, handled,
                 backendTimer, backendPaused>>

LibraryMounted ==
  /\ watch = "worker" /\ pc = "media"
  /\ seen /\ mounted
  /\ mediaTimer' = Ended(mediaTimer)
  /\ mediaPaused' = FALSE
  /\ CASE ~mediaPaused -> UNCHANGED <<worker, files, handled>>
       [] mediaPaused -> Resume(notice)
  /\ pc' = "mediaio"
  /\ UNCHANGED <<world, config, watch, seen, backendTimer, backendPaused>>

\* require_media_ready is off: the whole block is skipped.
LibraryUnguarded ==
  /\ watch = "worker" /\ pc = "media"
  /\ ~seen
  /\ pc' = "crash"
  /\ UNCHANGED <<world, config, worker, files, watch, seen, handled,
                 backendTimer, mediaTimer, backendPaused, mediaPaused>>

WithoutPermission == IF notice = "media-permission" THEN "none" ELSE notice

\* The advisory read of the mount, every cycle while macOS may be asking.
MediaRead ==
  /\ watch = "worker" /\ pc = "mediaio"
  /\ notice' \in IF worker THEN {"media-permission", WithoutPermission} ELSE {notice}
  /\ pc' = "crash"
  /\ UNCHANGED <<world, config, worker, marker, watch, seen, handled,
                 backendTimer, mediaTimer, backendPaused, mediaPaused>>

\* Too many open descriptors, outside the cooldown.
FdRestart ==
  /\ watch = "worker" /\ pc = "crash"
  /\ worker
  /\ \E raised \in BOOLEAN : CmdStart(TRUE, FALSE, marker, notice, raised)
  /\ handled' = TRUE
  /\ pc' = "follow"
  /\ UNCHANGED <<world, config, watch, seen, backendTimer, mediaTimer,
                 backendPaused, mediaPaused>>

CrashCheck ==
  /\ watch = "worker" /\ pc = "crash"
  /\ IF ~handled /\ ~worker
     THEN \E raised \in BOOLEAN : CmdStart(TRUE, FALSE, marker, notice, raised)
     ELSE UNCHANGED <<worker, files>>
  /\ pc' = "follow"
  /\ UNCHANGED <<world, config, watch, seen, handled, backendTimer, mediaTimer,
                 backendPaused, mediaPaused>>

VersionUnchanged ==
  /\ watch = "worker" /\ pc = "follow"
  /\ pc' = "sleep"
  /\ UNCHANGED <<world, config, worker, files, watch, seen, handled,
                 backendTimer, mediaTimer, backendPaused, mediaPaused>>

\* _follow_server_version found another version: stop everything, then fetch
\* the build (which may fail, leaving the worker down) and start on it.
FollowVersion ==
  /\ watch = "worker" /\ pc = "follow" /\ ~handled
  /\ \/ CmdStop
     \/ \E raised \in BOOLEAN : CmdStart(TRUE, FALSE, "none", "none", raised)
  /\ pc' = "sleep"
  /\ UNCHANGED <<world, config, watch, seen, handled, backendTimer, mediaTimer,
                 backendPaused, mediaPaused>>

-----------------------------------------------------------------------------
(* The user's commands, the configuration file, and the world.              *)

UserStart ==
  /\ \E force, raised \in BOOLEAN : CmdStart(force, worker, marker, notice, raised)
  /\ UNCHANGED <<world, config, watch, locals>>

UserStop ==
  /\ CmdStop
  /\ UNCHANGED <<world, config, watch, locals>>

\* component worker on|off: off stops the worker; on leaves the start to the
\* watcher, or starts the worker when there is none.
ComponentWorker ==
  /\ workerOn' = ~workerOn
  /\ CASE workerOn -> worker' = FALSE /\ UNCHANGED files
       [] ~workerOn /\ watch # "off" -> UNCHANGED <<worker, files>>
       [] ~workerOn /\ watch = "off" ->
            \E raised \in BOOLEAN :
              StartWithWorker(FALSE, worker, marker, notice, raised)
  /\ UNCHANGED <<world, requireMedia, watch, locals>>

\* component ml on|off: _restart_worker, so that the worker sees the new URL.
ComponentMl ==
  /\ worker
  /\ IF watch # "off"
     THEN worker' = FALSE /\ UNCHANGED files
     ELSE \E raised \in BOOLEAN : CmdStart(FALSE, FALSE, marker, notice, raised)
  /\ UNCHANGED <<world, config, watch, locals>>

\* config.json edited by hand: nothing is started or stopped.
EditConfig ==
  /\ \/ requireMedia' = ~requireMedia /\ UNCHANGED workerOn
     \/ workerOn' = ~workerOn /\ UNCHANGED requireMedia
  /\ UNCHANGED <<world, worker, files, watch, locals>>

WorkerExit ==
  /\ worker
  /\ worker' = FALSE
  /\ UNCHANGED <<world, config, files, watch, locals>>

WorldChanges ==
  /\ \/ backendsUp' = ~backendsUp /\ UNCHANGED <<mounted, startable>>
     \/ mounted' = ~mounted /\ UNCHANGED <<backendsUp, startable>>
     \/ startable' = ~startable /\ UNCHANGED <<backendsUp, mounted>>
  /\ UNCHANGED <<config, worker, files, watch, locals>>

-----------------------------------------------------------------------------
\* The histories count cycles; they read the state and never constrain it.
Woke == pc = "sleep" /\ pc' = "backends"

FoundBackends == pc = "backends" /\ pc' = "media" /\ backendsUp

FoundMount == pc = "media" /\ pc' = "mediaio"

Supervised == watch = "worker" /\ requireMedia

Remember ==
  /\ silentFor' = IF watch' # "worker" \/ watch # "worker" \/ FoundBackends THEN 0
                  ELSE IF Woke THEN Upto(silentFor, Grace) ELSE silentFor
  /\ unseenFor' = IF watch' # "worker" \/ watch # "worker" \/ FoundMount THEN 0
                  ELSE IF Woke THEN Upto(unseenFor, Grace) ELSE unseenFor
  /\ exposed' = IF worker' /\ ~mounted' /\ Supervised'
                THEN IF Woke THEN Upto(exposed, Grace + 2) ELSE exposed
                ELSE 0

Init ==
  /\ backendsUp \in BOOLEAN /\ mounted \in BOOLEAN /\ startable \in BOOLEAN
  /\ requireMedia \in BOOLEAN /\ workerOn \in BOOLEAN
  /\ worker = FALSE /\ marker = "none" /\ notice = "none"
  /\ watch = "off" /\ pc = "sleep" /\ seen = FALSE /\ handled = FALSE
  /\ backendTimer = Nil /\ mediaTimer = Nil
  /\ backendPaused = FALSE /\ mediaPaused = FALSE
  /\ silentFor = 0 /\ unseenFor = 0 /\ exposed = 0

Cycle ==
  \/ Wake \/ BackendsDown \/ BackendsBack
  \/ LibraryGone \/ LibraryMounted \/ LibraryUnguarded \/ MediaRead
  \/ CrashCheck \/ VersionUnchanged

\* What nobody promises to happen or to stop happening.
Disturbance ==
  \/ WatcherSigterm \/ WatcherCrash \/ UpgradedOnDisk
  \/ FdRestart \/ FollowVersion
  \/ UserStart \/ UserStop \/ ComponentWorker \/ ComponentMl \/ EditConfig
  \/ WorkerExit \/ WorldChanges

Next == (Cycle \/ WatcherLaunch \/ SwitchOn \/ SwitchOff \/ Disturbance) /\ Remember

Spec == Init /\ [][Next]_vars

\* The loop never stops of itself, and launchd relaunches a watcher that died.
FairSpec ==
  /\ Spec
  /\ WF_vars(Cycle /\ Remember)
  /\ WF_vars(WatcherLaunch /\ Remember)
  /\ WF_vars((SwitchOn \/ SwitchOff) /\ Remember)

-----------------------------------------------------------------------------
(* Properties.                                                              *)

\* A pause for the library is only kept while require_media_ready is on.
HoldsPause ==
  /\ watch = "worker"
  /\ \/ backendPaused
     \/ mediaPaused /\ requireMedia /\ (pc = "sleep" \/ seen)

\* The one marker file never names an outage the running loop is not holding
\* the worker for, and with both outages on it names the backends: what
\* `status` says about a stopped worker (6810-6835) is true.
MarkerNamesThePause ==
  watch = "worker" =>
    /\ marker = "backend-unreachable" => backendPaused
    /\ marker = "library-unreachable" => mediaPaused /\ ~backendPaused

\* While the loop goes on holding a pause, only a person's stop (or a forced
\* start, which stops first) takes the reason away; the end of one of two
\* outages does not (the hand-over at 7602-7614).
PauseStaysExplained ==
  [][HoldsPause /\ HoldsPause' /\ marker # "none" /\ marker' = "none"
       => UserStop \/ UserStart]_vars

\* The loop itself never starts the worker in a step that leaves a pause on:
\* neither the crash check nor the end of the other outage gets through.  (A
\* pause for the library is off while require_media_ready is.)
LoopKeepsWorkerPaused ==
  [][(backendPaused' \/ (mediaPaused' /\ seen)) /\ ~worker /\ worker'
       => UserStart]_vars

\* The worker is only paused for an outage that every probe of at least the
\* grace period saw; an earlier outage, or one before the watcher started,
\* counts for nothing (the resets of the two down-since times).
PauseOutlastsGrace ==
  [][/\ ~backendPaused /\ backendPaused' => silentFor >= Grace
     /\ ~mediaPaused /\ mediaPaused' => unseenFor >= Grace]_vars

\* A worker under a running watcher never works against a missing mount for
\* more than the grace and the cycle in which the loss is noticed, whatever
\* the backends, the user and the other checks of the loop do meanwhile.
ExposureBounded == exposed <= Grace + 1

\* "Allow Local Network" is only asked for during an outage of the backends.
NoticeNamesTheOutage ==
  watch = "worker" /\ notice = "local-network" => backendTimer # Nil

\* An outage that ended on its own ends the pause on its own: once everything
\* the worker needs stays up and nobody interferes, the worker is brought up,
\* stays up, and (with the media guard on) no marker is left behind.
Healthy == backendsUp /\ mounted /\ startable /\ workerOn

Quiet == <>[][~Disturbance]_vars

Recovers ==
  Quiet /\ <>[]Healthy
    => <>[](watch = "worker" /\ worker /\ (requireMedia => marker = "none"))

\* An outage that lasts stops the worker for good, whatever happened before:
\* a stop or start by hand in the middle of it does not undo the pause.
Outage == workerOn /\ (~backendsUp \/ (requireMedia /\ ~mounted))

OutageStopsWorker == Quiet /\ <>[]Outage => <>[]~worker

\* What `status` reads is true of the loop that runs: the marker of a pause and the notice.
FilesTellTheTruth == MarkerNamesThePause /\ NoticeNamesTheOutage

\* In the end the worker is up exactly when nothing it needs is down, with nobody's help
\* and in spite of what anybody did before.
WorkerFollowsTheWorld == Recovers /\ OutageStopsWorker

-----------------------------------------------------------------------------
(* What the code or its documents say and the model refutes.                *)

\* "`status` says why a worker is down.  A worker held down for a missing
\* library used to look exactly like one the user turned off, which invites
\* starting it by hand into the same failure" (CHANGELOG.md).  A worker started
\* by hand during an outage, after a stop or with --force, is stopped again by
\* the loop, which writes the marker only when a pause begins.
LoopStopsExplained ==
  [][HoldsPause /\ HoldsPause' /\ worker /\ ~worker' /\ pc # "sleep" /\ pc' = "sleep"
       => marker' # "none"]_vars

\* "Confirm the media root is the real, mounted location before starting,
\* otherwise the worker can write thumbnails into a local placeholder that a
\* network mount later masks" (6516).  With the library's mount gone from inside
\* another share, ensure_media_ready takes that share for the library's mount.
StartsOnTheLibrary ==
  [][~worker /\ worker' /\ requireMedia => mounted]_vars
=============================================================================

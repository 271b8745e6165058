-------------------------- MODULE PauseWatchProofs --------------------------
(***************************************************************************)
(* Theorems about PauseWatch, for every length of the grace period.         *)
(*                                                                         *)
(* The invariants are not inductive by themselves.  IInv adds: a watcher    *)
(* that is not in the worker loop has fresh locals; a pause is only on when *)
(* its timer has run out, and the backends' never past their own block;     *)
(* each timer runs no further than the cycles since the last good probe;    *)
(* and how long the worker can have been exposed at each point of the       *)
(* cycle, given how far the mount's timer has come.                         *)
(***************************************************************************)
EXTENDS PauseWatch, TLAPS

Fresh ==
  /\ pc = "sleep" /\ backendTimer = Nil /\ mediaTimer = Nil
  /\ ~backendPaused /\ ~mediaPaused
  /\ silentFor = 0 /\ unseenFor = 0 /\ exposed = 0

TimersInv ==
  /\ watch # "worker" => Fresh
  /\ backendPaused => backendTimer = Grace
  /\ backendPaused => pc \in {"sleep", "backends"}
  /\ mediaPaused => mediaTimer = Grace
  /\ pc \in {"mediaio", "crash", "follow"} /\ seen => ~mediaPaused
  /\ backendTimer <= silentFor
  /\ mediaTimer <= unseenFor

ExposureInv ==
  /\ exposed # 0 => worker /\ ~mounted /\ requireMedia
  /\ pc = "sleep" => exposed <= mediaTimer + 1
  /\ pc = "sleep" /\ mediaTimer = Grace => exposed = 0
  /\ pc \in {"backends", "media"} => exposed <= Running(mediaTimer) + 1
  /\ pc # "sleep" /\ ~seen => exposed = 0
  /\ pc \in {"mediaio", "crash", "follow"} => exposed = 0

IInv == TypeOK /\ TimersInv /\ ExposureInv /\ MarkerNamesThePause /\ NoticeNamesTheOutage

\* The parts of TypeOK, by the kind of value.
Flags ==
  /\ backendsUp \in BOOLEAN /\ mounted \in BOOLEAN /\ startable \in BOOLEAN
  /\ requireMedia \in BOOLEAN /\ workerOn \in BOOLEAN /\ worker \in BOOLEAN
  /\ seen \in BOOLEAN /\ handled \in BOOLEAN
  /\ backendPaused \in BOOLEAN /\ mediaPaused \in BOOLEAN

Names ==
  /\ marker \in {"none", "backend-unreachable", "library-unreachable"}
  /\ notice \in {"none", "local-network", "media-permission"}
  /\ watch \in {"off", "worker", "noworker"}
  /\ pc \in {"sleep", "backends", "media", "mediaio", "crash", "follow"}

Timers == backendTimer \in Nil..Grace /\ mediaTimer \in Nil..Grace

Histories == silentFor \in 0..Grace /\ unseenFor \in 0..Grace /\ exposed \in 0..(Grace + 2)

\* TypeOK is the conjunction of its parts.
LEMMA TypeParts == TypeOK <=> Flags /\ Names /\ Timers /\ Histories
  BY DEF TypeOK, Flags, Names, Timers, Histories

\* A start ends with the worker running or stopped.
LEMMA CmdStartWorker ==
  ASSUME NEW force \in BOOLEAN, NEW running \in BOOLEAN, NEW foundMarker,
         NEW foundNotice, NEW raised \in BOOLEAN,
         \/ CmdStart(force, running, foundMarker, foundNotice, raised)
         \/ StartWithWorker(force, running, foundMarker, foundNotice, raised)
  PROVE  worker' \in BOOLEAN
  BY DEF CmdStart, StartWithWorker, StartWithoutWorker

\* A start leaves the marker or clears it, and never asks for the local network.
LEMMA CmdStartFiles ==
  ASSUME NEW force \in BOOLEAN, NEW running \in BOOLEAN, NEW foundMarker,
         NEW foundNotice, NEW raised \in BOOLEAN,
         \/ CmdStart(force, running, foundMarker, foundNotice, raised)
         \/ StartWithWorker(force, running, foundMarker, foundNotice, raised)
  PROVE  /\ marker' \in {"none", foundMarker}
         /\ notice' \in {"none", "media-permission", foundNotice}
<1>1. marker' \in {"none", foundMarker}
  BY DEF CmdStart, StartWithWorker, StartWithoutWorker
<1>2. notice' \in {"none", "media-permission", foundNotice}
  BY DEF CmdStart, StartWithWorker, StartWithoutWorker, GateNotice
<1> QED BY <1>1, <1>2

\* The histories stay in their ranges, whatever the step.
LEMMA HistoryType ==
  ASSUME TypeOK, Remember
  PROVE  Histories'
<1>1. silentFor' \in 0..Grace
  BY GraceAssumption DEF TypeOK, Remember, Upto
<1>2. unseenFor' \in 0..Grace
  BY GraceAssumption DEF TypeOK, Remember, Upto
<1>3. exposed' \in 0..(Grace + 2)
  BY GraceAssumption DEF TypeOK, Remember, Upto
<1> QED BY <1>1, <1>2, <1>3 DEF Histories

\* However the watcher enters its loop, it has no pause, no marker and no
\* local-network notice.
LEMMA WorkerLoopEntered ==
  ASSUME TypeOK, EnterWorkerLoop
  PROVE  /\ FreshLocals
         /\ watch' \in {"off", "worker"}
         /\ worker' \in BOOLEAN
         /\ marker' = "none"
         /\ notice' \in {"none", "media-permission"}
<1>1. PICK stale \in BOOLEAN, mlMissing \in BOOLEAN :
        /\ FreshLocals
        /\ IF ~(worker /\ ~stale) \/ mlMissing
           THEN \E raised \in BOOLEAN :
                  /\ CmdStart(TRUE, worker /\ ~stale, "none", "none", raised)
                  /\ watch' = IF raised THEN "off" ELSE "worker"
           ELSE worker' = worker /\ marker' = "none" /\ notice' = "none"
                /\ watch' = "worker"
  BY DEF EnterWorkerLoop
<1>2. CASE ~(worker /\ ~stale) \/ mlMissing
  <2>1. PICK raised \in BOOLEAN :
          /\ CmdStart(TRUE, worker /\ ~stale, "none", "none", raised)
          /\ watch' = IF raised THEN "off" ELSE "worker"
    BY <1>1, <1>2
  <2>2. (worker /\ ~stale) \in BOOLEAN
    OBVIOUS
  <2>3. worker' \in BOOLEAN
    BY <2>1, <2>2, CmdStartWorker
  <2>4. marker' = "none"
    BY <2>1 DEF CmdStart, StartWithWorker, StartWithoutWorker
  <2>5. notice' \in {"none", "media-permission"}
    BY <2>1 DEF CmdStart, StartWithWorker, StartWithoutWorker, GateNotice
  <2> QED BY <1>1, <2>1, <2>3, <2>4, <2>5
<1>3. CASE ~(~(worker /\ ~stale) \/ mlMissing)
  BY <1>1, <1>3 DEF TypeOK
<1> QED BY <1>2, <1>3

\* The same for the loop that supervises no worker.
LEMMA WorkerlessLoopEntered ==
  ASSUME NEW running \in BOOLEAN, EnterWorkerlessLoop(running)
  PROVE  /\ FreshLocals
         /\ watch' = "noworker"
         /\ worker' \in BOOLEAN
         /\ marker' = "none"
         /\ notice' = "none"
  BY DEF EnterWorkerlessLoop

\* A watcher that has just entered a loop, or left it with nothing to
\* explain, satisfies the invariant again.
LEMMA FreshIsFine ==
  ASSUME IInv, Remember, Flags', FreshLocals,
         watch' \in {"off", "worker", "noworker"}, Names',
         watch # "worker" \/ watch' # "worker",
         watch' = "worker" => marker' = "none" /\ notice' # "local-network"
  PROVE  IInv'
<1> USE GraceAssumption DEF FreshLocals, Nil
<1>1. TypeOK'
  BY HistoryType DEF IInv, TypeOK, Flags, Names, Timers, Histories
<1>2. silentFor' = 0 /\ unseenFor' = 0
  BY DEF Remember
<1>3. exposed' = 0
  BY DEF IInv, TypeOK, TimersInv, Fresh, Remember, Supervised, Woke, Upto
<1>4. TimersInv'
  BY <1>2, <1>3 DEF TimersInv, Fresh
<1>5. ExposureInv'
  BY <1>3 DEF ExposureInv, Running
<1>6. MarkerNamesThePause' /\ NoticeNamesTheOutage'
  BY DEF MarkerNamesThePause, NoticeNamesTheOutage
<1> QED BY <1>1, <1>4, <1>5, <1>6 DEF IInv

\* A start of a stopped worker by the loop: --force with nothing to stop.
LEMMA LoopStart ==
  ASSUME NEW found, NEW asked,
         \E raised \in BOOLEAN : CmdStart(TRUE, FALSE, found, asked, raised)
  PROVE  /\ worker' \in BOOLEAN
         /\ marker' \in {"none", found}
         /\ notice' \in {"none", "media-permission", asked}
<1>1. PICK raised \in BOOLEAN : CmdStart(TRUE, FALSE, found, asked, raised)
  OBVIOUS
<1>2. worker' \in BOOLEAN
  BY <1>1, CmdStartWorker
<1>3. marker' \in {"none", found}
  BY <1>1 DEF CmdStart, StartWithWorker, StartWithoutWorker
<1>4. notice' \in {"none", "media-permission", asked}
  BY <1>1 DEF CmdStart, StartWithWorker, StartWithoutWorker, GateNotice
<1> QED BY <1>2, <1>3, <1>4

\* Every step of the specification preserves the inductive invariant.
THEOREM Inductive == IInv /\ Next => IInv'
<1> SUFFICES ASSUME IInv, Next PROVE IInv'
  OBVIOUS
<1> USE GraceAssumption DEF world, config, files, locals, Nil
<1>r. Remember
  BY DEF Next
<1>h. Histories'
  BY <1>r, HistoryType DEF IInv
<1>1. CASE WatcherLaunch
  <2>1. CASE workerOn
    <3>1. EnterWorkerLoop
      BY <1>1, <2>1 DEF WatcherLaunch
    <3>2. Flags' /\ Names'
      BY <1>1, <3>1, WorkerLoopEntered
         DEF IInv, TypeOK, WatcherLaunch, FreshLocals, Flags, Names
    <3> QED BY <1>1, <1>r, <3>1, <3>2, WorkerLoopEntered, FreshIsFine DEF IInv, WatcherLaunch
  <2>2. CASE ~workerOn
    <3>1. worker \in BOOLEAN /\ EnterWorkerlessLoop(worker)
      BY <1>1, <2>2 DEF WatcherLaunch, IInv, TypeOK
    <3>2. Flags' /\ Names'
      BY <1>1, <3>1, WorkerlessLoopEntered
         DEF IInv, TypeOK, WatcherLaunch, FreshLocals, Flags, Names
    <3> QED BY <1>1, <1>r, <3>1, <3>2, WorkerlessLoopEntered, FreshIsFine DEF IInv, WatcherLaunch
  <2> QED BY <2>1, <2>2 DEF IInv, TypeOK
<1>2. CASE WatcherSigterm \/ WatcherCrash \/ UpgradedOnDisk
  <2>1. FreshLocals /\ watch' = "off" /\ watch # "off"
    BY <1>2 DEF WatcherSigterm, WatcherCrash, UpgradedOnDisk
  <2>2. Flags'
    BY <1>2 DEF IInv, TypeOK, Flags, WatcherSigterm, WatcherCrash, UpgradedOnDisk, CmdStop, FreshLocals
  <2>3. Names'
    BY <1>2 DEF IInv, TypeOK, Names, WatcherSigterm, WatcherCrash, UpgradedOnDisk, CmdStop, FreshLocals
  <2> QED BY <1>r, <2>1, <2>2, <2>3, FreshIsFine
<1>3. CASE SwitchOn
  <2>1. EnterWorkerLoop
    BY <1>3 DEF SwitchOn
  <2>2. Flags' /\ Names'
    BY <1>3, <2>1, WorkerLoopEntered DEF IInv, TypeOK, SwitchOn, FreshLocals, Flags, Names
  <2> QED BY <1>3, <1>r, <2>1, <2>2, WorkerLoopEntered, FreshIsFine DEF IInv, SwitchOn
<1>4. CASE SwitchOff
  <2>1. EnterWorkerlessLoop(FALSE)
    BY <1>4 DEF SwitchOff
  <2>2. Flags' /\ Names'
    BY <1>4, <2>1, WorkerlessLoopEntered DEF IInv, TypeOK, SwitchOff, FreshLocals, Flags, Names
  <2> QED BY <1>4, <1>r, <2>1, <2>2, WorkerlessLoopEntered, FreshIsFine DEF IInv, SwitchOff
<1>5. CASE Wake
  <2>a. Flags'
    BY <1>5 DEF IInv, TypeOK, Flags, Wake, Tick, Upto
  <2>b. Names'
    BY <1>5 DEF IInv, TypeOK, Names, Wake, Tick, Upto
  <2>c. Timers'
    BY <1>5 DEF IInv, TypeOK, Timers, Wake, Tick, Upto
  <2>1. TypeOK'
    BY <1>h, <2>a, <2>b, <2>c DEF TypeOK, Flags, Names, Timers, Histories
  <2>2. TimersInv'
    BY <1>5, <1>r DEF IInv, TypeOK, TimersInv, Fresh, Remember, Woke, FoundBackends, FoundMount, Supervised, Wake, Tick, Upto
  <2>3. ExposureInv'
    BY <1>5, <1>r DEF IInv, TypeOK, TimersInv, Fresh, ExposureInv, Remember, Woke, Supervised, Wake, Tick, Upto, Running
  <2>4. MarkerNamesThePause'
    BY <1>5 DEF IInv, TimersInv, MarkerNamesThePause, Wake, Tick, Upto
  <2>5. NoticeNamesTheOutage'
    BY <1>5 DEF IInv, TypeOK, NoticeNamesTheOutage, Wake, Tick, Upto
  <2> QED BY <2>1, <2>2, <2>3, <2>4, <2>5 DEF IInv
<1>6. CASE BackendsDown
  <2>a. Flags'
    BY <1>6 DEF IInv, TypeOK, Flags, BackendsDown, Hold, BackendNotice, Running
  <2>b. Names'
    BY <1>6 DEF IInv, TypeOK, Names, BackendsDown, Hold, BackendNotice, Running
  <2>c. Timers'
    BY <1>6 DEF IInv, TypeOK, Timers, BackendsDown, Hold, BackendNotice, Running
  <2>1. TypeOK'
    BY <1>h, <2>a, <2>b, <2>c DEF TypeOK, Flags, Names, Timers, Histories
  <2>2. TimersInv'
    BY <1>6, <1>r DEF IInv, TypeOK, TimersInv, Fresh, Remember, Woke, FoundBackends, FoundMount, Supervised, Upto, BackendsDown, Hold, BackendNotice, Running
  <2>3. ExposureInv'
    BY <1>6, <1>r DEF IInv, TypeOK, TimersInv, Fresh, ExposureInv, Remember, Woke, Supervised, Upto, BackendsDown, Hold, BackendNotice, Running
  <2>4. MarkerNamesThePause'
    BY <1>6 DEF IInv, TimersInv, MarkerNamesThePause, BackendsDown, Hold, BackendNotice, Running
  <2>5. NoticeNamesTheOutage'
    BY <1>6 DEF IInv, NoticeNamesTheOutage, BackendsDown, Hold, BackendNotice, Running
  <2> QED BY <2>1, <2>2, <2>3, <2>4, <2>5 DEF IInv
<1>7. CASE BackendsBack
  <2>w. worker' \in BOOLEAN
    BY <1>7, LoopStart DEF IInv, TypeOK, BackendsBack, Ended, HandOver, Resume
  <2>m. \/ marker' = "none"
        \/ marker' = "library-unreachable" /\ mediaPaused
        \/ marker' = marker /\ ~backendPaused
    BY <1>7, LoopStart DEF BackendsBack, Ended, HandOver, Resume
  <2>n. \/ notice' \in {"none", "media-permission", WithoutLocalNetwork}
        \/ notice' = notice /\ backendTimer = Nil
    BY <1>7, LoopStart DEF BackendsBack, Ended, HandOver, Resume
  <2>p. WithoutLocalNetwork \in {"none", "media-permission"}
    BY DEF WithoutLocalNetwork, IInv, TypeOK
  <2>a. Flags'
    BY <1>7, <2>w DEF IInv, TypeOK, Flags, BackendsBack, Ended, HandOver, Resume
  <2>b. Names'
    BY <1>7, <2>m, <2>n, <2>p DEF IInv, TypeOK, Names, BackendsBack, Ended, HandOver, Resume
  <2>c. Timers'
    BY <1>7 DEF IInv, TypeOK, Timers, BackendsBack, Ended, HandOver, Resume
  <2>1. TypeOK'
    BY <1>h, <2>a, <2>b, <2>c DEF TypeOK, Flags, Names, Timers, Histories
  <2>2. TimersInv'
    BY <1>7, <1>r DEF IInv, TypeOK, TimersInv, Fresh, Remember, Woke, FoundBackends, FoundMount, Supervised, Upto, BackendsBack, Ended, HandOver, Resume
  <2>3. ExposureInv'
    BY <1>7, <2>w, <1>r DEF IInv, TypeOK, TimersInv, Fresh, ExposureInv, Remember, Woke, Supervised, Upto, BackendsBack, Ended, HandOver, Resume, Running
  <2>4. MarkerNamesThePause'
    BY <1>7, <2>m, <2>n, <2>p DEF IInv, TimersInv, MarkerNamesThePause, BackendsBack, Ended, HandOver, Resume
  <2>5. NoticeNamesTheOutage'
    BY <1>7, <2>m, <2>n, <2>p DEF IInv, NoticeNamesTheOutage, BackendsBack, Ended, HandOver, Resume
  <2> QED BY <2>1, <2>2, <2>3, <2>4, <2>5 DEF IInv
<1>8. CASE LibraryGone
  <2>a. Flags'
    BY <1>8 DEF IInv, TypeOK, Flags, LibraryGone, Hold, Running
  <2>b. Names'
    BY <1>8 DEF IInv, TypeOK, Names, LibraryGone, Hold, Running
  <2>c. Timers'
    BY <1>8 DEF IInv, TypeOK, Timers, LibraryGone, Hold, Running
  <2>1. TypeOK'
    BY <1>h, <2>a, <2>b, <2>c DEF TypeOK, Flags, Names, Timers, Histories
  <2>2. TimersInv'
    BY <1>8, <1>r DEF IInv, TypeOK, TimersInv, Fresh, Remember, Woke, FoundBackends, FoundMount, Supervised, Upto, LibraryGone, Hold, Running
  <2>3. ExposureInv'
    BY <1>8, <1>r DEF IInv, TypeOK, TimersInv, Fresh, ExposureInv, Remember, Woke, Supervised, Upto, LibraryGone, Hold, Running
  <2>4. MarkerNamesThePause'
    BY <1>8 DEF IInv, TimersInv, MarkerNamesThePause, LibraryGone, Hold, Running
  <2>5. NoticeNamesTheOutage'
    BY <1>8 DEF IInv, NoticeNamesTheOutage, LibraryGone, Hold, Running
  <2> QED BY <2>1, <2>2, <2>3, <2>4, <2>5 DEF IInv
<1>9. CASE LibraryMounted
  <2>w. worker' \in BOOLEAN
    BY <1>9, LoopStart DEF IInv, TypeOK, LibraryMounted, Ended, Resume
  <2>m. marker' = "none" \/ (marker' = marker /\ ~mediaPaused)
    BY <1>9, LoopStart DEF LibraryMounted, Ended, Resume
  <2>n. notice' \in {"none", "media-permission", notice}
    BY <1>9, LoopStart DEF LibraryMounted, Ended, Resume
  <2>a. Flags'
    BY <1>9, <2>w DEF IInv, TypeOK, Flags, LibraryMounted, Ended, Resume
  <2>b. Names'
    BY <1>9, <2>m, <2>n DEF IInv, TypeOK, Names, LibraryMounted, Ended, Resume
  <2>c. Timers'
    BY <1>9 DEF IInv, TypeOK, Timers, LibraryMounted, Ended, Resume
  <2>1. TypeOK'
    BY <1>h, <2>a, <2>b, <2>c DEF TypeOK, Flags, Names, Timers, Histories
  <2>2. TimersInv'
    BY <1>9, <1>r DEF IInv, TypeOK, TimersInv, Fresh, Remember, Woke, FoundBackends, FoundMount, Supervised, Upto, LibraryMounted, Ended, Resume
  <2>3. ExposureInv'
    BY <1>9, <2>w, <1>r DEF IInv, TypeOK, TimersInv, Fresh, ExposureInv, Remember, Woke, Supervised, Upto, LibraryMounted, Ended, Resume, Running
  <2>4. MarkerNamesThePause'
    BY <1>9, <2>m, <2>n DEF IInv, TimersInv, MarkerNamesThePause, LibraryMounted, Ended, Resume
  <2>5. NoticeNamesTheOutage'
    BY <1>9, <2>m, <2>n DEF IInv, NoticeNamesTheOutage, LibraryMounted, Ended, Resume
  <2> QED BY <2>1, <2>2, <2>3, <2>4, <2>5 DEF IInv
<1>10. CASE FdRestart
  <2>w. worker' \in BOOLEAN
    BY <1>10, LoopStart DEF IInv, TypeOK, FdRestart
  <2>m. marker' \in {"none", marker} /\ notice' \in {"none", "media-permission", notice}
    BY <1>10, LoopStart DEF FdRestart
  <2>a. Flags'
    BY <1>10, <2>w DEF IInv, TypeOK, Flags, FdRestart
  <2>b. Names'
    BY <1>10, <2>m DEF IInv, TypeOK, Names, FdRestart
  <2>c. Timers'
    BY <1>10 DEF IInv, TypeOK, Timers, FdRestart
  <2>1. TypeOK'
    BY <1>h, <2>a, <2>b, <2>c DEF TypeOK, Flags, Names, Timers, Histories
  <2>2. TimersInv'
    BY <1>10, <1>r DEF IInv, TypeOK, TimersInv, Fresh, Remember, Woke, FoundBackends, FoundMount, Supervised, Upto, FdRestart
  <2>3. ExposureInv'
    BY <1>10, <2>w, <1>r DEF IInv, TypeOK, TimersInv, Fresh, ExposureInv, Remember, Woke, Supervised, Upto, FdRestart, Running
  <2>4. MarkerNamesThePause'
    BY <1>10, <2>m DEF IInv, TimersInv, MarkerNamesThePause, FdRestart
  <2>5. NoticeNamesTheOutage'
    BY <1>10, <2>m DEF IInv, NoticeNamesTheOutage, FdRestart
  <2> QED BY <2>1, <2>2, <2>3, <2>4, <2>5 DEF IInv
<1>11. CASE CrashCheck
  <2>w. worker' \in BOOLEAN
    BY <1>11, LoopStart DEF IInv, TypeOK, CrashCheck
  <2>m. marker' \in {"none", marker} /\ notice' \in {"none", "media-permission", notice}
    BY <1>11, LoopStart DEF CrashCheck
  <2>a. Flags'
    BY <1>11, <2>w DEF IInv, TypeOK, Flags, CrashCheck
  <2>b. Names'
    BY <1>11, <2>m DEF IInv, TypeOK, Names, CrashCheck
  <2>c. Timers'
    BY <1>11 DEF IInv, TypeOK, Timers, CrashCheck
  <2>1. TypeOK'
    BY <1>h, <2>a, <2>b, <2>c DEF TypeOK, Flags, Names, Timers, Histories
  <2>2. TimersInv'
    BY <1>11, <1>r DEF IInv, TypeOK, TimersInv, Fresh, Remember, Woke, FoundBackends, FoundMount, Supervised, Upto, CrashCheck
  <2>3. ExposureInv'
    BY <1>11, <2>w, <1>r DEF IInv, TypeOK, TimersInv, Fresh, ExposureInv, Remember, Woke, Supervised, Upto, CrashCheck, Running
  <2>4. MarkerNamesThePause'
    BY <1>11, <2>m DEF IInv, TimersInv, MarkerNamesThePause, CrashCheck
  <2>5. NoticeNamesTheOutage'
    BY <1>11, <2>m DEF IInv, NoticeNamesTheOutage, CrashCheck
  <2> QED BY <2>1, <2>2, <2>3, <2>4, <2>5 DEF IInv
<1>12. CASE FollowVersion
  <2>w. worker' \in BOOLEAN
    BY <1>12, LoopStart DEF FollowVersion, CmdStop
  <2>m. marker' = "none" /\ notice' \in {"none", "media-permission"}
    <3>1. CASE CmdStop
      BY <3>1 DEF CmdStop
    <3>2. CASE \E raised \in BOOLEAN : CmdStart(TRUE, FALSE, "none", "none", raised)
      <4>1. marker' \in {"none", "none"} /\ notice' \in {"none", "media-permission", "none"}
        BY <3>2, LoopStart, Zenon
      <4> QED BY <4>1
    <3> QED BY <1>12, <3>1, <3>2 DEF FollowVersion
  <2>a. Flags'
    BY <1>12, <2>w DEF IInv, TypeOK, Flags, FollowVersion
  <2>b. Names'
    BY <1>12, <2>m DEF IInv, TypeOK, Names, FollowVersion
  <2>c. Timers'
    BY <1>12 DEF IInv, TypeOK, Timers, FollowVersion
  <2>1. TypeOK'
    BY <1>h, <2>a, <2>b, <2>c DEF TypeOK, Flags, Names, Timers, Histories
  <2>2. TimersInv'
    BY <1>12, <1>r DEF IInv, TypeOK, TimersInv, Fresh, Remember, Woke, FoundBackends, FoundMount, Supervised, Upto, FollowVersion
  <2>3. ExposureInv'
    BY <1>12, <2>w, <1>r DEF IInv, TypeOK, TimersInv, Fresh, ExposureInv, Remember, Woke, Supervised, Upto, FollowVersion, Running
  <2>4. MarkerNamesThePause'
    BY <1>12, <2>m DEF IInv, TimersInv, MarkerNamesThePause, FollowVersion
  <2>5. NoticeNamesTheOutage'
    BY <1>12, <2>m DEF IInv, NoticeNamesTheOutage, FollowVersion
  <2> QED BY <2>1, <2>2, <2>3, <2>4, <2>5 DEF IInv
<1>13. CASE UserStart
  <2>s. PICK force \in BOOLEAN, raised \in BOOLEAN :
          CmdStart(force, worker, marker, notice, raised)
    BY <1>13 DEF UserStart
  <2>w. worker' \in BOOLEAN
    BY <2>s, CmdStartWorker DEF IInv, TypeOK
  <2>m. marker' \in {"none", marker} /\ notice' \in {"none", "media-permission", notice}
    BY <2>s, CmdStartFiles DEF IInv, TypeOK
  <2>a. Flags'
    BY <1>13, <2>w DEF IInv, TypeOK, Flags, UserStart
  <2>b. Names'
    BY <1>13, <2>m DEF IInv, TypeOK, Names, UserStart
  <2>c. Timers'
    BY <1>13 DEF IInv, TypeOK, Timers, UserStart
  <2>1. TypeOK'
    BY <1>h, <2>a, <2>b, <2>c DEF TypeOK, Flags, Names, Timers, Histories
  <2>2. TimersInv'
    BY <1>13, <1>r DEF IInv, TypeOK, TimersInv, Fresh, Remember, Woke, FoundBackends, FoundMount, Supervised, Upto, UserStart
  <2>3. ExposureInv'
    BY <1>13, <2>w, <1>r DEF IInv, TypeOK, TimersInv, Fresh, ExposureInv, Remember, Woke, Supervised, Upto, UserStart, Running
  <2>4. MarkerNamesThePause'
    BY <1>13, <2>m DEF IInv, TimersInv, MarkerNamesThePause, UserStart
  <2>5. NoticeNamesTheOutage'
    BY <1>13, <2>m DEF IInv, NoticeNamesTheOutage, UserStart
  <2> QED BY <2>1, <2>2, <2>3, <2>4, <2>5 DEF IInv
<1>14. CASE WorkerExit
  <2>a. Flags'
    BY <1>14 DEF IInv, TypeOK, Flags, WorkerExit
  <2>b. Names'
    BY <1>14 DEF IInv, TypeOK, Names, WorkerExit
  <2>c. Timers'
    BY <1>14 DEF IInv, TypeOK, Timers, WorkerExit
  <2>1. TypeOK'
    BY <1>h, <2>a, <2>b, <2>c DEF TypeOK, Flags, Names, Timers, Histories
  <2>2. TimersInv'
    BY <1>14, <1>r DEF IInv, TypeOK, TimersInv, Fresh, Remember, Woke, FoundBackends, FoundMount, Supervised, Upto, WorkerExit
  <2>3. ExposureInv'
    BY <1>14, <1>r DEF IInv, TypeOK, TimersInv, Fresh, ExposureInv, Remember, Woke, Supervised, Upto, WorkerExit, Running
  <2>4. MarkerNamesThePause'
    BY <1>14 DEF IInv, TimersInv, MarkerNamesThePause, WorkerExit
  <2>5. NoticeNamesTheOutage'
    BY <1>14 DEF IInv, NoticeNamesTheOutage, WorkerExit
  <2> QED BY <2>1, <2>2, <2>3, <2>4, <2>5 DEF IInv
<1>15. CASE WorldChanges
  <2>a. Flags'
    BY <1>15 DEF IInv, TypeOK, Flags, WorldChanges
  <2>b. Names'
    BY <1>15 DEF IInv, TypeOK, Names, WorldChanges
  <2>c. Timers'
    BY <1>15 DEF IInv, TypeOK, Timers, WorldChanges
  <2>1. TypeOK'
    BY <1>h, <2>a, <2>b, <2>c DEF TypeOK, Flags, Names, Timers, Histories
  <2>2. TimersInv'
    BY <1>15, <1>r DEF IInv, TypeOK, TimersInv, Fresh, Remember, Woke, FoundBackends, FoundMount, Supervised, Upto, WorldChanges
  <2>3. ExposureInv'
    BY <1>15, <1>r DEF IInv, TypeOK, TimersInv, Fresh, ExposureInv, Remember, Woke, Supervised, Upto, WorldChanges, Running
  <2>4. MarkerNamesThePause'
    BY <1>15 DEF IInv, TimersInv, MarkerNamesThePause, WorldChanges
  <2>5. NoticeNamesTheOutage'
    BY <1>15 DEF IInv, NoticeNamesTheOutage, WorldChanges
  <2> QED BY <2>1, <2>2, <2>3, <2>4, <2>5 DEF IInv
<1>16. CASE ComponentWorker \/ ComponentMl
  <2>1. CASE watch = "off"
    <3>1. watch' = "off" /\ UNCHANGED <<world, requireMedia, locals>>
      BY <1>16, <2>1 DEF ComponentWorker, ComponentMl
    <3>s. \/ worker' = FALSE /\ UNCHANGED files
          \/ \E running, raised \in BOOLEAN :
               \/ CmdStart(FALSE, running, marker, notice, raised)
               \/ StartWithWorker(FALSE, running, marker, notice, raised)
      BY <1>16, <2>1 DEF IInv, TypeOK, ComponentWorker, ComponentMl
    <3>o. workerOn' \in BOOLEAN
      BY <1>16 DEF IInv, TypeOK, ComponentWorker, ComponentMl
    <3>w. worker' \in BOOLEAN
      BY <3>s, CmdStartWorker
    <3>m. marker' \in {"none", marker} /\ notice' \in {"none", "media-permission", notice}
      <4>1. CASE worker' = FALSE /\ UNCHANGED files
        BY <4>1
      <4>2. ASSUME NEW running \in BOOLEAN, NEW raised \in BOOLEAN,
                   \/ CmdStart(FALSE, running, marker, notice, raised)
                   \/ StartWithWorker(FALSE, running, marker, notice, raised)
            PROVE  marker' \in {"none", marker} /\ notice' \in {"none", "media-permission", notice}
        <5>1. marker' \in {"none", marker}
          BY <4>2 DEF CmdStart, StartWithWorker, StartWithoutWorker
        <5>2. notice' \in {"none", "media-permission", notice}
          BY <4>2 DEF CmdStart, StartWithWorker, StartWithoutWorker, GateNotice
        <5> QED BY <5>1, <5>2
      <4> QED BY <3>s, <4>1, <4>2
    <3>a. Flags'
      BY <3>1, <3>o, <3>w DEF IInv, TypeOK, Flags
    <3>b. Names' /\ Timers'
      BY <2>1, <3>1, <3>m DEF IInv, TypeOK, Names, Timers
    <3>2. TypeOK'
      BY <1>h, <3>a, <3>b DEF TypeOK, Flags, Names, Timers, Histories
    <3>3. silentFor' = 0 /\ unseenFor' = 0 /\ exposed' = 0
      BY <2>1, <3>1, <1>r DEF Remember, Supervised
    <3>4. TimersInv' /\ ExposureInv'
      BY <2>1, <3>1, <3>3 DEF IInv, TimersInv, Fresh, ExposureInv, Running
    <3>5. MarkerNamesThePause' /\ NoticeNamesTheOutage'
      BY <3>1 DEF MarkerNamesThePause, NoticeNamesTheOutage
    <3> QED BY <3>2, <3>4, <3>5 DEF IInv
  <2>2. CASE watch # "off"
    <3>1. /\ worker' \in {FALSE, worker} /\ workerOn' \in BOOLEAN
          /\ UNCHANGED <<world, requireMedia, files, watch, locals>>
      BY <1>16, <2>2 DEF IInv, TypeOK, ComponentWorker, ComponentMl
    <3>a. Flags'
      BY <3>1 DEF IInv, TypeOK, Flags
    <3>b. Names' /\ Timers'
      BY <3>1 DEF IInv, TypeOK, Names, Timers
    <3>2. TypeOK'
      BY <1>h, <3>a, <3>b DEF TypeOK, Flags, Names, Timers, Histories
    <3>3. TimersInv'
      BY <3>1, <1>r DEF IInv, TypeOK, TimersInv, Fresh, Remember, Woke, FoundBackends, FoundMount, Supervised, Upto
    <3>4. ExposureInv'
      BY <3>1, <1>r DEF IInv, TypeOK, TimersInv, Fresh, ExposureInv, Remember, Woke, Supervised, Upto, Running
    <3>5. MarkerNamesThePause' /\ NoticeNamesTheOutage'
      BY <3>1 DEF IInv, MarkerNamesThePause, NoticeNamesTheOutage
    <3> QED BY <3>2, <3>3, <3>4, <3>5 DEF IInv
  <2> QED BY <2>1, <2>2
<1>17. CASE LibraryUnguarded
  BY <1>17, <1>r, <1>h
     DEF IInv, TypeOK, Histories, TimersInv, Fresh, ExposureInv, MarkerNamesThePause,
         NoticeNamesTheOutage, Remember, Woke, FoundBackends, FoundMount, Supervised,
         Upto, Running, LibraryUnguarded
<1>18. CASE VersionUnchanged
  BY <1>18, <1>r, <1>h
     DEF IInv, TypeOK, Histories, TimersInv, Fresh, ExposureInv, MarkerNamesThePause,
         NoticeNamesTheOutage, Remember, Woke, FoundBackends, FoundMount, Supervised,
         Upto, Running, VersionUnchanged
<1>19. CASE MediaRead
  BY <1>19, <1>r, <1>h
     DEF IInv, TypeOK, Histories, TimersInv, Fresh, ExposureInv, MarkerNamesThePause,
         NoticeNamesTheOutage, Remember, Woke, FoundBackends, FoundMount, Supervised,
         Upto, Running, MediaRead, WithoutPermission
<1>20. CASE EditConfig
  <2>1. /\ requireMedia' \in BOOLEAN /\ workerOn' \in BOOLEAN
        /\ UNCHANGED <<world, worker, files, watch, locals>>
    BY <1>20 DEF EditConfig, IInv, TypeOK
  <2>a. Flags'
    BY <2>1 DEF IInv, TypeOK, Flags
  <2>b. Names' /\ Timers'
    BY <2>1 DEF IInv, TypeOK, Names, Timers
  <2>2. TypeOK'
    BY <1>h, <2>a, <2>b DEF TypeOK, Flags, Names, Timers, Histories
  <2>3. TimersInv'
    BY <2>1, <1>r DEF IInv, TypeOK, TimersInv, Fresh, Remember, Woke, FoundBackends, FoundMount, Supervised, Upto
  <2>4. ExposureInv'
    BY <2>1, <1>r DEF IInv, TypeOK, TimersInv, Fresh, ExposureInv, Remember, Woke, Supervised, Upto, Running
  <2>5. MarkerNamesThePause' /\ NoticeNamesTheOutage'
    BY <2>1 DEF IInv, MarkerNamesThePause, NoticeNamesTheOutage
  <2> QED BY <2>2, <2>3, <2>4, <2>5 DEF IInv
<1>21. CASE UserStop
  <2>a. Flags'
    BY <1>21 DEF IInv, TypeOK, Flags, UserStop, CmdStop
  <2>b. Names' /\ Timers'
    BY <1>21 DEF IInv, TypeOK, Names, Timers, UserStop, CmdStop
  <2>1. TypeOK'
    BY <1>h, <2>a, <2>b DEF TypeOK, Flags, Names, Timers, Histories
  <2>2. TimersInv' /\ ExposureInv'
    BY <1>21, <1>r DEF IInv, TypeOK, TimersInv, Fresh, ExposureInv, Remember, Woke,
       FoundBackends, FoundMount, Supervised, Upto, Running, UserStop, CmdStop
  <2>3. MarkerNamesThePause' /\ NoticeNamesTheOutage'
    BY <1>21 DEF MarkerNamesThePause, NoticeNamesTheOutage, UserStop, CmdStop
  <2> QED BY <2>1, <2>2, <2>3 DEF IInv
<1> QED BY <1>1, <1>2, <1>3, <1>4, <1>5, <1>6, <1>7, <1>8, <1>9, <1>10, <1>11, <1>12, <1>13, <1>14, <1>15, <1>16, <1>17, <1>18, <1>19, <1>20, <1>21 DEF Next, Cycle, Disturbance

\* The invariant holds at the start, before any watcher runs.
LEMMA Initially == Init => IInv
<1> SUFFICES ASSUME Init PROVE IInv
  OBVIOUS
<1> USE GraceAssumption DEF Nil
<1>1. Flags
  BY DEF Init, Flags
<1>2. Names /\ Timers /\ Histories
  BY DEF Init, Names, Timers, Histories
<1>3. TypeOK
  BY <1>1, <1>2, TypeParts
<1>4. TimersInv /\ ExposureInv
  BY DEF Init, TimersInv, Fresh, ExposureInv, Running
<1>5. MarkerNamesThePause /\ NoticeNamesTheOutage
  BY DEF Init, MarkerNamesThePause, NoticeNamesTheOutage
<1> QED BY <1>3, <1>4, <1>5 DEF IInv

\* The inductive invariant is an invariant of every behaviour.
THEOREM Invariant == Spec => []IInv
<1>1. IInv /\ UNCHANGED vars => IInv'
  BY DEF vars, world, config, files, locals, history, IInv, TypeOK, TimersInv, Fresh,
     ExposureInv, MarkerNamesThePause, NoticeNamesTheOutage, Running, Nil
<1> QED BY Initially, Inductive, <1>1, PTL DEF Spec

\* Type correctness: the variables of the watcher, the two status files and
\* the timers stay in their ranges.
THEOREM TypeCorrect == Spec => []TypeOK
<1>1. IInv => TypeOK
  BY DEF IInv
<1> QED BY <1>1, Invariant, PTL

\* What `status` says about a stopped worker is true: the marker names an
\* outage the running loop is holding the worker for, for every grace period.
THEOREM MarkerTheorem == Spec => []MarkerNamesThePause
<1>1. IInv => MarkerNamesThePause
  BY DEF IInv
<1> QED BY <1>1, Invariant, PTL

\* The local-network notice only stands while the loop sees the backends down.
THEOREM NoticeTheorem == Spec => []NoticeNamesTheOutage
<1>1. IInv => NoticeNamesTheOutage
  BY DEF IInv
<1> QED BY <1>1, Invariant, PTL

\* Both of the files that `status` reads tell the truth, at any time.
THEOREM FilesTheorem == Spec => []FilesTellTheTruth
  BY MarkerTheorem, NoticeTheorem, PTL DEF FilesTellTheTruth

\* A supervised worker is stopped within the grace and one more cycle of the
\* loss of the library's mount, for every grace period.
THEOREM ExposureTheorem == Spec => []ExposureBounded
<1>1. IInv => ExposureBounded
  BY GraceAssumption DEF IInv, TypeOK, ExposureInv, ExposureBounded, Running, Nil
<1> QED BY <1>1, Invariant, PTL

\* No pause begins before a full grace period without one good probe.
THEOREM GraceTheorem == Spec => PauseOutlastsGrace
<1> DEFINE A == /\ ~backendPaused /\ backendPaused' => silentFor >= Grace
                /\ ~mediaPaused /\ mediaPaused' => unseenFor >= Grace
<1>1. IInv /\ Next => A
  <2> SUFFICES ASSUME IInv, Next PROVE A
    OBVIOUS
  <2>1. ~backendPaused /\ backendPaused' => BackendsDown
    BY DEF Next, Cycle, Disturbance, locals, EnterWorkerLoop, EnterWorkerlessLoop, FreshLocals,
       WatcherLaunch, SwitchOn, SwitchOff, Wake, BackendsBack, LibraryGone, LibraryMounted,
       LibraryUnguarded, MediaRead, CrashCheck, VersionUnchanged, WatcherSigterm, WatcherCrash,
       UpgradedOnDisk, FdRestart, FollowVersion, UserStart, UserStop, ComponentWorker,
       ComponentMl, EditConfig, WorkerExit, WorldChanges
  <2>2. ~mediaPaused /\ mediaPaused' => LibraryGone
    BY DEF Next, Cycle, Disturbance, locals, EnterWorkerLoop, EnterWorkerlessLoop, FreshLocals,
       WatcherLaunch, SwitchOn, SwitchOff, Wake, BackendsDown, BackendsBack, LibraryMounted,
       LibraryUnguarded, MediaRead, CrashCheck, VersionUnchanged, WatcherSigterm, WatcherCrash,
       UpgradedOnDisk, FdRestart, FollowVersion, UserStart, UserStop, ComponentWorker,
       ComponentMl, EditConfig, WorkerExit, WorldChanges
  <2>3. ASSUME BackendsDown, backendPaused', ~backendPaused PROVE silentFor >= Grace
    <3>1. backendTimer' >= Grace
      BY <2>3, Zenon DEF BackendsDown
    <3>2. backendTimer' = Running(backendTimer)
      BY <2>3 DEF BackendsDown
    <3> QED BY <3>1, <3>2, GraceAssumption DEF IInv, TypeOK, TimersInv, Running, Nil
  <2>4. ASSUME LibraryGone, mediaPaused', ~mediaPaused PROVE unseenFor >= Grace
    <3>1. ~(mediaTimer' < Grace)
      BY <2>4, GraceAssumption DEF IInv, TypeOK, LibraryGone, Running, Nil
    <3>2. mediaTimer' = Running(mediaTimer)
      BY <2>4 DEF LibraryGone
    <3> QED BY <3>1, <3>2, GraceAssumption DEF IInv, TypeOK, TimersInv, Running, Nil
  <2> QED BY <2>1, <2>2, <2>3, <2>4
<1>2. IInv /\ [Next]_vars => [A]_vars
  BY <1>1
<1>3. [][A]_vars => PauseOutlastsGrace
  BY PTL DEF PauseOutlastsGrace
<1> QED BY <1>2, <1>3, Invariant, PTL DEF Spec

\* Steps that end with a worker the state before did not have.
LEMMA WhoStarts ==
  ASSUME IInv, Next, ~worker, worker'
  PROVE  \/ UserStart
         \/ FreshLocals
         \/ watch = "off" /\ UNCHANGED <<watch, backendPaused, mediaPaused>>
         \/ BackendsBack /\ backendPaused /\ ~mediaPaused
         \/ LibraryMounted
         \/ pc \in {"crash", "follow"} /\ UNCHANGED <<seen, backendPaused, mediaPaused>>
<1> USE DEF IInv, TypeOK, world, config, files, locals
<1>1. CASE WatcherLaunch \/ SwitchOn \/ SwitchOff \/ WatcherSigterm \/ WatcherCrash \/ UpgradedOnDisk
  BY <1>1 DEF WatcherLaunch, SwitchOn, SwitchOff, WatcherSigterm, WatcherCrash, UpgradedOnDisk,
     EnterWorkerLoop, EnterWorkerlessLoop
<1>2. CASE FdRestart \/ CrashCheck \/ FollowVersion
  BY <1>2 DEF FdRestart, CrashCheck, FollowVersion
<1>3. CASE BackendsBack
  BY <1>3 DEF BackendsBack, Ended, HandOver
<1>4. CASE BackendsDown \/ LibraryGone
  BY <1>4 DEF BackendsDown, LibraryGone, Hold
<1>5. CASE Wake \/ LibraryUnguarded \/ MediaRead \/ VersionUnchanged
  BY <1>5 DEF Wake, LibraryUnguarded, MediaRead, VersionUnchanged
<1>6. CASE UserStop \/ ComponentWorker \/ ComponentMl \/ EditConfig \/ WorkerExit \/ WorldChanges
  BY <1>6 DEF UserStop, CmdStop, ComponentWorker, ComponentMl, EditConfig, WorkerExit, WorldChanges
<1> QED BY <1>1, <1>2, <1>3, <1>4, <1>5, <1>6 DEF Next, Cycle, Disturbance

\* Neither the crash check, nor the fd watchdog, nor the end of one of two
\* outages starts a worker that a pause holds down.
THEOREM HeldDownTheorem == Spec => LoopKeepsWorkerPaused
<1> DEFINE A == (backendPaused' \/ (mediaPaused' /\ seen)) /\ ~worker /\ worker' => UserStart
<1>1. IInv /\ Next => A
  <2> SUFFICES ASSUME IInv, Next, backendPaused' \/ (mediaPaused' /\ seen), ~worker, worker'
               PROVE  UserStart
    OBVIOUS
  <2>1. ~FreshLocals
    BY DEF FreshLocals
  <2>2. ~(BackendsBack /\ backendPaused /\ ~mediaPaused)
    <3>1. BackendsBack => ~backendPaused' /\ mediaPaused' = mediaPaused
      BY DEF BackendsBack, Ended
    <3> QED BY <3>1
  <2>3. ~LibraryMounted
    <3>1. LibraryMounted => ~mediaPaused' /\ backendPaused' = backendPaused /\ pc = "media"
      BY DEF LibraryMounted, Ended
    <3>2. pc = "media" => ~backendPaused
      BY DEF IInv, TimersInv
    <3> QED BY <3>1, <3>2
  <2>4. ~(pc \in {"crash", "follow"} /\ UNCHANGED <<seen, backendPaused, mediaPaused>>)
    BY DEF IInv, TimersInv
  <2>5. ~(watch = "off" /\ UNCHANGED <<watch, backendPaused, mediaPaused>>)
    BY DEF IInv, TimersInv, Fresh
  <2> QED BY <2>1, <2>2, <2>3, <2>4, <2>5, WhoStarts
<1>2. IInv /\ [Next]_vars => [A]_vars
  BY <1>1
<1>3. [][A]_vars => LoopKeepsWorkerPaused
  BY PTL DEF LoopKeepsWorkerPaused
<1> QED BY <1>2, <1>3, Invariant, PTL DEF Spec

\* The loop never forgets why it holds the worker down: the hand-over between
\* two outages keeps a reason in the marker, and no other step of its cycle
\* takes the reason away.
THEOREM ExplainedTheorem == Spec => PauseStaysExplained
<1> DEFINE A == HoldsPause /\ HoldsPause' /\ marker # "none" /\ marker' = "none"
                  => UserStop \/ UserStart
<1>1. IInv /\ Next => A
  <2> SUFFICES ASSUME IInv, Next, HoldsPause, HoldsPause', marker # "none", marker' = "none",
                      ~UserStop, ~UserStart
               PROVE  FALSE
    OBVIOUS
  <2> USE DEF IInv, TypeOK, world, config, files, locals
  <2>1. CASE WatcherLaunch \/ SwitchOn \/ SwitchOff \/ WatcherSigterm \/ WatcherCrash \/ UpgradedOnDisk
    BY <2>1 DEF WatcherLaunch, SwitchOn, SwitchOff, WatcherSigterm, WatcherCrash, UpgradedOnDisk,
       EnterWorkerLoop, EnterWorkerlessLoop, FreshLocals, HoldsPause
  <2>2. CASE FdRestart \/ CrashCheck \/ FollowVersion
    <3>1. pc \in {"crash", "follow"}
      BY <2>2 DEF FdRestart, CrashCheck, FollowVersion
    <3> QED BY <3>1 DEF HoldsPause, TimersInv
  <2>3. CASE BackendsBack
    <3>1. ~backendPaused' /\ mediaPaused' = mediaPaused
      BY <2>3 DEF BackendsBack, Ended
    <3>2. mediaPaused
      BY <3>1 DEF HoldsPause
    <3>3. marker' \in {marker, "library-unreachable"}
      BY <2>3, <3>2 DEF BackendsBack, Ended, HandOver
    <3> QED BY <3>3
  <2>4. CASE BackendsDown
    BY <2>4 DEF BackendsDown, Hold
  <2>5. CASE LibraryGone
    BY <2>5 DEF LibraryGone, Hold
  <2>6. CASE LibraryMounted
    BY <2>6 DEF LibraryMounted, Ended, HoldsPause, TimersInv
  <2>7. CASE Wake \/ LibraryUnguarded \/ MediaRead \/ VersionUnchanged
    BY <2>7 DEF Wake, LibraryUnguarded, MediaRead, VersionUnchanged
  <2>8. CASE ComponentWorker \/ ComponentMl
    <3>1. watch = "worker"
      BY DEF HoldsPause
    <3> QED BY <2>8, <3>1 DEF ComponentWorker, ComponentMl
  <2>9. CASE EditConfig \/ WorkerExit \/ WorldChanges
    BY <2>9 DEF EditConfig, WorkerExit, WorldChanges
  <2> QED BY <2>1, <2>2, <2>3, <2>4, <2>5, <2>6, <2>7, <2>8, <2>9 DEF Next, Cycle, Disturbance
<1>2. IInv /\ [Next]_vars => [A]_vars
  BY <1>1
<1>3. [][A]_vars => PauseStaysExplained
  BY PTL DEF PauseStaysExplained
<1> QED BY <1>2, <1>3, Invariant, PTL DEF Spec
=============================================================================

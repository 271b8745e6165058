----------------------------- MODULE ConfigFile -----------------------------
(***************************************************************************)
(* config.json: what the user chose and what the accelerator found out, in  *)
(* one file.  The watcher loads it at the start of a cycle and may save its *)
(* copy minutes later; commands do the same from processes of their own.    *)
(* Nobody holds a lock.  save_config writes config.tmp, a name that all     *)
(* share, and renames it, so two saves at once share a file.                *)
(***************************************************************************)
EXTENDS Naturals, FiniteSets

CONSTANTS
  Users,         \* processes in which commands run
  MaxCommands,   \* bound: commands
  MaxMoves,      \* bound: how often the version or the mount changes
  MaxFaults      \* bound: kills and failed fetches

Assumption == "watch" \notin Users /\ {MaxCommands, MaxMoves, MaxFaults} \subseteq Nat

Writers  == {"watch"} \cup Users
Switches == {"worker", "ml"}
Facts    == {"version", "mount_recipe"}   \* what the accelerator records by itself
Unknown  == 0
Values   == Unknown..(1 + MaxMoves)

\* A configuration: the switches and the ml_only preset, whether it describes a worker, the
\* facts.  A key may be absent.
Configs == [worker : {"absent", "on", "off"}, ml : {"absent", "on", "off"},
            ml_only : BOOLEAN, hasWorker : BOOLEAN, facts : [Facts -> Values]]

\* A file that does not parse, and one that is not there.
Broken(why) == [worker |-> why, ml |-> "absent", ml_only |-> FALSE, hasWorker |-> FALSE,
                facts |-> [f \in Facts |-> Unknown]]
Empty == Broken("empty")   \* opened, and not written
Torn  == Broken("torn")    \* one content over another
Gone  == Broken("gone")

Parses(file) == file.worker \in {"absent", "on", "off"}

VARIABLES
  json,     \* config.json
  temp,     \* config.tmp
  proc,     \* what each writer is at
  now,      \* the version the server runs and the way the library is mounted
  asked,    \* history: whether the user has each component on
  mishaps,  \* history: "overlap" and "stale" saves
  left      \* what remains of the bounds

vars == <<json, temp, proc, now, asked, mishaps, left>>

(***************************************************************************)
(* A writer: its step, its copy, whether somebody has saved since it        *)
(* loaded, the file its handle is open on ("temp" becomes "json" when       *)
(* somebody renames it, and "gone" when that is replaced), what comes after *)
(* the save, and what the save asks for.                                   *)
(***************************************************************************)
NoCopy == Gone
Steps  == {"idle", "recipe", "follow", "fetched", "save", "open", "written"}
Idle   == [at |-> "idle", copy |-> NoCopy, stale |-> FALSE, handle |-> "none",
           next |-> "idle", asks |-> [c \in {} |-> TRUE]]

TypeOK ==
  /\ json \in Configs \cup {Empty, Torn}
  /\ temp \in Configs \cup {Empty, Torn, Gone}
  /\ now \in [Facts -> Values \ {Unknown}]
  /\ asked \in [Switches -> BOOLEAN]
  /\ mishaps \subseteq {"overlap", "stale"}
  /\ \A p \in Writers :
       /\ proc[p].at \in Steps /\ proc[p].next \in {"idle", "follow"}
       /\ proc[p].handle \in {"none", "temp", "json", "gone"}
       /\ proc[p].at = "idle" <=> proc[p].copy = NoCopy
       /\ (proc[p].handle # "none") <=> (proc[p].at = "open")
  /\ left \in [commands : 0..MaxCommands, moves : 0..MaxMoves, faults : 0..MaxFaults]

Spend(bound) == left[bound] > 0 /\ left' = [left EXCEPT ![bound] = @ - 1]

-----------------------------------------------------------------------------
(* What a configuration says. *)

\* component_enabled: absent is on, and a key goes before the preset.
Enabled(c, config) ==
  IF config[c] # "absent" THEN config[c] = "on" ELSE ~(config.ml_only /\ c = "worker")

\* The full watch loop runs: the worker is on and _require_worker_config is content.
RunsWorkerLoop(config) == Enabled("worker", config) /\ config.hasWorker

\* Mutant of Changed: a fact is recorded once and for all.
ChangedFromNothing(f, config) == config.facts[f] = Unknown

Changed(f, config) == config.facts[f] # now[f]

Recorded(config, f) == [config EXCEPT !.facts[f] = now[f]]

\* _set_component drops the preset that contradicts the key.
SetComponent(config, c, on) ==
  [config EXCEPT ![c] = on, !.ml_only = @ /\ ~(c = "worker" /\ on = "on")]

\* A full setup on a Mac that can see the library and the server.
FullSetup == [worker |-> "absent", ml |-> "absent", ml_only |-> FALSE, hasWorker |-> TRUE,
              facts |-> [f \in Facts |-> IF f = "version" THEN now[f] ELSE Unknown]]

MlOnlySetup == [worker |-> "off", ml |-> "on", ml_only |-> TRUE, hasWorker |-> FALSE,
                facts |-> [f \in Facts |-> Unknown]]

\* Mutant of Finalized: the ml switch is not among the keys that setup preserves.
FinalizedBare(config, existing) == config

\* _finalize_config carries the switch over that setup itself does not state.
Finalized(config, existing) ==
  IF Parses(existing) /\ config.ml = "absent" THEN [config EXCEPT !.ml = existing.ml] ELSE config

-----------------------------------------------------------------------------
(* save_config: open, which truncates; write, on close; rename. *)

Saving == {"open", "written"}

\* Mutant of Open: config.json is opened itself.
OpenInPlace(p) ==
  /\ proc[p].at = "save"
  /\ json' = Empty /\ UNCHANGED temp
  /\ proc' = [proc EXCEPT ![p].at = "open", ![p].handle = "json"]
  /\ UNCHANGED <<now, asked, mishaps, left>>

Open(p) ==
  /\ proc[p].at = "save"
  /\ temp' = Empty
  /\ proc' = [proc EXCEPT ![p].at = "open", ![p].handle = "temp"]
  /\ mishaps' = mishaps \cup (IF \E q \in Writers : proc[q].at \in Saving THEN {"overlap"} ELSE {})
  /\ UNCHANGED <<json, now, asked, left>>

\* From the start of the file; what was there before and is longer shows behind it.
Over(old, new) == IF old \in {Empty, new} THEN {new} ELSE {new, Torn}

Write(p) ==
  /\ proc[p].at = "open"
  /\ temp' \in IF proc[p].handle = "temp" THEN Over(temp, proc[p].copy) ELSE {temp}
  /\ json' \in IF proc[p].handle = "json" THEN Over(json, proc[p].copy) ELSE {json}
  /\ proc' = [proc EXCEPT ![p].at = "written", ![p].handle = "none"]
  /\ UNCHANGED <<now, asked, mishaps, left>>

Renamed(handle) == CASE handle = "temp" -> "json" [] handle = "json" -> "gone" [] OTHER -> handle

\* A writer goes on with its copy, which is what it saved.
Rename(p) ==
  /\ proc[p].at = "written"
  /\ temp # Gone
  /\ json' = temp /\ temp' = Gone
  /\ proc' = [q \in Writers |->
       IF q # p THEN [proc[q] EXCEPT !.handle = Renamed(@),
                                     !.stale = @ \/ (proc[q].at # "idle" /\ temp # json)]
       ELSE IF proc[p].next = "idle" THEN Idle
       ELSE [proc[p] EXCEPT !.at = proc[p].next, !.next = "idle", !.stale = FALSE]]
  /\ asked' = [c \in Switches |-> IF c \in DOMAIN proc[p].asks THEN proc[p].asks[c] ELSE asked[c]]
  /\ mishaps' = mishaps \cup (IF proc[p].stale THEN {"stale"} ELSE {})
  /\ UNCHANGED <<now, left>>

\* Somebody else renamed the shared file: FileNotFoundError, which ends the process.
RenameFails(p) ==
  /\ proc[p].at = "written"
  /\ temp = Gone
  /\ proc' = [proc EXCEPT ![p] = Idle]
  /\ UNCHANGED <<json, temp, now, asked, mishaps, left>>

Save(p) == Open(p) \/ Write(p) \/ Rename(p) \/ RenameFails(p)

-----------------------------------------------------------------------------
(* The watcher.  A file that does not parse ends it, and launchd starts it again. *)

\* The loop of an ML-only node records neither fact.
LoopLoads ==
  /\ proc["watch"].at = "idle"
  /\ Parses(json) /\ RunsWorkerLoop(json)
  /\ proc' = [proc EXCEPT !["watch"] = [Idle EXCEPT !.at = "recipe", !.copy = json]]
  /\ UNCHANGED <<json, temp, now, asked, mishaps, left>>

To(step, copy, next) ==
  proc' = [proc EXCEPT !["watch"].at = step, !["watch"].copy = copy, !["watch"].next = next]

\* The mount can be seen, and is not what config.json says.
LoopRecordsRecipe ==
  LET copy == proc["watch"].copy IN
  /\ proc["watch"].at = "recipe"
  /\ IF Changed("mount_recipe", copy) THEN To("save", Recorded(copy, "mount_recipe"), "follow")
     ELSE To("follow", copy, "idle")
  /\ UNCHANGED <<json, temp, now, asked, mishaps, left>>

LoopAsksVersion ==
  LET copy == proc["watch"].copy IN
  /\ proc["watch"].at = "follow"
  /\ IF Changed("version", copy) THEN To("fetched", Recorded(copy, "version"), "idle")
     ELSE proc' = [proc EXCEPT !["watch"] = Idle]
  /\ UNCHANGED <<json, temp, now, asked, mishaps, left>>

\* Minutes later the build is here, or it is not and nothing is saved.
LoopFetches ==
  /\ proc["watch"].at = "fetched"
  /\ \/ To("save", proc["watch"].copy, "idle") /\ UNCHANGED left
     \/ Spend("faults") /\ proc' = [proc EXCEPT !["watch"] = Idle]
  /\ UNCHANGED <<json, temp, now, asked, mishaps>>

Loop == LoopLoads \/ LoopRecordsRecipe \/ LoopAsksVersion \/ LoopFetches \/ Save("watch")

-----------------------------------------------------------------------------
(* Commands, in a process each; they load, change their copy, and save it. *)

Command(p, config, asks) ==
  /\ proc[p].at = "idle" /\ Spend("commands")
  /\ proc' = [proc EXCEPT ![p] = [Idle EXCEPT !.at = "save", !.copy = config,
                                              !.asks = asks]]
  /\ UNCHANGED <<json, temp, now, asked, mishaps>>

\* `component worker on` is refused where nothing describes a worker.
UserSwitches(p) ==
  \E c \in Switches, on \in {"on", "off"} :
    /\ Parses(json) /\ (c = "worker" /\ on = "on" => json.hasWorker)
    /\ Command(p, SetComponent(json, c, on), [d \in {c} |-> on = "on"])

\* `update` saves minutes later what it loaded before the fetch.
UserUpdates(p) ==
  /\ Parses(json) /\ json.hasWorker /\ Changed("version", json)
  /\ Command(p, Recorded(json, "version"), [c \in {} |-> TRUE])

UserSetup(p) == Command(p, Finalized(FullSetup, json), [c \in {"worker"} |-> TRUE])

UserSetupMlOnly(p) ==
  Command(p, Finalized(MlOnlySetup, json), [c \in Switches |-> c = "ml"])

-----------------------------------------------------------------------------
(* The world. *)

WorldMoves ==
  /\ Spend("moves")
  /\ \E f \in Facts : now' = [now EXCEPT ![f] = @ + 1]
  /\ UNCHANGED <<json, temp, proc, asked, mishaps>>

Killed(p) ==
  /\ proc[p].at # "idle" /\ Spend("faults")
  /\ proc' = [proc EXCEPT ![p] = Idle]
  /\ UNCHANGED <<json, temp, now, asked, mishaps>>

Installed ==
  { [worker |-> "absent", ml |-> m, ml_only |-> FALSE, hasWorker |-> TRUE,
     facts |-> [f \in Facts |-> 1]] : m \in {"absent", "on", "off"} }
  \cup { [worker |-> w, ml |-> "on", ml_only |-> TRUE, hasWorker |-> FALSE,
          facts |-> [f \in Facts |-> Unknown]] : w \in {"absent", "off"} }

Init ==
  /\ json \in Installed /\ temp = Gone
  /\ proc = [p \in Writers |-> Idle]
  /\ now = [f \in Facts |-> 1]
  /\ asked = [c \in Switches |-> Enabled(c, json)]
  /\ mishaps = {}
  /\ left = [commands |-> MaxCommands, moves |-> MaxMoves, faults |-> MaxFaults]

Next ==
  \/ Loop
  \/ \E p \in Users : \/ UserSwitches(p) \/ UserUpdates(p) \/ UserSetup(p) \/ UserSetupMlOnly(p)
                      \/ Save(p)
  \/ \E p \in Writers : Killed(p)
  \/ WorldMoves

\* The watcher runs, and when it ends launchd starts it again.
Spec == Init /\ [][Next]_vars /\ WF_vars(Loop)

-----------------------------------------------------------------------------
(* Properties *)

\* save_config's promise: interrupted anywhere, it leaves a config.json that parses; only
\* two saves at once, which share config.tmp, can do otherwise.
InterruptedSaveIsHarmless == "overlap" \notin mishaps => Parses(json)

\* Through any commands and recordings that do not save over one another, each component is
\* as the user last asked: setup keeps the switch of ML, the preset never beats a key.
EnabledAsAsked ==
  mishaps = {} => \A c \in Switches : Enabled(c, json) = asked[c]

\* Whoever saved over whom: where the full loop runs, what it found out is recorded in the end.
FactsReturn ==
  <>[](Parses(json) /\ RunsWorkerLoop(json) => json.facts = now)

\* The user's switches persist: what the watcher records by itself leaves them as they are,
\* even where no two saves share a file.
SwitchPersists ==
  [][Rename("watch") /\ "overlap" \notin mishaps
       => \A c \in Switches : Enabled(c, json') = Enabled(c, json)]_vars

=============================================================================

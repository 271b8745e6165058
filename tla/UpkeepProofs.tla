---------------------------- MODULE UpkeepProofs ----------------------------
(***************************************************************************)
(* Theorems about four components of Upkeep: ConfigFile, Remount,          *)
(* BuildLink and SelfTest. They share no state, and each theorem is about  *)
(* one of them but the last, which joins them and ServerBuild to Upkeep.   *)
(***************************************************************************)
EXTENDS Upkeep, ServerBuildProofs

-----------------------------------------------------------------------------
(***************************************************************************)
(* ConfigFile. Neither promise about config.json is inductive. That it     *)
(* parses needs that a save which nobody overlapped has config.tmp for     *)
(* itself, from the truncation to the rename (FileSaves). That it says     *)
(* what the user asked needs that the copy of a writer nobody saved        *)
(* beneath is the file with what the writer was asked put in (FileCopies). *)
(***************************************************************************)
Requests == UNION {[S -> BOOLEAN] : S \in SUBSET File!Switches}
WriterState == [at : File!Steps, copy : File!Configs \cup {File!NoCopy}, stale : BOOLEAN,
                handle : {"none", "temp", "json", "gone"}, next : {"idle", "follow"},
                asks : Requests]

\* The types, with those of a writer; what a writer has loaded parses, and only
\* a command asks for anything.
FileTypes ==
  /\ File!TypeOK
  /\ writers \in [File!Writers -> WriterState]
  /\ \A p \in File!Writers :
       /\ writers[p].at # "idle" => writers[p].copy \in File!Configs
       /\ p = "watch" \/ writers[p].at = "idle" => writers[p].asks = [c \in {} |-> TRUE]
       /\ p # "watch" => writers[p].next = "idle"
  /\ \A f \in File!Facts : now[f] + fileLeft.moves <= 1 + MaxFileMoves

\* A save that was not overlapped is alone, and config.tmp is its own.
FileSaves ==
  "overlap" \notin mishaps =>
    /\ File!Parses(json)
    /\ \A p, q \in File!Writers :
         writers[p].at \in File!Saving /\ writers[q].at \in File!Saving => p = q
    /\ \A p \in File!Writers :
         /\ writers[p].at = "open" => writers[p].handle = "temp" /\ temp = File!Empty
         /\ writers[p].at = "written" => temp = writers[p].copy

\* What the configuration will say of a component once p has saved.
WillBe(p, c) == IF c \in DOMAIN writers[p].asks THEN writers[p].asks[c] ELSE File!Enabled(c, json)

FileCopies ==
  mishaps = {} =>
    \A p \in File!Writers : writers[p].at # "idle" /\ ~writers[p].stale =>
      \A c \in File!Switches : File!Enabled(c, writers[p].copy) = WillBe(p, c)

FileInv == FileTypes /\ FileSaves /\ FileCopies /\ File!EnabledAsAsked

\* A writer as the writers are kept.
AsKept(w) ==
  /\ w \in WriterState
  /\ w.at = "idle" <=> w.copy = File!NoCopy
  /\ w.at # "idle" => w.copy \in File!Configs

\* A file that parses holds a configuration; an empty or torn one, or none, does not.
LEMMA NoFileIsNoConfig ==
  /\ File!NoCopy \notin File!Configs /\ File!Empty \notin File!Configs /\ File!Torn \notin File!Configs
  /\ \A c \in File!Configs : File!Parses(c)
  /\ ~File!Parses(File!Empty) /\ ~File!Parses(File!Torn)
  /\ \A c \in File!Configs \cup {File!Empty, File!Torn} : File!Parses(c) => c \in File!Configs
BY DEF File!NoCopy, File!Gone, File!Empty, File!Torn, File!Broken, File!Configs, File!Parses

\* A writer that does nothing holds no copy and was asked nothing.
LEMMA IdleIsKept == AsKept(File!Idle) /\ File!Idle.asks = [c \in {} |-> TRUE]
<1>1. [c \in {} |-> TRUE] \in Requests
  <2>1. [c \in {} |-> TRUE] \in [{} -> BOOLEAN]
    OBVIOUS
  <2> QED BY <2>1 DEF Requests
<1> QED BY <1>1 DEF AsKept, WriterState, File!Idle, File!Steps

\* A step of one writer that touches no file and leaves it outside a save.
LEMMA FileElsewhere ==
  ASSUME File!Assumption, FileInv, NEW p \in File!Writers, NEW w,
         AsKept(w), w.at \notin File!Saving, w.handle = "none",
         p = "watch" \/ w.at = "idle" => w.asks = [c \in {} |-> TRUE],
         p # "watch" => w.next = "idle",
         mishaps = {} /\ w.at # "idle" /\ ~w.stale =>
           \A c \in File!Switches : File!Enabled(c, w.copy) =
             IF c \in DOMAIN w.asks THEN w.asks[c] ELSE File!Enabled(c, json),
         writers' = [writers EXCEPT ![p] = w],
         UNCHANGED <<json, temp, now, asked, mishaps>>,
         fileLeft' = fileLeft \/ \E bound \in DOMAIN fileLeft : File!Spend(bound)
  PROVE  FileInv'
<1>1. \A q \in File!Writers : writers'[q] = IF q = p THEN w ELSE writers[q]
  BY DEF FileInv, FileTypes
<1>2. fileLeft' \in [commands : 0..MaxFileCommands, moves : 0..MaxFileMoves, faults : 0..MaxFileFaults]
      /\ fileLeft'.moves <= fileLeft.moves
  BY DEF File!Spend, FileInv, FileTypes, File!TypeOK, File!Assumption
<1>3. File!TypeOK'
  BY <1>1, <1>2 DEF FileInv, FileTypes, File!TypeOK, AsKept, WriterState, File!Saving
<1>4. FileTypes'
  <2>1. writers' \in [File!Writers -> WriterState]
    BY DEF FileInv, FileTypes, AsKept
  <2>2. \A f \in File!Facts : now'[f] + fileLeft'.moves <= 1 + MaxFileMoves
    BY <1>2 DEF FileInv, FileTypes, File!TypeOK, File!Values, File!Unknown, File!Assumption
  <2> QED BY <1>1, <1>3, <2>1, <2>2 DEF FileInv, FileTypes, AsKept
<1>5. FileSaves'
  BY <1>1 DEF FileInv, FileSaves, File!Saving
<1>6. FileCopies'
  BY <1>1 DEF FileInv, FileCopies, WillBe
<1>7. File!EnabledAsAsked'
  BY DEF FileInv, File!EnabledAsAsked
<1> QED BY <1>4, <1>5, <1>6, <1>7 DEF FileInv

\* The watcher and the users are the writers.
LEMMA WatchIsAWriter == "watch" \in File!Writers /\ \A p \in Users : p \in File!Writers
BY DEF File!Writers

\* The watcher's loop outside its saves.
LEMMA FileLoops ==
  ASSUME File!Assumption, FileInv,
         File!LoopLoads \/ File!LoopRecordsRecipe \/ File!LoopAsksVersion \/ File!LoopFetches
  PROVE  FileInv'
<1> DEFINE old == writers["watch"]
           none == [c \in {} |-> TRUE]
<1>1. /\ AsKept(old) /\ old.asks = none
      /\ old.at \in {"recipe", "follow", "fetched"} => old.handle = "none"
  BY WatchIsAWriter DEF FileInv, FileTypes, File!TypeOK, AsKept
<1>2. \A f \in File!Facts : old.at # "idle" =>
        /\ File!Recorded(old.copy, f) \in File!Configs
        /\ \A c \in File!Switches :
             File!Enabled(c, File!Recorded(old.copy, f)) = File!Enabled(c, old.copy)
  <2> SUFFICES ASSUME NEW f \in File!Facts, old.at # "idle"
               PROVE  /\ File!Recorded(old.copy, f) \in File!Configs
                      /\ \A c \in File!Switches :
                           File!Enabled(c, File!Recorded(old.copy, f)) = File!Enabled(c, old.copy)
    OBVIOUS
  <2>1. now[f] \in File!Values
    BY DEF FileInv, FileTypes, File!TypeOK
  <2> QED BY <1>1, <2>1 DEF AsKept, File!Recorded, File!Configs, File!Enabled, File!Switches
<1>3. mishaps = {} /\ old.at # "idle" /\ ~old.stale =>
        \A c \in File!Switches : File!Enabled(c, old.copy) = File!Enabled(c, json)
  BY <1>1, WatchIsAWriter DEF FileInv, FileCopies, WillBe
<1>4. CASE File!LoopLoads
  <2> DEFINE w == [File!Idle EXCEPT !.at = "recipe", !.copy = json]
  <2>1. json \in File!Configs
    BY <1>4, NoFileIsNoConfig DEF File!LoopLoads, FileInv, FileTypes, File!TypeOK
  <2>2. AsKept(w) /\ w.at = "recipe" /\ w.asks = none /\ w.handle = "none" /\ w.copy = json
    BY <2>1, IdleIsKept, NoFileIsNoConfig DEF AsKept, WriterState, File!Idle, File!Steps
  <2>3. writers' = [writers EXCEPT !["watch"] = w]
    BY <1>4 DEF File!LoopLoads
  <2> HIDE DEF w
  <2>4. mishaps = {} /\ w.at # "idle" /\ ~w.stale =>
          \A c \in File!Switches : File!Enabled(c, w.copy) =
            IF c \in DOMAIN w.asks THEN w.asks[c] ELSE File!Enabled(c, json)
    BY <2>2
  <2>5. w.at \notin File!Saving
    BY <2>2 DEF File!Saving
  <2>6. UNCHANGED <<json, temp, now, asked, mishaps>> /\ fileLeft' = fileLeft
    BY <1>4 DEF File!LoopLoads
  <2> QED BY <2>2, <2>3, <2>4, <2>5, <2>6, FileElsewhere, WatchIsAWriter
<1>5. ASSUME NEW goal \in {"save", "follow", "fetched"}, NEW copy, NEW next \in {"idle", "follow"},
             old.at \in {"recipe", "follow", "fetched"}, File!To(goal, copy, next),
             copy = old.copy \/ \E f \in File!Facts : copy = File!Recorded(old.copy, f),
             UNCHANGED <<json, temp, now, asked, mishaps, fileLeft>>
      PROVE  FileInv'
  <2> DEFINE w == [old EXCEPT !.at = goal, !.copy = copy, !.next = next]
  <2>1. AsKept(w) /\ w.at = goal /\ w.asks = none /\ w.handle = "none" /\ w.copy = copy /\ w.stale = old.stale
    BY <1>1, <1>2, <1>5, NoFileIsNoConfig DEF AsKept, WriterState, File!Steps
  <2>2. writers' = [writers EXCEPT !["watch"] = w]
    BY <1>5 DEF File!To
  <2> HIDE DEF w
  <2>3. mishaps = {} /\ w.at # "idle" /\ ~w.stale =>
          \A c \in File!Switches : File!Enabled(c, w.copy) = File!Enabled(c, json)
    BY <1>2, <1>3, <1>5, <2>1
  <2>4. mishaps = {} /\ w.at # "idle" /\ ~w.stale =>
          \A c \in File!Switches : File!Enabled(c, w.copy) =
            IF c \in DOMAIN w.asks THEN w.asks[c] ELSE File!Enabled(c, json)
    BY <2>1, <2>3
  <2>5. w.at \notin File!Saving /\ w.next \in {"idle", "follow"}
    BY <2>1 DEF File!Saving, AsKept, WriterState
  <2>6. UNCHANGED <<json, temp, now, asked, mishaps>> /\ fileLeft' = fileLeft
    BY <1>5
  <2> QED BY <2>1, <2>2, <2>4, <2>5, <2>6, FileElsewhere, WatchIsAWriter
<1>6. ASSUME writers' = [writers EXCEPT !["watch"] = File!Idle],
             UNCHANGED <<json, temp, now, asked, mishaps>>,
             fileLeft' = fileLeft \/ File!Spend("faults")
      PROVE  FileInv'
  <2>1. "faults" \in DOMAIN fileLeft
    BY DEF FileInv, FileTypes, File!TypeOK
  <2>2. File!Idle.at = "idle" /\ File!Idle.handle = "none" /\ File!Idle.next = "idle"
    BY DEF File!Idle
  <2> QED BY <1>6, <2>1, <2>2, IdleIsKept, FileElsewhere, WatchIsAWriter DEF File!Saving
<1>7. CASE File!LoopRecordsRecipe
  BY <1>5, <1>7 DEF File!LoopRecordsRecipe, File!Facts
<1>8. CASE File!LoopAsksVersion
  BY <1>5, <1>6, <1>8 DEF File!LoopAsksVersion, File!Facts
<1>9. CASE File!LoopFetches
  BY <1>5, <1>6, <1>9 DEF File!LoopFetches
<1> QED BY <1>4, <1>7, <1>8, <1>9

\* What each command asks of the file, and what its copy will say.
LEMMA FileCommands ==
  ASSUME File!Assumption, FileInv, NEW p \in Users,
         File!UserSwitches(p) \/ File!UserUpdates(p) \/ File!UserSetup(p) \/ File!UserSetupMlOnly(p)
  PROVE  FileInv'
<1>1. json \in File!Configs \cup {File!Empty, File!Torn} /\ now \in [File!Facts -> File!Values]
  BY DEF FileInv, FileTypes, File!TypeOK
<1>2. File!Unknown \in File!Values
  BY DEF File!Unknown, File!Values, File!Assumption
<1>3. ASSUME NEW copy \in File!Configs, NEW asks \in Requests, File!Command(p, copy, asks),
             File!Parses(json) =>
               \A c \in File!Switches : File!Enabled(c, copy) =
                 IF c \in DOMAIN asks THEN asks[c] ELSE File!Enabled(c, json)
      PROVE  FileInv'
  <2> DEFINE w == [File!Idle EXCEPT !.at = "save", !.copy = copy, !.asks = asks]
  <2>1. /\ AsKept(w) /\ w.at = "save" /\ w.handle = "none" /\ w.next = "idle"
        /\ w.copy = copy /\ w.asks = asks
    BY IdleIsKept, NoFileIsNoConfig DEF AsKept, WriterState, File!Idle, File!Steps
  <2>2. "commands" \in DOMAIN fileLeft
    BY DEF FileInv, FileTypes, File!TypeOK
  <2>3. p # "watch"
    BY DEF File!Assumption
  <2>4. mishaps = {} => File!Parses(json)
    BY DEF FileInv, FileSaves
  <2>5. writers' = [writers EXCEPT ![p] = w]
    BY <1>3 DEF File!Command
  <2> HIDE DEF w
  <2>6. mishaps = {} =>
          \A c \in File!Switches : File!Enabled(c, w.copy) =
            IF c \in DOMAIN w.asks THEN w.asks[c] ELSE File!Enabled(c, json)
    BY <1>3, <2>1, <2>4
  <2>7. w.at \notin File!Saving
    BY <2>1 DEF File!Saving
  <2>8. File!Spend("commands") /\ UNCHANGED <<json, temp, now, asked, mishaps>>
    BY <1>3 DEF File!Command
  <2> QED BY <2>1, <2>2, <2>3, <2>5, <2>6, <2>7, <2>8, FileElsewhere, WatchIsAWriter
<1>4. CASE File!UserSwitches(p)
  <2>1. PICK c \in File!Switches, on \in {"on", "off"} :
          /\ File!Parses(json)
          /\ File!Command(p, File!SetComponent(json, c, on), [d \in {c} |-> on = "on"])
    BY <1>4 DEF File!UserSwitches
  <2>2. json \in File!Configs
    BY <1>1, <2>1, NoFileIsNoConfig
  <2> DEFINE copy == File!SetComponent(json, c, on)
             asks == [d \in {c} |-> on = "on"]
  <2>3. copy \in File!Configs
    BY <2>2 DEF File!SetComponent, File!Configs, File!Switches
  <2>4. asks \in Requests
    <3>1. asks \in [{c} -> BOOLEAN]
      OBVIOUS
    <3> QED BY <3>1 DEF Requests
  <2>5. \A d \in File!Switches : File!Enabled(d, copy) =
          IF d \in DOMAIN asks THEN asks[d] ELSE File!Enabled(d, json)
    BY <2>2 DEF File!SetComponent, File!Configs, File!Switches, File!Enabled
  <2> QED BY <1>3, <2>1, <2>3, <2>4, <2>5
<1>5. CASE File!UserUpdates(p)
  <2> DEFINE copy == File!Recorded(json, "version")
             asks == [c \in {} |-> TRUE]
  <2>1. json \in File!Configs
    BY <1>1, <1>5, NoFileIsNoConfig DEF File!UserUpdates
  <2>2. copy \in File!Configs
    BY <1>1, <2>1 DEF File!Recorded, File!Configs, File!Facts
  <2>3. asks \in Requests
    BY IdleIsKept DEF AsKept, WriterState
  <2>4. \A d \in File!Switches : File!Enabled(d, copy) = File!Enabled(d, json)
    BY <2>1 DEF File!Recorded, File!Configs, File!Switches, File!Enabled
  <2> QED BY <1>3, <1>5, <2>2, <2>3, <2>4 DEF File!UserUpdates
<1>6. CASE File!UserSetup(p)
  <2> DEFINE copy == File!Finalized(File!FullSetup, json)
             asks == [c \in {"worker"} |-> TRUE]
  <2>1. asks \in Requests
    <3>1. asks \in [{"worker"} -> BOOLEAN]
      OBVIOUS
    <3> QED BY <3>1 DEF Requests, File!Switches
  <2>2. File!FullSetup \in File!Configs
    BY <1>1, <1>2 DEF File!FullSetup, File!Configs, File!Facts
  <2>3. copy \in File!Configs
    BY <1>1, <2>2, NoFileIsNoConfig DEF File!Finalized, File!Configs
  <2>4. File!Parses(json) =>
          \A d \in File!Switches : File!Enabled(d, copy) =
            IF d \in DOMAIN asks THEN asks[d] ELSE File!Enabled(d, json)
    <3> SUFFICES ASSUME File!Parses(json), NEW d \in File!Switches
                 PROVE  File!Enabled(d, copy) =
                          IF d \in DOMAIN asks THEN asks[d] ELSE File!Enabled(d, json)
      OBVIOUS
    <3>1. json \in File!Configs
      BY <1>1, NoFileIsNoConfig
    <3>2. /\ copy.ml = json.ml /\ copy.worker = "absent" /\ ~copy.ml_only
      BY <2>2 DEF File!FullSetup, File!Finalized, File!Configs
    <3>3. CASE d = "worker"
      BY <3>2, <3>3 DEF File!Enabled
    <3>4. CASE d = "ml"
      BY <3>1, <3>2, <3>4 DEF File!Enabled, File!Configs
    <3> QED BY <3>3, <3>4 DEF File!Switches
  <2> QED BY <1>3, <1>6, <2>1, <2>3, <2>4 DEF File!UserSetup
<1>7. CASE File!UserSetupMlOnly(p)
  <2> DEFINE copy == File!Finalized(File!MlOnlySetup, json)
             asks == [c \in File!Switches |-> c = "ml"]
  <2>1. asks \in Requests
    <3>1. asks \in [File!Switches -> BOOLEAN]
      OBVIOUS
    <3> QED BY <3>1 DEF Requests
  <2>2. copy \in File!Configs
    BY <1>2 DEF File!MlOnlySetup, File!Finalized, File!Configs
  <2>3. \A d \in File!Switches : File!Enabled(d, copy) = asks[d]
    BY DEF File!MlOnlySetup, File!Finalized, File!Switches, File!Enabled
  <2> QED BY <1>3, <1>7, <2>1, <2>2, <2>3 DEF File!UserSetupMlOnly
<1> QED BY <1>4, <1>5, <1>6, <1>7

\* A save, step by step.
LEMMA FileOpens ==
  ASSUME File!Assumption, FileInv, NEW p \in File!Writers, File!Open(p)
  PROVE  FileInv'
<1> DEFINE w == [writers[p] EXCEPT !.at = "open", !.handle = "temp"]
<1>1. /\ w \in WriterState /\ w.copy \in File!Configs
      /\ w.at = "open" /\ w.handle = "temp" /\ w.copy = writers[p].copy
      /\ w.next = writers[p].next /\ w.asks = writers[p].asks /\ w.stale = writers[p].stale
  <2>1. writers[p] \in WriterState /\ writers[p].copy \in File!Configs
    BY DEF FileInv, FileTypes, File!Open
  <2> QED BY <2>1 DEF WriterState, File!Steps
<1>2. writers' = [writers EXCEPT ![p] = w] /\ writers[p].at = "save" /\ temp' = File!Empty
      /\ mishaps' = mishaps \cup (IF \E q \in File!Writers : writers[q].at \in File!Saving
                                   THEN {"overlap"} ELSE {})
      /\ UNCHANGED <<json, now, asked, fileLeft>>
  BY DEF File!Open
<1> HIDE DEF w
<1>3. writers' \in [File!Writers -> WriterState]
      /\ \A q \in File!Writers : writers'[q] = IF q = p THEN w ELSE writers[q]
  BY <1>1, <1>2 DEF FileInv, FileTypes
<1>4. FileTypes'
  BY <1>1, <1>2, <1>3, NoFileIsNoConfig DEF FileInv, FileTypes, File!TypeOK, WriterState
<1>5. FileSaves'
  BY <1>1, <1>2, <1>3 DEF FileInv, FileSaves, File!Saving
<1>6. mishaps' = {} => mishaps = {}
  BY <1>2
<1>7. FileCopies'
  BY <1>1, <1>2, <1>3, <1>6 DEF FileInv, FileCopies, WillBe
<1>8. File!EnabledAsAsked'
  BY <1>2, <1>6 DEF FileInv, File!EnabledAsAsked
<1> QED BY <1>4, <1>5, <1>7, <1>8 DEF FileInv

\* Writing config.tmp keeps the invariant of the configuration file.
LEMMA FileWrites ==
  ASSUME File!Assumption, FileInv, NEW p \in File!Writers, File!Write(p)
  PROVE  FileInv'
<1> DEFINE w == [writers[p] EXCEPT !.at = "written", !.handle = "none"]
<1>1. /\ w \in WriterState /\ w.copy \in File!Configs
      /\ w.at = "written" /\ w.handle = "none" /\ w.copy = writers[p].copy
      /\ w.next = writers[p].next /\ w.asks = writers[p].asks /\ w.stale = writers[p].stale
  <2>1. writers[p] \in WriterState /\ writers[p].copy \in File!Configs
    BY DEF FileInv, FileTypes, File!Write
  <2> QED BY <2>1 DEF WriterState, File!Steps
<1>2. writers' = [writers EXCEPT ![p] = w] /\ writers[p].at = "open"
      /\ UNCHANGED <<now, asked, mishaps, fileLeft>>
  BY DEF File!Write
<1>3. /\ json' \in File!Configs \cup {File!Empty, File!Torn}
      /\ temp' \in File!Configs \cup {File!Empty, File!Torn, File!Gone}
  BY <1>1 DEF FileInv, FileTypes, File!TypeOK, File!Write, File!Over
<1>4. "overlap" \notin mishaps => json' = json /\ temp' = w.copy
  BY <1>1, <1>2 DEF FileInv, FileSaves, File!Write, File!Over
<1> HIDE DEF w
<1>5. writers' \in [File!Writers -> WriterState]
      /\ \A q \in File!Writers : writers'[q] = IF q = p THEN w ELSE writers[q]
  BY <1>1, <1>2 DEF FileInv, FileTypes
<1>6. FileTypes'
  BY <1>1, <1>2, <1>3, <1>5, NoFileIsNoConfig DEF FileInv, FileTypes, File!TypeOK, WriterState
<1>7. FileSaves'
  BY <1>1, <1>2, <1>4, <1>5 DEF FileInv, FileSaves, File!Saving
<1>8. mishaps' = {} => mishaps = {} /\ json' = json
  BY <1>2, <1>4
<1>9. FileCopies'
  BY <1>1, <1>2, <1>5, <1>8 DEF FileInv, FileCopies, WillBe
<1>10. File!EnabledAsAsked'
  BY <1>2, <1>8 DEF FileInv, File!EnabledAsAsked
<1> QED BY <1>6, <1>7, <1>9, <1>10 DEF FileInv

\* So does its rename over config.json: what the file says of a component afterwards is what the
\* copy says, which nobody saved beneath unless that is on record.
LEMMA FileRenames ==
  ASSUME File!Assumption, FileInv, NEW p \in File!Writers, File!Rename(p)
  PROVE  FileInv'
<1> DEFINE old == writers[p]
           after == IF old.next = "idle" THEN File!Idle
                    ELSE [old EXCEPT !.at = old.next, !.next = "idle", !.stale = FALSE]
           other(q) == [writers[q] EXCEPT !.handle = File!Renamed(@),
                          !.stale = @ \/ (writers[q].at # "idle" /\ temp # json)]
<1>1. /\ json' = temp /\ temp' = File!Gone /\ temp # File!Gone /\ old.at = "written"
      /\ writers' = [q \in File!Writers |-> IF q = p THEN after ELSE other(q)]
      /\ asked' = [c \in File!Switches |->
                     IF c \in DOMAIN old.asks THEN old.asks[c] ELSE asked[c]]
      /\ mishaps' = mishaps \cup (IF old.stale THEN {"stale"} ELSE {})
      /\ UNCHANGED <<now, fileLeft>>
  BY DEF File!Rename
<1>2. old \in WriterState /\ old.copy \in File!Configs /\ old.handle = "none"
  BY <1>1 DEF FileInv, FileTypes, File!TypeOK
<1>3. after \in WriterState /\ after.handle = "none" /\ after.next = "idle"
      /\ (p = "watch" \/ after.at = "idle" => after.asks = [c \in {} |-> TRUE])
      /\ AsKept(after)
      /\ (after.at # "idle" => /\ after.at = "follow" /\ after.copy = old.copy /\ p = "watch")
  <2>1. CASE old.next = "idle"
    BY <2>1, IdleIsKept DEF AsKept, File!Idle
  <2>2. CASE old.next = "follow"
    <3>1. p = "watch" /\ old.asks = [c \in {} |-> TRUE]
      BY <1>1, <2>2 DEF FileInv, FileTypes
    <3>2. after = [old EXCEPT !.at = "follow", !.next = "idle", !.stale = FALSE]
      BY <2>2
    <3> HIDE DEF after
    <3>3. after \in WriterState /\ after.at = "follow" /\ after.handle = "none"
          /\ after.next = "idle" /\ after.copy = old.copy /\ after.asks = old.asks
      BY <1>2, <3>2 DEF WriterState, File!Steps
    <3> QED BY <1>2, <3>1, <3>3, NoFileIsNoConfig DEF AsKept
  <2> QED BY <1>2, <2>1, <2>2 DEF WriterState
<1>4. \A q \in File!Writers :
        /\ other(q) \in WriterState
        /\ other(q).at = writers[q].at /\ other(q).copy = writers[q].copy
        /\ other(q).next = writers[q].next /\ other(q).asks = writers[q].asks
        /\ other(q).handle # "none" <=> writers[q].handle # "none"
        /\ ~other(q).stale => ~writers[q].stale /\ (writers[q].at # "idle" => temp = json)
  <2> SUFFICES ASSUME NEW q \in File!Writers
               PROVE  /\ other(q) \in WriterState
                      /\ other(q).at = writers[q].at /\ other(q).copy = writers[q].copy
                      /\ other(q).next = writers[q].next /\ other(q).asks = writers[q].asks
                      /\ other(q).handle # "none" <=> writers[q].handle # "none"
                      /\ ~other(q).stale => ~writers[q].stale /\ (writers[q].at # "idle" => temp = json)
    OBVIOUS
  <2>1. writers[q] \in WriterState
    BY DEF FileInv, FileTypes
  <2>2. File!Renamed(writers[q].handle) \in {"none", "json", "gone"}
        /\ (File!Renamed(writers[q].handle) # "none" <=> writers[q].handle # "none")
    BY <2>1 DEF File!Renamed, WriterState
  <2> QED BY <2>1, <2>2 DEF WriterState
<1> HIDE DEF after, other
<1>5. writers' \in [File!Writers -> WriterState]
      /\ \A q \in File!Writers : writers'[q] = IF q = p THEN after ELSE other(q)
  BY <1>1, <1>3, <1>4
<1>6. asked' \in [File!Switches -> BOOLEAN]
  BY <1>1, <1>2 DEF FileInv, FileTypes, File!TypeOK, WriterState, Requests
<1>7. FileTypes'
  BY <1>1, <1>3, <1>4, <1>5, <1>6 DEF FileInv, FileTypes, File!TypeOK, WriterState, AsKept
<1>8. "overlap" \notin mishaps' => temp = old.copy /\ "overlap" \notin mishaps
  BY <1>1 DEF FileInv, FileSaves
<1>9. FileSaves'
  BY <1>1, <1>2, <1>3, <1>4, <1>5, <1>8, NoFileIsNoConfig DEF FileInv, FileSaves, File!Saving
<1>10. mishaps' = {} => mishaps = {} /\ temp = old.copy /\ ~old.stale
  BY <1>1, <1>8
<1>11. FileCopies'
  <2> SUFFICES ASSUME mishaps' = {}, NEW q \in File!Writers, writers'[q].at # "idle", ~writers'[q].stale,
                      NEW c \in File!Switches
               PROVE  File!Enabled(c, writers'[q].copy) = WillBe(q, c)'
    BY DEF FileCopies
  <2>1. CASE q = p
    BY <1>1, <1>3, <1>5, <1>10, <2>1 DEF WillBe
  <2>2. CASE q # p
    BY <1>1, <1>4, <1>5, <1>10, <2>2 DEF FileInv, FileCopies, WillBe
  <2> QED BY <2>1, <2>2
<1>12. File!EnabledAsAsked'
  BY <1>1, <1>10 DEF FileInv, FileCopies, WillBe, File!EnabledAsAsked
<1> QED BY <1>7, <1>9, <1>11, <1>12 DEF FileInv

\* A writer that ends, by itself or not, leaves the files as they are.
LEMMA FileEnds ==
  ASSUME File!Assumption, FileInv, NEW p \in File!Writers, File!RenameFails(p) \/ File!Killed(p)
  PROVE  FileInv'
<1>1. /\ writers' = [writers EXCEPT ![p] = File!Idle] /\ UNCHANGED <<json, temp, now, asked, mishaps>>
      /\ fileLeft' = fileLeft \/ File!Spend("faults")
  BY DEF File!RenameFails, File!Killed
<1>2. "faults" \in DOMAIN fileLeft
  BY DEF FileInv, FileTypes, File!TypeOK
<1>3. File!Idle.at = "idle" /\ File!Idle.handle = "none" /\ File!Idle.next = "idle"
  BY DEF File!Idle
<1> QED BY <1>1, <1>2, <1>3, IdleIsKept, FileElsewhere DEF File!Saving

\* And so do the facts outside that detection looks at, which move on their own.
LEMMA FileMoves ==
  ASSUME File!Assumption, FileInv, File!WorldMoves
  PROVE  FileInv'
<1>1. PICK f \in File!Facts : now' = [now EXCEPT ![f] = @ + 1]
  BY DEF File!WorldMoves
<1>2. /\ UNCHANGED <<json, temp, writers, asked, mishaps>>
      /\ fileLeft.moves > 0 /\ fileLeft' = [fileLeft EXCEPT !.moves = @ - 1]
  BY DEF File!WorldMoves, File!Spend
<1>3. FileTypes'
  <2>1. fileLeft' \in [commands : 0..MaxFileCommands, moves : 0..MaxFileMoves, faults : 0..MaxFileFaults]
        /\ fileLeft'.moves = fileLeft.moves - 1 /\ fileLeft.moves \in Nat
    BY <1>2 DEF FileInv, FileTypes, File!TypeOK, File!Assumption
  <2>2. now \in [File!Facts -> File!Values \ {File!Unknown}]
        /\ \A g \in File!Facts : now[g] + fileLeft.moves <= 1 + MaxFileMoves /\ now[g] \in Nat /\ now[g] > 0
    BY DEF FileInv, FileTypes, File!TypeOK, File!Values, File!Unknown, File!Assumption
  <2>3. \A g \in File!Facts : /\ now'[g] \in File!Values \ {File!Unknown}
                              /\ now'[g] + fileLeft'.moves <= 1 + MaxFileMoves
    BY <1>1, <1>2, <2>1, <2>2 DEF File!Values, File!Unknown, File!Assumption
  <2>4. now' \in [File!Facts -> File!Values \ {File!Unknown}]
    BY <1>1, <2>2, <2>3
  <2> QED BY <1>2, <2>1, <2>3, <2>4 DEF FileInv, FileTypes, File!TypeOK
<1> QED BY <1>2, <1>3 DEF FileInv, FileSaves, FileCopies, WillBe, File!EnabledAsAsked

\* Every step of the writers and of the world keeps it.
LEMMA FileInductive == File!Assumption /\ FileInv /\ [File!Next]_(File!vars) => FileInv'
<1> SUFFICES ASSUME File!Assumption, FileInv, [File!Next]_(File!vars) PROVE FileInv'
  OBVIOUS
<1>1. CASE UNCHANGED File!vars
  BY <1>1 DEF File!vars, FileInv, FileTypes, File!TypeOK, FileSaves, FileCopies, WillBe,
    File!EnabledAsAsked
<1>2. ASSUME NEW p \in File!Writers, File!Save(p) PROVE FileInv'
  BY <1>2, FileOpens, FileWrites, FileRenames, FileEnds DEF File!Save
<1>3. CASE File!Loop
  BY <1>2, <1>3, FileLoops, WatchIsAWriter DEF File!Loop
<1> QED BY <1>1, <1>2, <1>3, FileCommands, FileEnds, FileMoves, WatchIsAWriter DEF File!Next

\* It holds of an installed configuration that nobody is writing.
LEMMA FileStarts == File!Assumption /\ File!Init => FileInv
<1> SUFFICES ASSUME File!Assumption, File!Init PROVE FileInv
  OBVIOUS
<1>1. json \in File!Configs
  <2>1. 0 \in File!Values /\ 1 \in File!Values /\ File!Unknown = 0
    BY DEF File!Values, File!Unknown, File!Assumption
  <2>2. \A n \in File!Values : [f \in File!Facts |-> n] \in [File!Facts -> File!Values]
    OBVIOUS
  <2>3. ASSUME NEW facts \in [File!Facts -> File!Values], NEW w \in {"absent", "off"},
               NEW m \in {"absent", "on", "off"}, NEW has \in BOOLEAN, NEW only \in BOOLEAN
        PROVE  [worker |-> w, ml |-> m, ml_only |-> only, hasWorker |-> has, facts |-> facts]
                 \in File!Configs
    BY DEF File!Configs
  <2> QED BY <2>1, <2>2, <2>3 DEF File!Init, File!Installed
<1>2. \A p \in File!Writers : writers[p] = File!Idle
  BY DEF File!Init
<1>3. File!Idle \in WriterState /\ File!Idle.at = "idle" /\ File!Idle.handle = "none"
      /\ File!Idle.next = "idle" /\ File!Idle.copy = File!NoCopy
      /\ File!Idle.asks = [c \in {} |-> TRUE]
  BY IdleIsKept DEF AsKept, File!Idle
<1>4. FileTypes
  <2>1. now \in [File!Facts -> File!Values \ {File!Unknown}] /\ \A f \in File!Facts : now[f] = 1
    BY DEF File!Init, File!Values, File!Unknown, File!Assumption
  <2>2. fileLeft \in [commands : 0..MaxFileCommands, moves : 0..MaxFileMoves, faults : 0..MaxFileFaults]
        /\ fileLeft.moves = MaxFileMoves /\ MaxFileMoves \in Nat
    BY DEF File!Init, File!Assumption
  <2>3. asked \in [File!Switches -> BOOLEAN]
    <3>1. \A c \in File!Switches : File!Enabled(c, json) \in BOOLEAN
      BY <1>1 DEF File!Enabled, File!Configs
    <3> QED BY <3>1 DEF File!Init
  <2>4. writers \in [File!Writers -> WriterState]
    BY <1>3 DEF File!Init
  <2>5. \A f \in File!Facts : now[f] + fileLeft.moves <= 1 + MaxFileMoves
    BY <2>1, <2>2
  <2> QED BY <1>1, <1>2, <1>3, <2>1, <2>2, <2>3, <2>4, <2>5
          DEF FileTypes, File!TypeOK, File!Init, WriterState
<1>5. FileSaves /\ FileCopies
  BY <1>1, <1>2, <1>3, NoFileIsNoConfig DEF FileSaves, FileCopies, File!Saving
<1>6. File!EnabledAsAsked
  BY DEF File!Init, File!EnabledAsAsked
<1> QED BY <1>4, <1>5, <1>6 DEF FileInv

\* At every moment a save that nobody overlapped has config.tmp for itself, and a copy that
\* nobody saved beneath is the file with what its writer was asked put in.
THEOREM FileInvariant == File!Spec => []FileInv
BY FileStarts, FileInductive, UpkeepAssumption, PTL DEF File!Spec

\* What the model says config.json, config.tmp and the writers are, they are.
THEOREM FileTypesCorrect == File!Spec => []File!TypeOK
<1>1. FileInv => File!TypeOK
  BY DEF FileInv, FileTypes
<1> QED BY <1>1, FileInvariant, PTL

\* However many processes save, change the configuration, are killed half-way through: unless
\* two of them were inside save_config at once, config.json parses.
THEOREM SavesAreHarmless == File!Spec => []InterruptedSaveIsHarmless
<1>1. FileInv => InterruptedSaveIsHarmless
  BY DEF FileInv, FileSaves, InterruptedSaveIsHarmless, File!InterruptedSaveIsHarmless
<1> QED BY <1>1, FileInvariant, PTL

\* Unless one save was lost beneath another, each component is on or off as last asked.
THEOREM SwitchesAreAsAsked == File!Spec => []EnabledAsAsked
<1>1. FileInv => EnabledAsAsked
  BY DEF FileInv, EnabledAsAsked
<1> QED BY <1>1, FileInvariant, PTL


-----------------------------------------------------------------------------
(***************************************************************************)
(* Remount. That a password is tried once needs, wherever the loop is, the *)
(* reason why the next attempt cannot be made: the loop is blocked and the *)
(* library still not mounted, or the library has been moved meanwhile.     *)
(* That no mount is mounted over needs that the recipe in hand is the one  *)
(* on record from the probe to the attempt.                                *)
(***************************************************************************)
Attempting == loop \in {"gone", "mounting"}

\* An attempt is under way only for the mount on record, which was not there.
MountRecipe ==
  /\ Attempting => library.recipe = loaded.recipe /\ loaded.recipe # "none"
  /\ loop = "mounting" /\ loaded.recipe = "own" /\ mounts > 0 => excuse

\* After a refusal no attempt follows.
MountRefused ==
  /\ loop = "mounting" => ~state.blocked /\ refused = 0
  /\ Mount!OneRefusal
  /\ refused = 1 =>
       /\ loop = "asleep" =>
            \/ library.path # "share"
            \/ state.blocked /\ library.recipe # "none" /\ ~Mount!IsMounted(library.recipe)
       /\ loop = "gone" =>
            library.path = "share" /\ state.blocked /\ ~Mount!IsMounted(library.recipe)
       /\ loop = "reading" => library.path # "share" /\ library.path = loaded.path

MountInv == Mount!TypeOK /\ MountRecipe /\ MountRefused

MountState == [attempts : 0..Len(Backoff), last : -1..Mount!Longest, blocked : BOOLEAN]
MountCache == [root : Mount!Paths \cup {"none"}, table : BOOLEAN \X BOOLEAN,
               path : {"none", "share", "local"}]

\* The waits and the clock stay in their ranges, and only a rejection blocks.
LEMMA MountClock ==
  ASSUME Mount!Assumption
  PROVE  /\ Mount!NoState \in MountState /\ ~Mount!NoState.blocked
         /\ state \in MountState =>
              /\ Mount!Older \in MountState /\ Mount!Older.blocked = state.blocked
              /\ Mount!Counted \in MountState /\ Mount!Counted.blocked = state.blocked
<1>1. Len(Backoff) \in Nat \ {0} /\ Mount!Longest \in Nat
  BY DEF Mount!Assumption, Mount!Longest
<1>2. Mount!NoState \in MountState /\ ~Mount!NoState.blocked
  BY <1>1 DEF Mount!NoState, MountState
<1>3. ASSUME state \in MountState
      PROVE  Mount!Older \in MountState /\ Mount!Older.blocked = state.blocked
  <2>1. state.last \in -1..Mount!Longest
    BY <1>3 DEF MountState
  <2>2. (IF state.last = -1 \/ state.last = Mount!Longest THEN state.last ELSE state.last + 1)
          \in -1..Mount!Longest
    BY <1>1, <2>1
  <2> QED BY <1>3, <2>2 DEF Mount!Older, MountState
<1>4. ASSUME state \in MountState
      PROVE  Mount!Counted \in MountState /\ Mount!Counted.blocked = state.blocked
  <2>1. 0 \in -1..Mount!Longest
    BY <1>1
  <2>2. (IF state.attempts < Len(Backoff) THEN state.attempts + 1 ELSE state.attempts)
          \in 0..Len(Backoff)
    BY <1>1, <1>4 DEF MountState
  <2> QED BY <1>4, <2>1, <2>2 DEF Mount!Counted, MountState
<1> QED BY <1>2, <1>3, <1>4

\* The faults that are left stay within their bound.
LEMMA MountFaults ==
  ASSUME Mount!Assumption, mountFaults \in 0..MaxMountFaults, Mount!Fault \/ Mount!NoFault
  PROVE  mountFaults' \in 0..MaxMountFaults
BY DEF Mount!Fault, Mount!NoFault, Mount!Assumption

\* No mount was attempted or refused at first.
LEMMA MountStarts == Mount!Assumption /\ Mount!Init => MountInv
<1> SUFFICES ASSUME Mount!Assumption, Mount!Init PROVE MountInv
  OBVIOUS
<1>1. state \in MountState /\ cache \in MountCache
  BY MountClock DEF Mount!Init, Mount!NoCache, MountCache
<1>2. library \in Mount!Configs /\ mounts \in 0..MaxMounts /\ mountFaults \in 0..MaxMountFaults
  BY DEF Mount!Init, Mount!Configs, Mount!Recipes, Mount!Assumption
<1>3. /\ parent \in BOOLEAN /\ share = "up" /\ loop = "asleep" /\ loaded = library
      /\ refused = 0 /\ excuse = FALSE
  BY DEF Mount!Init
<1>4. Mount!TypeOK
  BY <1>1, <1>2, <1>3 DEF Mount!TypeOK, MountState, MountCache
<1> QED BY <1>3, <1>4 DEF MountInv, MountRecipe, MountRefused, Attempting, Mount!OneRefusal

\* Every step of the loop and of the world keeps the types of the remount.
LEMMA MountTypes ==
  ASSUME Mount!Assumption, MountInv, [Mount!Next]_(Mount!vars)
  PROVE  Mount!TypeOK'
<1>1. /\ library \in Mount!Configs /\ loaded \in Mount!Configs
      /\ mounts \in 0..MaxMounts /\ parent \in BOOLEAN
      /\ share \in {"up", "down", "rejects"}
      /\ loop \in {"asleep", "gone", "mounting", "reading"}
      /\ state \in MountState /\ cache \in MountCache
      /\ refused \in Nat /\ excuse \in BOOLEAN /\ mountFaults \in 0..MaxMountFaults
  BY DEF MountInv, Mount!TypeOK, MountState, MountCache
<1>2. /\ Mount!NoState \in MountState /\ Mount!Older \in MountState /\ Mount!Counted \in MountState
      /\ Mount!NoCache \in MountCache
  BY <1>1, MountClock DEF Mount!NoCache, MountCache
<1>3. Mount!Fault \/ Mount!NoFault => mountFaults' \in 0..MaxMountFaults
  BY <1>1, MountFaults
<1>4. MaxMounts \in Nat /\ MaxMounts > 0
  BY DEF Mount!Assumption
<1> SUFFICES /\ library' \in Mount!Configs /\ loaded' \in Mount!Configs
             /\ mounts' \in 0..MaxMounts /\ parent' \in BOOLEAN
             /\ share' \in {"up", "down", "rejects"}
             /\ loop' \in {"asleep", "gone", "mounting", "reading"}
             /\ state' \in MountState /\ cache' \in MountCache
             /\ refused' \in Nat /\ excuse' \in BOOLEAN /\ mountFaults' \in 0..MaxMountFaults
  BY DEF Mount!TypeOK, MountState, MountCache
<1>5. CASE Mount!LibraryMountGone
  BY <1>1, <1>2, <1>3, <1>5 DEF Mount!LibraryMountGone
<1>6. CASE Mount!AttemptRemount
  BY <1>1, <1>2, <1>3, <1>6 DEF Mount!AttemptRemount
<1>7. CASE Mount!RemountWorks
  <2>1. mounts' \in 0..MaxMounts /\ refused' \in Nat
    BY <1>1, <1>4, <1>7 DEF Mount!RemountWorks
  <2>2. parent' \in BOOLEAN
    BY <1>1, <1>7 DEF Mount!RemountWorks
  <2> QED BY <1>1, <1>2, <1>7, <2>1, <2>2 DEF Mount!RemountWorks
<1>8. CASE Mount!RemountRejected
  <2>1. [state EXCEPT !.blocked = TRUE] \in MountState
    BY <1>1 DEF MountState
  <2> QED BY <1>1, <1>8, <2>1 DEF Mount!RemountRejected
<1>9. CASE Mount!RemountFails
  BY <1>1, <1>3, <1>9 DEF Mount!RemountFails
<1>10. CASE Mount!RecordRecipe
  <2>1. \A path : Mount!BestMountFor(path) \in Mount!Recipes
    BY DEF Mount!BestMountFor, Mount!Recipes
  <2>2. \A recipe \in Mount!Recipes : [loaded EXCEPT !.recipe = recipe] \in Mount!Configs
    BY <1>1 DEF Mount!Configs
  <2>3. loaded.path \in Mount!Paths /\ Mount!Table \in BOOLEAN \X BOOLEAN
    <3>1. loaded.path \in Mount!Paths
      BY <1>1 DEF Mount!Configs
    <3>2. (mounts > 0) \in BOOLEAN
      OBVIOUS
    <3>3. Mount!Table \in BOOLEAN \X BOOLEAN
      BY <1>1, <3>2, Zenon DEF Mount!Table
    <3> QED BY <3>1, <3>3
  <2>4. \A root \in Mount!Paths : Mount!Resolve(root) \in {"none", "share", "local"}
    BY <1>1 DEF Mount!Resolve, MountCache
  <2>5. \A root \in Mount!Paths, path \in {"none", "share", "local"} :
          Mount!Remember(root, path) \in MountCache
    BY <1>1, <2>3 DEF Mount!Remember, MountCache
  <2>6. library' \in Mount!Configs
    BY <1>1, <1>10, <2>1, <2>2 DEF Mount!RecordRecipe
  <2>7. cache' \in MountCache
    BY <1>1, <1>10, <2>3, <2>4, <2>5 DEF Mount!RecordRecipe
  <2> QED BY <1>1, <1>2, <1>10, <2>6, <2>7 DEF Mount!RecordRecipe
<1>11. CASE Mount!ShareDrops
  <2>1. mounts' \in 0..MaxMounts
    BY <1>4, <1>11 DEF Mount!ShareDrops
  <2>2. parent' \in BOOLEAN
    BY <1>1, <1>11 DEF Mount!ShareDrops
  <2> QED BY <1>1, <1>3, <1>11, <2>1, <2>2 DEF Mount!ShareDrops
<1>12. CASE Mount!ParentMounted \/ Mount!UserMounts
  <2>1. mounts' \in 0..MaxMounts /\ refused' \in Nat
    BY <1>1, <1>4, <1>12 DEF Mount!ParentMounted, Mount!UserMounts
  <2>2. parent' \in BOOLEAN /\ excuse' \in BOOLEAN
    BY <1>1, <1>12 DEF Mount!ParentMounted, Mount!UserMounts
  <2> QED BY <1>1, <1>12, <2>1, <2>2 DEF Mount!ParentMounted, Mount!UserMounts
<1>13. CASE Mount!ServerChanges
  BY <1>1, <1>3, <1>13 DEF Mount!ServerChanges
<1>14. CASE Mount!UserMovesLibrary
  BY <1>1, <1>3, <1>14 DEF Mount!UserMovesLibrary, Mount!Configs
<1>15. CASE Mount!WatcherRestarts
  BY <1>1, <1>2, <1>3, <1>15 DEF Mount!WatcherRestarts
<1>16. CASE UNCHANGED Mount!vars
  BY <1>1, <1>16 DEF Mount!vars
<1> QED BY <1>5, <1>6, <1>7, <1>8, <1>9, <1>10, <1>11, <1>12, <1>13, <1>14, <1>15, <1>16
  DEF Mount!Next, Mount!Loop

\* Every step leaves the recipe in hand the one on record.
LEMMA MountRecipeKept ==
  ASSUME Mount!Assumption, MountInv, [Mount!Next]_(Mount!vars)
  PROVE  MountRecipe'
<1> USE DEF MountInv, MountRecipe, Attempting
<1>1. CASE Mount!LibraryMountGone
  BY <1>1 DEF Mount!LibraryMountGone, Mount!LibraryMount
<1>2. CASE Mount!AttemptRemount
  BY <1>2 DEF Mount!AttemptRemount, Mount!IsMounted
<1>3. CASE Mount!RemountWorks \/ Mount!RemountRejected \/ Mount!RemountFails
  BY <1>3 DEF Mount!RemountWorks, Mount!RemountRejected, Mount!RemountFails
<1>4. CASE Mount!RecordRecipe
  BY <1>4 DEF Mount!RecordRecipe
<1>5. CASE Mount!ShareDrops \/ Mount!ParentMounted \/ Mount!UserMounts
  <2>1. CASE Mount!ShareDrops
    BY <2>1 DEF Mount!ShareDrops, Mount!TypeOK
  <2>2. CASE Mount!ParentMounted
    BY <2>2 DEF Mount!ParentMounted
  <2>3. CASE Mount!UserMounts
    <3>1. loop = "mounting" => excuse'
      BY <2>3, Zenon DEF Mount!UserMounts
    <3> QED BY <2>3, <3>1 DEF Mount!UserMounts
  <2> QED BY <1>5, <2>1, <2>2, <2>3
<1>6. CASE Mount!ServerChanges
  BY <1>6 DEF Mount!ServerChanges
<1>7. CASE Mount!UserMovesLibrary
  BY <1>7 DEF Mount!UserMovesLibrary, Mount!TypeOK, Mount!Configs
<1>8. CASE Mount!WatcherRestarts
  BY <1>8 DEF Mount!WatcherRestarts
<1>9. CASE UNCHANGED Mount!vars
  BY <1>9 DEF Mount!vars
<1> QED BY <1>1, <1>2, <1>3, <1>4, <1>5, <1>6, <1>7, <1>8, <1>9 DEF Mount!Next, Mount!Loop

\* Every step leaves the reason for which no attempt follows a refusal.
LEMMA MountRefusedKept ==
  ASSUME Mount!Assumption, MountInv, [Mount!Next]_(Mount!vars)
  PROVE  MountRefused'
<1> USE DEF MountInv, MountRefused, Mount!OneRefusal, Mount!IsMounted
<1>0. /\ state \in MountState /\ library \in Mount!Configs /\ loaded \in Mount!Configs
      /\ mounts \in Nat /\ parent \in BOOLEAN /\ refused \in Nat
  BY DEF Mount!TypeOK, MountState, Mount!Assumption
<1>1. CASE Mount!LibraryMountGone
  BY <1>0, <1>1, MountClock DEF Mount!LibraryMountGone, Mount!LibraryMount, Mount!Configs
<1>2. CASE Mount!AttemptRemount
  BY <1>0, <1>2, MountClock DEF Mount!AttemptRemount, Mount!Due, MountRecipe, Attempting
<1>3. CASE Mount!RemountWorks \/ Mount!RemountFails
  <2>1. CASE Mount!RemountWorks
    BY <2>1 DEF Mount!RemountWorks
  <2>2. CASE Mount!RemountFails
    BY <2>2 DEF Mount!RemountFails
  <2> QED BY <1>3, <2>1, <2>2
<1>4. CASE Mount!RemountRejected
  BY <1>0, <1>4 DEF Mount!RemountRejected, MountRecipe, Attempting, MountState
<1>5. CASE Mount!RecordRecipe
  BY <1>0, <1>5 DEF Mount!RecordRecipe, Mount!Configs
<1>6. CASE Mount!ShareDrops
  BY <1>0, <1>6 DEF Mount!ShareDrops
<1>7. CASE Mount!ParentMounted \/ Mount!UserMounts
  <2>1. CASE Mount!ParentMounted
    <3>1. library.recipe \in {"none", "own", "parent"}
      BY <1>0 DEF Mount!Configs, Mount!Recipes
    <3> QED BY <1>0, <2>1, <3>1 DEF Mount!ParentMounted, MountRecipe, Attempting
  <2>2. CASE Mount!UserMounts
    BY <2>2 DEF Mount!UserMounts
  <2> QED BY <1>7, <2>1, <2>2
<1>8. CASE Mount!ServerChanges
  BY <1>8 DEF Mount!ServerChanges
<1>9. CASE Mount!UserMovesLibrary
  BY <1>9 DEF Mount!UserMovesLibrary
<1>10. CASE Mount!WatcherRestarts
  BY <1>10 DEF Mount!WatcherRestarts
<1>11. CASE UNCHANGED Mount!vars
  BY <1>11 DEF Mount!vars
<1> QED BY <1>1, <1>2, <1>3, <1>4, <1>5, <1>6, <1>7, <1>8, <1>9, <1>10, <1>11
  DEF Mount!Next, Mount!Loop

\* At every moment the recipe in hand is the one on record while an attempt is under way, and
\* after a refusal something keeps the next attempt from being made.
THEOREM MountInvariant == Mount!Spec => []MountInv
<1>1. MountInv /\ [Mount!Next]_(Mount!vars) => MountInv'
  BY MountTypes, MountRecipeKept, MountRefusedKept, UpkeepAssumption DEF MountInv
<1> QED BY <1>1, MountStarts, UpkeepAssumption, PTL DEF Mount!Spec

\* What the model says the mount, the loop and what it remembers are, they are.
THEOREM MountTypesCorrect == Mount!Spec => []Mount!TypeOK
<1>1. MountInv => Mount!TypeOK
  BY DEF MountInv
<1> QED BY <1>1, MountInvariant, PTL

\* Whatever the waits are and however often shares drop, servers fail and people mount: the loop
\* mounts over no mount that it could have seen, and tries a refused password once.
THEOREM MountAttemptsAreSafe == Mount!Spec => AttemptsAreSafe
<1>1. MountInv /\ MountInv' /\ [Mount!Next]_(Mount!vars)
        => [Mount!NoMountOverMount /\ Mount!OneRefusal']_(Mount!vars)
  <2> SUFFICES ASSUME MountInv, MountInv', Mount!Next
               PROVE  Mount!NoMountOverMount /\ Mount!OneRefusal'
    OBVIOUS
  <2>1. mounts \in Nat
    BY DEF MountInv, Mount!TypeOK
  <2>2. Mount!NoMountOverMount
    <3>1. CASE Mount!RemountWorks
      BY <2>1, <3>1 DEF Mount!RemountWorks, Mount!NoMountOverMount, MountInv, MountRecipe
    <3>2. CASE ~Mount!RemountWorks
      BY <2>1, <3>2 DEF Mount!NoMountOverMount, Mount!Next, Mount!Loop, Mount!LibraryMountGone,
        Mount!AttemptRemount, Mount!RemountRejected, Mount!RemountFails, Mount!RecordRecipe,
        Mount!ShareDrops, Mount!ParentMounted, Mount!UserMounts, Mount!ServerChanges,
        Mount!UserMovesLibrary, Mount!WatcherRestarts
    <3> QED BY <3>1, <3>2
  <2> QED BY <2>2 DEF MountInv, MountRefused
<1> QED BY <1>1, MountInvariant, PTL DEF Mount!Spec, Mount!AttemptsAreSafe, AttemptsAreSafe

-----------------------------------------------------------------------------
(***************************************************************************)
(* BuildLink. What is true of /build at a reboot is true of the files at   *)
(* every step in between: a migration writes the new file before it cleans *)
(* the old one, and an uninstall in which nothing failed has read the      *)
(* entry that it is about to take out.                                     *)
(***************************************************************************)
\* Our entry is there as long as the link is, in the middle of a migration too, which begins
\* where it was read.
LinkEntry ==
  /\ step = "migrate" => "build" \in content
  /\ link = "ours" => Link!Configured \/ undone
  /\ step = "shed" => "build" \in conf \/ undone

\* What a clean uninstall has read, and what it has left.
LinkRemoval ==
  /\ step = "strip" /\ clean => ("build" \in conf => "build" \in content)
  /\ step \in {"legacy", "rid"} /\ clean => "build" \notin conf
  /\ step = "rid" /\ clean => ("build" \in legacy => "build" \in content)

LinkInv == Link!TypeOK /\ content = kept /\ LinkEntry /\ LinkRemoval

\* Every step of a migration, an uninstall, a reboot or an edit by hand keeps what is true of
\* /etc/synthetic.conf, the legacy file and the link.
LEMMA LinkInductive == Link!Assumption /\ LinkInv /\ [Link!Next]_(Link!vars) => LinkInv'
<1> SUFFICES ASSUME Link!Assumption, LinkInv, [Link!Next]_(Link!vars) PROVE LinkInv'
  OBVIOUS
<1>1. Link!Fault \/ Link!NoFault => linkFaults' \in 0..MaxLinkFaults
  BY DEF Link!Fault, Link!NoFault, Link!Assumption, LinkInv, Link!TypeOK
<1>2. Link!Fault => linkFaults' # linkFaults
  BY DEF Link!Fault, Link!Assumption, LinkInv, Link!TypeOK
<1>3. Link!TypeOK'
  <2> USE <1>1 DEF LinkInv, Link!TypeOK, Link!Lines, Link!Steps
  <2>1. CASE Link!EnsureMigrates \/ Link!EnsureAsks \/ Link!Declined
    BY <2>1 DEF Link!EnsureMigrates, Link!EnsureAsks, Link!Declined, Link!HasBuildEntry
  <2>2. CASE Link!MigrateDir \/ Link!MakeDir
    BY <2>2 DEF Link!MigrateDir, Link!MakeDir, Link!Sudo, LinkEntry
  <2>3. CASE Link!MigrateTee \/ Link!MigrateShed
    BY <2>3 DEF Link!MigrateTee, Link!MigrateShed, Link!Sudo, Link!StripBuildEntry
  <2>4. CASE Link!Agreed
    BY <2>4 DEF Link!Agreed, Link!Reading, Link!ReadSyntheticConf, Link!HasBuildEntry
  <2>5. CASE Link!WriteConf
    BY <2>5 DEF Link!WriteConf, Link!Sudo
  <2>6. CASE Link!Activate \/ Link!Boot
    BY <2>6 DEF Link!Activate, Link!Boot
  <2>7. CASE Link!Uninstall
    BY <2>7 DEF Link!Uninstall, Link!Reading, Link!ReadSyntheticConf
  <2>8. CASE Link!StripConf \/ Link!ReadLegacy \/ Link!StripLegacy
    <3>1. CASE Link!StripConf \/ Link!ReadLegacy
      BY <3>1 DEF Link!StripConf, Link!ReadLegacy, Link!StripBuildEntry
    <3>2. CASE Link!StripLegacy
      <4>1. undone' \in BOOLEAN /\ clean' \in BOOLEAN /\ legacy' \subseteq Link!Lines
        BY <3>2 DEF Link!StripLegacy, Link!StripBuildEntry, Link!HasBuildEntry
      <4> QED BY <3>2, <4>1 DEF Link!StripLegacy
    <3> QED BY <2>8, <3>1, <3>2
  <2>9. CASE Link!Interrupt
    BY <2>9 DEF Link!Interrupt
  <2>10. CASE Link!EditByHand
    <3>1. edits' \in 0..MaxEdits
      BY <2>10 DEF Link!EditByHand, Link!Assumption
    <3>2. conf' \subseteq Link!Lines /\ legacy' \subseteq Link!Lines
      BY <2>10 DEF Link!EditByHand, Link!StripBuildEntry
    <3> QED BY <2>10, <3>1, <3>2 DEF Link!EditByHand
  <2>11. CASE UNCHANGED Link!vars
    BY <2>11 DEF Link!vars
  <2> QED BY <2>1, <2>2, <2>3, <2>4, <2>5, <2>6, <2>7, <2>8, <2>9, <2>10, <2>11 DEF Link!Next
<1>4. (content = kept)'
  <2>1. CASE Link!Agreed \/ Link!Uninstall
    BY <2>1 DEF Link!Agreed, Link!Uninstall, Link!Reading, Link!ReadSyntheticConf
  <2>2. CASE Link!EnsureMigrates \/ Link!ReadLegacy
    BY <2>2 DEF Link!EnsureMigrates, Link!ReadLegacy
  <2>3. CASE ~(Link!Agreed \/ Link!Uninstall \/ Link!EnsureMigrates \/ Link!ReadLegacy)
    <3>1. UNCHANGED <<content, kept>>
      BY <2>3 DEF Link!Next, Link!vars, Link!EnsureAsks, Link!MigrateDir, Link!MigrateTee,
        Link!MigrateShed, Link!Declined, Link!MakeDir, Link!WriteConf, Link!Activate,
        Link!StripConf, Link!StripLegacy, Link!Interrupt, Link!Boot, Link!EditByHand
    <3> QED BY <3>1 DEF LinkInv
  <2> QED BY <2>1, <2>2, <2>3
<1>5. LinkEntry'
  <2> USE DEF LinkInv, LinkEntry, Link!Configured, Link!HasBuildEntry, Link!StripBuildEntry
  <2>1. CASE Link!EnsureMigrates \/ Link!EnsureAsks \/ Link!Declined \/ Link!Interrupt
    BY <2>1 DEF Link!EnsureMigrates, Link!EnsureAsks, Link!Declined, Link!Interrupt
  <2>2. CASE Link!MigrateDir \/ Link!MakeDir
    BY <2>2 DEF Link!MigrateDir, Link!MakeDir, Link!Sudo
  <2>3. CASE Link!MigrateTee \/ Link!MigrateShed
    BY <2>3 DEF Link!MigrateTee, Link!MigrateShed, Link!Sudo
  <2>4. CASE Link!Agreed \/ Link!Uninstall
    BY <2>4 DEF Link!Agreed, Link!Uninstall
  <2>5. CASE Link!WriteConf
    BY <2>5 DEF Link!WriteConf, Link!Sudo
  <2>6. CASE Link!Activate \/ Link!Boot
    BY <2>6 DEF Link!Activate, Link!Boot
  <2>7. CASE Link!StripConf \/ Link!ReadLegacy \/ Link!StripLegacy
    BY <2>7 DEF Link!StripConf, Link!ReadLegacy, Link!StripLegacy
  <2>8. CASE Link!EditByHand
    BY <2>8 DEF Link!EditByHand, Link!Assumption
  <2>9. CASE UNCHANGED Link!vars
    BY <2>9 DEF Link!vars
  <2> QED BY <2>1, <2>2, <2>3, <2>4, <2>5, <2>6, <2>7, <2>8, <2>9 DEF Link!Next
<1>6. LinkRemoval'
  <2> USE DEF LinkInv, LinkRemoval, Link!StripBuildEntry
  <2>1. CASE Link!EnsureMigrates \/ Link!EnsureAsks \/ Link!Declined \/ Link!Interrupt
    BY <2>1 DEF Link!EnsureMigrates, Link!EnsureAsks, Link!Declined, Link!Interrupt
  <2>2. CASE Link!MigrateDir \/ Link!MakeDir
    BY <2>2 DEF Link!MigrateDir, Link!MakeDir, Link!Sudo
  <2>3. CASE Link!MigrateTee \/ Link!MigrateShed \/ Link!WriteConf
    BY <2>3 DEF Link!MigrateTee, Link!MigrateShed, Link!WriteConf, Link!Sudo
  <2>4. CASE Link!Agreed
    BY <2>4 DEF Link!Agreed
  <2>5. CASE Link!Activate \/ Link!Boot
    BY <2>5 DEF Link!Activate, Link!Boot
  <2>6. CASE Link!Uninstall
    BY <2>6, <1>2 DEF Link!Uninstall, Link!Reading, Link!ReadSyntheticConf
  <2>7. CASE Link!StripConf \/ Link!ReadLegacy \/ Link!StripLegacy
    BY <2>7 DEF Link!StripConf, Link!ReadLegacy, Link!StripLegacy
  <2>8. CASE Link!EditByHand
    BY <2>8 DEF Link!EditByHand, Link!Assumption
  <2>9. CASE UNCHANGED Link!vars
    BY <2>9 DEF Link!vars
  <2> QED BY <2>1, <2>2, <2>3, <2>4, <2>5, <2>6, <2>7, <2>8, <2>9 DEF Link!Next
<1> QED BY <1>3, <1>4, <1>5, <1>6 DEF LinkInv

\* It is true of any lines in the two files, with the link there only if one configures it.
LEMMA LinkStarts == Link!Assumption /\ Link!Init => LinkInv
<1> SUFFICES ASSUME Link!Assumption, Link!Init PROVE LinkInv
  OBVIOUS
<1>1. step = "idle" /\ content = {} /\ kept = {} /\ edits \in 0..MaxEdits /\ linkFaults \in 0..MaxLinkFaults
  BY DEF Link!Init, Link!Assumption
<1>2. link \in {"none", "ours", "other"} /\ (link = "ours" => Link!Configured)
  <2>1. CASE Link!Configured
    BY <2>1 DEF Link!Init
  <2>2. CASE ~Link!Configured
    BY <2>2 DEF Link!Init
  <2> QED BY <2>1, <2>2
<1> QED BY <1>1, <1>2 DEF LinkInv, LinkEntry, LinkRemoval, Link!Init, Link!TypeOK, Link!Steps

\* At every moment our link is configured in one of the two files or its entry was taken out,
\* and a clean uninstall takes out the entry that it has read.
THEOREM LinkInvariant == Link!Spec => []LinkInv
BY LinkStarts, LinkInductive, UpkeepAssumption, PTL DEF Link!Spec

\* What the model says the files, /build and the command are, they are.
THEOREM LinkTypesCorrect == Link!Spec => []Link!TypeOK
<1>1. LinkInv => Link!TypeOK
  BY DEF LinkInv
<1> QED BY <1>1, LinkInvariant, PTL

\* Whatever lines the two files hold, whoever edits them in between and whichever sudo command
\* fails: other people's lines stay, our entry is in one file or the other until it is taken
\* out, and a clean uninstall takes it out of both.
THEOREM LinkIsKeptOrGone == Link!Spec => EntriesKeptOrGone
<1>1. LinkInv /\ [Link!Next]_(Link!vars)
        => [Link!ForeignKept /\ Link!LinkSurvivesReboot /\ Link!UninstallIsClean]_(Link!vars)
  <2> SUFFICES ASSUME LinkInv
               PROVE  Link!ForeignKept /\ Link!LinkSurvivesReboot /\ Link!UninstallIsClean
    OBVIOUS
  <2>1. Link!ForeignKept
    BY DEF LinkInv, Link!ForeignKept, Link!WriteConf, Link!StripConf, Link!MigrateShed,
       Link!StripLegacy, Link!Sudo, Link!StripBuildEntry
  <2>2. Link!LinkSurvivesReboot
    BY DEF LinkInv, LinkEntry, Link!LinkSurvivesReboot, Link!Boot
  <2>3. Link!UninstallIsClean
    BY DEF LinkInv, LinkRemoval, Link!UninstallIsClean, Link!StripLegacy, Link!HasBuildEntry,
       Link!StripBuildEntry
  <2> QED BY <2>1, <2>2, <2>3
<1> QED BY <1>1, LinkInvariant, PTL DEF Link!Spec, Link!EntriesKeptOrGone, EntriesKeptOrGone

-----------------------------------------------------------------------------
(***************************************************************************)
(* SelfTest. Whoever has begun holds the lock, and with it the file: what  *)
(* it saved stays there until it adds to it.                               *)
(***************************************************************************)
TestRun == [at : {"off", "begin", "node", "wait", "ml"}, by : {"start", "hand", "canary"},
            result : Test!Results \cup {Test!NoResult}]

\* Who has begun holds the lock and knows the version; who waits for ML has saved.
TestHolds ==
  \A r \in Runs :
    /\ run[r].at \in {"node", "wait", "ml"} => testLock = r /\ run[r].result \in Test!Results
    /\ run[r].at \in {"wait", "ml"} => file = run[r].result
    /\ run[r].at \in {"off", "begin"} => run[r].result = Test!NoResult

\* A result that lets the next start pass its version over has its ML checks answered, or coming,
\* or lost with a run that made its first save only.
TestSpeaks(result) == result.ok /\ ~result.pending /\ ~result.inconclusive
TestAnswered ==
  TestSpeaks(file) => \/ file.version \in mlDone \cup halved
                      \/ \E r \in Runs : run[r].at \in {"wait", "ml"}

TestInv == Test!TypeOK /\ TestHolds /\ (file.ok => file.version \in passed) /\ TestAnswered

\* No self-test has run at first.
LEMMA TestStarts == Test!Assumption /\ Test!Init => TestInv
<1> SUFFICES ASSUME Test!Assumption, Test!Init PROVE TestInv
  OBVIOUS
<1>1. \A r \in Runs : run[r] = Test!Off
  BY DEF Test!Init
<1>2. Test!Off \in TestRun /\ Test!Off.at = "off" /\ Test!Off.result = Test!NoResult
  BY DEF Test!Off, TestRun
<1>3. run \in [Runs -> TestRun]
  BY <1>2 DEF Test!Init
<1>4. testLeft \in [moves : 0..MaxTestMoves, runs : 0..MaxRuns, faults : 0..MaxTestFaults]
  BY DEF Test!Init, Test!Assumption
<1>5. ~file.ok
  BY DEF Test!Init, Test!NoResult
<1>6. Test!TypeOK
  BY <1>1, <1>2, <1>3, <1>4 DEF Test!TypeOK, Test!Init, Test!MlHalf, TestRun
<1> QED BY <1>1, <1>2, <1>5, <1>6 DEF TestInv, TestHolds, TestAnswered, TestSpeaks

\* What is spent of a bound was left of it.
LEMMA TestSpends ==
  ASSUME Test!Assumption, TestInv, NEW bound \in {"moves", "runs", "faults"}, Test!Spend(bound)
  PROVE  testLeft' \in [moves : 0..MaxTestMoves, runs : 0..MaxRuns, faults : 0..MaxTestFaults]
BY DEF Test!Assumption, TestInv, Test!TypeOK, Test!Spend

\* A step of one run, which may save and may end.
LEMMA TestGoesOn ==
  ASSUME Test!Assumption, TestInv, NEW r \in Runs, NEW w \in TestRun,
         run' = [run EXCEPT ![r] = w],
         w.at \in {"node", "wait", "ml"} => testLock' = r /\ w.result \in Test!Results,
         w.at \in {"wait", "ml"} =>
           file' = w.result /\ ~w.result.inconclusive /\ ~w.result.pending,
         w.at \in {"off", "begin"} => w.result = Test!NoResult,
         testLock' = testLock \/ testLock = "free" \/ testLock = r,
         testLock' \in {testLock, r, "free"},
         file' = file \/ testLock = r,
         file' \in Test!Results \cup {Test!NoResult},
         file'.ok => file'.version \in passed',
         \/ file' = file /\ run[r].at \notin {"wait", "ml"}
         \/ w.at \in {"wait", "ml"}
         \/ TestSpeaks(file') => file'.version \in mlDone' \cup halved',
         passed' \subseteq TestVersions, mlDone' \subseteq TestVersions, mlDone \subseteq mlDone',
         halved' \subseteq TestVersions, halved \subseteq halved',
         testLeft' = testLeft \/ \E bound \in {"moves", "runs", "faults"} : Test!Spend(bound),
         UNCHANGED <<version, broken>>
  PROVE  TestInv'
<1>1. run \in [Runs -> TestRun] /\ testLock \in Runs \cup {"free", "status"}
  BY DEF TestInv, Test!TypeOK, TestRun
<1>2. run' \in [Runs -> TestRun] /\ \A q \in Runs : run'[q] = IF q = r THEN w ELSE run[q]
  BY <1>1
<1>3. testLeft' \in [moves : 0..MaxTestMoves, runs : 0..MaxRuns, faults : 0..MaxTestFaults]
  BY TestSpends DEF TestInv, Test!TypeOK
<1>4. \A q \in Runs : q \notin {"free", "status"}
  BY DEF Test!Assumption
<1>5. TestHolds'
  BY <1>1, <1>2, <1>4 DEF TestInv, TestHolds
<1>6. \A q \in Runs : run'[q].at \in {"wait", "ml"} =>
        run'[q].result \in Test!Results /\ ~run'[q].result.inconclusive /\ ~run'[q].result.pending
  BY <1>1, <1>2, <1>5 DEF TestInv, Test!TypeOK, Test!MlHalf, TestHolds
<1>7. Test!TypeOK'
  BY <1>1, <1>2, <1>3, <1>6 DEF TestInv, Test!TypeOK, Test!MlHalf, TestRun
<1>8. TestAnswered'
  <2>1. CASE file' = file /\ run[r].at \notin {"wait", "ml"}
    <3>1. \A q \in Runs : run[q].at \in {"wait", "ml"} => run'[q].at \in {"wait", "ml"}
      BY <1>2, <2>1
    <3> QED BY <2>1, <3>1 DEF TestInv, TestAnswered
  <2>2. CASE w.at \in {"wait", "ml"}
    BY <1>2, <2>2 DEF TestAnswered
  <2>3. CASE TestSpeaks(file') => file'.version \in mlDone' \cup halved'
    BY <2>3 DEF TestAnswered, TestSpeaks
  <2> QED BY <2>1, <2>2, <2>3
<1> QED BY <1>5, <1>7, <1>8 DEF TestInv

\* Every step of a run and of the world keeps what the lock and the result file have to do with
\* each other.
LEMMA TestInductive == Test!Assumption /\ TestInv /\ [Test!Next]_(Test!vars) => TestInv'
<1> SUFFICES ASSUME Test!Assumption, TestInv, [Test!Next]_(Test!vars) PROVE TestInv'
  OBVIOUS
<1>1. /\ run \in [Runs -> TestRun] /\ testLock \in Runs \cup {"free", "status"}
      /\ file \in Test!Results \cup {Test!NoResult} /\ version \in TestVersions
      /\ passed \subseteq TestVersions /\ mlDone \subseteq TestVersions /\ halved \subseteq TestVersions
  BY DEF TestInv, Test!TypeOK, TestRun
<1>2. Test!Off \in TestRun /\ Test!Off.at = "off" /\ Test!Off.result = Test!NoResult
      /\ ~Test!NoResult.ok
  BY DEF Test!Off, Test!NoResult, TestRun
<1>3. ASSUME NEW by \in {"start", "hand", "canary"}, Test!Begin(by) PROVE TestInv'
  <2>1. PICK r \in Runs : run[r] = Test!Off /\ run' = [run EXCEPT ![r].at = "begin", ![r].by = by]
    BY <1>3 DEF Test!Begin
  <2> DEFINE w == [Test!Off EXCEPT !.at = "begin", !.by = by]
  <2>2. w \in TestRun /\ w.at = "begin" /\ w.result = Test!NoResult
    BY <1>2 DEF TestRun
  <2>3. run' = [run EXCEPT ![r] = w]
    BY <1>1, <2>1
  <2>4. run[r].at \notin {"wait", "ml"}
    BY <1>2, <2>1
  <2>5. /\ UNCHANGED <<version, broken, file, testLock, passed, mlDone, halved>> /\ Test!Spend("runs")
        /\ file'.ok => file'.version \in passed'
    BY <1>3 DEF Test!Begin, TestInv
  <2> HIDE DEF w
  <2> QED BY <1>1, <2>2, <2>3, <2>4, <2>5, TestGoesOn
<1>4. ASSUME NEW r \in Runs, Test!Ends(r), file' = file \/ testLock = r,
             file' \in Test!Results \cup {Test!NoResult}, file'.ok => file'.version \in passed',
             \/ file' = file /\ run[r].at \notin {"wait", "ml"}
             \/ TestSpeaks(file') => file'.version \in mlDone' \cup halved',
             passed' \subseteq TestVersions, mlDone' \subseteq TestVersions, mlDone \subseteq mlDone',
             halved' \subseteq TestVersions, halved \subseteq halved',
             testLeft' = testLeft \/ \E bound \in {"moves", "runs", "faults"} : Test!Spend(bound),
             UNCHANGED <<version, broken>>
      PROVE  TestInv'
  <2>1. run' = [run EXCEPT ![r] = Test!Off]
        /\ testLock' \in {testLock, r, "free"} /\ (testLock' = testLock \/ testLock = "free" \/ testLock = r)
    BY <1>4 DEF Test!Ends
  <2> QED BY <1>2, <1>4, <2>1, TestGoesOn
<1>5. ASSUME NEW r \in Runs, Test!TakeLock(r) PROVE TestInv'
  <2>1. UNCHANGED <<version, broken, file, passed, mlDone, halved, testLeft>> /\ run[r].at = "begin"
    BY <1>5 DEF Test!TakeLock
  <2>2. file'.ok => file'.version \in passed'
    BY <2>1 DEF TestInv
  <2>3. CASE Test!Ends(r)
    BY <1>1, <1>4, <2>1, <2>2, <2>3
  <2>4. ASSUME NEW v \in TestVersions, testLock = "free", testLock' = r,
               run' = [run EXCEPT ![r].at = "node", ![r].result.version = v]
        PROVE  TestInv'
    <3> DEFINE w == [run[r] EXCEPT !.at = "node", !.result = [Test!NoResult EXCEPT !.version = v]]
    <3>1. run[r] \in TestRun /\ run[r].result = Test!NoResult
      BY <1>1, <2>1 DEF TestInv, TestHolds
    <3>2. w \in TestRun /\ w.at = "node" /\ w.result \in Test!Results
      <4>1. [Test!NoResult EXCEPT !.version = v] \in Test!Results
        BY DEF Test!NoResult, Test!Results
      <4> QED BY <3>1, <4>1 DEF TestRun
    <3>3. run' = [run EXCEPT ![r] = w]
      BY <1>1, <2>4, <3>1
    <3> HIDE DEF w
    <3> QED BY <1>1, <2>1, <2>2, <2>4, <3>2, <3>3, TestGoesOn
  <2> QED BY <1>1, <1>5, <2>3, <2>4 DEF Test!TakeLock
<1>6. ASSUME NEW r \in Runs, Test!RunSelftest(r) PROVE TestInv'
  <2> DEFINE v == run[r].result.version
  <2>1. run[r].at = "node" /\ UNCHANGED <<version, broken, mlDone>>
    BY <1>6 DEF Test!RunSelftest
  <2>2. run[r] \in TestRun /\ testLock = r /\ v \in TestVersions
    BY <1>1, <2>1 DEF TestInv, TestHolds, Test!Results
  <2>3. /\ Test!Judged(v) \in Test!Results /\ Test!TimedOut(v) \in Test!Results
        /\ ~Test!Judged(v).inconclusive /\ ~Test!Judged(v).pending
        /\ Test!Judged(v).version = v /\ ~Test!TimedOut(v).ok
    BY <2>2 DEF Test!Judged, Test!TimedOut, Test!Results
  <2>4. CASE /\ Test!Goes(r, Test!Judged(v), IF run[r].by = "canary" THEN "off" ELSE "wait")
             /\ passed' = IF Test!Judged(v).ok THEN passed \cup {v} ELSE passed
             /\ halved' = IF run[r].by = "canary" THEN halved \cup {v} ELSE halved
             /\ UNCHANGED testLeft
    <3>1. file' = Test!Judged(v) /\ passed' \subseteq TestVersions
          /\ (file'.ok => file'.version \in passed')
          /\ halved' \subseteq TestVersions /\ halved \subseteq halved'
      BY <1>1, <2>2, <2>3, <2>4 DEF Test!Goes
    <3>2. CASE run[r].by = "canary"
      <4>1. Test!Ends(r) /\ file'.version \in halved'
        BY <2>3, <2>4, <3>1, <3>2 DEF Test!Goes
      <4> QED BY <1>1, <1>4, <2>1, <2>2, <2>3, <2>4, <3>1, <4>1
    <3>3. CASE run[r].by # "canary"
      <4> DEFINE w == [run[r] EXCEPT !.at = "wait", !.result = Test!Judged(v)]
      <4>1. run' = [run EXCEPT ![r] = w] /\ testLock' = testLock
        BY <1>1, <2>4, <3>3 DEF Test!Goes
      <4>2. w \in TestRun /\ w.at = "wait" /\ w.result = Test!Judged(v)
        BY <2>2, <2>3 DEF TestRun
      <4> HIDE DEF w, v
      <4> QED BY <1>1, <2>1, <2>2, <2>3, <2>4, <3>1, <4>1, <4>2, TestGoesOn
    <3> QED BY <3>2, <3>3
  <2>5. CASE Test!Goes(r, Test!TimedOut(v), "off") /\ Test!Spend("faults") /\ UNCHANGED <<passed, halved>>
    <3>1. file' = Test!TimedOut(v) /\ Test!Ends(r) /\ ~TestSpeaks(file')
      BY <2>3, <2>5 DEF Test!Goes, TestSpeaks
    <3> QED BY <1>1, <1>4, <2>1, <2>2, <2>3, <2>5, <3>1
  <2> QED BY <1>6, <2>4, <2>5 DEF Test!RunSelftest
<1>7. ASSUME NEW r \in Runs, Test!WaitForMl(r) PROVE TestInv'
  <2>1. run[r].at = "wait" /\ UNCHANGED <<version, broken, file, testLock, passed, mlDone, halved, testLeft>>
    BY <1>7 DEF Test!WaitForMl
  <2> DEFINE w == [run[r] EXCEPT !.at = "ml"]
  <2>2. run' = [run EXCEPT ![r] = w] /\ run[r] \in TestRun
    BY <1>1, <1>7 DEF Test!WaitForMl
  <2>3. w \in TestRun /\ w.at = "ml" /\ w.result = run[r].result
    BY <2>2 DEF TestRun
  <2>4. /\ testLock = r /\ w.result \in Test!Results /\ file = w.result
        /\ ~w.result.inconclusive /\ ~w.result.pending
    BY <2>1, <2>3 DEF TestInv, TestHolds, Test!TypeOK, Test!MlHalf
  <2>5. file'.ok => file'.version \in passed'
    BY <2>1 DEF TestInv
  <2> HIDE DEF w
  <2> QED BY <1>1, <2>1, <2>2, <2>3, <2>4, <2>5, TestGoesOn
<1>8. ASSUME NEW r \in Runs, Test!AddMlSelftest(r) PROVE TestInv'
  <2>1. /\ run[r].at = "ml" /\ Test!Ends(r) /\ UNCHANGED <<version, broken, passed, halved, testLeft>>
        /\ mlDone' \in {mlDone, mlDone \cup {run[r].result.version}}
        /\ file'.pending \/ file'.version \in mlDone'
        /\ \E found \in Test!Found, ok \in BOOLEAN : file' = Test!AddedTo(run[r].result, found, ok)
    <3>1. run[r].at = "ml" /\ run[r].result \in Test!Results
      BY <1>8 DEF Test!AddMlSelftest, TestInv, TestHolds
    <3> QED BY <1>8, <3>1 DEF Test!AddMlSelftest, Test!AddedTo, Test!Results
  <2>2. testLock = r /\ run[r].result \in Test!Results /\ file = run[r].result
    BY <2>1 DEF TestInv, TestHolds
  <2>3. file' \in Test!Results /\ file'.version = file.version /\ (file'.ok => file.ok)
    BY <2>1, <2>2 DEF Test!AddedTo, Test!Results
  <2>4. mlDone' \subseteq TestVersions
    BY <1>1, <2>1, <2>2 DEF Test!Results
  <2>5. file'.ok => file'.version \in passed'
    BY <2>1, <2>3 DEF TestInv
  <2>6. TestSpeaks(file') => file'.version \in mlDone' \cup halved'
    BY <2>1 DEF TestSpeaks
  <2> QED BY <1>1, <1>4, <2>1, <2>2, <2>3, <2>4, <2>5, <2>6
<1>9. ASSUME NEW r \in Runs, Test!Killed(r) PROVE TestInv'
  <2>1. /\ Test!Ends(r) /\ Test!Spend("faults") /\ UNCHANGED <<version, broken, passed, mlDone>>
        /\ file' = file \/ (run[r].at \in {"node", "ml"} /\ file' = Test!NoResult)
        /\ halved' = IF run[r].at \in {"wait", "ml"} THEN halved \cup {run[r].result.version} ELSE halved
    BY <1>9 DEF Test!Killed, Test!MlHalf
  <2>2. file' = file \/ testLock = r
    BY <2>1 DEF TestInv, TestHolds
  <2>3. file' \in Test!Results \cup {Test!NoResult} /\ (file'.ok => file'.version \in passed')
    BY <1>1, <1>2, <2>1 DEF TestInv
  <2>4. halved' \subseteq TestVersions /\ halved \subseteq halved'
    BY <1>1, <2>1 DEF TestInv, TestHolds, Test!Results
  <2>5. \/ file' = file /\ run[r].at \notin {"wait", "ml"}
        \/ TestSpeaks(file') => file'.version \in mlDone' \cup halved'
    <3>1. run[r].at \in {"wait", "ml"} => file = run[r].result
      BY DEF TestInv, TestHolds
    <3> QED BY <1>2, <2>1, <3>1 DEF TestSpeaks
  <2> QED BY <1>1, <1>4, <2>1, <2>2, <2>3, <2>4, <2>5
<1>10. CASE Test!StatusProbes \/ Test!StatusAnswers
  BY <1>10 DEF Test!StatusProbes, Test!StatusAnswers, TestInv, Test!TypeOK, TestHolds, TestAnswered,
    TestSpeaks, Test!Assumption
<1>11. CASE Test!VersionMoves
  <2>1. testLeft' \in [moves : 0..MaxTestMoves, runs : 0..MaxRuns, faults : 0..MaxTestFaults]
    BY <1>11, TestSpends DEF Test!VersionMoves
  <2> QED BY <1>11, <2>1 DEF Test!VersionMoves, TestInv, Test!TypeOK, TestHolds, TestAnswered, TestSpeaks
<1>12. CASE UNCHANGED Test!vars
  BY <1>12 DEF Test!vars, TestInv, Test!TypeOK, TestHolds, TestAnswered, TestSpeaks
<1> QED BY <1>3, <1>5, <1>6, <1>7, <1>8, <1>9, <1>10, <1>11, <1>12
  DEF Test!Next, Test!Step, Test!SpawnSelftest, Test!UserSelftest, Test!CanarySelftest

\* At every moment the run that holds the lock is the only one at work, and the result file is
\* what it has saved so far.
THEOREM TestInvariant == Test!Spec => []TestInv
BY TestStarts, TestInductive, UpkeepAssumption, PTL DEF Test!Spec

\* What the model says the result, the lock and the runs are, they are.
THEOREM TestTypesCorrect == Test!Spec => []Test!TypeOK
<1>1. TestInv => Test!TypeOK
  BY DEF TestInv
<1> QED BY <1>1, TestInvariant, PTL

\* However many self-tests are begun, killed and run out of time, for however many versions: a
\* result that makes no start test again is one of node checks that ran and passed, is what its
\* run saved, and lacks an answer of ML only where that is awaited or a run was cut off between
\* its saves.
THEOREM TestResultIsTrue == Test!Spec => []ResultIsTrue
<1>1. TestInv => ResultIsTrue
  <2> SUFFICES ASSUME TestInv
               PROVE  Test!PassedMeansRun /\ Test!NobodySavedMeanwhile /\ Test!UnansweredIsDue
    BY DEF ResultIsTrue, Test!ResultIsTrue
  <2>1. Test!PassedMeansRun
    BY DEF TestInv, Test!PassedMeansRun, Test!SelftestDue
  <2>2. Test!NobodySavedMeanwhile
    BY DEF TestInv, TestHolds, Test!NobodySavedMeanwhile, Test!MlHalf
  <2>3. Test!UnansweredIsDue
    <3> SUFFICES ASSUME NEW v \in TestVersions \ halved, ~Test!SelftestDue(v), v \notin mlDone
                 PROVE  Test!AwaitsMl(v)
      BY DEF Test!UnansweredIsDue
    <3>1. TestSpeaks(file) /\ file.version = v
      BY DEF Test!SelftestDue, TestSpeaks
    <3>2. PICK r \in Runs : run[r].at \in {"wait", "ml"}
      BY <3>1 DEF TestInv, TestAnswered
    <3>3. file = run[r].result
      BY <3>2 DEF TestInv, TestHolds
    <3> QED BY <3>1, <3>2, <3>3 DEF Test!AwaitsMl, Test!MlHalf
  <2> QED BY <2>1, <2>2, <2>3
<1> QED BY <1>1, TestInvariant, PTL

-----------------------------------------------------------------------------
(* Upkeep: what is proved of a component holds of the sum of them. *)

\* What the five modules say their variables are, they are, whichever component runs: a
\* behaviour of the sum is one of each component, since a step of one leaves the others alone.
THEOREM UpkeepTypesCorrect == UpkeepSpec => []UpkeepTypeOK
<1>1. UpkeepInit => Init /\ FileInv /\ Mount!Init /\ Link!Init /\ Test!Init
  BY FileStarts, UpkeepAssumption DEF UpkeepInit
<1>2. [UpkeepNext]_allVars => /\ [Next]_vars /\ [File!Next]_(File!vars) /\ [Mount!Next]_(Mount!vars)
                              /\ [Link!Next]_(Link!vars) /\ [Test!Next]_(Test!vars)
  BY DEF UpkeepNext, BuildRuns, FileRuns, MountRuns, LinkRuns, TestRuns, allVars, fileVars, mountVars,
    linkVars, testVars, File!vars, Mount!vars, Link!vars, Test!vars
<1>3. UpkeepSpec => Spec /\ []FileInv /\ Mount!Spec /\ Link!Spec /\ Test!Spec
  BY <1>1, <1>2, FileInductive, UpkeepAssumption, PTL
    DEF UpkeepSpec, Spec, Mount!Spec, Link!Spec, Test!Spec
<1>4. FileInv => File!TypeOK
  BY DEF FileInv, FileTypes
<1>5. TypeOK /\ File!TypeOK /\ Mount!TypeOK /\ Link!TypeOK /\ Test!TypeOK => UpkeepTypeOK
  BY DEF UpkeepTypeOK
<1> QED BY <1>3, <1>4, <1>5, BuildTypesCorrect, MountTypesCorrect, LinkTypesCorrect,
  TestTypesCorrect, PTL
=============================================================================

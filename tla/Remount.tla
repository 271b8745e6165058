------------------------------- MODULE Remount -------------------------------
(***************************************************************************)
(* The mount the library is on: how the watch loop records it while it is   *)
(* healthy, finds it missing, and puts it back.  The worker's pause is in   *)
(* PauseWatch; here is what the loop remembers about the mount.             *)
(*                                                                         *)
(* The library lies on a share of its own that is mounted inside another    *)
(* share, or on the internal disk; config.json names it directly or through *)
(* a symbolic link.  A step of the clock is one cycle of the loop (30 s).   *)
(***************************************************************************)
EXTENDS Integers, Sequences

CONSTANTS
  Backoff,      \* cycles to wait before attempt 1, 2, ...; the last goes for the rest
  MaxMounts,    \* bound: mounts that may lie on one another
  MaxFaults     \* bound: faults of the world and of the tools

Assumption ==
  /\ Backoff \in Seq(Nat) /\ Backoff # <<>> /\ Backoff[1] = 0
  /\ MaxMounts \in Nat \ {0} /\ MaxFaults \in Nat

\* upload_mount: below the share's mount point, a link to there, or on the internal disk.
Paths   == {"share", "link", "local"}
Recipes == {"none", "own", "parent"}

VARIABLES
  config,   \* config.json: [path, recipe]
  mounts,   \* how many mounts lie on the library's mount point
  parent,   \* the share around it is mounted
  server,   \* "up", "down", or "rejects" the password
  at,       \* where the loop is in its cycle
  loaded,   \* the configuration it loaded when it woke
  state,    \* remount_state: [attempts, last, blocked]; last is cycles ago, -1 for never
  cache,    \* _RESOLVED_FOR_TABLE: what it was computed for and against, and the answer
  refused,  \* history: attempts refused since the library was last mounted
  excuse,   \* history: the table could not be read, or the user mounted meanwhile
  faults    \* what remains of MaxFaults

vars == <<config, mounts, parent, server, at, loaded, state, cache, refused, excuse, faults>>

Longest == Backoff[Len(Backoff)]
NoState == [attempts |-> 0, last |-> -1, blocked |-> FALSE]
NoCache == [root |-> "none", table |-> <<FALSE, FALSE>>, path |-> "none"]
Configs == [path : Paths, recipe : Recipes]

TypeOK ==
  /\ config \in Configs /\ loaded \in Configs
  /\ mounts \in 0..MaxMounts /\ parent \in BOOLEAN
  /\ server \in {"up", "down", "rejects"}
  /\ at \in {"asleep", "gone", "mounting", "reading"}
  /\ state \in [attempts : 0..Len(Backoff), last : -1..Longest, blocked : BOOLEAN]
  /\ cache \in [root : Paths \cup {"none"}, table : BOOLEAN \X BOOLEAN,
               path : {"none", "share", "local"}]
  /\ refused \in Nat /\ excuse \in BOOLEAN /\ faults \in 0..MaxFaults

Fault   == faults > 0 /\ faults' = faults - 1
NoFault == faults' = faults

Table == <<mounts > 0, parent>>

-----------------------------------------------------------------------------
(* What the mount table says of a path. *)

\* The longest mount that covers the path.
BestMountFor(path) ==
  CASE path = "share" /\ mounts > 0          -> "own"
    [] path = "share" /\ mounts = 0 /\ parent -> "parent"
    [] OTHER                                  -> "none"

Remountable == TRUE \in {mounts > 0, parent}

\* _resolve_for_mount_table: a link into a mount whose server does not answer is not
\* resolved in time.
Resolve(root) ==
  IF cache.root = root /\ cache.table = Table THEN cache.path
  ELSE IF root = "local" THEN "local"
  ELSE IF server = "down" THEN "none" ELSE "share"

\* Mutant of Remember: failures are remembered too.
RememberAnything(root, path) == [root |-> root, table |-> Table, path |-> path]

\* Only a success is remembered.
Remember(root, path) ==
  IF path # "none" THEN [root |-> root, table |-> Table, path |-> path] ELSE cache

\* Only a recipe whose mount point covers the path as it is written speaks for it.
LibraryMount(cfg) == IF cfg.path = "share" THEN cfg.recipe ELSE "none"

\* Mutant of IsMounted: a path is taken for the mount point it lies in.
IsMountedNever(point) == FALSE

IsMounted(point) == IF point = "own" THEN mounts > 0 ELSE parent

-----------------------------------------------------------------------------
(* One cycle: judge, then put back or record. *)

Older == [state EXCEPT !.last = IF @ = -1 \/ @ = Longest THEN @ ELSE @ + 1]

\* library_mount_gone.  A table that cannot be read shows no mount.
LibraryMountGone ==
  /\ at = "asleep"
  /\ loaded' = config
  /\ state' = Older
  /\ LET point == LibraryMount(config) IN
     \/ /\ at' = IF point = "none" \/ IsMounted(point) THEN "reading" ELSE "gone"
        /\ NoFault
     \/ point # "none" /\ IsMounted(point) /\ at' = "gone" /\ Fault
  /\ UNCHANGED <<config, mounts, parent, server, cache, refused, excuse>>

Wait == Backoff[IF state.attempts + 1 < Len(Backoff) THEN state.attempts + 1 ELSE Len(Backoff)]
Due  == ~state.blocked /\ (state.last = -1 \/ state.last >= Wait)

\* Mutant of Counted: the count goes past the table of waits.
CountedOn == [state EXCEPT !.attempts = @ + 1, !.last = 0]

Counted == [state EXCEPT !.attempts = IF @ < Len(Backoff) THEN @ + 1 ELSE @, !.last = 0]

\* Up to the call of remount; a mount that is there is not mounted over.
AttemptRemount ==
  /\ at = "gone"
  /\ \/ ~Due /\ at' = "asleep" /\ NoFault /\ UNCHANGED <<state, excuse>>
     \/ /\ Due /\ state' = Counted
        /\ \/ /\ at' = IF IsMounted(loaded.recipe) THEN "asleep" ELSE "mounting"
              /\ NoFault /\ excuse' = FALSE
           \/ /\ IsMounted(loaded.recipe) /\ at' = "mounting"
              /\ excuse' = TRUE /\ Fault
  /\ UNCHANGED <<config, mounts, parent, server, loaded, cache, refused>>

\* mount_smbfs or mount_nfs: it works, the server rejects us, or something else fails.
RemountWorks ==
  /\ at = "mounting" /\ server = "up"
  /\ \/ /\ loaded.recipe = "own" /\ mounts < MaxMounts
        /\ mounts' = mounts + 1 /\ refused' = 0 /\ UNCHANGED parent
     \/ loaded.recipe = "parent" /\ parent' = TRUE /\ UNCHANGED <<mounts, refused>>
  /\ state' = NoState
  /\ at' = "asleep"
  /\ UNCHANGED <<config, server, loaded, cache, excuse, faults>>

RemountRejected ==
  /\ at = "mounting" /\ server = "rejects"
  /\ state' = [state EXCEPT !.blocked = TRUE]
  /\ refused' = IF IsMounted(loaded.recipe) THEN refused ELSE refused + 1
  /\ at' = "asleep"
  /\ UNCHANGED <<config, mounts, parent, server, loaded, cache, excuse, faults>>

RemountFails ==
  /\ at = "mounting"
  /\ \/ server = "down" /\ NoFault
     \/ server = "up" /\ Fault
  /\ at' = "asleep"
  /\ UNCHANGED <<config, mounts, parent, server, loaded, state, cache, refused, excuse>>

\* After the probe of the marker, which takes up to 13 s: the recipe is read from the table
\* and saved with the configuration loaded at the start of the cycle.
RecordRecipe ==
  /\ at = "reading"
  /\ at' = "asleep"
  /\ state' = NoState
  /\ LET plain    == BestMountFor(loaded.path)
         resolved == Resolve(loaded.path)
         follow   == plain = "none" /\ Remountable
         recipe   == IF follow THEN BestMountFor(resolved) ELSE plain IN
     /\ cache' = IF follow THEN Remember(loaded.path, resolved) ELSE cache
     /\ config' = IF recipe \notin {"none", loaded.recipe}
                  THEN [loaded EXCEPT !.recipe = recipe] ELSE config
  /\ UNCHANGED <<mounts, parent, server, loaded, refused, excuse, faults>>

-----------------------------------------------------------------------------
(* The world: shares, the server, the user, and the end of the watcher. *)

ShareDrops ==
  /\ Fault
  /\ \/ mounts > 0 /\ mounts' = 0 /\ UNCHANGED parent
     \/ parent /\ parent' = FALSE /\ mounts' = 0
  /\ UNCHANGED <<config, server, at, loaded, state, cache, refused, excuse>>

ParentMounted ==
  /\ ~parent /\ mounts = 0 /\ server = "up" /\ parent' = TRUE
  /\ refused' = IF config.recipe = "parent" THEN 0 ELSE refused
  /\ UNCHANGED <<config, mounts, server, at, loaded, state, cache, excuse, faults>>

\* In Finder, or by a login item.
UserMounts ==
  /\ mounts = 0 /\ server = "up" /\ mounts' = 1
  /\ refused' = 0
  /\ excuse' = (excuse \/ at = "mounting")
  /\ UNCHANGED <<config, parent, server, at, loaded, state, cache, faults>>

ServerChanges ==
  /\ \/ server # "up" /\ server' = "up" /\ NoFault
     \/ server = "up" /\ server' \in {"down", "rejects"} /\ Fault
  /\ UNCHANGED <<config, mounts, parent, at, loaded, state, cache, refused, excuse>>

\* setup and update write upload_mount anew and leave the recipe.
UserMovesLibrary ==
  /\ Fault
  /\ \E p \in Paths \ {config.path} : config' = [config EXCEPT !.path = p]
  /\ refused' = 0
  /\ UNCHANGED <<mounts, parent, server, at, loaded, state, cache, excuse>>

WatcherRestarts ==
  /\ Fault
  /\ at' = "asleep" /\ state' = NoState /\ cache' = NoCache /\ refused' = 0
  /\ UNCHANGED <<config, mounts, parent, server, loaded, excuse>>

Init ==
  /\ config \in [path : Paths, recipe : {"none", "own"}]
  /\ mounts \in {0, 1} /\ parent \in BOOLEAN /\ server = "up"
  /\ at = "asleep" /\ loaded = config
  /\ state = NoState /\ cache = NoCache
  /\ refused = 0 /\ excuse = FALSE /\ faults = MaxFaults

Loop ==
  \/ LibraryMountGone \/ AttemptRemount
  \/ RemountWorks \/ RemountRejected \/ RemountFails
  \/ RecordRecipe

Next ==
  \/ Loop
  \/ ShareDrops \/ ParentMounted \/ UserMounts \/ ServerChanges
  \/ UserMovesLibrary \/ WatcherRestarts

Spec == Init /\ [][Next]_vars

\* The loop goes on.  Shares, servers and users owe nothing.
FairSpec == Spec /\ WF_vars(Loop)

-----------------------------------------------------------------------------
(* Properties *)

\* A step that mounts over a mount: only where the table could not be read, or the user
\* mounted after it was read.
NoMountOverMount == mounts > 0 /\ mounts' > mounts => excuse

\* Since the library was mounted or moved, or the watcher began anew, the server refused us.
OneRefusal == refused <= 1

\* Attempts are repeated for ever, and do no harm: the loop never mounts over a mount, though
\* its probe may call a slow one missing and a mount takes a minute; and a password that the
\* server refuses it tries once, so no account is locked.
AttemptsAreSafe == [][NoMountOverMount /\ OneRefusal']_vars

\* A recorded mount that dropped comes back once the server lets it, however often the
\* attempts failed before, unless the server had refused us.
LibraryReturns ==
  <>[](server = "up" /\ LibraryMount(config) = "own" /\ ~state.blocked) => <>[](mounts > 0)

\* A resolution that failed is not remembered: a library reached through a link has its
\* mount recorded once the server answers again, though the mount table never changed.
LinkedIsRecorded ==
  <>[](server = "up" /\ config.path = "link" /\ mounts > 0) => <>[](config.recipe = "own")

\* In the end a library that can be had is mounted, and what is mounted is on record.
LibraryServed == LibraryReturns /\ LinkedIsRecorded

=============================================================================

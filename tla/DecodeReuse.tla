----------------------------- MODULE DecodeReuse -----------------------------
(***************************************************************************)
(* decodeOnceForReuse (hooks/heic_decode_shim.js): the second open of an     *)
(* unchanged HEIC gets the decode the first one started, once, within a      *)
(* short window.  A decode is decodeToBuffer's promise: DecodeSlots models   *)
(* what happens inside it, here it is pending, stuck for good, or settled.   *)
(*                                                                         *)
(* One action runs between two returns to the event loop: the continuations  *)
(* of a promise run in the step that settles it.  An entry of the Map is     *)
(* made for one decode, so the Map is the sequence, in insertion order, of   *)
(* the decodes it has an entry for.                                         *)
(***************************************************************************)
EXTENDS Integers, Sequences, FiniteSets, SequencesExt

CONSTANTS
  Jobs,         \* jobs of the worker that open files, one call at a time
  Paths,        \* the files they open
  Decodes,      \* identities of promises; a dropped one serves again
  ReuseMax,     \* DECODE_REUSE_MAX
  LastVersion,  \* bound: how often a file changes
  Nothing       \* no decode, no pixels

ASSUME ReuseAssumption ==
  ReuseMax \in Nat \ {0} /\ LastVersion \in Nat /\ Nothing \notin Paths \cup Decodes \cup Nat

VARIABLES
  version,        \* mtime and size of each file, of which the newer is greater
  recentDecodes,  \* the Map
  timers,         \* decodes whose entry has a running forget timer
  promise,        \* each promise: its file, its entry's key, its state, its pixels
  waits,          \* the decode each caller awaits
  asked,          \* history: version of the file at the caller's last open
  got,            \* history: version the pixels show, Nothing for the original
  claimed         \* history: decodes that were given to a second open

reuseVars == <<version, recentDecodes, timers, promise, waits, asked, got, claimed>>

Versions == 0..LastVersion
Held == Range(recentDecodes)

Dropped == [path |-> Nothing, key |-> 0, state |-> "settled", shows |-> 0]
Promise == [path : Paths, key : Versions, state : {"pending", "stuck", "settled"}, shows : Versions]

ReuseTypeOK ==
  /\ version \in [Paths -> Versions]
  /\ recentDecodes \in Seq(Decodes) /\ IsInjective(recentDecodes)
  /\ \A d, e \in Held : promise[d].path = promise[e].path => d = e
  /\ timers \subseteq Decodes
  /\ promise \in [Decodes -> Promise \cup {Dropped}]
  /\ waits \in [Jobs -> Decodes \cup {Nothing}]
  /\ asked \in [Jobs -> Versions]
  /\ got \in [Jobs -> Versions \cup {Nothing}]
  /\ claimed \subseteq Decodes

-----------------------------------------------------------------------------
\* Map.delete of the entry made for d, where it has one.
Index(d)  == CHOOSE i \in DOMAIN recentDecodes : recentDecodes[i] = d
Delete(d) == IF d \in Held THEN RemoveAt(recentDecodes, Index(d)) ELSE recentDecodes

\* A settled promise without an entry is garbage, its frame with it.
Collect(promises) ==
  /\ promise' = [d \in Decodes |-> IF promises[d].state = "settled" /\ d \notin Held'
                                  THEN Dropped ELSE promises[d]]
  /\ claimed' = {d \in claimed : promise'[d] # Dropped}

\* decodeToBuffer: promise d, for the version c has just stat'ed.
Begin(c, p, d) ==
  /\ promise[d] = Dropped
  /\ Collect([promise EXCEPT ![d] =
       [path |-> p, key |-> version[p], state |-> "pending", shows |-> version[p]]])
  /\ waits' = [waits EXCEPT ![c] = d]
  /\ asked' = [asked EXCEPT ![c] = version[p]]
  /\ got' = [got EXCEPT ![c] = Nothing]
  /\ UNCHANGED version

\* A RAW, or a file that cannot be stat'ed: a decode for this open alone.
OpenAlone(c) ==
  /\ waits[c] = Nothing
  /\ UNCHANGED <<recentDecodes, timers>>
  /\ \E p \in Paths, d \in Decodes : Begin(c, p, d)

\* Mutant of Remember: the evicted entry's timer is not cleared.
RememberTimed(d) ==
  /\ recentDecodes' = Append(IF Len(recentDecodes) >= ReuseMax
                             THEN Tail(recentDecodes) ELSE recentDecodes, d)
  /\ timers' = timers

\* A new entry goes in last; at the limit the oldest goes, with its timer.
Remember(d) ==
  IF Len(recentDecodes) >= ReuseMax
  THEN /\ recentDecodes' = Append(Tail(recentDecodes), d)
       /\ timers' = timers \ {Head(recentDecodes)}
  ELSE recentDecodes' = Append(recentDecodes, d) /\ timers' = timers

\* No decode of the file is known.
OpenFirst(c) ==
  /\ waits[c] = Nothing
  /\ \E p \in Paths, d \in Decodes :
       /\ \A e \in Held : promise[e].path # p
       /\ Remember(d)
       /\ Begin(c, p, d)

\* Mutants of Matches and TakeOut: a change of the file goes unnoticed; the
\* entry stays for the next open.
MatchesPath(hit) == TRUE
LeaveIn(hit, next) == recentDecodes' = recentDecodes \o next /\ timers' = timers

Matches(hit) == promise[hit].key = version[promise[hit].path]

\* The hit leaves the Map, whatever becomes of it, and the new entry goes in.
TakeOut(hit, next) ==
  /\ recentDecodes' = Delete(hit) \o next
  /\ timers' = timers \ {hit}

\* The file is unchanged: this open shares the promise, pending or settled.
OpenAgain(c) ==
  /\ waits[c] = Nothing
  /\ \E hit \in Held :
       /\ Matches(hit)
       /\ TakeOut(hit, <<>>)
       /\ asked' = [asked EXCEPT ![c] = version[promise[hit].path]]
       /\ IF promise[hit].state = "settled"
          THEN waits' = waits /\ got' = [got EXCEPT ![c] = promise[hit].shows]
          ELSE waits' = [waits EXCEPT ![c] = hit] /\ got' = [got EXCEPT ![c] = Nothing]
       /\ promise' = [promise EXCEPT ![hit] = IF @.state = "settled" THEN Dropped ELSE @]
       /\ claimed' = IF promise'[hit] = Dropped THEN claimed \ {hit} ELSE claimed \cup {hit}
  /\ UNCHANGED version

\* The file changed: a decode and an entry of its own replace the hit.
OpenChanged(c) ==
  /\ waits[c] = Nothing
  /\ \E hit \in Held, d \in Decodes :
       /\ ~Matches(hit)
       /\ TakeOut(hit, <<d>>)
       /\ Begin(c, promise[hit].path, d)

-----------------------------------------------------------------------------
(* The decode, and what its entry's callbacks do.                           *)

\* Mutants of Forget: nothing is let go; the entry is looked up by path alone.
ForgetNothing(d) == recentDecodes' = recentDecodes
ForgetPath(d) ==
  recentDecodes' = SelectSeq(recentDecodes, LAMBDA e : promise[e].path # promise[d].path)

\* Only the entry made for d; the file may have another by now.
Forget(d) == recentDecodes' = Delete(d)

Answer(d, pixels) ==
  /\ waits' = [c \in Jobs |-> IF waits[c] = d THEN Nothing ELSE waits[c]]
  /\ got' = [c \in Jobs |-> IF waits[c] = d THEN pixels ELSE got[c]]

InFlight(d) == promise[d].state \in {"pending", "stuck"}

\* The frame shows the file as it was at some moment of the decode, and a
\* frame that still has its entry gets the timer.
DecodeWorks(d) ==
  /\ InFlight(d)
  /\ \E v \in promise[d].key..version[promise[d].path] :
       /\ Answer(d, v)
       /\ recentDecodes' = recentDecodes
       /\ Collect([promise EXCEPT ![d].state = "settled", ![d].shows = v])
  /\ timers' = IF d \in Held THEN timers \cup {d} ELSE timers
  /\ UNCHANGED <<version, asked>>

\* null: nothing is kept.
DecodeFails(d) ==
  /\ InFlight(d)
  /\ Answer(d, Nothing)
  /\ Forget(d)
  /\ Collect([promise EXCEPT ![d].state = "settled"])
  /\ UNCHANGED <<version, timers, asked>>

\* Its decoder hangs in the kernel (DecodeSlots): the promise may never settle.
DecodeHangs(d) ==
  /\ promise[d].state = "pending"
  /\ promise' = [promise EXCEPT ![d].state = "stuck"]
  /\ UNCHANGED <<version, recentDecodes, timers, waits, asked, got, claimed>>

TimerFires(d) ==
  /\ d \in timers
  /\ timers' = timers \ {d}
  /\ Forget(d)
  /\ Collect(promise)
  /\ UNCHANGED <<version, waits, asked, got>>

FileChanges(p) ==
  /\ version[p] < LastVersion
  /\ version' = [version EXCEPT ![p] = @ + 1]
  /\ UNCHANGED <<recentDecodes, timers, promise, waits, asked, got, claimed>>

ReuseInit ==
  /\ version = [p \in Paths |-> 0]
  /\ recentDecodes = <<>> /\ timers = {} /\ claimed = {}
  /\ promise = [d \in Decodes |-> Dropped]
  /\ waits = [c \in Jobs |-> Nothing]
  /\ asked = [c \in Jobs |-> 0]
  /\ got = [c \in Jobs |-> Nothing]

Open(c) == OpenAlone(c) \/ OpenFirst(c) \/ OpenAgain(c) \/ OpenChanged(c)
Settle(d) == DecodeWorks(d) \/ DecodeFails(d)

ReuseNext ==
  \/ \E c \in Jobs : Open(c)
  \/ \E d \in Decodes : Settle(d) \/ DecodeHangs(d) \/ TimerFires(d)
  \/ \E p \in Paths : FileChanges(p)

ReuseSpec == ReuseInit /\ [][ReuseNext]_reuseVars

\* Timers fire, and a decode that is not stuck ends (DecodeSlots' CallsAnswered).
FairReuseSpec ==
  /\ ReuseSpec
  /\ \A d \in Decodes :
       WF_reuseVars(TimerFires(d)) /\ WF_reuseVars(promise[d].state = "pending" /\ Settle(d))

-----------------------------------------------------------------------------
(* Properties.                                                              *)

\* At most DECODE_REUSE_MAX frames are kept alive, and each of them by a timer
\* of its own entry: a decode that failed or a removed entry holds none.
FramesAreTimed ==
  /\ Len(recentDecodes) <= ReuseMax
  /\ timers = {d \in Decodes : promise[d] # Dropped /\ promise[d].state = "settled"}

\* A file's pixels are never older than the file its caller saw at the open,
\* reused or not.
PixelsAreCurrent ==
  \A c \in Jobs : got[c] # Nothing => got[c] >= asked[c]

\* A decode is given away once: after that it has no entry to be found by.
ReusedOnce == claimed \cap Held = {}

\* Every frame of 100 MB and more that is kept is one of few, has its timer, and nobody has
\* been given it yet.
FramesAccounted == FramesAreTimed /\ ReusedOnce

\* An entry goes only when its file is opened again, as the oldest of a full
\* Map, when its own decode fails, or by its own timer.  The late callbacks of
\* a replaced or evicted entry never take the one that came after.
OnlyItsOwnEventsForget ==
  [][\A d \in Held \ Range(recentDecodes') :
       \/ \E c \in Jobs : OpenAgain(c) \/ OpenChanged(c)
       \/ d = Head(recentDecodes) /\ Len(recentDecodes) = ReuseMax
            /\ Len(recentDecodes') = ReuseMax
       \/ DecodeFails(d) /\ promise'[d] = Dropped
       \/ d \in timers \ timers']_reuseVars

\* Once no more files are opened, no frame is kept, and whoever waits, waits
\* for a decode that is stuck.
FramesForgotten ==
  <>[][\A c \in Jobs : ~Open(c)]_reuseVars
    => <>[]/\ \A d \in Held : promise[d].state = "stuck"
           /\ \A c \in Jobs : waits[c] # Nothing => promise[waits[c]].state = "stuck"

=============================================================================

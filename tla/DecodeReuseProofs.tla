-------------------------- MODULE DecodeReuseProofs --------------------------
(***************************************************************************)
(* Theorems about DecodeReuse, for every number of jobs, files, promises   *)
(* and entries.                                                            *)
(*                                                                         *)
(* That a frame which is kept has its timer, and that pixels are not older *)
(* than the open that asked for them, hold because of what the entry, the  *)
(* promise and the callers that await it have in common at every moment:   *)
(* ReuseInv says what that is.                                             *)
(***************************************************************************)
EXTENDS HeicShim, DecodeSlotsProofs

\* The Map, the timers, and the promises that somebody can still reach.
Entries ==
  /\ Len(recentDecodes) <= ReuseMax
  /\ \A d \in Held : promise[d] # Dropped
  /\ \A d \in Decodes \ Held : promise[d].state = "settled" => promise[d] = Dropped
  /\ timers = {d \in Held : promise[d].state = "settled"}
  /\ \A d \in claimed : d \notin Held /\ promise[d] # Dropped

\* A promise is not older than its key says, and whoever awaits it asked before that.
Awaited ==
  /\ \A d \in Decodes : promise[d] # Dropped =>
       promise[d].key <= version[promise[d].path] /\ promise[d].key <= promise[d].shows
  /\ \A c \in Jobs : waits[c] # Nothing =>
       InFlight(waits[c]) /\ asked[c] <= promise[waits[c]].key

ReuseInv == ReuseTypeOK /\ Entries /\ Awaited /\ PixelsAreCurrent

-----------------------------------------------------------------------------
(* The Map as a sequence without repetitions. *)

\* What a Map without an entry still has.
LEMMA Deleted ==
  ASSUME NEW d, recentDecodes \in Seq(Decodes), IsInjective(recentDecodes)
  PROVE  /\ Delete(d) \in Seq(Decodes) /\ IsInjective(Delete(d))
         /\ Range(Delete(d)) = Held \ {d}
         /\ Len(Delete(d)) = IF d \in Held THEN Len(recentDecodes) - 1 ELSE Len(recentDecodes)
<1> DEFINE s == recentDecodes
           n == Len(s)
<1>1. s \in Seq(Decodes) /\ n \in Nat /\ DOMAIN s = 1..n
      /\ \A a, b \in 1..n : s[a] = s[b] => a = b
  BY DEF IsInjective
<1>2. CASE d \notin Held
  <2>1. Delete(d) = recentDecodes /\ Held \ {d} = Held
    BY <1>2 DEF Delete
  <2> QED BY <1>2, <2>1 DEF Held
<1>3. CASE d \in Held
  <2> DEFINE i == Index(d)
             r == Delete(d)
  <2>1. i \in 1..n /\ s[i] = d
    BY <1>3 DEF Index, Held, Range
  <2>2. r = RemoveAt(s, i)
    BY <1>3 DEF Delete
  <2> HIDE DEF i, r, s
  <2>3. /\ r \in Seq(Decodes) /\ Len(r) = n - 1 /\ DOMAIN r = 1..(n - 1)
        /\ \A k \in 1..(n - 1) : r[k] = s[IF k < i THEN k ELSE k + 1]
    <3>1. /\ r \in Seq(Decodes) /\ Len(r) = n - 1
          /\ \A k \in 1..(n - 1) : r[k] = s[IF k < i THEN k ELSE k + 1]
      BY <1>1, <2>1, <2>2, Removed
    <3> QED BY <1>1, <3>1
  <2>4. IsInjective(r)
    <3> SUFFICES ASSUME NEW a \in 1..(n - 1), NEW b \in 1..(n - 1), r[a] = r[b] PROVE a = b
      BY <2>3 DEF IsInjective
    <3> DEFINE x == IF a < i THEN a ELSE a + 1
               y == IF b < i THEN b ELSE b + 1
    <3>1. x \in 1..n /\ y \in 1..n /\ s[x] = s[y]
      BY <1>1, <2>1, <2>3
    <3>2. x = y
      BY <1>1, <3>1
    <3> QED BY <2>1, <3>2
  <2>5. Range(r) \subseteq Range(s) \ {d}
    <3> SUFFICES ASSUME NEW k \in 1..(n - 1) PROVE r[k] \in Range(s) /\ r[k] # d
      BY <2>3 DEF Range
    <3> DEFINE x == IF k < i THEN k ELSE k + 1
    <3>1. x \in 1..n /\ x # i /\ r[k] = s[x]
      BY <1>1, <2>1, <2>3
    <3> HIDE DEF x
    <3>2. s[x] # s[i]
      BY <1>1, <2>1, <3>1
    <3> QED BY <1>1, <2>1, <3>1, <3>2 DEF Range
  <2>6. Range(s) \ {d} \subseteq Range(r)
    <3> SUFFICES ASSUME NEW x \in 1..n, s[x] # d PROVE s[x] \in Range(r)
      BY <1>1 DEF Range
    <3> DEFINE k == IF x < i THEN x ELSE x - 1
    <3>1. k \in 1..(n - 1) /\ r[k] = s[x]
      BY <1>1, <2>1, <2>3
    <3> QED BY <2>3, <3>1 DEF Range
  <2> QED BY <1>3, <2>3, <2>4, <2>5, <2>6 DEF r, s, Held
<1> QED BY <1>2, <1>3

\* An entry more.
LEMMA Appended ==
  ASSUME NEW s \in Seq(Decodes), IsInjective(s), NEW d \in Decodes, d \notin Range(s)
  PROVE  /\ Append(s, d) \in Seq(Decodes) /\ IsInjective(Append(s, d))
         /\ Range(Append(s, d)) = Range(s) \cup {d}
         /\ Len(Append(s, d)) = Len(s) + 1
<1>1. \A i \in 1..Len(s) : s[i] # d
  BY DEF Range
<1>2. /\ Append(s, d) \in Seq(Decodes) /\ Len(Append(s, d)) = Len(s) + 1
      /\ \A i \in 1..Len(s) : Append(s, d)[i] = s[i]
      /\ Append(s, d)[Len(s) + 1] = d
      /\ DOMAIN s = 1..Len(s) /\ DOMAIN Append(s, d) = 1..(Len(s) + 1)
  BY AppendProperties
<1>3. IsInjective(Append(s, d))
  BY <1>1, <1>2 DEF IsInjective
<1>4. Range(Append(s, d)) = Range(s) \cup {d}
  <2>1. 1..(Len(s) + 1) = (1..Len(s)) \cup {Len(s) + 1}
    OBVIOUS
  <2> QED BY <1>2, <2>1 DEF Range
<1> QED BY <1>2, <1>3, <1>4

\* The oldest entry less.
LEMMA Evicted ==
  ASSUME NEW s \in Seq(Decodes), IsInjective(s), s # <<>>
  PROVE  /\ Tail(s) \in Seq(Decodes) /\ IsInjective(Tail(s))
         /\ Range(Tail(s)) = Range(s) \ {Head(s)} /\ Head(s) \in Range(s)
         /\ Len(Tail(s)) = Len(s) - 1
<1>1. /\ Tail(s) \in Seq(Decodes) /\ Len(Tail(s)) = Len(s) - 1
      /\ \A i \in 1..(Len(s) - 1) : Tail(s)[i] = s[i + 1]
      /\ Head(s) = s[1] /\ Len(s) \in Nat \ {0}
      /\ DOMAIN s = 1..Len(s) /\ DOMAIN Tail(s) = 1..(Len(s) - 1)
  BY HeadTailProperties
<1>2. \A a, b \in 1..Len(s) : s[a] = s[b] => a = b
  BY <1>1 DEF IsInjective
<1>3. IsInjective(Tail(s))
  BY <1>1, <1>2 DEF IsInjective
<1>4. Range(Tail(s)) \subseteq Range(s) \ {Head(s)}
  <2> SUFFICES ASSUME NEW i \in 1..(Len(s) - 1) PROVE Tail(s)[i] \in Range(s) \ {Head(s)}
    BY <1>1 DEF Range
  <2>1. i + 1 \in 1..Len(s) /\ i + 1 # 1 /\ 1 \in 1..Len(s)
    BY <1>1
  <2> QED BY <1>1, <1>2, <2>1 DEF Range
<1>5. Range(s) \ {Head(s)} \subseteq Range(Tail(s))
  <2> SUFFICES ASSUME NEW i \in 1..Len(s), i # 1 PROVE s[i] \in Range(Tail(s))
    BY <1>1 DEF Range
  <2>1. i - 1 \in 1..(Len(s) - 1) /\ Tail(s)[i - 1] = s[i]
    BY <1>1
  <2> QED BY <1>1, <2>1 DEF Range
<1>6. Head(s) \in Range(s)
  BY <1>1 DEF Range
<1> QED BY <1>1, <1>3, <1>4, <1>5, <1>6

-----------------------------------------------------------------------------
(* The steps. *)

\* What a step may use.
LEMMA Known ==
  ASSUME ReuseInv
  PROVE  /\ recentDecodes \in Seq(Decodes) /\ IsInjective(recentDecodes) /\ Held \subseteq Decodes
         /\ Len(recentDecodes) \in Nat /\ ReuseMax \in Nat \ {0}
         /\ version \in [Paths -> Versions] /\ Versions \subseteq Nat
         /\ promise \in [Decodes -> Promise \cup {Dropped}]
         /\ \A d \in Decodes : promise[d] # Dropped => promise[d] \in Promise
         /\ \A d \in Decodes : promise[d] \in Promise => promise[d] # Dropped
         /\ \A d \in Decodes : InFlight(d) => promise[d] # Dropped
         /\ Nothing \notin Decodes /\ Nothing \notin Versions
<1>1. \A d \in Decodes : promise[d] \in Promise => promise[d].path \in Paths
  BY DEF Promise
<1>2. Dropped.path = Nothing /\ Dropped.state = "settled"
  BY DEF Dropped
<1>3. Held \subseteq Decodes
  BY RangeOfSeq DEF ReuseInv, ReuseTypeOK, Held
<1> QED BY <1>1, <1>2, <1>3, ReuseAssumption DEF ReuseInv, ReuseTypeOK, Versions, InFlight

\* A promise that settled and has no entry is forgotten, and no other.
LEMMA WhatIsCollected ==
  ASSUME NEW promises \in [Decodes -> Promise \cup {Dropped}], Collect(promises)
  PROVE  /\ promise' \in [Decodes -> Promise \cup {Dropped}]
         /\ \A d \in Decodes : promise'[d] = IF promises[d].state = "settled" /\ d \notin Held'
                                            THEN Dropped ELSE promises[d]
         /\ \A d \in claimed' : d \in claimed /\ promise'[d] # Dropped
BY DEF Collect

\* A new promise, with or without an entry of its own.
LEMMA BeginKeeps ==
  ASSUME ReuseInv, NEW c \in Jobs, NEW p \in Paths, NEW d \in Decodes,
         waits[c] = Nothing, Begin(c, p, d),
         recentDecodes' \in Seq(Decodes), IsInjective(recentDecodes'), Len(recentDecodes') <= ReuseMax,
         Held' \subseteq Held \cup {d},
         d \in Held' => \A e \in Held' \ {d} : promise[e].path # p,
         timers' = timers \cap Held'
  PROVE  ReuseInv'
<1> DEFINE rec == [path |-> p, key |-> version[p], state |-> "pending", shows |-> version[p]]
           promises == [promise EXCEPT ![d] = rec]
<1>1. rec \in Promise /\ rec # Dropped /\ rec.state = "pending" /\ rec.path = p
      /\ rec.key = version[p] /\ rec.shows = version[p]
  BY Known DEF Promise, Dropped
<1> HIDE DEF rec
<1>2. promises \in [Decodes -> Promise \cup {Dropped}]
  BY <1>1, Known
<1>3. Collect(promises) /\ promise[d] = Dropped
  BY DEF Begin, rec
<1>4. /\ promise' \in [Decodes -> Promise \cup {Dropped}]
      /\ promise'[d] = rec
      /\ \A e \in Decodes \ {d} : promise'[e] = IF promise[e].state = "settled" /\ e \notin Held'
                                               THEN Dropped ELSE promise[e]
      /\ \A e \in claimed' : e \in claimed /\ promise'[e] # Dropped
  BY <1>1, <1>2, <1>3, WhatIsCollected, Known
<1>5. /\ waits' = [waits EXCEPT ![c] = d] /\ asked' = [asked EXCEPT ![c] = version[p]]
      /\ got' = [got EXCEPT ![c] = Nothing] /\ version' = version
  BY DEF Begin
<1>6. d \notin Held /\ d \notin claimed /\ d \notin timers
  BY <1>3 DEF ReuseInv, Entries
<1>7. ReuseTypeOK'
  <2>1. Held' \subseteq Decodes
    BY Known
  <2>2. \A e, f \in Held' : promise'[e].path = promise'[f].path => e = f
    <3> SUFFICES ASSUME NEW e \in Held', NEW f \in Held', promise'[e].path = promise'[f].path PROVE e = f
      OBVIOUS
    <3>1. \A g \in Held' \ {d} : promise'[g] = promise[g] /\ g \in Held
      BY <1>4, <2>1
    <3> QED BY <1>1, <1>4, <3>1 DEF ReuseInv, ReuseTypeOK
  <2>3. /\ version' \in [Paths -> Versions] /\ timers' \subseteq Decodes /\ claimed' \subseteq Decodes
        /\ waits' \in [Jobs -> Decodes \cup {Nothing}] /\ asked' \in [Jobs -> Versions]
        /\ got' \in [Jobs -> Versions \cup {Nothing}]
    BY <1>4, <1>5, Known DEF ReuseInv, ReuseTypeOK
  <2> QED BY <1>4, <2>2, <2>3 DEF ReuseTypeOK
<1>8. Entries'
  <2>1. Held' \subseteq Decodes
    BY Known
  <2>2. \A e \in Held' : promise'[e] # Dropped
    BY <1>1, <1>4, <2>1 DEF ReuseInv, Entries
  <2>3. \A e \in Decodes \ Held' : promise'[e].state = "settled" => promise'[e] = Dropped
    BY <1>1, <1>4
  <2>4. timers' = {e \in Held' : promise'[e].state = "settled"}
    BY <1>1, <1>4, <1>6, <2>1 DEF ReuseInv, Entries
  <2>5. \A e \in claimed' : e \notin Held' /\ promise'[e] # Dropped
    BY <1>4, <1>6 DEF ReuseInv, Entries
  <2> QED BY <2>2, <2>3, <2>4, <2>5 DEF Entries
<1>9. Awaited'
  <2>1. ASSUME NEW e \in Decodes, promise'[e] # Dropped
        PROVE  promise'[e].key <= version'[promise'[e].path] /\ promise'[e].key <= promise'[e].shows
    <3>1. version[p] \in Nat
      BY Known
    <3>2. CASE e = d
      BY <1>1, <1>4, <1>5, <3>1, <3>2
    <3>3. CASE e # d
      BY <1>4, <1>5, <2>1, <3>3 DEF ReuseInv, Awaited
    <3> QED BY <3>2, <3>3
  <2>2. ASSUME NEW o \in Jobs, waits'[o] # Nothing
        PROVE  InFlight(waits[o])' /\ asked'[o] <= promise'[waits'[o]].key
    <3>1. version[p] \in Nat /\ waits \in [Jobs -> Decodes \cup {Nothing}] /\ asked \in [Jobs -> Versions]
      BY Known DEF ReuseInv, ReuseTypeOK
    <3>2. CASE o = c
      BY <1>1, <1>4, <1>5, <3>1, <3>2 DEF InFlight
    <3>3. CASE o # c
      <4>1. waits'[o] = waits[o] /\ asked'[o] = asked[o] /\ waits[o] \in Decodes /\ InFlight(waits[o])
        BY <1>5, <2>2, <3>1, <3>3 DEF ReuseInv, Awaited
      <4>2. waits[o] # d
        BY <1>3, <4>1 DEF InFlight, Dropped
      <4>3. promise'[waits[o]] = promise[waits[o]]
        BY <1>4, <4>1, <4>2 DEF InFlight
      <4> QED BY <2>2, <4>1, <4>3 DEF ReuseInv, Awaited, InFlight
    <3> QED BY <3>2, <3>3
  <2> QED BY <2>1, <2>2 DEF Awaited
<1>10. PixelsAreCurrent'
  BY <1>5 DEF ReuseInv, ReuseTypeOK, PixelsAreCurrent
<1> QED BY <1>7, <1>8, <1>9, <1>10 DEF ReuseInv

\* An open that starts a decode of its own keeps the invariant, whether it replaces an entry or
\* evicts one.
LEMMA OpenKeeps ==
  ASSUME ReuseInv, NEW c \in Jobs, OpenAlone(c) \/ OpenFirst(c) \/ OpenChanged(c)
  PROVE  ReuseInv'
<1>1. CASE OpenAlone(c)
  <2>1. PICK p \in Paths, d \in Decodes : Begin(c, p, d)
    BY <1>1 DEF OpenAlone
  <2>2. recentDecodes' = recentDecodes /\ timers' = timers /\ Held' = Held
    BY <1>1 DEF OpenAlone, Held
  <2>3. d \notin Held /\ timers \subseteq Held
    BY <2>1 DEF Begin, ReuseInv, Entries
  <2>4. Len(recentDecodes) <= ReuseMax
    BY DEF ReuseInv, Entries
  <2> QED BY <1>1, <2>1, <2>2, <2>3, <2>4, BeginKeeps, Known DEF OpenAlone
<1>2. CASE OpenFirst(c)
  <2>1. PICK p \in Paths, d \in Decodes :
          Begin(c, p, d) /\ Remember(d) /\ \A e \in Held : promise[e].path # p
    BY <1>2 DEF OpenFirst
  <2>2. d \notin Held /\ timers \subseteq Held /\ Len(recentDecodes) <= ReuseMax
    BY <2>1 DEF Begin, ReuseInv, Entries
  <2>3. /\ recentDecodes' \in Seq(Decodes) /\ IsInjective(recentDecodes') /\ Len(recentDecodes') <= ReuseMax
        /\ Held' \subseteq Held \cup {d} /\ timers' = timers \cap Held'
    <3>1. CASE Len(recentDecodes) >= ReuseMax
      <4>1. recentDecodes' = Append(Tail(recentDecodes), d) /\ timers' = timers \ {Head(recentDecodes)}
        BY <2>1, <3>1 DEF Remember
      <4>2. recentDecodes # <<>>
        BY <3>1, Known
      <4>3. /\ Tail(recentDecodes) \in Seq(Decodes) /\ IsInjective(Tail(recentDecodes))
            /\ Range(Tail(recentDecodes)) = Held \ {Head(recentDecodes)}
            /\ Len(Tail(recentDecodes)) = Len(recentDecodes) - 1
        BY <4>2, Evicted, Known DEF Held
      <4>4. /\ recentDecodes' \in Seq(Decodes) /\ IsInjective(recentDecodes')
            /\ Held' = (Held \ {Head(recentDecodes)}) \cup {d}
            /\ Len(recentDecodes') = Len(Tail(recentDecodes)) + 1
        BY <2>2, <4>1, <4>3, Appended DEF Held
      <4> QED BY <2>2, <4>1, <4>3, <4>4, Known
    <3>2. CASE ~(Len(recentDecodes) >= ReuseMax)
      <4>1. recentDecodes' = Append(recentDecodes, d) /\ timers' = timers
        BY <2>1, <3>2 DEF Remember
      <4>2. /\ recentDecodes' \in Seq(Decodes) /\ IsInjective(recentDecodes')
            /\ Held' = Held \cup {d} /\ Len(recentDecodes') = Len(recentDecodes) + 1
        BY <2>2, <4>1, Appended, Known DEF Held
      <4> QED BY <2>2, <3>2, <4>1, <4>2, Known
    <3> QED BY <3>1, <3>2
  <2> QED BY <1>2, <2>1, <2>3, BeginKeeps DEF OpenFirst
<1>3. CASE OpenChanged(c)
  <2>1. PICK hit \in Held, d \in Decodes : TakeOut(hit, <<d>>) /\ Begin(c, promise[hit].path, d)
    BY <1>3 DEF OpenChanged
  <2>2. d \notin Held /\ timers \subseteq Held /\ Len(recentDecodes) <= ReuseMax
    BY <2>1 DEF Begin, ReuseInv, Entries
  <2>3. promise[hit] # Dropped /\ promise[hit] \in Promise
    BY Known DEF ReuseInv, Entries
  <2>4. /\ Delete(hit) \in Seq(Decodes) /\ IsInjective(Delete(hit))
        /\ Range(Delete(hit)) = Held \ {hit} /\ Len(Delete(hit)) = Len(recentDecodes) - 1
    BY Deleted, Known
  <2>5. recentDecodes' = Append(Delete(hit), d) /\ timers' = timers \ {hit}
    BY <2>1, <2>4, AppendIsConcat DEF TakeOut
  <2>6. /\ recentDecodes' \in Seq(Decodes) /\ IsInjective(recentDecodes')
        /\ Held' = (Held \ {hit}) \cup {d} /\ Len(recentDecodes') = Len(Delete(hit)) + 1
    BY <2>2, <2>4, <2>5, Appended DEF Held
  <2>7. \A e \in Held' \ {d} : promise[e].path # promise[hit].path
    BY <2>6 DEF ReuseInv, ReuseTypeOK
  <2>8. promise[hit].path \in Paths /\ waits[c] = Nothing
    BY <1>3, <2>3 DEF Promise, OpenChanged
  <2>9. Len(recentDecodes') <= ReuseMax /\ timers' = timers \cap Held'
    BY <2>2, <2>4, <2>5, <2>6, Known
  <2> QED BY <2>1, <2>6, <2>7, <2>8, <2>9, BeginKeeps
<1> QED BY <1>1, <1>2, <1>3

\* So does an open that finds the entry of its path, and moves it to the end of the Map.
LEMMA OpenAgainKeeps ==
  ASSUME ReuseInv, NEW c \in Jobs, OpenAgain(c)
  PROVE  ReuseInv'
<1>1. PICK hit \in Held :
        /\ Matches(hit) /\ TakeOut(hit, <<>>)
        /\ asked' = [asked EXCEPT ![c] = version[promise[hit].path]]
        /\ IF promise[hit].state = "settled"
           THEN waits' = waits /\ got' = [got EXCEPT ![c] = promise[hit].shows]
           ELSE waits' = [waits EXCEPT ![c] = hit] /\ got' = [got EXCEPT ![c] = Nothing]
        /\ promise' = [promise EXCEPT ![hit] = IF @.state = "settled" THEN Dropped ELSE @]
        /\ claimed' = IF promise'[hit] = Dropped THEN claimed \ {hit} ELSE claimed \cup {hit}
  BY DEF OpenAgain
<1>2. waits[c] = Nothing /\ version' = version
  BY DEF OpenAgain
<1>3. /\ hit \in Decodes /\ promise[hit] # Dropped /\ promise[hit] \in Promise
      /\ promise[hit].key = version[promise[hit].path] /\ promise[hit].path \in Paths
      /\ promise[hit].key <= promise[hit].shows /\ promise[hit].key \in Versions /\ promise[hit].shows \in Versions
      /\ promise[hit].state \in {"pending", "stuck", "settled"}
  <2>1. hit \in Decodes /\ promise[hit] # Dropped /\ promise[hit] \in Promise
    BY Known DEF ReuseInv, Entries
  <2> QED BY <1>1, <2>1 DEF ReuseInv, Awaited, Matches, Promise
<1>4. /\ recentDecodes' \in Seq(Decodes) /\ IsInjective(recentDecodes')
      /\ Held' = Held \ {hit} /\ Len(recentDecodes') = Len(recentDecodes) - 1
      /\ timers' = timers \ {hit}
  <2>1. /\ Delete(hit) \in Seq(Decodes) /\ IsInjective(Delete(hit))
        /\ Range(Delete(hit)) = Held \ {hit} /\ Len(Delete(hit)) = Len(recentDecodes) - 1
    BY Deleted, Known
  <2>2. recentDecodes' = Delete(hit) /\ timers' = timers \ {hit}
    BY <1>1, <2>1, ConcatEmptySeq DEF TakeOut
  <2> QED BY <2>1, <2>2 DEF Held
<1>5. /\ promise' \in [Decodes -> Promise \cup {Dropped}]
      /\ \A e \in Decodes \ {hit} : promise'[e] = promise[e]
      /\ promise'[hit] = IF promise[hit].state = "settled" THEN Dropped ELSE promise[hit]
  BY <1>1, <1>3, Known
<1>6. ReuseTypeOK'
  <2>1. \A e, f \in Held' : promise'[e].path = promise'[f].path => e = f
    BY <1>4, <1>5, Known DEF ReuseInv, ReuseTypeOK
  <2>2. timers' \subseteq Decodes /\ claimed' \subseteq Decodes /\ version' \in [Paths -> Versions]
    BY <1>1, <1>2, <1>3, <1>4 DEF ReuseInv, ReuseTypeOK
  <2>3. /\ waits' \in [Jobs -> Decodes \cup {Nothing}] /\ asked' \in [Jobs -> Versions]
        /\ got' \in [Jobs -> Versions \cup {Nothing}]
    BY <1>1, <1>3, Known DEF ReuseInv, ReuseTypeOK
  <2> QED BY <1>4, <1>5, <2>1, <2>2, <2>3 DEF ReuseTypeOK
<1>7. Entries'
  <2>1. Len(recentDecodes') <= ReuseMax
    BY <1>4, Known DEF ReuseInv, Entries
  <2>2. \A e \in Held' : promise'[e] # Dropped
    BY <1>4, <1>5, Known DEF ReuseInv, Entries
  <2>3. \A e \in Decodes \ Held' : promise'[e].state = "settled" => promise'[e] = Dropped
    BY <1>4, <1>5 DEF ReuseInv, Entries
  <2>4. timers' = {e \in Held' : promise'[e].state = "settled"}
    BY <1>4, <1>5, Known DEF ReuseInv, Entries
  <2>5. \A e \in claimed' : e \notin Held' /\ promise'[e] # Dropped
    BY <1>1, <1>3, <1>4, <1>5 DEF ReuseInv, Entries, ReuseTypeOK
  <2> QED BY <2>1, <2>2, <2>3, <2>4, <2>5 DEF Entries
<1>8. Awaited'
  <2>1. \A e \in Decodes : promise'[e] # Dropped =>
          promise'[e].key <= version'[promise'[e].path] /\ promise'[e].key <= promise'[e].shows
    BY <1>2, <1>5 DEF ReuseInv, Awaited
  <2>2. ASSUME NEW o \in Jobs, waits'[o] # Nothing
        PROVE  InFlight(waits[o])' /\ asked'[o] <= promise'[waits'[o]].key
    <3>1. /\ waits \in [Jobs -> Decodes \cup {Nothing}] /\ asked \in [Jobs -> Versions]
          /\ version[promise[hit].path] \in Nat
      BY <1>3, Known DEF ReuseInv, ReuseTypeOK
    <3>2. CASE o = c
      <4>1. promise[hit].state # "settled" /\ waits'[o] = hit
        BY <1>1, <1>2, <2>2, <3>1, <3>2
      <4>2. asked'[o] = promise[hit].key /\ promise'[hit] = promise[hit]
        BY <1>1, <1>3, <1>5, <3>1, <3>2, <4>1
      <4> QED BY <1>3, <3>1, <4>1, <4>2 DEF InFlight
    <3>3. CASE o # c
      <4>1. waits'[o] = waits[o] /\ asked'[o] = asked[o] /\ waits[o] \in Decodes /\ InFlight(waits[o])
            /\ asked[o] <= promise[waits[o]].key
        BY <1>1, <2>2, <3>1, <3>3 DEF ReuseInv, Awaited
      <4>2. promise'[waits[o]] = promise[waits[o]]
        BY <1>5, <4>1 DEF InFlight
      <4> QED BY <4>1, <4>2 DEF InFlight
    <3> QED BY <3>2, <3>3
  <2> QED BY <2>1, <2>2 DEF Awaited
<1>9. PixelsAreCurrent'
  <2> SUFFICES ASSUME NEW o \in Jobs, got'[o] # Nothing PROVE got'[o] >= asked'[o]
    BY DEF PixelsAreCurrent
  <2>1. asked \in [Jobs -> Versions] /\ got \in [Jobs -> Versions \cup {Nothing}] /\ Versions \subseteq Nat
    BY Known DEF ReuseInv, ReuseTypeOK
  <2>2. CASE o = c
    <3>1. got'[o] = promise[hit].shows /\ asked'[o] = promise[hit].key
      BY <1>1, <1>3, <2>1, <2>2
    <3> QED BY <1>3, <2>1, <3>1
  <2>3. CASE o # c
    BY <1>1, <2>1, <2>3 DEF ReuseInv, PixelsAreCurrent
  <2> QED BY <2>2, <2>3
<1> QED BY <1>6, <1>7, <1>8, <1>9 DEF ReuseInv

\* A promise that is settled, just now or before, and its callers.
LEMMA SettledKeeps ==
  ASSUME ReuseInv, NEW d \in Decodes, promise[d] \in Promise,
         NEW promises \in [Decodes -> Promise \cup {Dropped}], Collect(promises),
         \A e \in Decodes \ {d} : promises[e] = promise[e],
         promises[d] \in Promise, promises[d].state = "settled", promises[d].path = promise[d].path,
         promises[d].key = promise[d].key, promises[d].key <= promises[d].shows,
         recentDecodes' \in Seq(Decodes), IsInjective(recentDecodes'), Len(recentDecodes') <= ReuseMax,
         Held' \in {Held, Held \ {d}}, timers' = (timers \ {d}) \cup (Held' \cap {d}),
         UNCHANGED <<version, asked>>,
         waits' = [c \in Jobs |-> IF waits[c] = d THEN Nothing ELSE waits[c]],
         got' \in [Jobs -> Versions \cup {Nothing}],
         \A c \in Jobs : got'[c] = Nothing \/ got'[c] = got[c] \/ (waits[c] = d /\ got'[c] >= promise[d].key)
  PROVE  ReuseInv'
<1>1. /\ promise' \in [Decodes -> Promise \cup {Dropped}]
      /\ \A e \in Decodes : promise'[e] = IF promises[e].state = "settled" /\ e \notin Held'
                                         THEN Dropped ELSE promises[e]
      /\ \A e \in claimed' : e \in claimed /\ promise'[e] # Dropped
  BY WhatIsCollected
<1>2. Held' \subseteq Held /\ Held' \subseteq Decodes /\ promises[d] # Dropped
      /\ \A e \in Held' : promise'[e] = promises[e] /\ promise'[e].path = promise[e].path
  <2>1. promises[d] # Dropped
    BY Known, ReuseAssumption DEF Promise, Dropped, ReuseInv
  <2> QED BY <1>1, <2>1, Known
<1>3. \A e \in Held : promise[e] # Dropped
  BY DEF ReuseInv, Entries
<1>4. ReuseTypeOK'
  <2>1. \A e, f \in Held' : promise'[e].path = promise'[f].path => e = f
    BY <1>2 DEF ReuseInv, ReuseTypeOK
  <2>2. timers' \subseteq Decodes /\ claimed' \subseteq Decodes
    BY <1>1, <1>2 DEF ReuseInv, ReuseTypeOK
  <2>3. waits' \in [Jobs -> Decodes \cup {Nothing}]
    BY DEF ReuseInv, ReuseTypeOK
  <2> QED BY <1>1, <2>1, <2>2, <2>3 DEF ReuseInv, ReuseTypeOK
<1>5. Entries'
  <2>1. \A e \in Held' : promise'[e] # Dropped
    BY <1>2, <1>3
  <2>2. \A e \in Decodes \ Held' : promise'[e].state = "settled" => promise'[e] = Dropped
    BY <1>1
  <2>3. timers' = {e \in Held' : promise'[e].state = "settled"}
    BY <1>2 DEF ReuseInv, Entries
  <2>4. \A e \in claimed' : e \notin Held' /\ promise'[e] # Dropped
    BY <1>1, <1>2 DEF ReuseInv, Entries
  <2> QED BY <2>1, <2>2, <2>3, <2>4 DEF Entries
<1>6. Awaited'
  <2>1. ASSUME NEW e \in Decodes, promise'[e] # Dropped
        PROVE  promise'[e].key <= version'[promise'[e].path] /\ promise'[e].key <= promise'[e].shows
    <3>1. promise'[e] = promises[e]
      BY <1>1, <2>1
    <3>2. promise[d] # Dropped
      BY Known
    <3> QED BY <2>1, <3>1, <3>2 DEF ReuseInv, Awaited
  <2>2. ASSUME NEW c \in Jobs, waits'[c] # Nothing
        PROVE  InFlight(waits[c])' /\ asked'[c] <= promise'[waits'[c]].key
    <3>1. /\ waits'[c] = waits[c] /\ waits[c] # d /\ waits[c] \in Decodes
          /\ InFlight(waits[c]) /\ asked[c] <= promise[waits[c]].key
      BY <2>2 DEF ReuseInv, Awaited, ReuseTypeOK
    <3>2. promise'[waits[c]] = promise[waits[c]]
      BY <1>1, <3>1 DEF InFlight
    <3> QED BY <3>1, <3>2 DEF InFlight
  <2> QED BY <2>1, <2>2 DEF Awaited
<1>7. PixelsAreCurrent'
  <2> SUFFICES ASSUME NEW c \in Jobs, got'[c] # Nothing PROVE got'[c] >= asked'[c]
    BY DEF PixelsAreCurrent
  <2>1. got[c] # Nothing => got[c] >= asked[c]
    BY DEF ReuseInv, PixelsAreCurrent
  <2>2. waits[c] = d => asked[c] <= promise[d].key
    BY Known DEF ReuseInv, Awaited
  <2>3. /\ asked[c] \in Nat /\ got'[c] \in Nat /\ promise[d].key \in Nat
        /\ got[c] \in Versions \cup {Nothing} /\ Versions \subseteq Nat
    BY Known DEF ReuseInv, ReuseTypeOK, Promise
  <2> QED BY <2>1, <2>2, <2>3
<1> QED BY <1>4, <1>5, <1>6, <1>7 DEF ReuseInv

\* So do the end of a decode and the end of its time in the Map.
LEMMA SettleKeeps ==
  ASSUME ReuseInv, NEW d \in Decodes, DecodeWorks(d) \/ DecodeFails(d) \/ TimerFires(d)
  PROVE  ReuseInv'
<1>0. /\ waits \in [Jobs -> Decodes \cup {Nothing}] /\ got \in [Jobs -> Versions \cup {Nothing}]
      /\ Len(recentDecodes) <= ReuseMax /\ timers \subseteq Held
      /\ \A e \in timers : promise[e].state = "settled"
      /\ \A c \in Jobs : waits[c] # Nothing => InFlight(waits[c])
  BY DEF ReuseInv, ReuseTypeOK, Entries, Awaited
<1>1. /\ promise[d] # Dropped /\ promise[d] \in Promise
      /\ promise[d].key <= promise[d].shows /\ promise[d].key <= version[promise[d].path]
      /\ promise[d].key \in Versions /\ version[promise[d].path] \in Versions /\ promise[d].path \in Paths
  <2>1. promise[d] # Dropped
    BY Known DEF DecodeWorks, DecodeFails, TimerFires, ReuseInv, Entries
  <2>2. promise[d] \in Promise
    BY <2>1, Known
  <2>3. promise[d].path \in Paths /\ promise[d].key \in Versions
    BY <2>2 DEF Promise
  <2> QED BY <2>1, <2>2, <2>3, Known DEF ReuseInv, Awaited
<1>2. /\ Delete(d) \in Seq(Decodes) /\ IsInjective(Delete(d)) /\ Len(Delete(d)) <= ReuseMax
      /\ Range(Delete(d)) = Held \ {d}
  BY <1>0, Deleted, Known
<1>3. CASE DecodeWorks(d)
  <2>1. PICK v \in promise[d].key..version[promise[d].path] :
          /\ Answer(d, v) /\ recentDecodes' = recentDecodes
          /\ Collect([promise EXCEPT ![d].state = "settled", ![d].shows = v])
    BY <1>3 DEF DecodeWorks
  <2> DEFINE promises == [promise EXCEPT ![d].state = "settled", ![d].shows = v]
             ended    == [promise[d] EXCEPT !.state = "settled"]
             fired  == [ended EXCEPT !.shows = v]
  <2>2. v \in Versions /\ v \in Nat /\ promise[d].key <= v /\ promise[d].key \in Nat
    <3>1. promise[d].key \in Nat /\ version[promise[d].path] \in 0..LastVersion /\ LastVersion \in Nat
      BY <1>1, ReuseAssumption DEF Versions
    <3> QED BY <2>1, <3>1 DEF Versions
  <2>3. promises = [promise EXCEPT ![d] = fired]
    BY <1>1, Known
  <2>4. /\ fired \in Promise /\ fired.state = "settled" /\ fired.path = promise[d].path
        /\ fired.key = promise[d].key /\ fired.shows = v
    <3>1. /\ ended \in Promise /\ ended.state = "settled" /\ ended.path = promise[d].path
          /\ ended.key = promise[d].key
      BY <1>1 DEF Promise
    <3> HIDE DEF ended
    <3> QED BY <2>2, <3>1 DEF Promise
  <2>5. Collect(promises)
    BY <2>1
  <2> HIDE DEF promises, fired
  <2>6. /\ promises \in [Decodes -> Promise \cup {Dropped}] /\ promises[d] = fired
        /\ \A e \in Decodes \ {d} : promises[e] = promise[e]
    BY <2>3, <2>4, Known
  <2>7. /\ promises[d] \in Promise /\ promises[d].state = "settled" /\ promises[d].path = promise[d].path
        /\ promises[d].key = promise[d].key /\ promises[d].key <= promises[d].shows
    BY <2>2, <2>4, <2>6
  <2>8. /\ Held' = Held /\ recentDecodes' = recentDecodes /\ d \notin timers
        /\ timers' = (timers \ {d}) \cup (Held' \cap {d})
    BY <1>0, <1>3, <2>1 DEF DecodeWorks, Held, InFlight
  <2>9. /\ waits' = [c \in Jobs |-> IF waits[c] = d THEN Nothing ELSE waits[c]]
        /\ got' \in [Jobs -> Versions \cup {Nothing}]
        /\ \A c \in Jobs : got'[c] = got[c] \/ (waits[c] = d /\ got'[c] >= promise[d].key)
    BY <1>0, <2>1, <2>2 DEF Answer
  <2>10. UNCHANGED <<version, asked>>
    BY <1>3 DEF DecodeWorks
  <2> QED BY <1>0, <1>1, <2>5, <2>6, <2>7, <2>8, <2>9, <2>10, SettledKeeps, Known
<1>4. CASE DecodeFails(d)
  <2> DEFINE promises == [promise EXCEPT ![d].state = "settled"]
             fired  == [promise[d] EXCEPT !.state = "settled"]
  <2>1. promises = [promise EXCEPT ![d] = fired]
    OBVIOUS
  <2>2. /\ fired \in Promise /\ fired.state = "settled" /\ fired.path = promise[d].path
        /\ fired.key = promise[d].key /\ fired.shows = promise[d].shows
    BY <1>1 DEF Promise
  <2>3. Collect(promises) /\ Answer(d, Nothing) /\ UNCHANGED <<version, timers, asked>> /\ Forget(d)
        /\ InFlight(d)
    BY <1>4 DEF DecodeFails
  <2> HIDE DEF promises, fired
  <2>4. /\ promises \in [Decodes -> Promise \cup {Dropped}] /\ promises[d] = fired
        /\ \A e \in Decodes \ {d} : promises[e] = promise[e]
    BY <2>1, <2>2, Known
  <2>5. /\ Held' = Held \ {d} /\ recentDecodes' = Delete(d) /\ d \notin timers
        /\ timers' = (timers \ {d}) \cup (Held' \cap {d})
    BY <1>0, <1>2, <2>3 DEF Forget, Held, InFlight
  <2>6. /\ waits' = [c \in Jobs |-> IF waits[c] = d THEN Nothing ELSE waits[c]]
        /\ got' \in [Jobs -> Versions \cup {Nothing}]
        /\ \A c \in Jobs : got'[c] = got[c] \/ got'[c] = Nothing
    BY <1>0, <2>3 DEF Answer
  <2> QED BY <1>1, <1>2, <2>2, <2>3, <2>4, <2>5, <2>6, SettledKeeps
<1>5. CASE TimerFires(d)
  <2>1. /\ d \in timers /\ timers' = timers \ {d} /\ Forget(d) /\ Collect(promise)
        /\ UNCHANGED <<version, waits, asked, got>>
    BY <1>5 DEF TimerFires
  <2>2. /\ Held' = Held \ {d} /\ recentDecodes' = Delete(d)
        /\ timers' = (timers \ {d}) \cup (Held' \cap {d})
    BY <1>2, <2>1 DEF Forget, Held
  <2>3. waits' = [c \in Jobs |-> IF waits[c] = d THEN Nothing ELSE waits[c]]
    <3>1. \A c \in Jobs : waits[c] # d
      BY <1>0, <2>1, Known DEF InFlight
    <3> QED BY <1>0, <2>1, <3>1
  <2>4. promise[d].state = "settled" /\ promise \in [Decodes -> Promise \cup {Dropped}]
    BY <1>0, <2>1, Known
  <2> QED BY <1>0, <1>1, <1>2, <2>1, <2>2, <2>3, <2>4, SettledKeeps
<1> QED BY <1>3, <1>4, <1>5

\* So do a decode that hangs and a file that changes.
LEMMA OthersKeep ==
  ASSUME ReuseInv,
         (\E d \in Decodes : DecodeHangs(d)) \/ (\E p \in Paths : FileChanges(p)) \/ UNCHANGED reuseVars
  PROVE  ReuseInv'
<1>1. ASSUME NEW d \in Decodes, DecodeHangs(d) PROVE ReuseInv'
  <2>1. /\ promise[d].state = "pending" /\ promise' = [promise EXCEPT ![d].state = "stuck"]
        /\ UNCHANGED <<version, recentDecodes, timers, waits, asked, got, claimed>>
    BY <1>1 DEF DecodeHangs
  <2>2. promise[d] # Dropped /\ promise[d] \in Promise
    BY <2>1, Known DEF InFlight
  <2>3. /\ promise' \in [Decodes -> Promise \cup {Dropped}]
        /\ \A e \in Decodes \ {d} : promise'[e] = promise[e]
        /\ promise'[d] \in Promise /\ promise'[d].state = "stuck" /\ promise'[d].path = promise[d].path
        /\ promise'[d].key = promise[d].key /\ promise'[d].shows = promise[d].shows
    BY <2>1, <2>2, Known DEF Promise
  <2>4. promise'[d] # Dropped /\ Held' = Held /\ Held \subseteq Decodes
    BY <2>1, <2>3, Known DEF Dropped, Held
  <2>5. ReuseTypeOK'
    BY <2>1, <2>3, <2>4 DEF ReuseInv, ReuseTypeOK
  <2>6. Entries'
    BY <2>1, <2>2, <2>3, <2>4 DEF ReuseInv, Entries
  <2>7. Awaited'
    BY <2>1, <2>2, <2>3 DEF ReuseInv, Awaited, InFlight, ReuseTypeOK
  <2>8. PixelsAreCurrent'
    BY <2>1 DEF ReuseInv, PixelsAreCurrent
  <2> QED BY <2>5, <2>6, <2>7, <2>8 DEF ReuseInv
<1>2. ASSUME NEW p \in Paths, FileChanges(p) PROVE ReuseInv'
  <2>1. /\ version[p] < LastVersion /\ version' = [version EXCEPT ![p] = version[p] + 1]
        /\ UNCHANGED <<recentDecodes, timers, promise, waits, asked, got, claimed>>
    BY <1>2 DEF FileChanges
  <2>2. Held' = Held
    BY <2>1 DEF Held
  <2>3. version' \in [Paths -> Versions] /\ \A q \in Paths : version[q] <= version'[q] /\ version[q] \in Nat
    BY <2>1, Known, ReuseAssumption DEF Versions
  <2>4. ReuseTypeOK' /\ Entries'
    BY <2>1, <2>2, <2>3 DEF ReuseInv, ReuseTypeOK, Entries
  <2>5. Awaited'
    <3>1. \A e \in Decodes : promise[e] # Dropped =>
            promise[e].key <= version'[promise[e].path]
      <4> SUFFICES ASSUME NEW e \in Decodes, promise[e] # Dropped PROVE promise[e].key <= version'[promise[e].path]
        OBVIOUS
      <4>1. promise[e].path \in Paths /\ promise[e].key \in Nat /\ promise[e].key <= version[promise[e].path]
        BY Known DEF ReuseInv, Awaited, Promise
      <4> QED BY <2>3, <4>1, Known
    <3> QED BY <2>1, <3>1 DEF ReuseInv, Awaited, InFlight
  <2>6. PixelsAreCurrent'
    BY <2>1 DEF ReuseInv, PixelsAreCurrent
  <2> QED BY <2>4, <2>5, <2>6 DEF ReuseInv
<1>3. CASE UNCHANGED reuseVars
  BY <1>3 DEF reuseVars, ReuseInv, ReuseTypeOK, Entries, Awaited, InFlight, PixelsAreCurrent, Held
<1> QED BY <1>1, <1>2, <1>3

\* It holds of an empty Map.
LEMMA ReuseStarts == ReuseInit => ReuseInv
<1> SUFFICES ASSUME ReuseInit PROVE ReuseInv
  OBVIOUS
<1>1. recentDecodes = <<>> /\ Held = {} /\ 0 \in Versions
  BY ReuseAssumption DEF ReuseInit, Held, Range, Versions
<1>2. ReuseTypeOK
  BY <1>1, EmptySeq DEF ReuseInit, ReuseTypeOK, IsInjective
<1>3. Entries /\ Awaited /\ PixelsAreCurrent
  BY <1>1, ReuseAssumption DEF ReuseInit, Entries, Awaited, PixelsAreCurrent
<1> QED BY <1>2, <1>3 DEF ReuseInv

-----------------------------------------------------------------------------
(* The theorems. *)

\* The Map, its timers, the promises and their callers always agree.
THEOREM ReuseInvariant == ReuseSpec => []ReuseInv
<1>1. ReuseInv /\ [ReuseNext]_reuseVars => ReuseInv'
  BY OpenKeeps, OpenAgainKeeps, SettleKeeps, OthersKeep DEF ReuseNext, Open, Settle
<1> QED BY <1>1, ReuseStarts, PTL DEF ReuseSpec

\* What the model says the Map, the promises and the callers are, they are.
THEOREM ReuseTypesCorrect == ReuseSpec => []ReuseTypeOK
<1>1. ReuseInv => ReuseTypeOK
  BY DEF ReuseInv
<1> QED BY <1>1, ReuseInvariant, PTL

\* However opens, evictions, timers and decodes interleave: at most DECODE_REUSE_MAX frames are
\* kept, each by the timer of its own entry, and none that was given to a second open.
THEOREM FramesAreAccounted == ReuseSpec => []FramesAccounted
<1>1. ASSUME ReuseInv PROVE FramesAccounted
  <2>1. timers = {d \in Decodes : promise[d] # Dropped /\ promise[d].state = "settled"}
    BY <1>1, Known DEF ReuseInv, Entries
  <2> QED BY <1>1, <2>1 DEF ReuseInv, Entries, FramesAccounted, FramesAreTimed, ReusedOnce
<1> QED BY <1>1, ReuseInvariant, PTL

\* Shared, taken out of the Map or decoded anew, the pixels show the file as it was when it was
\* opened, or later.
THEOREM PixelsStayCurrent == ReuseSpec => []PixelsAreCurrent
<1>1. ReuseInv => PixelsAreCurrent
  BY DEF ReuseInv
<1> QED BY <1>1, ReuseInvariant, PTL

\* No callback of a decode, however late, takes the entry that came after its own.
THEOREM OnlyOwnEventsForget == ReuseSpec => OnlyItsOwnEventsForget
<1> DEFINE Own == \A d \in Held \ Range(recentDecodes') :
             \/ \E c \in Jobs : OpenAgain(c) \/ OpenChanged(c)
             \/ d = Head(recentDecodes) /\ Len(recentDecodes) = ReuseMax
                  /\ Len(recentDecodes') = ReuseMax
             \/ DecodeFails(d) /\ promise'[d] = Dropped
             \/ d \in timers \ timers'
<1>1. ReuseInv /\ [ReuseNext]_reuseVars => [Own]_reuseVars
  <2> SUFFICES ASSUME ReuseInv, ReuseNext, NEW d \in Held \ Range(recentDecodes')
               PROVE  \/ \E c \in Jobs : OpenAgain(c) \/ OpenChanged(c)
                      \/ d = Head(recentDecodes) /\ Len(recentDecodes) = ReuseMax
                           /\ Len(recentDecodes') = ReuseMax
                      \/ DecodeFails(d) /\ promise'[d] = Dropped
                      \/ d \in timers \ timers'
    OBVIOUS
  <2>1. /\ recentDecodes \in Seq(Decodes) /\ IsInjective(recentDecodes) /\ d \in Decodes
        /\ Len(recentDecodes) <= ReuseMax /\ Len(recentDecodes) \in Nat /\ ReuseMax \in Nat \ {0}
        /\ recentDecodes' # recentDecodes
    BY Known DEF ReuseInv, Entries, Held
  <2>2. ASSUME NEW e \in Decodes, Forget(e) PROVE d = e
    BY <2>1, <2>2, Deleted DEF Forget
  <2>3. ASSUME NEW c \in Jobs, OpenFirst(c)
        PROVE  d = Head(recentDecodes) /\ Len(recentDecodes) = ReuseMax /\ Len(recentDecodes') = ReuseMax
    <3>1. PICK e \in Decodes : Remember(e) /\ promise[e] = Dropped
      BY <2>3 DEF OpenFirst, Begin
    <3>2. e \notin Held
      BY <3>1 DEF ReuseInv, Entries
    <3>3. CASE Len(recentDecodes) >= ReuseMax
      <4>1. recentDecodes' = Append(Tail(recentDecodes), e) /\ recentDecodes # <<>>
        BY <2>1, <3>1, <3>3 DEF Remember
      <4>2. /\ Tail(recentDecodes) \in Seq(Decodes) /\ IsInjective(Tail(recentDecodes))
            /\ Range(Tail(recentDecodes)) = Held \ {Head(recentDecodes)}
            /\ Len(Tail(recentDecodes)) = Len(recentDecodes) - 1
        BY <2>1, <4>1, Evicted DEF Held
      <4>3. /\ Range(recentDecodes') = (Held \ {Head(recentDecodes)}) \cup {e}
            /\ Len(recentDecodes') = Len(Tail(recentDecodes)) + 1
        BY <3>2, <4>1, <4>2, Appended
      <4>4. Len(recentDecodes) = ReuseMax /\ Len(recentDecodes') = Len(recentDecodes)
        <5>1. Len(recentDecodes) = ReuseMax
          BY <2>1, <3>3
        <5>2. Len(recentDecodes') = (Len(recentDecodes) - 1) + 1
          BY <4>2, <4>3
        <5> QED BY <2>1, <5>1, <5>2
      <4>5. d \notin Range(recentDecodes') /\ d \in Held
        OBVIOUS
      <4> QED BY <4>3, <4>4, <4>5
    <3>4. CASE ~(Len(recentDecodes) >= ReuseMax)
      <4>1. Range(recentDecodes') = Held \cup {e}
        BY <2>1, <3>1, <3>2, <3>4, Appended DEF Remember, Held
      <4> QED BY <4>1
    <3> QED BY <3>3, <3>4
  <2>4. ASSUME NEW e \in Decodes, DecodeFails(e) PROVE DecodeFails(d) /\ promise'[d] = Dropped
    <3>1. d = e /\ InFlight(d)
      BY <2>2, <2>4 DEF DecodeFails
    <3> DEFINE promises == [promise EXCEPT ![d].state = "settled"]
    <3>2. promise[d] \in Promise /\ promise \in [Decodes -> Promise \cup {Dropped}]
      BY <3>1, Known
    <3>3. promises \in [Decodes -> Promise \cup {Dropped}] /\ promises[d].state = "settled"
      <4>1. [promise[d] EXCEPT !.state = "settled"] \in Promise
        BY <3>2 DEF Promise
      <4>2. promises = [promise EXCEPT ![d] = [promise[d] EXCEPT !.state = "settled"]]
        OBVIOUS
      <4>3. [promise[d] EXCEPT !.state = "settled"].state = "settled"
        BY <3>2 DEF Promise
      <4> HIDE DEF promises
      <4>4. promises[d] = [promise[d] EXCEPT !.state = "settled"]
        BY <2>1, <3>2, <4>2
      <4>5. promises \in [Decodes -> Promise \cup {Dropped}]
        BY <3>2, <4>1, <4>2
      <4> QED BY <4>3, <4>4, <4>5
    <3>4. Collect(promises)
      BY <2>4, <3>1 DEF DecodeFails
    <3> HIDE DEF promises
    <3>5. d \notin Held'
      BY DEF Held
    <3> QED BY <2>1, <2>4, <3>1, <3>3, <3>4, <3>5, WhatIsCollected
  <2>5. ASSUME NEW e \in Decodes, TimerFires(e) PROVE d \in timers \ timers'
    BY <2>2, <2>5 DEF TimerFires
  <2>6. ASSUME NEW e \in Decodes, DecodeWorks(e) \/ DecodeHangs(e) PROVE FALSE
    BY <2>1, <2>6 DEF DecodeWorks, DecodeHangs
  <2>7. ASSUME NEW p \in Paths, FileChanges(p) PROVE FALSE
    BY <2>1, <2>7 DEF FileChanges
  <2>8. ASSUME NEW c \in Jobs, OpenAlone(c) PROVE FALSE
    BY <2>1, <2>8 DEF OpenAlone
  <2> QED BY <2>3, <2>4, <2>5, <2>6, <2>7, <2>8 DEF ReuseNext, Open, Settle
<1> QED BY <1>1, ReuseInvariant, PTL DEF ReuseSpec, OnlyItsOwnEventsForget

-----------------------------------------------------------------------------
(* HeicShim: what is proved of a half holds of the sum of both. *)

\* What the two modules say their variables are, they are, whichever half runs: a behaviour
\* of the sum is one of each half, since a step of one leaves the other alone.
THEOREM ShimTypesCorrect == ShimSpec => []ShimTypeOK
<1>1. ShimInit => Init /\ ReuseInit
  BY DEF ShimInit
<1>2. [ShimNext]_<<half, vars, reuseVars>> => [Next]_vars /\ [ReuseNext]_reuseVars
  BY DEF ShimNext, InSlots, InReuse
<1>3. ShimSpec => Spec /\ ReuseSpec
  BY <1>1, <1>2, PTL DEF ShimSpec, Spec, ReuseSpec
<1>4. TypeOK /\ ReuseTypeOK => ShimTypeOK
  BY DEF ShimTypeOK
<1> QED BY <1>3, <1>4, TypeCorrect, ReuseTypesCorrect, PTL
=============================================================================

-------------------------- MODULE DecodeSlotsProofs --------------------------
(***************************************************************************)
(* Theorems about DecodeSlots, for every number of callers, slots and        *)
(* decoders.                                                                *)
(*                                                                         *)
(* The counter says nothing of who holds a slot and the queue nothing of who *)
(* still waits, so neither SlotsAccounted nor the pool refinement follows    *)
(* from the code of one step.  QInv ties the queue to the callers (each      *)
(* waiting caller in it once, unsettled, and nobody else) and SlotsAccounted *)
(* the counter to the holders; with both, the release never meets a dead     *)
(* waiter, and every step is one of the pool or leaves it alone.             *)
(***************************************************************************)
EXTENDS DecodeSlots, FiniteSetTheorems, SequenceTheorems, TLAPS

QInv ==
  /\ \A i \in DOMAIN decodeWaitQueue : pc[decodeWaitQueue[i]] = "queued"
  /\ \A i, j \in DOMAIN decodeWaitQueue :
       decodeWaitQueue[i] = decodeWaitQueue[j] => i = j
  /\ \A c \in Callers : pc[c] = "queued" =>
       c \notin settled /\ \E i \in DOMAIN decodeWaitQueue : decodeWaitQueue[i] = c

IInv == TypeOK /\ QInv /\ SlotsAccounted /\ CopyBelongsToDecode

\* Taking one element out of a sequence.
LEMMA Removed ==
  ASSUME NEW S, NEW s \in Seq(S), NEW i \in 1..Len(s)
  PROVE  /\ RemoveAt(s, i) \in Seq(S)
         /\ Len(RemoveAt(s, i)) = Len(s) - 1
         /\ \A k \in 1..(Len(s) - 1) : RemoveAt(s, i)[k] = IF k < i THEN s[k] ELSE s[k + 1]
<1> DEFINE a == SubSeq(s, 1, i-1)
           b == SubSeq(s, i+1, Len(s))
<1>1. a \in Seq(S) /\ Len(a) = i - 1 /\ \A k \in 1..(i-1) : a[k] = s[k]
  OBVIOUS
<1>2. b \in Seq(S) /\ Len(b) = Len(s) - i /\ \A k \in 1..(Len(s) - i) : b[k] = s[i + k]
  OBVIOUS
<1>3. RemoveAt(s, i) = a \o b
  BY DEF RemoveAt
<1> HIDE DEF a, b
<1>4. a \o b \in Seq(S) /\ Len(a \o b) = Len(s) - 1
  <2>1. a \o b \in Seq(S) /\ Len(a \o b) = Len(a) + Len(b)
    BY <1>1, <1>2, ConcatProperties
  <2> QED BY <1>1, <1>2, <2>1
<1>5. ASSUME NEW k \in 1..(Len(s) - 1)
      PROVE  (a \o b)[k] = IF k < i THEN s[k] ELSE s[k + 1]
  <2>1. CASE k < i
    BY <1>1, <1>2, <2>1
  <2>2. CASE ~(k < i)
    <3>1. (a \o b)[k] = b[k - Len(a)]
      BY <1>1, <1>2, <2>2
    <3>2. k - Len(a) \in 1..(Len(s) - i) /\ i + (k - Len(a)) = k + 1
      BY <1>1, <2>2
    <3> QED BY <1>2, <2>2, <3>1, <3>2
  <2> QED BY <2>1, <2>2
<1> QED BY <1>3, <1>4, <1>5

\* The holders are finitely many, so the set operations below can be counted.
LEMMA HoldersFinite ==
  IsFiniteSet(Holders) /\ Cardinality(Holders) \in Nat
  BY CallersAssumption, FS_Subset, FS_CardinalityType DEF Holders

\* The pool's cardinality and removal are the ones used here.
LEMMA SamePool ==
  /\ \A S : Pool!Cardinality(S) = Cardinality(S)
  /\ \A s, i : Pool!RemoveAt(s, i) = RemoveAt(s, i)
  BY DEF Pool!Cardinality, Cardinality, Pool!RemoveAt, RemoveAt

\* In a state of the invariant no waiter in the queue is settled, so a release
\* serves the head of the queue or lowers the counter.
LEMMA ReleaseServesHead ==
  ASSUME TypeOK, QInv, NEW c \in Callers, Release(c)
  PROVE  IF decodeWaitQueue = <<>>
         THEN /\ decodeWaitQueue' = <<>>
              /\ activeDecodes' = activeDecodes - 1
              /\ pc' = [pc EXCEPT ![c] = "idle"]
              /\ settled' = settled
         ELSE /\ decodeWaitQueue' = Tail(decodeWaitQueue)
              /\ activeDecodes' = activeDecodes
              /\ pc' = [pc EXCEPT ![c] = "idle", ![Head(decodeWaitQueue)] = "staging"]
              /\ settled' = settled \cup {Head(decodeWaitQueue)}
<1> DEFINE q == decodeWaitQueue
<1>1. PICK n \in 0..Len(q) :
        /\ \A i \in 1..n : q[i] \in settled
        /\ IF n = Len(q)
           THEN /\ q' = <<>>
                /\ activeDecodes' = activeDecodes - 1
                /\ pc' = [pc EXCEPT ![c] = "idle"]
                /\ UNCHANGED settled
           ELSE /\ settled' = settled \cup {q[n + 1]}
                /\ q' = SubSeq(q, n + 2, Len(q))
                /\ pc' = [pc EXCEPT ![c] = "idle", ![q[n + 1]] = "staging"]
                /\ UNCHANGED activeDecodes
  BY DEF Release
<1>2. q \in Seq(Callers)
  BY DEF TypeOK
<1>3. \A i \in 1..Len(q) : q[i] \in Callers /\ q[i] \notin settled
  BY <1>2 DEF QInv
<1>4. n = 0
  BY <1>1, <1>2, <1>3
<1>5. CASE q = <<>>
  BY <1>1, <1>4, <1>5
<1>6. CASE q # <<>>
  <2>1. Len(q) # 0 /\ q[n + 1] = Head(q) /\ SubSeq(q, n + 2, Len(q)) = Tail(q)
    BY <1>2, <1>4, <1>6
  <2> QED BY <1>1, <1>4, <1>6, <2>1
<1> QED BY <1>5, <1>6

\* The pool is left alone by a step that keeps every caller holding, waiting
\* or neither.
LEMMA Internal ==
  ASSUME TypeOK, QInv, SlotsAccounted, UNCHANGED wait,
         \A c \in Callers : (pc[c] = "queued") <=> (pc'[c] = "queued"),
         Holders' = Holders
  PROVE  QInv' /\ SlotsAccounted'
<1>1. QInv'
  <2>1. \A i \in DOMAIN decodeWaitQueue : decodeWaitQueue[i] \in Callers
    BY DEF TypeOK
  <2> QED BY <2>1 DEF QInv, wait
<1>2. SlotsAccounted'
  BY DEF SlotsAccounted, wait
<1> QED BY <1>1, <1>2

\* A call takes a free slot or goes to the end of the queue.
LEMMA CallStep ==
  ASSUME IInv, NEW c \in Callers, Call(c)
  PROVE  QInv' /\ SlotsAccounted' /\ Pool!Enter(c)
<1> USE SlotsAssumption
<1> USE DEF IInv
<1>0. TypeOK /\ pc[c] = "idle" /\ c \notin Holders
  BY DEF Call, Holders
<1>1. \A i \in DOMAIN decodeWaitQueue : decodeWaitQueue[i] \in Callers /\ decodeWaitQueue[i] # c
  BY <1>0 DEF QInv, TypeOK
<1>2. CASE activeDecodes < Slots
  <2>1. /\ activeDecodes' = activeDecodes + 1
        /\ pc' = [pc EXCEPT ![c] = "staging"]
        /\ decodeWaitQueue' = decodeWaitQueue
        /\ settled' = settled \ {c}
    BY <1>2 DEF Call
  <2>2. Holders' = Holders \cup {c}
    BY <1>0, <2>1 DEF Holders, TypeOK
  <2>3. Cardinality(Holders') = Cardinality(Holders) + 1
    BY <1>0, <2>2, HoldersFinite, FS_AddElement
  <2>4. decodeWaitQueue = <<>>
    BY <1>0, <1>2 DEF SlotsAccounted, TypeOK
  <2>5. QInv'
    BY <1>0, <1>1, <2>1 DEF QInv, TypeOK
  <2>6. SlotsAccounted'
    BY <2>1, <2>3, <2>4 DEF SlotsAccounted
  <2>7. Pool!Enter(c)
    BY <1>0, <1>1, <1>2, <2>1, <2>2, SamePool DEF Pool!Enter, SlotsAccounted
  <2> QED BY <2>5, <2>6, <2>7
<1>3. CASE ~(activeDecodes < Slots)
  <2>1. /\ activeDecodes' = activeDecodes
        /\ pc' = [pc EXCEPT ![c] = "queued"]
        /\ decodeWaitQueue' = Append(decodeWaitQueue, c)
        /\ settled' = settled \ {c}
    BY <1>3 DEF Call
  <2>2. Holders' = Holders
    BY <1>0, <2>1 DEF Holders, TypeOK
  <2>3. activeDecodes = Slots
    BY <1>0, <1>3 DEF TypeOK
  <2>4. QInv'
    <3>1. /\ decodeWaitQueue \in Seq(Callers)
          /\ Len(decodeWaitQueue') = Len(decodeWaitQueue) + 1
          /\ \A i \in 1..Len(decodeWaitQueue) : decodeWaitQueue'[i] = decodeWaitQueue[i]
          /\ decodeWaitQueue'[Len(decodeWaitQueue) + 1] = c
          /\ DOMAIN decodeWaitQueue = 1..Len(decodeWaitQueue)
          /\ DOMAIN decodeWaitQueue' = 1..(Len(decodeWaitQueue) + 1)
      BY <1>0, <2>1 DEF TypeOK
    <3>2. \A i \in DOMAIN decodeWaitQueue' : pc'[decodeWaitQueue'[i]] = "queued"
      BY <1>0, <1>1, <2>1, <3>1 DEF QInv, TypeOK
    <3>3. \A i, j \in DOMAIN decodeWaitQueue' :
            decodeWaitQueue'[i] = decodeWaitQueue'[j] => i = j
      BY <1>0, <1>1, <3>1 DEF QInv
    <3>4. ASSUME NEW d \in Callers, pc'[d] = "queued"
          PROVE  d \notin settled' /\ \E i \in DOMAIN decodeWaitQueue' : decodeWaitQueue'[i] = d
      <4>1. CASE d = c
        BY <2>1, <3>1, <4>1
      <4>2. CASE d # c
        <5>1. pc[d] = "queued"
          BY <1>0, <2>1, <3>4, <4>2 DEF TypeOK
        <5> QED BY <2>1, <3>1, <4>2, <5>1 DEF QInv
      <4> QED BY <4>1, <4>2
    <3> QED BY <3>2, <3>3, <3>4 DEF QInv
  <2>5. SlotsAccounted'
    BY <2>1, <2>2, <2>3 DEF SlotsAccounted
  <2>6. Pool!Enter(c)
    BY <1>0, <1>1, <1>3, <2>1, <2>2, <2>3, SamePool DEF Pool!Enter, SlotsAccounted
  <2> QED BY <2>4, <2>5, <2>6
<1> QED BY <1>2, <1>3

\* A waiter that gives up leaves the queue, and nothing else of the pool moves.
LEMMA TimesOutStep ==
  ASSUME IInv, NEW c \in Callers, TimesOut(c)
  PROVE  QInv' /\ SlotsAccounted' /\ \E i \in DOMAIN decodeWaitQueue : Pool!GiveUp(i)
<1> USE DEF IInv
<1> DEFINE q == decodeWaitQueue
<1>0. /\ TypeOK /\ QInv /\ q \in Seq(Callers) /\ DOMAIN q = 1..Len(q)
      /\ pc[c] = "queued" /\ c \notin settled
      /\ settled' = settled \cup {c}
      /\ pc' = [pc EXCEPT ![c] = "idle"]
      /\ activeDecodes' = activeDecodes
  BY DEF TimesOut, TypeOK
<1>1. PICK i \in 1..Len(q) : q[i] = c /\ q' = RemoveAt(q, i)
  BY <1>0 DEF TimesOut
<1>2. /\ q' \in Seq(Callers) /\ DOMAIN q' = 1..Len(q') /\ Len(q') = Len(q) - 1
      /\ \A k \in 1..(Len(q) - 1) : q'[k] = IF k < i THEN q[k] ELSE q[k + 1]
  <2>1. /\ RemoveAt(q, i) \in Seq(Callers)
        /\ Len(RemoveAt(q, i)) = Len(q) - 1
        /\ \A k \in 1..(Len(q) - 1) :
             RemoveAt(q, i)[k] = IF k < i THEN q[k] ELSE q[k + 1]
    BY <1>0, <1>1, Removed
  <2> QED BY <1>1, <2>1
<1>q. \A a, b \in 1..Len(q) : q[a] = q[b] => a = b
  BY <1>0 DEF QInv
<1>3. Holders' = Holders
  BY <1>0 DEF Holders, TypeOK
<1>4. QInv'
  <2>1. ASSUME NEW k \in 1..Len(q')
        PROVE  \E m \in 1..Len(q) : m # i /\ q'[k] = q[m] /\ m = (IF k < i THEN k ELSE k + 1)
    BY <1>0, <1>1, <1>2
  <2>2. \A m \in 1..Len(q) : m # i => q[m] # c
    BY <1>0, <1>1 DEF QInv
  <2>3. ASSUME NEW k \in DOMAIN q' PROVE pc'[q'[k]] = "queued"
    <3>1. PICK m \in 1..Len(q) : m # i /\ q'[k] = q[m]
      BY <1>2, <2>1
    <3>2. q[m] \in Callers /\ q[m] # c /\ pc[q[m]] = "queued"
      BY <1>0, <2>2, <3>1 DEF QInv
    <3> QED BY <1>0, <3>1, <3>2 DEF TypeOK
  <2>4. \A k, m \in DOMAIN q' : q'[k] = q'[m] => k = m
    <3> SUFFICES ASSUME NEW k \in 1..Len(q'), NEW m \in 1..Len(q'), q'[k] = q'[m]
                 PROVE  k = m
      BY <1>2
    <3>1. PICK a \in 1..Len(q) : q'[k] = q[a] /\ a = (IF k < i THEN k ELSE k + 1)
      BY <2>1
    <3>2. PICK b \in 1..Len(q) : q'[m] = q[b] /\ b = (IF m < i THEN m ELSE m + 1)
      BY <2>1
    <3>3. a = b
      BY <1>q, <3>1, <3>2
    <3> QED BY <1>2, <3>1, <3>2, <3>3
  <2>5. ASSUME NEW d \in Callers, pc'[d] = "queued"
        PROVE  d \notin settled' /\ \E k \in DOMAIN q' : q'[k] = d
    <3>1. d # c /\ pc[d] = "queued"
      BY <1>0, <2>5 DEF TypeOK
    <3>2. PICK m \in 1..Len(q) : q[m] = d
      BY <1>0, <3>1 DEF QInv
    <3>3. m # i
      BY <1>1, <3>1, <3>2
    <3>4. CASE m < i
      <4>1. m \in 1..(Len(q) - 1) /\ q'[m] = d
        BY <1>0, <1>2, <3>2, <3>4
      <4> QED BY <1>0, <1>2, <3>1, <4>1 DEF QInv
    <3>5. CASE i < m
      <4>1. m - 1 \in 1..(Len(q) - 1) /\ ~(m - 1 < i) /\ (m - 1) + 1 = m
        BY <3>5
      <4>2. q'[m - 1] = d
        BY <1>2, <3>2, <4>1
      <4> QED BY <1>0, <1>2, <3>1, <4>1, <4>2 DEF QInv
    <3> QED BY <3>3, <3>4, <3>5
  <2> QED BY <2>3, <2>4, <2>5 DEF QInv
<1>5. SlotsAccounted'
  BY <1>0, <1>1, <1>3 DEF SlotsAccounted
<1>6. Pool!GiveUp(i)
  BY <1>0, <1>1, <1>3, SamePool DEF Pool!GiveUp
<1> QED BY <1>0, <1>4, <1>5, <1>6

\* The end of a decode hands its slot to the head of the queue or frees it.
LEMMA EndStep ==
  ASSUME IInv, NEW c \in Holders, NEW result, End(c, result)
  PROVE  QInv' /\ SlotsAccounted' /\ Pool!Leave(c)
<1> USE SlotsAssumption
<1> USE DEF IInv
<1> DEFINE q == decodeWaitQueue
<1>0. TypeOK /\ QInv /\ SlotsAccounted /\ c \in Callers /\ Release(c) /\ q \in Seq(Callers)
  BY DEF End, Holders, TypeOK
<1>1. pc[c] # "queued" /\ \A i \in DOMAIN q : q[i] \in Callers /\ q[i] # c
  BY <1>0 DEF Holders, QInv
<1>2. CASE q = <<>>
  <2>1. /\ q' = q /\ activeDecodes' = activeDecodes - 1
        /\ pc' = [pc EXCEPT ![c] = "idle"] /\ settled' = settled
    BY <1>0, <1>2, ReleaseServesHead
  <2>2. Holders' = Holders \ {c}
    BY <1>0, <2>1 DEF Holders, TypeOK
  <2>3. Cardinality(Holders') = Cardinality(Holders) - 1
    BY <2>2, HoldersFinite, FS_RemoveElement
  <2>4. QInv'
    BY <1>0, <1>2, <2>1 DEF QInv, TypeOK
  <2>5. SlotsAccounted'
    BY <1>0, <1>2, <2>1, <2>3 DEF SlotsAccounted
  <2> QED BY <1>2, <2>1, <2>2, <2>4, <2>5 DEF Pool!Leave
<1>3. CASE q # <<>>
  <2> DEFINE h == Head(q)
  <2>1. /\ q' = Tail(q) /\ activeDecodes' = activeDecodes
        /\ pc' = [pc EXCEPT ![c] = "idle", ![h] = "staging"]
        /\ settled' = settled \cup {h}
    BY <1>0, <1>3, ReleaseServesHead
  <2>2. /\ Len(q) \in Nat \ {0} /\ DOMAIN q = 1..Len(q) /\ h = q[1]
        /\ Len(q') = Len(q) - 1 /\ DOMAIN q' = 1..(Len(q) - 1)
        /\ \A i \in 1..(Len(q) - 1) : q'[i] = q[i + 1]
    BY <1>0, <1>3, <2>1
  <2>3. h \in Callers /\ h # c /\ pc[h] = "queued"
    BY <1>0, <1>1, <2>2 DEF QInv
  <2>4. /\ \A d \in Callers : pc'[d] = IF d = h THEN "staging" ELSE IF d = c THEN "idle" ELSE pc[d]
    BY <1>0, <2>1, <2>3 DEF TypeOK
  <2>5. Holders' = (Holders \ {c}) \cup {h}
    BY <1>0, <2>3, <2>4 DEF Holders, TypeOK
  <2>6. Cardinality(Holders') = Cardinality(Holders)
    <3>1. h \notin Holders \ {c}
      BY <2>3 DEF Holders
    <3>2. IsFiniteSet(Holders \ {c})
      BY HoldersFinite, FS_RemoveElement
    <3>3. Cardinality(Holders \ {c}) = Cardinality(Holders) - 1
      BY HoldersFinite, FS_RemoveElement
    <3>4. Cardinality((Holders \ {c}) \cup {h}) = Cardinality(Holders \ {c}) + 1
      BY <3>1, <3>2, FS_AddElement
    <3> QED BY <2>5, <3>3, <3>4, HoldersFinite
  <2>7. QInv'
    <3>1. \A i \in 1..(Len(q) - 1) : i + 1 \in 1..Len(q) /\ i + 1 # 1
      BY <2>2
    <3>2. \A i \in DOMAIN q' : q'[i] \in Callers /\ q'[i] # h /\ q'[i] # c /\ pc[q'[i]] = "queued"
      BY <1>0, <1>1, <2>2, <3>1 DEF QInv
    <3>3. \A i \in DOMAIN q' : pc'[q'[i]] = "queued"
      BY <2>4, <3>2
    <3>4. \A i, j \in DOMAIN q' : q'[i] = q'[j] => i = j
      <4>1. \A a, b \in 1..Len(q) : q[a] = q[b] => a = b
        BY <1>0, <2>2 DEF QInv
      <4> SUFFICES ASSUME NEW i \in 1..(Len(q) - 1), NEW j \in 1..(Len(q) - 1), q'[i] = q'[j]
                   PROVE  i = j
        BY <2>2
      <4>2. i + 1 = j + 1
        BY <2>2, <3>1, <4>1
      <4> QED BY <4>2
    <3>5. ASSUME NEW d \in Callers, pc'[d] = "queued"
          PROVE  d \notin settled' /\ \E i \in DOMAIN q' : q'[i] = d
      <4>1. d # h /\ d # c /\ pc[d] = "queued"
        BY <2>4, <3>5
      <4>2. PICK k \in 1..Len(q) : q[k] = d
        BY <1>0, <2>2, <4>1 DEF QInv
      <4>3. k # 1
        BY <2>2, <4>1, <4>2
      <4>4. k - 1 \in 1..(Len(q) - 1) /\ (k - 1) + 1 = k
        BY <2>2, <4>3
      <4>5. q'[k - 1] = d /\ k - 1 \in DOMAIN q'
        BY <2>2, <4>2, <4>4
      <4>6. d \notin settled'
        BY <1>0, <2>1, <4>1 DEF QInv
      <4> QED BY <4>5, <4>6
    <3> QED BY <3>3, <3>4, <3>5 DEF QInv
  <2>8. SlotsAccounted'
    BY <1>0, <1>3, <2>1, <2>6 DEF SlotsAccounted
  <2> QED BY <1>3, <2>1, <2>5, <2>7, <2>8 DEF Pool!Leave
<1> QED BY <1>2, <1>3

\* The steps inside a decode touch neither the queue nor who holds a slot.
LEMMA InnerSteps ==
  ASSUME IInv, NEW c \in Callers,
         \/ pc[c] \in {"staging", "decoding", "stuck"} /\ TryAnother(c)
         \/ DecoderHangs(c)
         \/ BudgetSpent(c)
  PROVE  QInv' /\ SlotsAccounted' /\ UNCHANGED <<Holders, decodeWaitQueue>>
<1>1. UNCHANGED wait /\ decodeWaitQueue' = decodeWaitQueue
  BY DEF TryAnother, DecoderHangs, BudgetSpent, wait
<1>2. /\ \A d \in Callers : (pc[d] = "queued") <=> (pc'[d] = "queued")
      /\ Holders' = Holders
  BY DEF IInv, TypeOK, TryAnother, DecoderHangs, BudgetSpent, Holders
<1> QED BY <1>1, <1>2, Internal DEF IInv

\* Every action does one thing to the pool: enter, leave, give up, or nothing.
LEMMA PoolStep ==
  ASSUME IInv, Next
  PROVE  QInv' /\ SlotsAccounted' /\ (Pool!Next \/ UNCHANGED <<Holders, decodeWaitQueue>>)
<1>1. PICK c \in Callers :
        \/ Call(c) \/ TimesOut(c)
        \/ StagingEnds(c) \/ DecoderExits(c) \/ DecoderHangs(c) \/ StuckExits(c)
        \/ BudgetSpent(c)
  BY DEF Next
<1>2. CASE Call(c)
  BY <1>2, CallStep DEF Pool!Next
<1>3. CASE TimesOut(c)
  BY <1>3, TimesOutStep DEF Pool!Next
<1>4. CASE DecoderHangs(c) \/ BudgetSpent(c)
  BY <1>4, InnerSteps
<1>5. CASE StagingEnds(c) \/ DecoderExits(c) \/ StuckExits(c)
  <2>1. pc[c] \in {"staging", "decoding", "stuck"} /\ c \in Holders
    BY <1>5 DEF StagingEnds, DecoderExits, StuckExits, Holders
  <2>2. TryAnother(c) \/ End(c, "decoded") \/ End(c, "original")
    BY <1>5 DEF StagingEnds, DecoderExits, StuckExits, DecoderEnds
  <2>3. CASE TryAnother(c)
    BY <2>1, <2>3, InnerSteps
  <2>4. CASE End(c, "decoded")
    BY <2>1, <2>4, EndStep DEF Pool!Next
  <2>5. CASE End(c, "original")
    BY <2>1, <2>5, EndStep DEF Pool!Next
  <2> QED BY <2>2, <2>3, <2>4, <2>5
<1> QED BY <1>1, <1>2, <1>3, <1>4, <1>5

\* The end of a decode changes the types of nothing and drops its copy.
LEMMA EndType ==
  ASSUME IInv, NEW c \in Holders, NEW result \in {"decoded", "original"}, End(c, result)
  PROVE  TypeOK' /\ CopyBelongsToDecode'
<1> USE DEF IInv
<1> DEFINE q == decodeWaitQueue
<1>0. TypeOK /\ QInv /\ SlotsAccounted /\ c \in Callers /\ Release(c) /\ q \in Seq(Callers)
  BY DEF End, Holders, TypeOK
<1>1. /\ attempted' \in [Callers -> 0..Decoders] /\ late' \in [Callers -> BOOLEAN]
      /\ staged' \in [Callers -> BOOLEAN]
      /\ answer' \in [Callers -> {"none", "decoded", "original"}]
      /\ staged' = [staged EXCEPT ![c] = FALSE]
  BY <1>0 DEF End, TypeOK
<1>2. CASE q = <<>>
  <2>1. /\ q' = q /\ activeDecodes' = activeDecodes - 1
        /\ pc' = [pc EXCEPT ![c] = "idle"] /\ settled' = settled
    BY <1>0, <1>2, ReleaseServesHead
  <2>2. activeDecodes # 0
    BY <1>0, HoldersFinite, FS_EmptySet DEF SlotsAccounted
  <2>3. activeDecodes' \in 0..Slots
    BY <1>0, <2>1, <2>2, SlotsAssumption DEF TypeOK
  <2>4. CopyBelongsToDecode'
    BY <1>0, <1>1, <2>1 DEF CopyBelongsToDecode, TypeOK
  <2>5. TypeOK'
    BY <1>0, <1>1, <2>1, <2>3 DEF TypeOK
  <2> QED BY <2>4, <2>5
<1>3. CASE q # <<>>
  <2> DEFINE h == Head(q)
  <2>1. /\ q' = Tail(q) /\ activeDecodes' = activeDecodes
        /\ pc' = [pc EXCEPT ![c] = "idle", ![h] = "staging"]
        /\ settled' = settled \cup {h}
    BY <1>0, <1>3, ReleaseServesHead
  <2>2. h \in Callers /\ pc[h] = "queued" /\ q' \in Seq(Callers)
    BY <1>0, <1>3, <2>1 DEF QInv
  <2>3. ~staged[h]
    BY <1>0, <2>2 DEF CopyBelongsToDecode
  <2>4. CopyBelongsToDecode'
    BY <1>0, <1>1, <2>1, <2>2, <2>3 DEF CopyBelongsToDecode, TypeOK
  <2>5. TypeOK'
    BY <1>0, <1>1, <2>1, <2>2 DEF TypeOK
  <2> QED BY <2>4, <2>5
<1> QED BY <1>2, <1>3

\* The variables stay in their ranges and no copy outlives its decode.
LEMMA TypeStep ==
  ASSUME IInv, Next
  PROVE  TypeOK' /\ CopyBelongsToDecode'
<1> USE SlotsAssumption, DecodersAssumption
<1> USE DEF IInv
<1>1. PICK c \in Callers :
        \/ Call(c) \/ TimesOut(c)
        \/ StagingEnds(c) \/ DecoderExits(c) \/ DecoderHangs(c) \/ StuckExits(c)
        \/ BudgetSpent(c)
  BY DEF Next
<1>2. CASE Call(c)
  <2>1. activeDecodes' \in 0..Slots
    BY <1>2 DEF Call, TypeOK
  <2>2. decodeWaitQueue' \in Seq(Callers)
    <3>1. decodeWaitQueue \in Seq(Callers)
      BY DEF TypeOK
    <3>2. Append(decodeWaitQueue, c) \in Seq(Callers)
      BY <3>1
    <3>3. decodeWaitQueue' = decodeWaitQueue \/ decodeWaitQueue' = Append(decodeWaitQueue, c)
      BY <1>2 DEF Call
    <3> QED BY <3>1, <3>2, <3>3
  <2>3. /\ settled' \subseteq Callers
        /\ pc' \in [Callers -> {"idle", "queued", "staging", "decoding", "stuck"}]
    BY <1>2 DEF Call, TypeOK
  <2>4. /\ attempted' \in [Callers -> 0..Decoders] /\ late' \in [Callers -> BOOLEAN]
        /\ staged' \in [Callers -> BOOLEAN]
        /\ answer' \in [Callers -> {"none", "decoded", "original"}]
    BY <1>2 DEF Call, TypeOK
  <2>5. TypeOK'
    BY <2>1, <2>2, <2>3, <2>4 DEF TypeOK
  <2>6. CopyBelongsToDecode'
    BY <1>2 DEF Call, TypeOK, CopyBelongsToDecode
  <2> QED BY <2>5, <2>6
<1>3. CASE TimesOut(c)
  <2>1. decodeWaitQueue' \in Seq(Callers)
    BY <1>3, Removed DEF TimesOut, TypeOK
  <2>2. TypeOK'
    BY <1>3, <2>1 DEF TimesOut, TypeOK, decode
  <2>3. CopyBelongsToDecode'
    BY <1>3 DEF TimesOut, TypeOK, CopyBelongsToDecode, decode
  <2> QED BY <2>2, <2>3
<1>4. CASE DecoderHangs(c) \/ BudgetSpent(c)
  BY <1>4 DEF DecoderHangs, BudgetSpent, TypeOK, CopyBelongsToDecode, wait, decode
<1>5. CASE StagingEnds(c) \/ DecoderExits(c) \/ StuckExits(c)
  <2>1. pc[c] \in {"staging", "decoding", "stuck"} /\ c \in Holders
    BY <1>5 DEF StagingEnds, DecoderExits, StuckExits, Holders
  <2>2. \/ /\ TryAnother(c)
           /\ \/ pc[c] = "staging" /\ \E copied \in BOOLEAN :
                   (copied => c \notin Raw) /\ staged' = [staged EXCEPT ![c] = copied]
              \/ pc[c] # "staging" /\ staged' = staged
        \/ End(c, "decoded") \/ End(c, "original")
    BY <1>5 DEF StagingEnds, DecoderExits, StuckExits, DecoderEnds
  <2>3. ASSUME TryAnother(c), pc[c] = "staging", NEW copied \in BOOLEAN,
               copied => c \notin Raw, staged' = [staged EXCEPT ![c] = copied]
        PROVE  TypeOK' /\ CopyBelongsToDecode'
    BY <2>3 DEF TryAnother, MayTryAnother, TypeOK, CopyBelongsToDecode, wait
  <2>4. ASSUME TryAnother(c), pc[c] # "staging", staged' = staged
        PROVE  TypeOK' /\ CopyBelongsToDecode'
    BY <2>4 DEF TryAnother, MayTryAnother, TypeOK, CopyBelongsToDecode, wait
  <2>5. CASE End(c, "decoded")
    BY <2>1, <2>5, EndType
  <2>6. CASE End(c, "original")
    BY <2>1, <2>6, EndType
  <2> QED BY <2>2, <2>3, <2>4, <2>5, <2>6
<1> QED BY <1>1, <1>2, <1>3, <1>4, <1>5

\* No caller holds a slot or waits at the start.
LEMMA Initially == Init => IInv /\ Pool!Init
<1> SUFFICES ASSUME Init PROVE IInv /\ Pool!Init
  OBVIOUS
<1>1. Holders = {} /\ decodeWaitQueue = <<>>
  BY DEF Init, Holders
<1>2. TypeOK
  BY SlotsAssumption, DecodersAssumption DEF Init, TypeOK
<1>3. QInv /\ CopyBelongsToDecode
  BY DEF Init, QInv, CopyBelongsToDecode
<1>4. SlotsAccounted
  BY <1>1, FS_EmptySet DEF Init, SlotsAccounted
<1> QED BY <1>1, <1>2, <1>3, <1>4 DEF IInv, Pool!Init

\* The inductive invariant is an invariant of every behaviour.
THEOREM Invariant == Spec => []IInv
<1>1. IInv /\ Next => IInv'
  BY PoolStep, TypeStep DEF IInv
<1>2. IInv /\ UNCHANGED vars => IInv'
  BY DEF vars, wait, decode, IInv, TypeOK, QInv, SlotsAccounted, Holders,
     CopyBelongsToDecode
<1> QED BY Initially, <1>1, <1>2, PTL DEF Spec

\* Type correctness: in particular the counter stays between 0 and the number
\* of slots.
THEOREM TypeCorrect == Spec => []TypeOK
<1>1. IInv => TypeOK
  BY DEF IInv
<1> QED BY <1>1, Invariant, PTL

\* No slot is leaked or counted twice, and nobody waits while one is free.
THEOREM SlotsTheorem == Spec => []SlotsAccounted
<1>1. IInv => SlotsAccounted
  BY DEF IInv, SlotsAccounted
<1> QED BY <1>1, Invariant, PTL

\* The queue holds each waiting caller once and no settled waiter.
THEOREM QueueTheorem == Spec => []QueueIsTheWaiters
<1>1. IInv => QueueIsTheWaiters
  <2> SUFFICES ASSUME IInv PROVE QueueIsTheWaiters
    OBVIOUS
  <2>1. \A i \in DOMAIN decodeWaitQueue : decodeWaitQueue[i] \in Callers
    BY DEF IInv, TypeOK
  <2>2. IsInjective(decodeWaitQueue)
    BY DEF IInv, QInv, IsInjective
  <2>3. Range(decodeWaitQueue) = {c \in Callers : pc[c] = "queued"}
    BY <2>1 DEF IInv, QInv, Range
  <2>4. Range(decodeWaitQueue) \cap settled = {}
    BY <2>1 DEF IInv, QInv, Range
  <2> QED BY <2>2, <2>3, <2>4 DEF QueueIsTheWaiters
<1> QED BY <1>1, Invariant, PTL

\* No staging copy outlives the decode it was made for.
THEOREM CopyTheorem == Spec => []CopyBelongsToDecode
<1>1. IInv => CopyBelongsToDecode
  BY DEF IInv
<1> QED BY <1>1, Invariant, PTL

\* The first half of DecodeIsBounded.
LEMMA BudgetHolds == Spec => BudgetEndsTheChain
<1> DEFINE A == \A c \in Callers : attempted'[c] > attempted[c] => ~late[c]
<1>1. IInv /\ Next => A
  <2> SUFFICES ASSUME IInv, Next, NEW d \in Callers, attempted'[d] > attempted[d]
               PROVE  ~late[d]
    OBVIOUS
  <2>1. attempted \in [Callers -> 0..Decoders]
    BY DEF IInv, TypeOK
  <2>2. PICK c \in Callers :
          \/ attempted' = attempted
          \/ attempted' = [attempted EXCEPT ![c] = 0]
          \/ ~late[c] /\ attempted' = [attempted EXCEPT ![c] = @ + 1]
    BY DEF Next, Call, TimesOut, StagingEnds, DecoderExits, DecoderHangs, StuckExits,
       BudgetSpent, DecoderEnds, End, TryAnother, MayTryAnother, decode
  <2> QED BY <2>1, <2>2, DecodersAssumption
<1>2. IInv /\ UNCHANGED vars => A
  BY DecodersAssumption DEF vars, decode, IInv, TypeOK
<1>3. [][A]_vars => BudgetEndsTheChain
  BY PTL DEF BudgetEndsTheChain
<1> QED BY <1>1, <1>3, Invariant, PTL DEF Spec

\* A decode starts nothing after its budget and leaves no copy behind.
THEOREM BoundedTheorem == Spec => DecodeIsBounded
<1> DEFINE A == \A c \in Callers : attempted'[c] > attempted[c] => ~late[c]
<1>1. [][A]_vars /\ []CopyBelongsToDecode => [][A /\ CopyBelongsToDecode']_vars
  BY PTL
<1> QED BY <1>1, CopyTheorem, BudgetHolds, PTL DEF DecodeIsBounded, BudgetEndsTheChain

\* The semaphore with its counter, its dead waiters and its timers implements
\* the first-come first-served pool.
THEOREM Refinement == Spec => IsASlotPool
<1>1. IInv /\ [Next]_vars => [Pool!Next]_(<<Holders, decodeWaitQueue>>)
  <2>1. IInv /\ UNCHANGED vars => UNCHANGED <<Holders, decodeWaitQueue>>
    BY DEF vars, wait, Holders
  <2> QED BY <2>1, PoolStep
<1> QED BY <1>1, Initially, Invariant, PTL DEF Spec, IsASlotPool, Pool!Spec
=============================================================================

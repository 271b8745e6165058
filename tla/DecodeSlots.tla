----------------------------- MODULE DecodeSlots -----------------------------
(***************************************************************************)
(* The HEIC/RAW decodes of the worker (hooks/heic_decode_shim.js): the       *)
(* counting semaphore with a bounded wait, and under it one decode from its  *)
(* staging copy through the decoders to the answer.                          *)
(*                                                                         *)
(* The worker runs on one thread, so an action is what happens between two   *)
(* returns to the event loop.  A promise's continuation runs before the next *)
(* event, so a waiter that is fired is decoding at once.  A caller asks      *)
(* again once it has been answered.  Time is only the two ceilings, the wait *)
(* for a slot and the budget of a decode, either of which may pass at any    *)
(* moment.                                                                  *)
(***************************************************************************)
EXTENDS Integers, Sequences, FiniteSets, SequencesExt

CONSTANTS
  Callers,    \* the jobs of the worker that may ask for a decode
  Raw,        \* those whose file is a camera RAW, which is never staged
  Slots,      \* DECODE_CONCURRENCY
  Decoders    \* how many decoders have a binary

ASSUME CallersAssumption == IsFiniteSet(Callers) /\ Raw \subseteq Callers
ASSUME SlotsAssumption == Slots \in Nat \ {0}   \* the check at 342
ASSUME DecodersAssumption == Decoders \in Nat

VARIABLES
  activeDecodes,    \* slots in use
  decodeWaitQueue,  \* the waiters, oldest first
  settled,          \* waiters whose promise was settled (waiter.done)
  pc,               \* where each caller is
  attempted,        \* decoders its decode has started
  late,             \* the budget of its decode has run out
  staged,           \* its local copy of the input exists
  answer            \* what its last call resolved to: null is "original"

wait == <<activeDecodes, decodeWaitQueue, settled>>
decode == <<attempted, late, staged>>
vars == <<wait, pc, decode, answer>>

Holders == {c \in Callers : pc[c] \in {"staging", "decoding", "stuck"}}

TypeOK ==
  /\ activeDecodes \in 0..Slots
  /\ decodeWaitQueue \in Seq(Callers)
  /\ settled \subseteq Callers
  /\ pc \in [Callers -> {"idle", "queued", "staging", "decoding", "stuck"}]
  /\ attempted \in [Callers -> 0..Decoders]
  /\ late \in [Callers -> BOOLEAN]
  /\ staged \in [Callers -> BOOLEAN]
  /\ answer \in [Callers -> {"none", "decoded", "original"}]

-----------------------------------------------------------------------------
(* The semaphore.                                                           *)

\* acquireDecodeSlot, and with a slot the start of the decode: nothing comes
\* between the two.  A call makes a waiter object of its own.
Call(c) ==
  /\ pc[c] = "idle"
  /\ settled' = settled \ {c}
  /\ attempted' = [attempted EXCEPT ![c] = 0]
  /\ late' = [late EXCEPT ![c] = FALSE]
  /\ answer' = [answer EXCEPT ![c] = "none"]
  /\ UNCHANGED staged
  /\ IF activeDecodes < Slots
     THEN /\ activeDecodes' = activeDecodes + 1
          /\ pc' = [pc EXCEPT ![c] = "staging"]
          /\ UNCHANGED decodeWaitQueue
     ELSE /\ decodeWaitQueue' = Append(decodeWaitQueue, c)
          /\ pc' = [pc EXCEPT ![c] = "queued"]
          /\ UNCHANGED activeDecodes

\* Mutants of TimesOut: an unbounded wait; a waiter that gives back the slot it never
\* held.
NoTimeout(c) == FALSE
TimesOutReleasing(c) ==
  /\ pc[c] = "queued" /\ c \notin settled
  /\ settled' = settled \cup {c}
  /\ decodeWaitQueue' = SelectSeq(decodeWaitQueue, LAMBDA d : d # c)
  /\ activeDecodes' = activeDecodes - 1
  /\ pc' = [pc EXCEPT ![c] = "idle"]
  /\ answer' = [answer EXCEPT ![c] = "original"]
  /\ UNCHANGED decode

\* The waiter's timer: it leaves the queue and its call falls back to Sharp.
\* (fire clears the timer, so it never runs for a settled waiter.)
TimesOut(c) ==
  /\ pc[c] = "queued" /\ c \notin settled
  /\ settled' = settled \cup {c}
  /\ \E i \in DOMAIN decodeWaitQueue :
       /\ decodeWaitQueue[i] = c
       /\ decodeWaitQueue' = RemoveAt(decodeWaitQueue, i)
  /\ pc' = [pc EXCEPT ![c] = "idle"]
  /\ answer' = [answer EXCEPT ![c] = "original"]
  /\ UNCHANGED <<activeDecodes, decode>>

\* Mutant of Release: the waiter that came last is served first.
ReleaseToLast(c) ==
  IF decodeWaitQueue = <<>>
  THEN /\ activeDecodes' = activeDecodes - 1
       /\ pc' = [pc EXCEPT ![c] = "idle"]
       /\ UNCHANGED <<decodeWaitQueue, settled>>
  ELSE LET next == Last(decodeWaitQueue) IN
       /\ settled' = settled \cup {next}
       /\ decodeWaitQueue' = Front(decodeWaitQueue)
       /\ pc' = [pc EXCEPT ![c] = "idle", ![next] = "staging"]
       /\ UNCHANGED activeDecodes

\* releaseDecodeSlot by c: n settled waiters are skipped, the next one gets the
\* slot; only with nobody left does the count go down.
Release(c) ==
  \E n \in 0..Len(decodeWaitQueue) :
    /\ \A i \in 1..n : decodeWaitQueue[i] \in settled
    /\ IF n = Len(decodeWaitQueue)
       THEN /\ decodeWaitQueue' = <<>>
            /\ activeDecodes' = activeDecodes - 1
            /\ pc' = [pc EXCEPT ![c] = "idle"]
            /\ UNCHANGED settled
       ELSE LET next == decodeWaitQueue[n + 1] IN
            /\ next \notin settled
            /\ settled' = settled \cup {next}
            /\ decodeWaitQueue' = SubSeq(decodeWaitQueue, n + 2, Len(decodeWaitQueue))
            /\ pc' = [pc EXCEPT ![c] = "idle", ![next] = "staging"]
            /\ UNCHANGED activeDecodes

-----------------------------------------------------------------------------
(* The decode that holds a slot.                                            *)

\* Mutant of End: the copy is left behind.
EndKeepingCopy(c, result) ==
  /\ answer' = [answer EXCEPT ![c] = result]
  /\ UNCHANGED decode
  /\ Release(c)

\* The decode of c is over: drop its copy, give the slot back, answer.
End(c, result) ==
  /\ staged' = [staged EXCEPT ![c] = FALSE]
  /\ answer' = [answer EXCEPT ![c] = result]
  /\ UNCHANGED <<attempted, late>>
  /\ Release(c)

\* Mutant of MayTryAnother: one turn too many.
MayTryOneMore(c) == attempted[c] <= Decoders /\ ~late[c]

\* The next turn of the loop over DECODERS: another decoder, if one is left
\* and the budget is not spent.
MayTryAnother(c) == attempted[c] < Decoders /\ ~late[c]

TryAnother(c) ==
  /\ MayTryAnother(c)
  /\ attempted' = [attempted EXCEPT ![c] = @ + 1]
  /\ pc' = [pc EXCEPT ![c] = "decoding"]
  /\ UNCHANGED <<wait, late, answer>>

\* stageHeic returned the copy or null; past the deadline it is always null.
StagingEnds(c) ==
  /\ pc[c] = "staging"
  /\ \/ \E copied \in BOOLEAN :
          /\ copied => c \notin Raw /\ ~late[c]
          /\ staged' = [staged EXCEPT ![c] = copied]
          /\ TryAnother(c)
     \/ ~MayTryAnother(c) /\ End(c, "original")

\* A decoder exited: with a usable TIFF, or without one (it failed, or execFile
\* killed it at the deadline).
DecoderEnds(c) ==
  \/ End(c, "decoded")
  \/ TryAnother(c) /\ UNCHANGED staged
  \/ ~MayTryAnother(c) /\ End(c, "original")

DecoderExits(c) == pc[c] = "decoding" /\ DecoderEnds(c)

\* A decoder blocked in uninterruptible I/O outlives the SIGTERM, and may or
\* may not return some day.
DecoderHangs(c) ==
  /\ pc[c] = "decoding"
  /\ pc' = [pc EXCEPT ![c] = "stuck"]
  /\ UNCHANGED <<wait, decode, answer>>

StuckExits(c) == pc[c] = "stuck" /\ DecoderEnds(c)

BudgetSpent(c) ==
  /\ c \in Holders /\ ~late[c]
  /\ late' = [late EXCEPT ![c] = TRUE]
  /\ UNCHANGED <<wait, pc, attempted, staged, answer>>

Init ==
  /\ activeDecodes = 0 /\ decodeWaitQueue = <<>> /\ settled = {}
  /\ pc = [c \in Callers |-> "idle"]
  /\ attempted = [c \in Callers |-> 0]
  /\ late = [c \in Callers |-> FALSE]
  /\ staged = [c \in Callers |-> FALSE]
  /\ answer = [c \in Callers |-> "none"]

Next == \E c \in Callers :
  \/ Call(c) \/ TimesOut(c)
  \/ StagingEnds(c) \/ DecoderExits(c) \/ DecoderHangs(c) \/ StuckExits(c)
  \/ BudgetSpent(c)

Spec == Init /\ [][Next]_vars

\* Node's timers fire, staging races the deadline, and a decoder that is not
\* stuck in the kernel ends, if only by SIGTERM.
FairSpec ==
  /\ Spec
  /\ \A c \in Callers :
       WF_vars(TimesOut(c)) /\ WF_vars(StagingEnds(c)) /\ WF_vars(DecoderExits(c))
       /\ WF_vars(BudgetSpent(c))

-----------------------------------------------------------------------------
(* Properties.                                                              *)

\* The counter is exactly the number of decodes under way, so no slot is
\* leaked or handed to nobody, and nobody waits while one is free.
SlotsAccounted ==
  /\ activeDecodes = Cardinality(Holders)
  /\ decodeWaitQueue # <<>> => activeDecodes = Slots

\* A waiter is in the queue exactly while its caller waits, and once: a waiter
\* that gave up or was served is gone, so releases never find a dead one.
QueueIsTheWaiters ==
  /\ IsInjective(decodeWaitQueue)
  /\ Range(decodeWaitQueue) = {c \in Callers : pc[c] = "queued"}
  /\ Range(decodeWaitQueue) \cap settled = {}

\* No copy of the library outlives its decode; only a decoder has use for one.
CopyBelongsToDecode ==
  \A c \in Callers : staged[c] => pc[c] \in {"decoding", "stuck"} /\ c \notin Raw

\* No decoder starts once the budget is spent, and a decode tries one after
\* another at most (what "hang-safety ceiling" means for the slot).
BudgetEndsTheChain ==
  [][\A c \in Callers : attempted'[c] > attempted[c] => ~late[c]]_vars

\* What is started and staged for a decode ends with it: no decoder after the budget, and
\* no copy after the decode.
DecodeIsBounded ==
  [][/\ \A c \in Callers : attempted'[c] > attempted[c] => ~late[c]
     /\ CopyBelongsToDecode']_vars

\* Every call is answered, unless its own decoder is stuck: decoders stuck in
\* every slot do not keep the others waiting for ever.
CallsAnswered ==
  \A c \in Callers :
    pc[c] \in {"queued", "staging", "decoding"} ~> pc[c] \in {"idle", "stuck"}

\* The slots serve the callers as a first-come first-served pool does.
Pool == INSTANCE SlotPool WITH held <- Holders, line <- decodeWaitQueue

IsASlotPool == Pool!Spec
=============================================================================

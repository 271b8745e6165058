------------------------------ MODULE HeicShim ------------------------------
(***************************************************************************)
(* The two halves of the HEIC/RAW shim, which share no state: a behaviour   *)
(* is one of DecodeSlots or DecodeReuse, and the other stays in its initial *)
(* state.                                                                  *)
(***************************************************************************)
EXTENDS DecodeSlots, DecodeReuse

CONSTANT Fixed   \* bound: files nobody changes

VARIABLE half

ShimInit == half \in {"slots", "reuse"} /\ Init /\ ReuseInit

InSlots(A) == half = "slots" /\ A /\ UNCHANGED <<half, reuseVars>>
InReuse(A) ==
  half = "reuse" /\ A /\ UNCHANGED <<half, vars>> /\ \A p \in Fixed : version'[p] = version[p]

ShimNext == InSlots(Next) \/ InReuse(ReuseNext)

ShimSpec ==
  /\ ShimInit /\ [][ShimNext]_<<half, vars, reuseVars>>
  /\ \A c \in Callers :
       /\ WF_<<half, vars, reuseVars>>(InSlots(TimesOut(c)))
       /\ WF_<<half, vars, reuseVars>>(InSlots(StagingEnds(c)))
       /\ WF_<<half, vars, reuseVars>>(InSlots(DecoderExits(c)))
       /\ WF_<<half, vars, reuseVars>>(InSlots(BudgetSpent(c)))
  /\ \A d \in Decodes :
       /\ WF_<<half, vars, reuseVars>>(InReuse(TimerFires(d)))
       /\ WF_<<half, vars, reuseVars>>(InReuse(promise[d].state = "pending" /\ Settle(d)))

\* The two type invariants.
ShimTypeOK == TypeOK /\ ReuseTypeOK

=============================================================================

---------------------------- MODULE StackMapping ----------------------------
(***************************************************************************)
(* OriginForm implements SegmentStack: the stack is what the buffer holds, *)
(* cut at its slashes, from the call of stage 2 on.                        *)
(***************************************************************************)
EXTENDS OriginForm, FiniteSets

(* The slashes among the first n bytes of b, and the k-th of them. *)
Slashes(b, n)    == { i \in 0 .. n - 1 : b[i] = SLASH }
Count(b, n)      == Cardinality(Slashes(b, n))
SlashAt(b, n, k) == CHOOSE i \in Slashes(b, n) : Count(b, i) = k - 1

(* What is between two slashes, and after the last one. *)
Between(b, from, to) == [ i \in 1 .. to - from |-> b[from + i - 1] ]
First(b, n, k)     == IF k = 1 THEN 0 ELSE SlashAt(b, n, k - 1) + 1

ClosedSegments(b, n) ==
  [ k \in 1 .. Count(b, n) |-> Between(b, First(b, n, k), SlashAt(b, n, k)) ]
OpenSegmentOf(b, n) == Between(b, First(b, n, Count(b, n) + 1), n)

InStage2 == out # None

Phase == IF ~InStage2 THEN "idle"
         ELSE IF pc = "complex" THEN "running"
         ELSE IF pc = "err" THEN "refused" ELSE "ended"

EscapeBytes ==
  IF ~InStage2 THEN 0
  ELSE IF state = "Quoted" THEN 1 ELSE IF state = "QuotedSecond" THEN 2 ELSE 0

stack_p      == IF InStage2 THEN p ELSE 0
stack_ch     == IF InStage2 THEN ch ELSE 0
stack_closed == IF InStage2 THEN ClosedSegments(out, u) ELSE << >>
stack_open   == IF InStage2 THEN OpenSegmentOf(out, u) ELSE << >>

(* A buffer is never None. *)
ASSUME BufferAssumption == \A t \in Targets : None \notin [0 .. Len(t) -> Byte]

Stack == INSTANCE SegmentStack WITH
  phase  <- Phase,         p    <- stack_p,   ch    <- stack_ch,
  escape <- EscapeBytes,   digit  <- decoded,
  closed <- stack_closed,  open <- stack_open

(***************************************************************************)
(* Every step of a call is a step of the stack of segments or leaves it    *)
(* alone: the buffer, its cursor, the dot states and the state saved at a  *)
(* "%" always amount to the segments read so far, also in the middle of an *)
(* escape and when the path is left by any of its exits.                   *)
(***************************************************************************)
StackSpec == Stack!StackSpec
=============================================================================

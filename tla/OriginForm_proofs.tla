-------------------------- MODULE OriginForm_proofs --------------------------
(***************************************************************************)
(* Theorems about OriginForm, for every set of targets and every size of a *)
(* usize.                                                                  *)
(***************************************************************************)
EXTENDS OriginForm, WellFoundedInduction, TLAPS

(* A set of numbers that is not empty has a least one. *)
LEMMA Least ==
  ASSUME NEW S, S \subseteq Nat, S # {}
  PROVE  \E n \in S : \A m \in S : n <= m
<1>1. PICK n \in S : \A m \in S : << m, n >> \notin OpToRel(<, Nat)
  <2>1. IsWellFoundedOn(OpToRel(<, Nat), Nat)
    BY NatLessThanWellFounded
  <2> QED
    BY <2>1, WFMin
<1>2. \A m \in S : ~(m < n)
  BY <1>1 DEF OpToRel
<1> QED
  BY <1>2

(* Facts about the byte tests. *)
LEMMA HexValueType ==
  ASSUME NEW c \in Byte, IsHexDigit(c)
  PROVE  HexValue(c) \in 0 .. 15
BY DEF Byte, IsHexDigit, IsHexLetter, IsDigit, HexValue, OrCaseBit

(* Reads of a target yield bytes. *)
LEMMA ReadType ==
  ASSUME TargetOK
  PROVE  /\ uri_end \in Nat
         /\ \A i \in 0 .. uri_end - 1 : At(i) \in Byte
         /\ \A i \in Nat : ReadWithLf(i) \in Byte
<1>1. uri_end \in Nat
  BY DEF TargetOK, uri_end
<1>2. \A i \in 0 .. uri_end - 1 : At(i) \in Byte
  BY DEF TargetOK, uri_end, At
<1>3. LF \in Byte
  BY DEF LF, Byte
<1> QED
  BY <1>1, <1>2, <1>3 DEF ReadWithLf

(* No step changes what is read. *)
LEMMA ReadStable ==
  ASSUME UNCHANGED input
  PROVE  /\ TargetOK' = TargetOK
         /\ uri_end' = uri_end
         /\ \A i : At(i)' = At(i)
BY DEF input, TargetOK, uri_end, At

(***************************************************************************)
(* The bounds of the cursors.  Stage 2 has written fewer bytes than it has *)
(* read, by one more for each character of an escape it is inside of.      *)
(***************************************************************************)
Lag == IF state = "Quoted" THEN 1 ELSE IF state = "QuotedSecond" THEN 2 ELSE 0

Cursor ==
  /\ pc = "call" => p = 0 /\ state = "Start" /\ args_start = None
  /\ pc = "uri" => /\ p \in 0 .. uri_end
                   /\ args_start # None => args_start <= uri_end
  /\ pc = "complex" => /\ p \in 1 .. uri_end + 1 /\ u + Lag < p
                       /\ uri_ext # None => uri_ext <= p
  /\ pc = "normalized" => uri_len <= uri_end
  /\ pc = "ok" => result.len <= uri_end

(* A target is a slice, whether it is the caller's own or one made of a    *)
(* path that was returned.                                                 *)
Fits == 2 * uri_end + 2 < UsizeSize

TypeInv == TypeOK /\ Cursor /\ Fits

LEMMA InitTypeInv == Init => TypeInv
<1> SUFFICES ASSUME Init PROVE TypeInv
  OBVIOUS
<1>1. TargetOK BY TargetsAssumption DEF Init, TargetOK
<1>2. args \in Slice /\ exten \in Slice BY DEF Init, Slice
<1>3. ch \in Byte BY DEF Init, Byte
<1>4. out \in Option([0 .. uri_end -> Byte]) BY DEF Init, Option
<1>5. result \in Option(Outcome)
  BY DEF Init, Option
<1>6. Cursor BY DEF Init, Cursor
<1>7. args_start \in Option(Nat \ {0}) /\ uri_ext \in Option(Nat)
  BY DEF Init, Option
<1>8. complex_uri \in BOOLEAN /\ quoted_uri \in BOOLEAN /\ plus_in_uri \in BOOLEAN
  BY DEF Init
<1>9. decoded \in 0 .. 15 /\ u \in Nat /\ p \in Nat /\ uri_len \in Nat
  BY DEF Init
<1>10. /\ state \in UriStates /\ quoted_state \in Unquoted
       /\ pc = "call" /\ merge_slashes \in BOOLEAN
  BY DEF Init, UriStates, Unquoted
<1>11. TypeOK
  BY <1>1, <1>2, <1>3, <1>4, <1>5, <1>7, <1>8, <1>9, <1>10 DEF TypeOK
<1>12. Fits
  BY UsizeAssumption DEF Init, Fits, uri_end
<1> QED
  BY <1>6, <1>11, <1>12 DEF TypeInv

USE NoneAssumption

LEMMA StageOneType ==
  ASSUME TypeInv, ParseUriStep, UNCHANGED input
  PROVE  TypeInv'
<1> USE DEF TypeInv, TypeOK, Cursor, Fits, UriStates, States, Option, Slice,
            input, flags, marks, fields, locals, Scanning, Scan
<1>0. uri_end \in Nat /\ uri_end' = uri_end /\ TargetOK'
  BY ReadType, ReadStable
<1>1. CASE InitialSlash BY <1>0, <1>1 DEF InitialSlash
<1>2. CASE MarkComplex BY <1>0, <1>2 DEF MarkComplex
<1>3. CASE MarkQuoted BY <1>0, <1>3 DEF MarkQuoted
<1>4. CASE MarkArgs BY <1>0, <1>4 DEF MarkArgs
<1>5. CASE MarkPlus BY <1>0, <1>5 DEF MarkPlus
<1>6. CASE SegmentByte BY <1>0, <1>6 DEF SegmentByte
<1>7. CASE NextSegment BY <1>0, <1>7 DEF NextSegment
<1>8. CASE MarkExtension BY <1>0, <1>8 DEF MarkExtension
<1>9. CASE UsualRun BY <1>0, <1>9 DEF UsualRun
<1>10. CASE OpaqueByte BY <1>0, <1>10 DEF OpaqueByte
<1>11. CASE RefuseByte BY <1>0, <1>11 DEF RefuseByte, Fail
<1> QED BY <1>1, <1>2, <1>3, <1>4, <1>5, <1>6, <1>7, <1>8, <1>9, <1>10, <1>11
        DEF ParseUriStep

(* What the parts of a stage 2 step do. *)
LEMMA AdvanceType ==
  ASSUME TypeInv, Reading, Advance
  PROVE  p' = p + 1 /\ p' \in 1 .. uri_end + 1 /\ ch' \in Byte
<1>1. uri_end \in Nat /\ ReadWithLf(p) \in Byte
  BY ReadType DEF TypeInv, TypeOK
<1> QED
  BY <1>1 DEF TypeInv, TypeOK, Reading, Advance

LEMMA WriteType ==
  ASSUME TypeInv, pc = "complex", NEW b \in Byte, out' = [out EXCEPT ![u] = b]
  PROVE  out' \in [0 .. uri_end -> Byte]
BY DEF TypeInv, TypeOK

LEMMA EmitType ==
  ASSUME TypeInv, pc = "complex", Emit
  PROVE  out' \in [0 .. uri_end -> Byte] /\ u' = u + 1
<1>1. ch \in Byte BY DEF TypeInv, TypeOK
<1> QED BY <1>1, WriteType DEF Emit

LEMMA PathEndsType == u \in Nat => PathEnds \subseteq 0 .. u
BY DEF PathEnds

LEMMA EscapeType ==
  ASSUME TypeInv, IsHexDigit(ch)
  PROVE  HexValue(ch) \in 0 .. 15 /\ Value \in Byte
<1>1. ch \in Byte /\ decoded \in 0 .. 15 BY DEF TypeInv, TypeOK
<1>2. HexValue(ch) \in 0 .. 15 BY <1>1, HexValueType
<1> QED BY <1>1, <1>2 DEF Value, Byte

(* The size of a usize leaves room for every offset. *)
LEMMA OffsetFits ==
  ASSUME TypeInv
  PROVE  UsizeSize \in Nat /\ uri_end + 1 < UsizeSize
<1>1. uri_end \in Nat BY ReadType DEF TypeInv, TypeOK
<1> QED BY <1>1, UsizeAssumption DEF TypeInv, Fits

LEMMA FinishDoneType ==
  ASSUME TypeInv, pc = "complex", NEW n \in 0 .. u, FinishDone(n), UNCHANGED input,
         args_start' \in Option(Nat \ {0}), args' \in Slice
  PROVE  TypeInv'
<1> USE DEF TypeInv, TypeOK, Cursor, Fits, Option, input, flags, Lag
<1>0. uri_end \in Nat /\ uri_end' = uri_end /\ TargetOK'
  BY ReadType, ReadStable
<1>1. n \in Nat /\ n <= uri_end BY <1>0
<1>2. exten' \in Slice
  <2>1. CASE uri_ext = None BY <2>1 DEF FinishDone
  <2>2. CASE uri_ext # None
    <3>1. uri_ext \in Nat /\ uri_ext <= uri_end + 1 BY <1>0, <2>2
    <3>2. wrapping_sub(n, uri_ext) \in Nat
      BY <1>0, <1>1, <3>1, OffsetFits DEF wrapping_sub
    <3> QED BY <2>2, <3>1, <3>2 DEF FinishDone, Slice
  <2> QED BY <2>1, <2>2
<1> QED BY <1>0, <1>1, <1>2 DEF FinishDone

LEMMA StageTwoType ==
  ASSUME TypeInv, ParseComplexUriStep, UNCHANGED input
  PROVE  TypeInv'
<1> USE DEF TypeInv, TypeOK, Cursor, Fits, Lag, States, Unquoted, Option,
            input, flags, marks, fields, locals, Stay
<1>0. /\ uri_end \in Nat /\ uri_end' = uri_end /\ TargetOK'
      /\ Reading => pc = "complex" /\ p <= uri_end
  BY ReadType, ReadStable DEF Reading
<1>1. CASE Percent BY <1>0, <1>1, AdvanceType DEF Percent
<1>2. CASE OpenSegment BY <1>0, <1>2, AdvanceType, EmitType DEF OpenSegment
<1>3. CASE RepeatSlash BY <1>0, <1>3, AdvanceType, EmitType DEF RepeatSlash
<1>4. CASE ExtensionDot BY <1>0, <1>4, AdvanceType, EmitType DEF ExtensionDot
<1>5. CASE LeadingDot BY <1>0, <1>5, AdvanceType, EmitType DEF LeadingDot
<1>6. CASE PlainByte BY <1>0, <1>6, AdvanceType, EmitType DEF PlainByte
<1>7. CASE CloseDotSegment
  BY <1>0, <1>7, AdvanceType, PathEndsType DEF CloseDotSegment
<1>8. CASE EscapeRoot BY <1>0, <1>8 DEF EscapeRoot, Fail
<1>9. CASE QuestionMark
  <2> PICK n \in PathEnds : FinishArgs(n) BY <1>9 DEF QuestionMark
  <2>1. n \in 0 .. u BY PathEndsType
  <2>2. pc = "complex" /\ p <= uri_end BY <1>0, <1>9 DEF QuestionMark
  <2>3. args_start' \in Option(Nat \ {0}) /\ args' \in Slice
    <3>1. CASE args_start' = p /\ UNCHANGED args BY <2>2, <3>1
    <3>2. CASE \E i \in p .. uri_end - 1 :
                 args' = [len |-> wrapping_sub(i, p), data |-> p] /\ args_start' = None
      BY <1>0, <3>2 DEF wrapping_sub, Slice
    <3> QED BY <3>1, <3>2 DEF FinishArgs
  <2> QED BY <2>1, <2>2, <2>3, FinishDoneType DEF FinishArgs
<1>10. CASE HashMark
  <2> PICK n \in PathEnds : FinishDone(n) BY <1>10 DEF HashMark
  <2>1. n \in 0 .. u BY PathEndsType
  <2> QED BY <1>0, <1>10, <2>1, FinishDoneType DEF HashMark
<1>11. CASE EndOfPath
  <2> PICK n \in PathEnds : FinishDone(n) BY <1>11 DEF EndOfPath
  <2>1. n \in 0 .. u BY PathEndsType
  <2> QED BY <1>11, <2>1, FinishDoneType DEF EndOfPath
<1>12. CASE QuotedFirst BY <1>0, <1>12, AdvanceType, EscapeType DEF QuotedFirst
<1>13. CASE LiteralEscape
  BY <1>0, <1>13, AdvanceType, EscapeType, WriteType DEF LiteralEscape
<1>14. CASE DecodedByte BY <1>0, <1>14, EscapeType DEF DecodedByte
<1>15. CASE RejectEscape BY <1>0, <1>15 DEF RejectEscape, Fail
<1> QED BY <1>1, <1>2, <1>3, <1>4, <1>5, <1>6, <1>7, <1>8, <1>9, <1>10, <1>11,
        <1>12, <1>13, <1>14, <1>15 DEF ParseComplexUriStep

LEMMA CallType ==
  ASSUME TypeInv, UNCHANGED input,
         \/ RejectEmpty \/ CallParseUri \/ CallParseComplexUri
         \/ ReturnBorrowed \/ ReturnOwned
  PROVE  TypeInv'
<1> USE DEF TypeInv, TypeOK, Cursor, Fits, UriStates, States, Unquoted, Option,
            input, flags, marks, fields, locals, Scanned, Lag
<1>0. /\ uri_end \in Nat /\ uri_end' = uri_end /\ TargetOK'
      /\ ReadWithLf(0) \in Byte
  BY ReadType, ReadStable
<1>1. CASE RejectEmpty BY <1>0, <1>1 DEF RejectEmpty, Fail
<1>2. CASE CallParseUri BY <1>0, <1>2 DEF CallParseUri
<1>3. CASE CallParseComplexUri
  <2>1. out' \in [0 .. uri_end -> Byte] BY <1>3 DEF CallParseComplexUri, Byte
  <2> QED BY <1>0, <1>3, <2>1 DEF CallParseComplexUri
<1>4. parsed_args \in Option(Slice) BY <1>0 DEF parsed_args, Slice
<1> USE DEF Outcome
<1>5. CASE ReturnBorrowed BY <1>0, <1>4, <1>5 DEF ReturnBorrowed, Return
<1>6. CASE ReturnOwned BY <1>0, <1>4, <1>6 DEF ReturnOwned, Return
<1> QED BY <1>1, <1>2, <1>3, <1>5, <1>6

(* No step changes the arguments.                                          *)
LEMMA NextKeepsInput == Next => UNCHANGED input
<1>1. ParseUriStep => UNCHANGED input
  BY DEF ParseUriStep, InitialSlash, MarkComplex, MarkQuoted, MarkArgs, MarkPlus,
         SegmentByte, NextSegment, MarkExtension, UsualRun, OpaqueByte, RefuseByte,
         Scan, Fail
<1>2. ParseComplexUriStep => UNCHANGED input
  BY DEF ParseComplexUriStep, Percent, OpenSegment, RepeatSlash, ExtensionDot,
         LeadingDot, PlainByte, CloseDotSegment, EscapeRoot, QuestionMark, HashMark,
         EndOfPath, QuotedFirst, LiteralEscape, DecodedByte, RejectEscape,
         Stay, Fail, FinishArgs, FinishDone
<1> QED
  BY <1>1, <1>2
  DEF Next, RejectEmpty, CallParseUri, CallParseComplexUri, ReturnBorrowed,
      ReturnOwned, Return, Fail

LEMMA NextTypeInv == TypeInv /\ [Next]_vars => TypeInv'
<1> SUFFICES ASSUME TypeInv, [Next]_vars PROVE TypeInv'
  OBVIOUS
<1>1. CASE Next
  BY <1>1, NextKeepsInput, StageOneType, StageTwoType, CallType DEF Next
<1>2. CASE UNCHANGED vars
  <2>1. uri_end' = uri_end /\ TargetOK' = TargetOK BY <1>2, ReadStable DEF vars
  <2> QED
    BY <1>2, <2>1 DEF vars, input, flags, marks, fields, locals, TypeInv, TypeOK, Cursor, Fits,
                     Lag
<1> QED BY <1>1, <1>2

(* Every variable keeps its type. *)
THEOREM TypeCorrect == Spec => []TypeOK
<1>1. TypeInv => TypeOK BY DEF TypeInv
<1> QED BY <1>1, InitTypeInv, NextTypeInv, PTL DEF Spec

(* The output never overtakes the input. *)
THEOREM OutputAlwaysFits == Spec => []OutputFits
<1>1. TypeInv => OutputFits
  <2> SUFFICES ASSUME TypeInv PROVE OutputFits
    OBVIOUS
  <2>1. uri_end \in Nat BY ReadType DEF TypeInv, TypeOK
  <2> QED BY <2>1 DEF TypeInv, TypeOK, Cursor, Lag, OutputFits, PathLen, States
<1> QED BY <1>1, InitTypeInv, NextTypeInv, PTL DEF Spec

-----------------------------------------------------------------------------
(* A step that reads decreases the measure whatever state it goes to, and  *)
(* so does leaving an escape without a read.                               *)
LEMMA Decreases ==
  ASSUME TypeInv, UNCHANGED input,
         \/ p' \in Nat /\ p' > p
         \/ p' = p /\ state = "QuotedSecond" /\ state' # "QuotedSecond"
  PROVE  Measure' < Measure
<1>1. uri_end \in Nat /\ uri_end' = uri_end /\ p \in Nat
  BY ReadType, ReadStable DEF TypeInv, TypeOK
<1>2. CASE p' \in Nat /\ p' > p
  <2> DEFINE Half == IF state = "QuotedSecond" THEN 1 ELSE 0
  <2>1. Half \in {0, 1} /\ Half' \in {0, 1}
    OBVIOUS
  <2>2. /\ Measure = 2 * (uri_end + 1 - p) + Half
        /\ Measure' = 2 * (uri_end + 1 - p') + Half'
    BY <1>1 DEF Measure
  <2> HIDE DEF Half
  <2>3. \A a, b \in Nat : \A i, j \in {0, 1} :
          b > a => 2 * (uri_end + 1 - b) + j < 2 * (uri_end + 1 - a) + i
    BY <1>1
  <2> QED BY <1>1, <1>2, <2>1, <2>2, <2>3
<1>3. CASE p' = p /\ state = "QuotedSecond" /\ state' # "QuotedSecond"
  BY <1>1, <1>3 DEF Measure
<1> QED BY <1>2, <1>3

LEMMA StepProgress ==
  ASSUME TypeInv, Next, pc' = pc
  PROVE  Measure' < Measure
<1>0. uri_end \in Nat /\ p \in Nat /\ UNCHANGED input
  BY ReadType, NextKeepsInput DEF TypeInv, TypeOK
<1>1. CASE ParseUriStep
  <2>1. ~RefuseByte BY DEF RefuseByte, Scanning, Fail
  <2>2. CASE UsualRun
    <3>1. PICK q \in p + 1 .. uri_end : p' = q BY <2>2 DEF UsualRun
    <3> QED BY <1>0, <3>1, Decreases
  <2>3. CASE ~UsualRun
    <3>1. p' = p + 1
      BY <1>1, <2>1, <2>3
      DEF ParseUriStep, InitialSlash, MarkComplex, MarkQuoted, MarkArgs, MarkPlus,
          SegmentByte, NextSegment, MarkExtension, OpaqueByte, Scan
    <3> QED BY <1>0, <3>1, Decreases
  <2> QED BY <2>2, <2>3
<1>2. CASE ParseComplexUriStep
  <2>1. ~EscapeRoot /\ ~RejectEscape BY DEF EscapeRoot, RejectEscape, Fail
  <2>2. ~QuestionMark /\ ~HashMark /\ ~EndOfPath
    BY DEF QuestionMark, HashMark, EndOfPath, FinishArgs, FinishDone, Reading
  <2>3. CASE DecodedByte
    <3>1. p' = p /\ state = "QuotedSecond" /\ state' = quoted_state
      BY <2>3 DEF DecodedByte, Stay
    <3>2. quoted_state # "QuotedSecond" BY DEF TypeInv, TypeOK, Unquoted
    <3> QED BY <1>0, <3>1, <3>2, Decreases
  <2>4. CASE ~DecodedByte
    <3>1. p' = p + 1
      BY <1>2, <2>1, <2>2, <2>4
      DEF ParseComplexUriStep, Percent, OpenSegment, RepeatSlash, ExtensionDot,
          LeadingDot, PlainByte, CloseDotSegment, QuotedFirst, LiteralEscape, Advance
    <3> QED BY <1>0, <3>1, Decreases
  <2> QED BY <2>3, <2>4
<1>3. ~RejectEmpty /\ ~CallParseUri /\ ~CallParseComplexUri
      /\ ~ReturnBorrowed /\ ~ReturnOwned
  BY DEF RejectEmpty, CallParseUri, CallParseComplexUri, ReturnBorrowed, ReturnOwned,
         Return, Fail, Scanned
<1> QED BY <1>1, <1>2, <1>3 DEF Next

(* Every step of a stage decreases a natural number, also the one that     *)
(* processes a decoded byte without a read: no call runs for ever.         *)
THEOREM StepsProgress == Spec => Progress
<1>1. TypeInv /\ [Next]_vars => [pc' = pc => Measure' < Measure]_vars
  BY StepProgress
<1> QED BY <1>1, InitTypeInv, NextTypeInv, PTL DEF Spec, Progress
-----------------------------------------------------------------------------
(***************************************************************************)
(* What stage 2 knows about its output, and why the path that is returned  *)
(* is normal.                                                              *)
(***************************************************************************)

(* The bytes with an arm of their own are not usual, and neither is NUL.   *)
LEMMA NotUsual == (\A b \in Named : ~usual(b)) /\ ~usual(0)
<1>1. ~usual(DOT) /\ ~usual(PERCENT) /\ ~usual(SLASH)
  BY DEF DOT, PERCENT, SLASH, usual, USUAL, Word
<1>2. ~usual(QUESTION) /\ ~usual(HASH) /\ ~usual(PLUS)
  BY DEF QUESTION, HASH, PLUS, usual, USUAL, Word
<1>3. ~usual(0)
  BY DEF usual, USUAL, Word
<1> QED BY <1>1, <1>2, <1>3 DEF Named

-----------------------------------------------------------------------------
(***************************************************************************)
(* Predicates of the first n bytes of the buffer.                          *)
(***************************************************************************)
NoDotSegment(n) ==
  /\ \A i \in 0 .. n - 3 : ~(out[i] = SLASH /\ out[i + 1] = DOT /\ out[i + 2] = SLASH)
  /\ \A i \in 0 .. n - 4 : ~(/\ out[i] = SLASH /\ out[i + 1] = DOT
                             /\ out[i + 2] = DOT /\ out[i + 3] = SLASH)
NoEmptySegment(n) ==
  merge_slashes => \A i \in 0 .. n - 2 : ~(out[i] = SLASH /\ out[i + 1] = SLASH)
NoNul(n) == \A i \in 0 .. n - 1 : out[i] # 0
Rooted(n) == n > 0 => out[0] = SLASH

(* The segments that are closed are normal. *)
Closed(n) == NoDotSegment(n) /\ NoEmptySegment(n) /\ NoNul(n) /\ Rooted(n)

(* The segment that is open is a name: neither empty nor dots. *)
NameOpen(n) ==
  /\ out[n - 1] # SLASH
  /\ n > 1 => ~(out[n - 2] = SLASH /\ out[n - 1] = DOT)
  /\ n > 2 => ~(out[n - 3] = SLASH /\ out[n - 2] = DOT /\ out[n - 1] = DOT)

(* A prefix of closed segments is one again. *)
LEMMA ClosedPrefix ==
  ASSUME NEW n \in Nat, NEW m \in 0 .. n, Closed(n)
  PROVE  Closed(m)
BY DEF Closed, NoDotSegment, NoEmptySegment, NoNul, Rooted

(***************************************************************************)
(* One more byte: a slash closes a name, or repeats one where that is      *)
(* allowed; any other byte extends the open segment.                       *)
(***************************************************************************)
LEMMA ClosedWrite ==
  ASSUME TypeInv, u \in 0 .. uri_end, pc = "complex",
         NEW b \in Byte, b # 0, out' = [out EXCEPT ![u] = b], u' = u + 1,
         merge_slashes' = merge_slashes, Closed(u),
         \/ u = 0 /\ b = SLASH
         \/ u > 0 /\ b # SLASH
         \/ u > 0 /\ NameOpen(u)
         \/ u > 0 /\ out[u - 1] = SLASH /\ ~merge_slashes
  PROVE  /\ Closed(u)'
         /\ \A i \in 0 .. u - 1 : out'[i] = out[i]
         /\ out'[u] = b
<1>0. /\ \A i \in 0 .. u - 1 : out'[i] = out[i]
      /\ out'[u] = b
      /\ u \in Nat
  BY DEF TypeInv, TypeOK
<1>1. NoNul(u)' BY <1>0 DEF NoNul, Closed
<1>2. Rooted(u)' BY <1>0 DEF Rooted, Closed
<1>3. NoEmptySegment(u)'
  <2> SUFFICES ASSUME merge_slashes', NEW i \in 0 .. u' - 2
               PROVE  ~(out'[i] = SLASH /\ out'[i + 1] = SLASH)
    BY DEF NoEmptySegment
  <2>1. CASE i < u - 1 BY <1>0, <2>1 DEF NoEmptySegment, Closed
  <2>2. CASE i = u - 1 BY <1>0, <2>2 DEF NameOpen
  <2> QED BY <1>0, <2>1, <2>2
<1>4. NoDotSegment(u)'
  <2>1. ASSUME NEW i \in 0 .. u' - 3
        PROVE  ~(out'[i] = SLASH /\ out'[i + 1] = DOT /\ out'[i + 2] = SLASH)
    <3>1. CASE i < u - 2 BY <1>0, <3>1 DEF NoDotSegment, Closed
    <3>2. CASE i = u - 2 BY <1>0, <3>2 DEF NameOpen, SLASH, DOT
    <3> QED BY <1>0, <2>1, <3>1, <3>2
  <2>2. ASSUME NEW i \in 0 .. u' - 4
        PROVE  ~(/\ out'[i] = SLASH /\ out'[i + 1] = DOT
                 /\ out'[i + 2] = DOT /\ out'[i + 3] = SLASH)
    <3>1. CASE i < u - 3 BY <1>0, <3>1 DEF NoDotSegment, Closed
    <3>2. CASE i = u - 3 BY <1>0, <3>2 DEF NameOpen, SLASH, DOT
    <3> QED BY <1>0, <2>2, <3>1, <3>2
  <2> QED BY <2>1, <2>2 DEF NoDotSegment
<1> QED BY <1>0, <1>1, <1>2, <1>3, <1>4 DEF Closed

-----------------------------------------------------------------------------
(***************************************************************************)
(* Stage 1: the scanned bytes hold no NUL and, unless a flag calls for     *)
(* stage 2, no slash is followed by a slash or a dot.                      *)
(***************************************************************************)
Simple(n) == \A i \in 0 .. n - 2 : At(i) = SLASH => At(i + 1) \notin {SLASH, DOT}
Clean(n)  == \A i \in 0 .. n - 1 : At(i) # 0

ScanInv ==
  pc = "uri" =>
    /\ uri_end > 0
    /\ state = "Start" <=> p = 0
    /\ p > 0 => At(0) = SLASH
    /\ Clean(p)
    /\ ~NeedsNormalization =>
         /\ state # "Uri" => args_start = None /\ Simple(p)
         /\ state = "CheckUri" => At(p - 1) # SLASH
         /\ state = "Uri" => /\ args_start # None /\ args_start > 1
                             /\ args_start <= p /\ Simple(args_start - 1)

(* The bytes stage 1 passes are not NUL, and those of a segment are        *)
(* neither a slash nor a dot.                                              *)
LEMMA Passed ==
  /\ \A b \in Byte : usual(b) => b \notin {0, SLASH, DOT}
  /\ \A b \in Ordinary : b \notin {0, SLASH, DOT}
  /\ \A b \in Opaque : b # 0
  /\ 0 \notin Named
<1>1. \A b \in Byte : usual(b) => b \notin {0, SLASH, DOT}
  BY NotUsual DEF Named
<1>2. 0 \notin Named
  BY DEF Named, DOT, PERCENT, SLASH, QUESTION, HASH, PLUS
<1>3. Refused(0)
  BY DEF Refused
<1>4. \A b \in Ordinary : b \notin {0, SLASH, DOT}
  BY <1>1, <1>3 DEF Ordinary, Named
<1>5. 0 # HASH
  BY DEF HASH
<1>6. \A b \in Opaque : b # 0
  BY <1>1, <1>3, <1>5 DEF Opaque
<1> QED BY <1>1, <1>2, <1>4, <1>6

LEMMA StageOneScan ==
  ASSUME TypeInv, ScanInv, ParseUriStep, UNCHANGED input
  PROVE  ScanInv'
<1>0. /\ uri_end \in Nat /\ uri_end' = uri_end
      /\ \A i : At(i)' = At(i)
      /\ p \in Nat /\ p \in 0 .. uri_end /\ uri_end > 0
      /\ pc = "uri" /\ state \in UriStates /\ Seen = At(p)
  BY ReadType, ReadStable
  DEF TypeInv, TypeOK, Cursor, ParseUriStep, InitialSlash, MarkComplex, MarkQuoted,
      MarkArgs, MarkPlus, SegmentByte, NextSegment, MarkExtension, UsualRun,
      OpaqueByte, RefuseByte, Scanning, ScanInv, Seen
<1>1. ASSUME At(p) # 0, p' = p + 1
      PROVE  Clean(p)'
  BY <1>0, <1>1 DEF ScanInv, Clean
<1>2. ASSUME Simple(p), p' = p + 1, p > 0,
             At(p - 1) = SLASH => At(p) \notin {SLASH, DOT}
      PROVE  Simple(p)'
  <2> SUFFICES ASSUME NEW i \in 0 .. p - 1, At(i) = SLASH
               PROVE  At(i + 1) \notin {SLASH, DOT}
    BY <1>0, <1>2 DEF Simple
  <2>1. CASE i < p - 1 BY <1>0, <1>2, <2>1 DEF Simple
  <2>2. CASE i = p - 1 BY <1>0, <1>2, <2>2
  <2> QED BY <1>0, <2>1, <2>2
<1>3. ASSUME args_start' = p + 1, Simple(p)
      PROVE  Simple(args_start - 1)'
  BY <1>0, <1>3 DEF Simple
<1>4. ASSUME args_start' = args_start, args_start \in Nat, Simple(args_start - 1)
      PROVE  Simple(args_start - 1)'
  BY <1>0, <1>4 DEF Simple
<1>5. args_start # None => args_start \in Nat
  BY DEF TypeInv, TypeOK, Option
<1> USE <1>0, <1>1 DEF ScanInv, NeedsNormalization, Scanning, Scan, UriStates, flags, marks
<1>6. CASE InitialSlash
  <2>1. p = 0 /\ p' = 1 BY <1>6 DEF InitialSlash
  <2>2. Simple(p)' BY <2>1 DEF Simple
  <2>3. At(p) = SLASH /\ At(p) # 0 BY <1>6 DEF InitialSlash, SLASH
  <2> QED BY <1>6, <2>1, <2>2, <2>3 DEF InitialSlash
<1>7. CASE MarkComplex
  BY <1>7, Passed DEF MarkComplex, ComplexAfterSlash, Sees, Named
<1>8. CASE MarkQuoted BY <1>8, Passed DEF MarkQuoted, Sees, Named
<1>9. CASE MarkArgs
  <2>1. At(p) # 0 BY <1>9 DEF MarkArgs, Sees, QUESTION
  <2>2. p > 0 /\ args_start' = p + 1 BY <1>9 DEF MarkArgs
  <2>3. ~NeedsNormalization' => Simple(args_start - 1)'
    BY <1>3, <1>9, <2>2 DEF MarkArgs
  <2> QED BY <1>9, <2>1, <2>2, <2>3, NoneAssumption DEF MarkArgs
<1>10. CASE MarkPlus
  <2>1. At(p) # 0 /\ At(p) \notin {SLASH, DOT}
    BY <1>10 DEF MarkPlus, Sees, PLUS, SLASH, DOT
  <2> QED BY <1>2, <1>10, <2>1 DEF MarkPlus
<1>11. CASE SegmentByte
  BY <1>2, <1>11, Passed DEF SegmentByte
<1>12. CASE NextSegment
  BY <1>2, <1>12, Passed DEF NextSegment, Sees, Named
<1>13. CASE MarkExtension
  <2>1. At(p) # 0 /\ At(p) # SLASH
    BY <1>13 DEF MarkExtension, Sees, SLASH, DOT
  <2> QED BY <1>2, <1>13, <2>1 DEF MarkExtension
<1>14. CASE UsualRun
  <2> PICK q \in p + 1 .. uri_end :
             /\ \A i \in p + 1 .. q - 1 : usual(At(i))
             /\ p' = q
    BY <1>14 DEF UsualRun
  <2>1. \A i \in p .. q - 1 : At(i) \notin {0, SLASH, DOT}
    <3>1. At(p) \notin {0, SLASH, DOT} BY <1>14, Passed DEF UsualRun
    <3>2. \A i \in p + 1 .. q - 1 : At(i) \in Byte
      BY ReadType DEF TypeInv, TypeOK
    <3> QED BY <3>1, <3>2, Passed
  <2>2. Clean(p)' BY <2>1 DEF Clean
  <2>3. ~NeedsNormalization => Simple(p)'
    BY <1>14, <2>1 DEF Simple, UsualRun
  <2> QED BY <1>14, <2>1, <2>2, <2>3 DEF UsualRun
<1>15. CASE OpaqueByte
  BY <1>4, <1>5, <1>15, Passed DEF OpaqueByte
<1>16. CASE RefuseByte BY <1>16 DEF RefuseByte, Fail
<1> QED BY <1>6, <1>7, <1>8, <1>9, <1>10, <1>11, <1>12, <1>13, <1>14, <1>15, <1>16
        DEF ParseUriStep

-----------------------------------------------------------------------------
(***************************************************************************)
(* Stage 2: what the buffer and the byte at hand hold in each state.       *)
(***************************************************************************)
OutputInv ==
  pc = "complex" =>
    /\ uri_end > 0 /\ Clean(uri_end) /\ ch # 0
    /\ Closed(u)
    /\ u = 0 => p = 1 /\ state = "Usual" /\ ch = SLASH
    /\ (Resume = "Usual" /\ u > 0) => NameOpen(u)
    /\ Resume = "Slash"  => u > 0 /\ out[u - 1] = SLASH
    /\ Resume = "Dot"    => u > 1 /\ out[u - 2] = SLASH /\ out[u - 1] = DOT
    /\ Resume = "DotDot" => /\ u > 2 /\ out[u - 3] = SLASH
                            /\ out[u - 2] = DOT /\ out[u - 1] = DOT

(* The first n bytes of the buffer are a normal path. *)
NormalOut(n) == n > 0 /\ Closed(n) /\ (out[n - 1] = SLASH \/ NameOpen(n))

ReturnInv ==
  /\ pc = "normalized" => NormalOut(uri_len)
  /\ pc = "ok" => IF result.owned THEN NormalOut(result.len)
                  ELSE /\ result.len > 0 /\ At(0) = SLASH
                       /\ Clean(result.len) /\ Simple(result.len)

(* A byte read in stage 2 is not NUL. *)
LEMMA ReadNotNul ==
  ASSUME uri_end \in Nat, Clean(uri_end), NEW i \in Nat
  PROVE  ReadWithLf(i) # 0
BY DEF ReadWithLf, Clean, LF

(* Where the path ends once a last segment of dots is resolved. *)
LEMMA PathEndsNormal ==
  ASSUME TypeInv, OutputInv, pc = "complex", state \in Unquoted, u > 0,
         NEW n \in PathEnds
  PROVE  /\ n \in 1 .. u /\ NormalOut(n)
         /\ state \in {"Dot", "DotDot"} => out[n - 1] = SLASH
<1>1. u \in Nat BY DEF TypeInv, TypeOK
<1>2. CASE state = "Dot"
  <2>1. n = u - 1 /\ u > 1 /\ out[u - 2] = SLASH
    BY <1>2 DEF PathEnds, OutputInv, Resume, Unquoted
  <2>2. Closed(n) BY <1>1, <2>1, ClosedPrefix DEF OutputInv
  <2> QED BY <1>1, <1>2, <2>1, <2>2 DEF NormalOut
<1>3. CASE state = "DotDot"
  <2>1. n \in 1 .. u /\ out[n - 1] = SLASH
    BY <1>1, <1>3 DEF PathEnds
  <2>2. Closed(n) BY <1>1, <2>1, ClosedPrefix DEF OutputInv
  <2> QED BY <1>1, <1>3, <2>1, <2>2 DEF NormalOut
<1>4. CASE state \in {"Usual", "Slash"}
  <2>1. n = u BY <1>4 DEF PathEnds
  <2>2. NameOpen(u) \/ out[u - 1] = SLASH
    BY <1>4 DEF OutputInv, Resume, Unquoted
  <2> QED BY <1>1, <1>4, <2>1, <2>2 DEF NormalOut, OutputInv
<1> QED BY <1>2, <1>3, <1>4 DEF Unquoted

(* A byte that is not a slash leaves the open segment a name, but for the  *)
(* dots that open it.                                                      *)
LEMMA NameWrite ==
  ASSUME TypeInv, OutputInv, pc = "complex", u \in 1 .. uri_end,
         NEW b \in Byte, b # 0, b # SLASH,
         out' = [out EXCEPT ![u] = b], u' = u + 1, merge_slashes' = merge_slashes,
         Resume \in {"Slash", "Dot"} => b # DOT
  PROVE  Closed(u)' /\ NameOpen(u)'
<1>1. /\ u \in Nat /\ uri_end \in Nat /\ Closed(u) /\ Resume \in Unquoted
      /\ u \in 0 .. uri_end /\ u > 0
  BY ReadType DEF TypeInv, TypeOK, OutputInv, Resume, Unquoted
<1>2. /\ Closed(u)'
      /\ \A i \in 0 .. u - 1 : out'[i] = out[i]
      /\ out'[u] = b
  BY <1>1, ClosedWrite
<1>3. CASE Resume = "Usual"
  <2>1. NameOpen(u) BY <1>1, <1>3 DEF OutputInv
  <2> QED BY <1>1, <1>2, <2>1 DEF NameOpen
<1>4. CASE Resume \in {"Slash", "Dot"}
  BY <1>1, <1>2, <1>4 DEF NameOpen
<1>5. CASE Resume = "DotDot"
  <2>1. u > 2 /\ out[u - 2] = DOT /\ out[u - 1] = DOT
    BY <1>5 DEF OutputInv
  <2> QED BY <1>1, <1>2, <2>1 DEF NameOpen, DOT, SLASH
<1> QED BY <1>1, <1>3, <1>4, <1>5 DEF Unquoted

LEMMA StageTwoOutput ==
  ASSUME TypeInv, OutputInv, ParseComplexUriStep, UNCHANGED input
  PROVE  OutputInv' /\ ReturnInv'
<1>0. /\ uri_end \in Nat /\ uri_end' = uri_end /\ Clean(uri_end)' = Clean(uri_end)
      /\ merge_slashes' = merge_slashes
      /\ p \in Nat /\ u \in Nat /\ ch \in Byte
      /\ pc = "complex" /\ state \in States /\ quoted_state \in Unquoted
      /\ Reading => u \in 0 .. uri_end /\ p <= uri_end
      /\ ReadWithLf(p) # 0
  <2>1. /\ uri_end \in Nat /\ uri_end' = uri_end /\ Clean(uri_end)' = Clean(uri_end)
        /\ merge_slashes' = merge_slashes
    BY ReadType, ReadStable DEF TypeInv, TypeOK, input, Clean
  <2>2. pc = "complex"
    BY DEF ParseComplexUriStep, Percent, OpenSegment, RepeatSlash, ExtensionDot,
           LeadingDot, PlainByte, CloseDotSegment, EscapeRoot, QuestionMark, HashMark,
           EndOfPath, QuotedFirst, LiteralEscape, DecodedByte, RejectEscape, Reading
  <2>3. /\ p \in Nat /\ u \in Nat /\ ch \in Byte
        /\ state \in States /\ quoted_state \in Unquoted
    BY <2>2 DEF TypeInv, TypeOK
  <2>4. Reading => u \in 0 .. uri_end /\ p <= uri_end
    BY <2>1, <2>2, <2>3 DEF TypeInv, Cursor, Lag, Reading
  <2>5. ReadWithLf(p) # 0
    BY <2>1, <2>2, <2>3, ReadNotNul DEF OutputInv
  <2> QED BY <2>1, <2>2, <2>3, <2>4, <2>5
<1>1. ASSUME u' = u, out' = out
      PROVE  /\ Closed(u)' = Closed(u) /\ NameOpen(u)' = NameOpen(u)
  BY <1>0, <1>1 DEF Closed, NoDotSegment, NoEmptySegment, NoNul, Rooted, NameOpen
<1>2. CASE Percent
  <2>1. u > 0 BY <1>0, <1>2 DEF Percent, OutputInv, Is, PERCENT, SLASH
  <2>2. Resume' = Resume /\ u' = u /\ out' = out
    BY <1>2 DEF Percent, Resume, Stay, Unquoted
  <2> QED BY <1>0, <1>1, <1>2, <2>1, <2>2
          DEF Percent, OutputInv, ReturnInv, Stay, Advance
<1>3. CASE OpenSegment
  <2>1. Reading /\ Emit /\ ch = SLASH /\ state = "Usual" /\ Resume = "Usual"
    BY <1>3 DEF OpenSegment, Is, Resume, Unquoted
  <2>2. u = 0 \/ NameOpen(u) BY <1>0, <2>1 DEF OutputInv
  <2>3. Closed(u)' /\ out'[u] = SLASH /\ u' = u + 1
    <3>1. /\ ch # 0 /\ Closed(u) /\ out' = [out EXCEPT ![u] = ch] /\ u' = u + 1
          /\ u \in 0 .. uri_end
      BY <1>0, <2>1 DEF OutputInv, Emit
    <3>2. \/ u = 0 /\ ch = SLASH
          \/ u > 0 /\ NameOpen(u)
      BY <1>0, <2>1, <2>2
    <3> QED BY <1>0, <2>1, <3>1, <3>2, ClosedWrite
  <2>4. Resume' = "Slash" BY <1>3 DEF OpenSegment, Stay, Resume, Unquoted
  <2> QED BY <1>0, <1>3, <2>3, <2>4
          DEF OpenSegment, OutputInv, ReturnInv, Stay, Advance
<1>4. CASE RepeatSlash
  <2>1. /\ Reading /\ ch = SLASH /\ state = "Slash" /\ Resume = "Slash"
        /\ u > 0 /\ out[u - 1] = SLASH /\ Resume' = "Slash"
    BY <1>0, <1>4 DEF RepeatSlash, Is, Resume, Unquoted, OutputInv, Stay
  <2>2. CASE merge_slashes
    <3>1. u' = u /\ out' = out BY <1>4, <2>2 DEF RepeatSlash
    <3> QED BY <1>0, <1>1, <1>4, <2>1, <3>1
            DEF RepeatSlash, OutputInv, ReturnInv, Stay, Advance
  <2>3. CASE ~merge_slashes
    <3>1. Emit BY <1>4, <2>3 DEF RepeatSlash
    <3>2. Closed(u)' /\ out'[u] = SLASH /\ u' = u + 1
      BY <1>0, <2>1, <2>3, <3>1, ClosedWrite DEF OutputInv, Emit
    <3> QED BY <1>0, <1>4, <2>1, <3>2
            DEF RepeatSlash, OutputInv, ReturnInv, Stay, Advance
  <2> QED BY <1>0, <2>2, <2>3 DEF TypeInv, TypeOK
<1>5. CASE ExtensionDot
  <2>1. /\ Reading /\ Emit /\ ch = DOT /\ Resume = "Usual" /\ u > 0
        /\ Resume' = "Usual" /\ u' = u + 1 /\ DOT # SLASH /\ DOT # 0
    BY <1>0, <1>5
    DEF ExtensionDot, Is, Resume, Unquoted, OutputInv, Stay, Emit, DOT, SLASH
  <2>2. Closed(u)' /\ NameOpen(u)'
    <3>1. /\ ch # 0 /\ out' = [out EXCEPT ![u] = ch] /\ u \in 1 .. uri_end
      BY <1>0, <2>1 DEF OutputInv, Emit
    <3> QED BY <1>0, <2>1, <3>1, NameWrite
  <2> QED BY <1>0, <1>5, <2>1, <2>2
          DEF ExtensionDot, OutputInv, ReturnInv, Stay, Advance
<1>6. CASE LeadingDot
  <2>1. /\ Reading /\ Emit /\ ch = DOT /\ Resume = state /\ u > 0
        /\ u' = u + 1 /\ DOT # SLASH /\ DOT \in Byte
    BY <1>0, <1>6
    DEF LeadingDot, Is, Resume, Unquoted, OutputInv, Emit, DOT, SLASH
  <2>2. /\ Closed(u)' /\ out'[u] = DOT
        /\ \A i \in 0 .. u - 1 : out'[i] = out[i]
    BY <1>0, <2>1, ClosedWrite DEF OutputInv, Emit
  <2>3. CASE state = "Slash"
    <3>1. out[u - 1] = SLASH /\ Resume' = "Dot"
      BY <1>0, <1>6, <2>1, <2>3 DEF OutputInv, LeadingDot, Stay, Resume, Unquoted
    <3> QED BY <1>0, <1>6, <2>1, <2>2, <3>1
            DEF LeadingDot, OutputInv, ReturnInv, Stay, Advance
  <2>4. CASE state = "Dot"
    <3>1. /\ u > 1 /\ out[u - 2] = SLASH /\ out[u - 1] = DOT /\ Resume' = "DotDot"
      BY <1>0, <1>6, <2>1, <2>4 DEF OutputInv, LeadingDot, Stay, Resume, Unquoted
    <3> QED BY <1>0, <1>6, <2>1, <2>2, <3>1
            DEF LeadingDot, OutputInv, ReturnInv, Stay, Advance
  <2> QED BY <1>6, <2>3, <2>4 DEF LeadingDot
<1>7. CASE PlainByte
  <2>1. Reading /\ Emit /\ Resume = state /\ Resume' = "Usual"
    BY <1>7 DEF PlainByte, Resume, Unquoted, Stay
  <2>2. ch # SLASH /\ (state # "DotDot" => ch # DOT)
    BY <1>7, NotUsual DEF PlainByte, Is, Arms, Named, SLASH, DOT, PLUS
  <2>3. u > 0 /\ u' = u + 1 BY <1>0, <2>1, <2>2 DEF OutputInv, Emit
  <2>4. Closed(u)' /\ NameOpen(u)'
    <3>1. /\ ch # 0 /\ out' = [out EXCEPT ![u] = ch] /\ u \in 1 .. uri_end
      BY <1>0, <2>1, <2>3 DEF OutputInv, Emit
    <3> QED BY <1>0, <2>1, <2>2, <2>3, <3>1, NameWrite
  <2> QED BY <1>0, <1>7, <2>1, <2>3, <2>4
          DEF PlainByte, OutputInv, ReturnInv, Stay, Advance
<1>8. CASE CloseDotSegment
  <2>1. /\ u > 0 /\ u' \in PathEnds /\ state \in {"Dot", "DotDot"} /\ out' = out
        /\ Resume' = "Slash"
    BY <1>0, <1>8
    DEF CloseDotSegment, Stay, OutputInv, Resume, Unquoted
  <2>2. u' \in 1 .. u /\ NormalOut(u') /\ out[u' - 1] = SLASH
    BY <1>0, <2>1, PathEndsNormal DEF Unquoted
  <2>3. Closed(u)'
    BY <1>0, <2>1, <2>2
    DEF NormalOut, Closed, NoDotSegment, NoEmptySegment, NoNul, Rooted
  <2> QED BY <1>0, <1>8, <2>1, <2>2, <2>3
          DEF CloseDotSegment, OutputInv, ReturnInv, Stay, Advance
<1>9. CASE EscapeRoot \/ RejectEscape
  BY <1>9 DEF EscapeRoot, RejectEscape, Fail, OutputInv, ReturnInv
<1>10. ASSUME state \in Unquoted, NEW n \in PathEnds, FinishDone(n), u > 0
       PROVE  OutputInv' /\ ReturnInv'
  <2>1. NormalOut(n) BY <1>0, <1>10, PathEndsNormal
  <2>2. uri_len' = n /\ out' = out /\ pc' = "normalized"
    BY <1>10 DEF FinishDone
  <2>3. NormalOut(uri_len)'
    BY <1>0, <2>1, <2>2
    DEF NormalOut, Closed, NoDotSegment, NoEmptySegment, NoNul, Rooted, NameOpen
  <2> QED BY <2>2, <2>3 DEF OutputInv, ReturnInv
<1>11. CASE QuestionMark
  <2>1. u > 0 BY <1>0, <1>11 DEF QuestionMark, Is, QUESTION, SLASH, OutputInv
  <2> QED BY <1>10, <1>11, <2>1 DEF QuestionMark, FinishArgs
<1>12. CASE HashMark
  <2>1. u > 0 BY <1>0, <1>12 DEF HashMark, Is, HASH, SLASH, OutputInv
  <2> QED BY <1>10, <1>12, <2>1 DEF HashMark
<1>13. CASE EndOfPath
  <2>1. u > 0 BY <1>0, <1>13 DEF EndOfPath, Reading, OutputInv
  <2> QED BY <1>10, <1>13, <2>1 DEF EndOfPath
<1>14. CASE QuotedFirst
  <2>1. u > 0 BY <1>0, <1>14 DEF QuotedFirst, OutputInv
  <2>2. Resume' = Resume /\ u' = u /\ out' = out
    BY <1>14 DEF QuotedFirst, Resume, Stay, Unquoted
  <2> QED BY <1>0, <1>1, <1>14, <2>1, <2>2
          DEF QuotedFirst, OutputInv, ReturnInv, Stay, Advance
<1>15. CASE LiteralEscape
  <2>1. /\ Reading /\ Resume' = "Usual" /\ u > 0 /\ u' = u + 1
        /\ out' = [out EXCEPT ![u] = Value] /\ Value \in Byte
    BY <1>0, <1>15, EscapeType
    DEF LiteralEscape, Resume, Stay, Unquoted, OutputInv
  <2>2. Value \notin {0, SLASH, DOT}
    BY <1>15 DEF LiteralEscape, Literals, PERCENT, HASH, QUESTION, SLASH, DOT
  <2>3. Closed(u)' /\ NameOpen(u)'
    <3>1. u \in 1 .. uri_end /\ Resume \in Unquoted
      BY <1>0, <2>1 DEF Resume, Unquoted
    <3>2. Value # 0 /\ Value # SLASH /\ Value # DOT BY <2>2
    <3> QED BY <1>0, <2>1, <3>1, <3>2, NameWrite
  <2> QED BY <1>0, <1>15, <2>1, <2>3
          DEF LiteralEscape, OutputInv, ReturnInv, Stay, Advance
<1>16. CASE DecodedByte
  <2>1. u > 0 /\ ch' # 0 BY <1>0, <1>16 DEF DecodedByte, OutputInv
  <2>2. Resume' = Resume /\ u' = u /\ out' = out
    BY <1>0, <1>16 DEF DecodedByte, Resume, Stay, Unquoted
  <2> QED BY <1>0, <1>1, <1>16, <2>1, <2>2
          DEF DecodedByte, OutputInv, ReturnInv, Stay
<1> QED BY <1>2, <1>3, <1>4, <1>5, <1>6, <1>7, <1>8, <1>9, <1>11, <1>12, <1>13,
        <1>14, <1>15, <1>16 DEF ParseComplexUriStep

-----------------------------------------------------------------------------
PathInv == TypeInv /\ ScanInv /\ OutputInv /\ ReturnInv

LEMMA CallPath ==
  ASSUME PathInv, UNCHANGED input,
         \/ RejectEmpty \/ CallParseUri \/ CallParseComplexUri
         \/ ReturnBorrowed \/ ReturnOwned
  PROVE  ScanInv' /\ OutputInv' /\ ReturnInv'
<1>0. /\ uri_end \in Nat /\ uri_end' = uri_end /\ \A i : At(i)' = At(i)
  BY ReadType, ReadStable DEF PathInv, TypeInv, TypeOK
<1>1. CASE RejectEmpty
  BY <1>1 DEF RejectEmpty, Fail, ScanInv, OutputInv, ReturnInv
<1>2. CASE CallParseUri
  <2>1. p' = 0 /\ state' = "Start" /\ args_start' = None /\ pc' = "uri" /\ uri_end > 0
    BY <1>0, <1>2 DEF CallParseUri, PathInv, TypeInv, Cursor, marks
  <2> QED BY <1>0, <2>1 DEF ScanInv, OutputInv, ReturnInv, Clean, Simple, UriStates
<1>3. CASE CallParseComplexUri
  <2>1. /\ pc' = "complex" /\ p' = 1 /\ u' = 0 /\ state' = "Usual" /\ quoted_state' = "Usual"
        /\ ch' = ReadWithLf(0) /\ pc = "uri" /\ p = uri_end
    BY <1>3 DEF CallParseComplexUri, Scanned
  <2>2. uri_end > 0 /\ At(0) = SLASH /\ Clean(uri_end)
    BY <1>0, <2>1 DEF PathInv, ScanInv
  <2>3. ch' = SLASH /\ ch' # 0 BY <2>1, <2>2 DEF ReadWithLf, SLASH
  <2>4. Closed(u)'
    BY <2>1 DEF Closed, NoDotSegment, NoEmptySegment, NoNul, Rooted
  <2>5. Clean(uri_end)' BY <1>0, <2>2 DEF Clean
  <2>6. Resume' = "Usual" BY <2>1 DEF Resume, Unquoted
  <2> QED BY <1>0, <2>1, <2>2, <2>3, <2>4, <2>5, <2>6 DEF ScanInv, OutputInv, ReturnInv
<1>4. CASE ReturnBorrowed
  <2>1. /\ pc = "uri" /\ p = uri_end /\ ~NeedsNormalization /\ pc' = "ok"
        /\ result'.owned = FALSE
        /\ result'.len = IF args_start = None THEN uri_end ELSE args_start - 1
    BY <1>4 DEF ReturnBorrowed, Return, Scanned
  <2>2. state \in UriStates /\ (args_start # None => args_start \in Nat)
    BY <2>1 DEF PathInv, TypeInv, TypeOK, Option
  <2>3. uri_end > 0 /\ Clean(uri_end) /\ At(0) = SLASH
    BY <1>0, <2>1 DEF PathInv, ScanInv
  <2>4. /\ result'.len \in 1 .. uri_end
        /\ Simple(result'.len)
    BY <1>0, <2>1, <2>2, <2>3 DEF PathInv, ScanInv, UriStates
  <2>5. Clean(result.len)' /\ Simple(result.len)'
    BY <1>0, <2>3, <2>4 DEF Clean, Simple
  <2> QED BY <1>0, <2>1, <2>3, <2>4, <2>5 DEF ScanInv, OutputInv, ReturnInv
<1>5. CASE ReturnOwned
  <2>1. /\ pc = "normalized" /\ pc' = "ok" /\ out' = out
        /\ result'.owned = TRUE /\ result'.len = uri_len
        /\ merge_slashes' = merge_slashes
    BY <1>5 DEF ReturnOwned, Return, locals, input
  <2>2. NormalOut(uri_len) BY <2>1 DEF PathInv, ReturnInv
  <2>3. NormalOut(result.len)'
    BY <2>1, <2>2
    DEF NormalOut, Closed, NoDotSegment, NoEmptySegment, NoNul, Rooted, NameOpen
  <2> QED BY <2>1, <2>3 DEF ScanInv, OutputInv, ReturnInv
<1> QED BY <1>1, <1>2, <1>3, <1>4, <1>5

LEMMA StutterPath ==
  ASSUME PathInv, UNCHANGED vars
  PROVE  ScanInv' /\ OutputInv' /\ ReturnInv'
<1>0. /\ uri_end' = uri_end /\ \A i : At(i)' = At(i)
  BY ReadStable DEF vars
<1> USE <1>0 DEF vars, input, flags, marks, fields, locals
<1>1. ScanInv' BY DEF PathInv, ScanInv, Clean, Simple, NeedsNormalization
<1>2. /\ Closed(u)' = Closed(u) /\ NameOpen(u)' = NameOpen(u)
      /\ Clean(uri_end)' = Clean(uri_end) /\ Resume' = Resume
  BY DEF Closed, NoDotSegment, NoEmptySegment, NoNul, Rooted, NameOpen, Clean, Resume
<1>3. OutputInv' BY <1>2 DEF PathInv, OutputInv
<1>4. /\ NormalOut(uri_len)' = NormalOut(uri_len)
      /\ NormalOut(result.len)' = NormalOut(result.len)
      /\ Clean(result.len)' = Clean(result.len)
      /\ Simple(result.len)' = Simple(result.len)
  BY DEF Closed, NoDotSegment, NoEmptySegment, NoNul, Rooted, NameOpen, Clean,
         Simple, NormalOut
<1>5. ReturnInv' BY <1>4 DEF PathInv, ReturnInv
<1> QED BY <1>1, <1>3, <1>5

LEMMA InitPathInv == Init => PathInv
BY InitTypeInv DEF Init, PathInv, ScanInv, OutputInv, ReturnInv

LEMMA NextPathInv == PathInv /\ [Next]_vars => PathInv'
<1> SUFFICES ASSUME PathInv, [Next]_vars PROVE PathInv'
  OBVIOUS
<1>0. TypeInv' BY NextTypeInv DEF PathInv
<1>1. CASE ParseUriStep /\ UNCHANGED input
  <2>1. pc' \in {"uri", "err"}
    BY <1>1
    DEF ParseUriStep, InitialSlash, MarkComplex, MarkQuoted, MarkArgs, MarkPlus,
        SegmentByte, NextSegment, MarkExtension, UsualRun, OpaqueByte, RefuseByte,
        Scanning, Scan, Fail
  <2>2. ScanInv' BY <1>1, StageOneScan DEF PathInv
  <2> QED BY <1>0, <2>1, <2>2 DEF PathInv, OutputInv, ReturnInv
<1>2. CASE ParseComplexUriStep /\ UNCHANGED input
  <2>1. pc' \in {"complex", "normalized", "err"}
    BY <1>2
    DEF ParseComplexUriStep, Percent, OpenSegment, RepeatSlash, ExtensionDot,
        LeadingDot, PlainByte, CloseDotSegment, EscapeRoot, QuestionMark, HashMark,
        EndOfPath, QuotedFirst, LiteralEscape, DecodedByte, RejectEscape, Reading,
        Stay, Fail, FinishArgs, FinishDone
  <2>2. OutputInv' /\ ReturnInv' BY <1>2, StageTwoOutput DEF PathInv
  <2> QED BY <1>0, <2>1, <2>2 DEF PathInv, ScanInv
<1>3. CASE /\ RejectEmpty \/ CallParseUri \/ CallParseComplexUri
              \/ ReturnBorrowed \/ ReturnOwned
           /\ UNCHANGED input
  BY <1>0, <1>3, CallPath DEF PathInv
<1>4. CASE UNCHANGED vars
  BY <1>0, <1>4, StutterPath DEF PathInv
<1> QED BY <1>1, <1>2, <1>3, <1>4, NextKeepsInput DEF Next

(* While stage 2 runs, its state tells what the buffer ends with.  So the  *)
(* scan backwards for the segment before ".." starts at a byte that is     *)
(* there, and finds a slash.                                               *)
THEOREM StateAlwaysTellsOutput == Spec => []StateTellsOutput
<1>1. PathInv => StateTellsOutput
  <2> SUFFICES ASSUME PathInv, pc = "complex" PROVE StateTellsOutput
    BY DEF StateTellsOutput
  <2>1. u > 0 => out[0] = SLASH BY DEF PathInv, OutputInv, Closed, Rooted
  <2> QED BY <2>1 DEF PathInv, OutputInv, StateTellsOutput
<1> QED BY <1>1, InitPathInv, NextPathInv, PTL DEF Spec

(* A path that is returned has the shape of the buffer or of the scan. *)
LEMMA ReturnsNormal == PathInv => PathIsNormal
<1> SUFFICES ASSUME PathInv, pc = "ok" PROVE PathIsNormal
  BY DEF PathIsNormal
<1> DEFINE n == result.len
<1>1. n \in Nat /\ PathLen = n
  BY DEF PathInv, TypeInv, TypeOK, Outcome, PathLen
<1>2. \A i \in 0 .. n - 1 : Path[i] = IF result.owned THEN out[i] ELSE At(i)
  BY <1>1 DEF Path
<1>3. CASE result.owned
  <2>1. NormalOut(n) BY <1>3 DEF PathInv, ReturnInv
  <2>2. n > 0 /\ Path[0] = SLASH
    BY <1>1, <1>2, <1>3, <2>1 DEF NormalOut, Closed, Rooted
  <2>3. ASSUME NEW i \in 0 .. n - 1
        PROVE  Path[i] # 0
    BY <1>1, <1>2, <1>3, <2>1 DEF NormalOut, Closed, NoNul
  <2>4. ASSUME NEW i \in 0 .. n - 1, merge_slashes, i > 0
        PROVE  ~(Path[i - 1] = SLASH /\ Path[i] = SLASH)
    <3>1. i - 1 \in 0 .. n - 2 /\ (i - 1) + 1 = i BY <1>1, <2>4
    <3>2. ~(out[i - 1] = SLASH /\ out[i] = SLASH)
      BY <2>1, <2>4, <3>1 DEF NormalOut, Closed, NoEmptySegment
    <3> QED BY <1>1, <1>2, <1>3, <3>1, <3>2
  <2>5. ASSUME NEW i \in 0 .. n - 1, DotsAfter(Path, n, i, 1)
        PROVE  FALSE
    <3>1. /\ i + 1 < n /\ out[i] = SLASH /\ out[i + 1] = DOT
          /\ i + 2 = n \/ (i + 2 < n /\ out[i + 2] = SLASH)
      BY <1>1, <1>2, <1>3, <2>5 DEF DotsAfter
    <3>2. CASE i + 2 = n
      BY <1>1, <2>1, <3>1, <3>2 DEF NormalOut, NameOpen, SLASH, DOT
    <3>3. CASE i + 2 < n
      BY <1>1, <2>1, <3>1, <3>3 DEF NormalOut, Closed, NoDotSegment
    <3> QED BY <3>1, <3>2, <3>3
  <2>6. ASSUME NEW i \in 0 .. n - 1, DotsAfter(Path, n, i, 2)
        PROVE  FALSE
    <3>1. /\ i + 2 < n /\ out[i] = SLASH /\ out[i + 1] = DOT /\ out[i + 2] = DOT
          /\ i + 3 = n \/ (i + 3 < n /\ out[i + 3] = SLASH)
      BY <1>1, <1>2, <1>3, <2>6 DEF DotsAfter
    <3>2. CASE i + 3 = n
      BY <1>1, <2>1, <3>1, <3>2 DEF NormalOut, NameOpen, SLASH, DOT
    <3>3. CASE i + 3 < n
      BY <1>1, <2>1, <3>1, <3>3 DEF NormalOut, Closed, NoDotSegment
    <3> QED BY <3>1, <3>2, <3>3
  <2>7. \A i \in 0 .. n - 1 : \A k \in 1 .. 2 : ~DotsAfter(Path, n, i, k)
    BY <2>5, <2>6
  <2> QED BY <1>1, <2>2, <2>3, <2>4, <2>7 DEF PathIsNormal
<1>4. CASE ~result.owned
  <2>1. n > 0 /\ At(0) = SLASH /\ Clean(n) /\ Simple(n)
    BY <1>4 DEF PathInv, ReturnInv
  <2>2. Path[0] = SLASH BY <1>1, <1>2, <1>4, <2>1
  <2>3. ASSUME NEW i \in 0 .. n - 1
        PROVE  Path[i] # 0
    BY <1>1, <1>2, <1>4, <2>1 DEF Clean
  <2>4. ASSUME NEW i \in 0 .. n - 2, Path[i] = SLASH
        PROVE  Path[i + 1] \notin {SLASH, DOT}
    BY <1>1, <1>2, <1>4, <2>1, <2>4 DEF Simple
  <2>5. ASSUME NEW i \in 0 .. n - 1, i > 0
        PROVE  ~(Path[i - 1] = SLASH /\ Path[i] = SLASH)
    <3>1. i - 1 \in 0 .. n - 2 /\ (i - 1) + 1 = i BY <1>1, <2>5
    <3> QED BY <2>4, <3>1
  <2>6. ASSUME NEW i \in 0 .. n - 1, NEW k \in 1 .. 2
        PROVE  ~DotsAfter(Path, n, i, k)
    <3> SUFFICES ASSUME DotsAfter(Path, n, i, k) PROVE FALSE
      OBVIOUS
    <3>1. i \in 0 .. n - 2 /\ Path[i] = SLASH /\ Path[i + 1] = DOT
      BY <1>1 DEF DotsAfter
    <3> QED BY <2>4, <3>1
  <2> QED BY <1>1, <2>1, <2>2, <2>3, <2>5, <2>6 DEF PathIsNormal
<1> QED BY <1>3, <1>4

(* Every path that is returned, borrowed or owned, is normal.              *)
THEOREM PathsAreNormal == Spec => []PathIsNormal
<1> QED BY ReturnsNormal, InitPathInv, NextPathInv, PTL DEF Spec
=============================================================================

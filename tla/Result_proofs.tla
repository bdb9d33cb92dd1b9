---------------------------- MODULE Result_proofs ---------------------------
(***************************************************************************)
(* What a call of the port returns beside the path: the extension, whether *)
(* there is a plus sign, and the query; and that all of it is determined   *)
(* by the arguments.                                                       *)
(***************************************************************************)
EXTENDS OriginForm_proofs

(***************************************************************************)
(* The extension and the plus signs: what stage 2 records about its output *)
(* on the side is true of the path it ends with.                           *)
(***************************************************************************)

(***************************************************************************)
(* The extension begins after a dot of the open segment, which is a name   *)
(* from then on, and no slash or dot has been written since.               *)
(***************************************************************************)
Ext(n) ==
  /\ uri_ext \in 1 .. n /\ out[uri_ext - 1] = DOT
  /\ \A i \in uri_ext .. n - 1 : out[i] \notin {SLASH, DOT}

ExtensionInv ==
  /\ pc \in {"call", "uri", "complex"} => exten.data = 0
  /\ (pc = "complex" /\ uri_ext # None) => Resume = "Usual" /\ Ext(u)
  /\ ExtensionInsidePath

(* One more byte of the open segment that is neither a slash nor a dot.    *)
LEMMA ExtWrite ==
  ASSUME TypeInv, pc = "complex", u \in 0 .. uri_end, Ext(u), NEW b \in Byte,
         b \notin {SLASH, DOT}, out' = [out EXCEPT ![u] = b], u' = u + 1,
         uri_ext' = uri_ext
  PROVE  Ext(u)'
<1>1. /\ out'[u] = b /\ u \in Nat
      /\ \A i \in 0 .. u - 1 : out'[i] = out[i]
  BY DEF TypeInv, TypeOK
<1> QED BY <1>1 DEF Ext

(* The ways out of stage 2. *)
LEMMA ExtFinish ==
  ASSUME TypeInv, ExtensionInv, pc = "complex", state \in Unquoted,
         NEW n \in PathEnds, FinishDone(n)
  PROVE  ExtensionInv'
<1>1. /\ pc' = "normalized" /\ uri_len' = n /\ out' = out /\ uri_ext' = None
      /\ exten' = IF uri_ext # None
                  THEN [len |-> wrapping_sub(n, uri_ext), data |-> uri_ext] ELSE exten
  BY DEF FinishDone
<1>2. CASE uri_ext = None
  BY <1>1, <1>2 DEF ExtensionInv, ExtensionInsidePath
<1>3. CASE uri_ext # None
  <2>1. state = "Usual" /\ Ext(u)
    BY <1>3 DEF ExtensionInv, Resume
  <2>2. n = u /\ u \in Nat
    BY <2>1 DEF PathEnds, TypeInv, TypeOK
  <2>3. uri_ext \in 1 .. n /\ wrapping_sub(n, uri_ext) = n - uri_ext
    BY <2>1, <2>2 DEF Ext, wrapping_sub
  <2>4. exten'.data = uri_ext /\ exten'.len = n - uri_ext
    BY <1>1, <1>3, <2>3
  <2>5. exten'.data + exten'.len = uri_len'
    BY <1>1, <2>2, <2>3, <2>4
  <2>6. /\ out'[exten'.data - 1] = DOT
        /\ \A i \in exten'.data .. uri_len' - 1 : out'[i] \notin {SLASH, DOT}
    BY <1>1, <2>1, <2>2, <2>4 DEF Ext
  <2> QED BY <1>1, <2>5, <2>6 DEF ExtensionInv, ExtensionInsidePath
<1> QED BY <1>2, <1>3

LEMMA StageTwoExtension ==
  ASSUME TypeInv, ExtensionInv, ParseComplexUriStep, UNCHANGED input
  PROVE  ExtensionInv'
<1>0. /\ pc = "complex" /\ state \in States /\ quoted_state \in Unquoted
      /\ u \in Nat /\ ch \in Byte /\ exten.data = 0
      /\ Reading => u \in 0 .. uri_end
  <2>1. pc = "complex"
    BY DEF ParseComplexUriStep, Percent, OpenSegment, RepeatSlash, ExtensionDot,
           LeadingDot, PlainByte, CloseDotSegment, EscapeRoot, QuestionMark, HashMark,
           EndOfPath, QuotedFirst, LiteralEscape, DecodedByte, RejectEscape, Reading
  <2>2. uri_end \in Nat BY ReadType DEF TypeInv, TypeOK
  <2> QED BY <2>1, <2>2 DEF TypeInv, TypeOK, Cursor, Lag, Reading, ExtensionInv
<1>1. ASSUME Stay(state'), uri_ext' = uri_ext, u' = u, out' = out, Resume' = Resume
      PROVE  ExtensionInv'
  BY <1>0, <1>1 DEF Stay, fields, ExtensionInv, ExtensionInsidePath, Ext
<1>2. ASSUME Stay(state'), uri_ext' = None
      PROVE  ExtensionInv'
  BY <1>0, <1>2 DEF Stay, fields, ExtensionInv, ExtensionInsidePath
<1>3. ASSUME state \in {"Slash", "Dot", "DotDot"}
      PROVE  uri_ext = None
  BY <1>0, <1>3 DEF ExtensionInv, Resume, Unquoted
<1>4. CASE Percent \/ QuotedFirst
  BY <1>1, <1>4 DEF Percent, QuotedFirst, Stay, Resume, Unquoted
<1>5. CASE DecodedByte
  BY <1>0, <1>1, <1>5 DEF DecodedByte, Stay, Resume, Unquoted
<1>6. CASE OpenSegment
  BY <1>2, <1>6 DEF OpenSegment, Stay
<1>7. CASE RepeatSlash \/ LeadingDot \/ CloseDotSegment
  BY <1>2, <1>3, <1>7 DEF RepeatSlash, LeadingDot, CloseDotSegment, Stay
<1>8. CASE ExtensionDot
  <2>1. /\ Reading /\ Emit /\ ch = DOT /\ uri_ext' = u + 1 /\ state' = "Usual"
        /\ pc' = pc /\ exten' = exten
    BY <1>8 DEF ExtensionDot, Stay, Is, fields
  <2>2. u' = u + 1 /\ out'[u] = DOT
    BY <1>0, <2>1 DEF Emit, TypeInv, TypeOK
  <2>3. Ext(u)' BY <1>0, <2>1, <2>2 DEF Ext
  <2> QED BY <1>0, <2>1, <2>3
          DEF ExtensionInv, ExtensionInsidePath, Resume, Unquoted
<1>9. CASE PlainByte
  <2>1. Reading /\ Emit /\ Stay("Usual") /\ uri_ext' = uri_ext
    BY <1>9 DEF PlainByte
  <2>2. CASE uri_ext = None
    BY <1>2, <2>1, <2>2 DEF Stay
  <2>3. CASE uri_ext # None
    <3>1. Ext(u) /\ state = "Usual"
      BY <1>0, <1>9, <2>3 DEF ExtensionInv, Resume, PlainByte
    <3>2. ch \notin {SLASH, DOT}
      BY <1>9, <3>1, NotUsual DEF PlainByte, Is, Arms, Named, SLASH, DOT, PLUS
    <3>3. Ext(u)' BY <1>0, <2>1, <3>1, <3>2, ExtWrite DEF Emit
    <3> QED BY <1>0, <2>1, <3>3
            DEF Stay, fields, ExtensionInv, ExtensionInsidePath, Resume, Unquoted
  <2> QED BY <2>2, <2>3
<1>10. CASE LiteralEscape
  <2>1. /\ Reading /\ Stay("Usual") /\ uri_ext' = uri_ext
        /\ out' = [out EXCEPT ![u] = Value] /\ u' = u + 1 /\ Value \in Byte
    BY <1>10, EscapeType DEF LiteralEscape
  <2>2. CASE uri_ext = None
    BY <1>2, <2>1, <2>2 DEF Stay
  <2>3. CASE uri_ext # None
    <3>1. Ext(u) BY <1>0, <2>3 DEF ExtensionInv
    <3>2. Value \notin {SLASH, DOT}
      BY <1>10 DEF LiteralEscape, Literals, PERCENT, HASH, QUESTION, SLASH, DOT
    <3>3. Ext(u)' BY <1>0, <2>1, <3>1, <3>2, ExtWrite
    <3> QED BY <1>0, <2>1, <3>3
            DEF Stay, fields, ExtensionInv, ExtensionInsidePath, Resume, Unquoted
  <2> QED BY <2>2, <2>3
<1>11. CASE EscapeRoot \/ RejectEscape
  BY <1>11 DEF EscapeRoot, RejectEscape, Fail, ExtensionInv, ExtensionInsidePath
<1>12. CASE QuestionMark \/ HashMark \/ EndOfPath
  <2>1. state \in Unquoted /\ \E n \in PathEnds : FinishDone(n)
    BY <1>12 DEF QuestionMark, HashMark, EndOfPath, FinishArgs
  <2> QED BY <1>0, <2>1, ExtFinish
<1> QED BY <1>4, <1>5, <1>6, <1>7, <1>8, <1>9, <1>10, <1>11, <1>12
        DEF ParseComplexUriStep

-----------------------------------------------------------------------------
(* Stage 1 and the returns leave the extension alone. *)
LEMMA NextExtension == TypeInv /\ ExtensionInv /\ [Next]_vars => ExtensionInv'
<1> SUFFICES ASSUME TypeInv, ExtensionInv, [Next]_vars PROVE ExtensionInv'
  OBVIOUS
<1>1. CASE ParseUriStep
  <2>1. pc = "uri" /\ pc' \in {"uri", "err"} /\ exten' = exten
    BY <1>1
    DEF ParseUriStep, InitialSlash, MarkComplex, MarkQuoted, MarkArgs, MarkPlus,
        SegmentByte, NextSegment, MarkExtension, UsualRun, OpaqueByte, RefuseByte,
        Scanning, Scan, Fail, fields
  <2> QED BY <2>1 DEF ExtensionInv, ExtensionInsidePath
<1>2. CASE ParseComplexUriStep
  BY <1>2, NextKeepsInput, StageTwoExtension DEF Next
<1>3. CASE RejectEmpty \/ CallParseUri
  BY <1>3 DEF RejectEmpty, CallParseUri, Fail, fields, ExtensionInv, ExtensionInsidePath
<1>4. CASE CallParseComplexUri
  BY <1>4 DEF CallParseComplexUri, Scanned, fields, ExtensionInv, ExtensionInsidePath
<1>5. CASE ReturnBorrowed \/ ReturnOwned
  <2>1. pc' = "ok" BY <1>5 DEF ReturnBorrowed, ReturnOwned, Return
  <2> QED BY <2>1 DEF ExtensionInv, ExtensionInsidePath
<1>6. CASE UNCHANGED vars
  BY <1>6 DEF vars, marks, fields, locals, ExtensionInv, ExtensionInsidePath, Ext, Resume
<1> QED BY <1>1, <1>2, <1>3, <1>4, <1>5, <1>6 DEF Next

(* The extension ends with the path, follows a dot and holds no slash or   *)
(* dot: the subtraction in finish_done never wraps.                        *)
THEOREM ExtensionsAreInside == Spec => []ExtensionInsidePath
<1>1. Init => ExtensionInv
  BY DEF Init, ExtensionInv, ExtensionInsidePath
<1>2. ExtensionInv => ExtensionInsidePath
  BY DEF ExtensionInv
<1> QED BY <1>1, <1>2, InitTypeInv, NextTypeInv, NextExtension, PTL DEF Spec

-----------------------------------------------------------------------------
(***************************************************************************)
(* Plus signs.  As long as plus_in_uri is not set, stage 1 has passed no   *)
(* plus sign of the path and stage 2 has written none.                     *)
(***************************************************************************)
PathScanned == IF args_start = None THEN p ELSE args_start - 1
NoPlusScanned(n) == \A i \in 0 .. n - 1 : At(i) # PLUS
NoPlusWritten(n) == \A i \in 0 .. n - 1 : out[i] # PLUS

PlusInv ==
  ~plus_in_uri =>
    /\ (pc = "uri" /\ ~NeedsNormalization) => NoPlusScanned(PathScanned)
    /\ pc = "complex" => NoPlusWritten(u)
    /\ pc = "normalized" => NoPlusWritten(uri_len)
    /\ pc = "ok" => IF result.owned THEN NoPlusWritten(result.len)
                    ELSE NoPlusScanned(result.len)

LEMMA PlusPrefix ==
  ASSUME NEW n \in Nat, NEW m \in 0 .. n, NoPlusWritten(n)
  PROVE  NoPlusWritten(m)
BY DEF NoPlusWritten

LEMMA PlusScan ==
  ASSUME NEW m \in Nat, NEW n \in Nat, NoPlusScanned(m),
         \A i \in m .. n - 1 : At(i) # PLUS
  PROVE  NoPlusScanned(n)
BY DEF NoPlusScanned

LEMMA PlusNotUsual ==
  /\ PLUS # 0 /\ PLUS \notin {SLASH, DOT, PERCENT, HASH, QUESTION}
  /\ ~usual(PLUS)
  /\ PLUS \notin Ordinary
<1>1. PLUS # 0 /\ PLUS \notin {SLASH, DOT, PERCENT, HASH, QUESTION}
  BY DEF PLUS, SLASH, DOT, PERCENT, HASH, QUESTION
<1>2. ~usual(PLUS) BY NotUsual DEF Named
<1> QED BY <1>1, <1>2 DEF Ordinary, Named

LEMMA StageOnePlus ==
  ASSUME TypeInv, ScanInv, PlusInv, ParseUriStep, UNCHANGED input
  PROVE  PlusInv'
<1>0. /\ uri_end \in Nat /\ \A i : At(i)' = At(i)
      /\ pc = "uri" /\ pc' \in {"uri", "err"} /\ p \in Nat /\ Seen = At(p)
      /\ args_start # None => args_start \in Nat
      /\ plus_in_uri \in BOOLEAN
  <2>1. pc = "uri" /\ pc' \in {"uri", "err"}
    BY DEF ParseUriStep, InitialSlash, MarkComplex, MarkQuoted, MarkArgs, MarkPlus,
           SegmentByte, NextSegment, MarkExtension, UsualRun, OpaqueByte, RefuseByte,
           Scanning, Scan, Fail
  <2> QED BY <2>1, ReadType, ReadStable DEF TypeInv, TypeOK, Option, Seen
<1>1. SUFFICES ASSUME pc' = "uri", ~plus_in_uri', ~NeedsNormalization'
               PROVE  NoPlusScanned(PathScanned)'
  BY <1>0 DEF PlusInv
<1> USE <1>0, <1>1 DEF PlusInv, NeedsNormalization, Scan, flags, marks
<1>2. ASSUME args_start = None, args_start' = None, ~plus_in_uri, ~NeedsNormalization,
             p' \in Nat, \A i \in p .. p' - 1 : At(i) # PLUS
      PROVE  NoPlusScanned(PathScanned)'
  <2>1. PathScanned = p /\ PathScanned' = p'
    BY <1>2 DEF PathScanned
  <2>2. NoPlusScanned(p) BY <1>2, <2>1
  <2>3. NoPlusScanned(p')
    BY <1>2, <2>2, PlusScan
  <2>4. \A i \in 0 .. p' - 1 : At(i) # PLUS
    BY <2>3 DEF NoPlusScanned
  <2> QED BY <2>1, <2>4 DEF NoPlusScanned
<1>3. ASSUME args_start # None, args_start' = args_start, ~plus_in_uri, ~NeedsNormalization
      PROVE  NoPlusScanned(PathScanned)'
  BY <1>3 DEF NoPlusScanned, PathScanned
<1>4. (state # "Uri" /\ ~NeedsNormalization) => args_start = None
  BY DEF ScanInv
<1>5. CASE InitialSlash
  <2>1. At(p) # PLUS /\ p' = p + 1 /\ state # "Uri" /\ args_start' = args_start
        /\ plus_in_uri' = plus_in_uri /\ NeedsNormalization' = NeedsNormalization
    BY <1>5, PlusNotUsual DEF InitialSlash, DOT
  <2> QED BY <1>2, <1>4, <2>1
<1>6. CASE MarkComplex \/ MarkQuoted
  BY <1>6 DEF MarkComplex, MarkQuoted
<1>7. CASE MarkArgs
  <2>1. args_start = None /\ args_start' = p + 1 /\ ~plus_in_uri /\ ~NeedsNormalization
    BY <1>4, <1>7 DEF MarkArgs
  <2>2. PathScanned = p /\ PathScanned' = p
    BY <2>1, NoneAssumption DEF PathScanned
  <2>3. NoPlusScanned(p) BY <2>1, <2>2
  <2> QED BY <2>2, <2>3 DEF NoPlusScanned
<1>8. CASE MarkPlus
  BY <1>8 DEF MarkPlus
<1>9. CASE SegmentByte
  BY <1>2, <1>4, <1>9, PlusNotUsual DEF SegmentByte
<1>10. CASE NextSegment
  <2>1. At(p) # PLUS /\ p' = p + 1 /\ state # "Uri" /\ args_start' = args_start
        /\ plus_in_uri' = plus_in_uri /\ NeedsNormalization' = NeedsNormalization
    BY <1>10, PlusNotUsual DEF NextSegment, Sees, DOT
  <2> QED BY <1>2, <1>4, <2>1
<1>11. CASE MarkExtension
  <2>1. At(p) # PLUS /\ p' = p + 1 /\ state # "Uri" /\ args_start' = args_start
        /\ plus_in_uri' = plus_in_uri /\ NeedsNormalization' = NeedsNormalization
    BY <1>11, PlusNotUsual DEF MarkExtension, Sees, DOT
  <2> QED BY <1>2, <1>4, <2>1
<1>12. CASE UsualRun
  <2> PICK q \in p + 1 .. uri_end :
             /\ \A i \in p + 1 .. q - 1 : usual(At(i))
             /\ p' = q
    BY <1>12 DEF UsualRun
  <2>1. \A i \in p .. q - 1 : At(i) # PLUS
    BY <1>12, PlusNotUsual DEF UsualRun
  <2> QED BY <1>2, <1>4, <1>12, <2>1 DEF UsualRun
<1>13. CASE OpaqueByte
  <2>1. state = "Uri" /\ ~NeedsNormalization /\ args_start # None
    BY <1>13 DEF OpaqueByte, ScanInv
  <2> QED BY <1>3, <1>13, <2>1 DEF OpaqueByte
<1>14. CASE RefuseByte
  BY <1>14 DEF RefuseByte, Fail
<1> QED BY <1>5, <1>6, <1>7, <1>8, <1>9, <1>10, <1>11, <1>12, <1>13, <1>14
        DEF ParseUriStep

(* One more byte of the buffer. *)
LEMMA PlusWrite ==
  ASSUME TypeInv, pc = "complex", u \in 0 .. uri_end, NoPlusWritten(u), NEW b \in Byte,
         b # PLUS, out' = [out EXCEPT ![u] = b], u' = u + 1
  PROVE  NoPlusWritten(u)'
<1>1. /\ out'[u] = b /\ u \in Nat
      /\ \A i \in 0 .. u - 1 : out'[i] = out[i]
  BY DEF TypeInv, TypeOK
<1> QED BY <1>1 DEF NoPlusWritten

LEMMA StageTwoPlus ==
  ASSUME TypeInv, PlusInv, ParseComplexUriStep
  PROVE  PlusInv'
<1>0. /\ pc = "complex" /\ u \in Nat /\ ch \in Byte /\ plus_in_uri \in BOOLEAN
      /\ Reading => u \in 0 .. uri_end
  <2>1. pc = "complex"
    BY DEF ParseComplexUriStep, Percent, OpenSegment, RepeatSlash, ExtensionDot,
           LeadingDot, PlainByte, CloseDotSegment, EscapeRoot, QuestionMark, HashMark,
           EndOfPath, QuotedFirst, LiteralEscape, DecodedByte, RejectEscape, Reading
  <2>2. uri_end \in Nat BY ReadType DEF TypeInv, TypeOK
  <2> QED BY <2>1, <2>2 DEF TypeInv, TypeOK, Cursor, Lag, Reading
<1>1. ASSUME pc' = "complex", plus_in_uri' = plus_in_uri, u' = u, out' = out
      PROVE  PlusInv'
  BY <1>0, <1>1 DEF PlusInv, NoPlusWritten
<1>2. ASSUME pc' = "complex", Reading, Emit, ch # PLUS, plus_in_uri' = plus_in_uri
      PROVE  PlusInv'
  BY <1>0, <1>2, PlusWrite DEF PlusInv, Emit
<1>3. CASE Percent \/ QuotedFirst
  BY <1>0, <1>1, <1>3 DEF Percent, QuotedFirst, Stay
<1>4. CASE OpenSegment \/ ExtensionDot \/ LeadingDot
  BY <1>0, <1>2, <1>4, PlusNotUsual DEF OpenSegment, ExtensionDot, LeadingDot, Is, Stay
<1>5. CASE RepeatSlash
  BY <1>0, <1>1, <1>2, <1>5, PlusNotUsual DEF RepeatSlash, Is, Stay
<1>6. CASE PlainByte
  <2>1. CASE ch = PLUS
    BY <1>0, <1>6, <2>1, PlusNotUsual DEF PlainByte, Is, Stay, PlusInv
  <2>2. CASE ch # PLUS
    <3>1. plus_in_uri' = plus_in_uri
      BY <1>0, <1>6, <2>2 DEF PlainByte, Is
    <3> QED BY <1>0, <1>2, <1>6, <2>2, <3>1 DEF PlainByte, Stay
  <2> QED BY <2>1, <2>2
<1>7. CASE CloseDotSegment
  <2>1. u' \in PathEnds /\ out' = out /\ plus_in_uri' = plus_in_uri /\ pc' = "complex"
    BY <1>0, <1>7 DEF CloseDotSegment, Stay
  <2>2. u' \in 0 .. u BY <1>0, <2>1, PathEndsType
  <2>3. NoPlusWritten(u) => NoPlusWritten(u')
    BY <1>0, <2>2, PlusPrefix
  <2>4. NoPlusWritten(u') => NoPlusWritten(u)'
    BY <2>1 DEF NoPlusWritten
  <2> QED BY <1>0, <2>1, <2>3, <2>4 DEF PlusInv
<1>8. CASE EscapeRoot \/ RejectEscape
  BY <1>8 DEF EscapeRoot, RejectEscape, Fail, PlusInv
<1>9. CASE QuestionMark \/ HashMark \/ EndOfPath
  <2>1. PICK n \in PathEnds : FinishDone(n)
    BY <1>9 DEF QuestionMark, HashMark, EndOfPath, FinishArgs
  <2>2. n \in 0 .. u BY <1>0, PathEndsType
  <2>3. pc' = "normalized" /\ uri_len' = n /\ out' = out /\ plus_in_uri' = plus_in_uri
    BY <2>1 DEF FinishDone, flags
  <2> QED BY <1>0, <2>2, <2>3 DEF PlusInv, NoPlusWritten
<1>10. CASE LiteralEscape
  <2>1. Value # PLUS /\ Value \in Byte
    BY <1>10, EscapeType, PlusNotUsual DEF LiteralEscape, Literals
  <2> QED BY <1>0, <1>10, <2>1, PlusWrite DEF LiteralEscape, Stay, PlusInv
<1>11. CASE DecodedByte
  BY <1>0, <1>11 DEF DecodedByte, Stay, PlusInv, NoPlusWritten
<1> QED BY <1>3, <1>4, <1>5, <1>6, <1>7, <1>8, <1>9, <1>10, <1>11
        DEF ParseComplexUriStep

LEMMA CallPlus ==
  ASSUME PathInv, PlusInv, UNCHANGED input,
         \/ RejectEmpty \/ CallParseUri \/ CallParseComplexUri
         \/ ReturnBorrowed \/ ReturnOwned
  PROVE  PlusInv'
<1>0. \A i : At(i)' = At(i) BY ReadStable
<1>1. CASE RejectEmpty
  BY <1>1 DEF RejectEmpty, Fail, PlusInv
<1>2. CASE CallParseUri
  BY <1>2 DEF CallParseUri, marks, PathInv, TypeInv, Cursor, PlusInv, NoPlusScanned, PathScanned
<1>3. CASE CallParseComplexUri
  BY <1>3 DEF CallParseComplexUri, PlusInv, NoPlusWritten
<1>4. CASE ReturnBorrowed
  <2>1. /\ pc = "uri" /\ p = uri_end /\ ~NeedsNormalization /\ pc' = "ok"
        /\ result'.owned = FALSE /\ plus_in_uri' = plus_in_uri
        /\ result'.len = PathScanned
    BY <1>4 DEF ReturnBorrowed, Return, Scanned, flags, PathScanned
  <2> QED BY <1>0, <2>1 DEF PlusInv, NoPlusScanned
<1>5. CASE ReturnOwned
  <2>1. /\ pc = "normalized" /\ pc' = "ok" /\ result'.owned = TRUE
        /\ result'.len = uri_len /\ plus_in_uri' = plus_in_uri /\ out' = out
    BY <1>5 DEF ReturnOwned, Return, flags, locals
  <2> QED BY <2>1 DEF PlusInv, NoPlusWritten
<1> QED BY <1>1, <1>2, <1>3, <1>4, <1>5

LEMMA NextPlus == PathInv /\ PlusInv /\ [Next]_vars => PlusInv'
<1> SUFFICES ASSUME PathInv, PlusInv, [Next]_vars PROVE PlusInv'
  OBVIOUS
<1>1. CASE Next
  BY <1>1, NextKeepsInput, StageOnePlus, StageTwoPlus, CallPlus DEF Next, PathInv
<1>2. CASE UNCHANGED vars
  <2>1. \A i : At(i)' = At(i) BY <1>2, ReadStable DEF vars
  <2> QED
    BY <1>2, <2>1 DEF vars, flags, marks, fields, locals, NeedsNormalization,
                      PlusInv, NoPlusWritten, NoPlusScanned, PathScanned
<1> QED BY <1>1, <1>2

(* A plus sign in a path that is returned is reported, whichever stage met *)
(* it and however it was written.                                          *)
THEOREM PlusAlwaysReported == Spec => []PlusIsReported
<1>1. Init => PlusInv
  BY DEF Init, PlusInv
<1>2. PathInv /\ PlusInv => PlusIsReported
  <2> SUFFICES ASSUME PathInv, PlusInv, pc = "ok", ~plus_in_uri,
                      NEW i \in 0 .. PathLen - 1
               PROVE  Path[i] # PLUS
    BY DEF PlusIsReported
  <2>1. Path[i] = IF result.owned THEN out[i] ELSE At(i)
    BY DEF Path
  <2>2. IF result.owned THEN NoPlusWritten(PathLen) ELSE NoPlusScanned(PathLen)
    BY DEF PlusInv, PathLen
  <2>3. CASE result.owned
    BY <2>1, <2>2, <2>3 DEF NoPlusWritten
  <2>4. CASE ~result.owned
    BY <2>1, <2>2, <2>4 DEF NoPlusScanned
  <2> QED BY <2>3, <2>4
<1> QED BY <1>1, <1>2, InitPathInv, NextPathInv, NextPlus, PTL DEF Spec
-----------------------------------------------------------------------------
(***************************************************************************)
(* The query that is returned is the one of the target, whichever stage    *)
(* found it.                                                               *)
(***************************************************************************)

Ends == {QUESTION, HASH}

(* No "?" or "#" among the first n bytes; no "#" from the m-th to the n-th *)
(* one; the query begins at byte a.                                        *)
PathOnly(n)    == \A i \in 0 .. n - 1 : At(i) \notin Ends
HashFree(m, n) == \A i \in m .. n - 1 : At(i) # HASH
Begins(a)      == a \in 1 .. uri_end /\ At(a - 1) = QUESTION /\ PathOnly(a - 1)

(* What parsed_args finds in the request. *)
Found ==
  IF args.data # 0
  THEN /\ Begins(args.data)
       /\ args.data + args.len < uri_end /\ At(args.data + args.len) = HASH
       /\ HashFree(args.data, args.data + args.len)
  ELSE IF args_start # None
  THEN Begins(args_start) /\ HashFree(args_start, uri_end)
  ELSE QueryMarks = {}

(***************************************************************************)
(* Stage 1 has seen no "?" and no "#", or one "?" and no "#" after it;     *)
(* stage 2 has passed neither, and if the byte in hand is one of them, or  *)
(* was one when it was read, then it is the byte of the target.            *)
(***************************************************************************)
QueryInv ==
  /\ pc \in {"call", "uri", "complex"} => args.data = 0
  /\ (pc = "uri" /\ ~NeedsNormalization) =>
       IF args_start = None THEN PathOnly(p)
       ELSE Begins(args_start) /\ HashFree(args_start, p)
  /\ pc = "complex" =>
       /\ args_start = None /\ PathOnly(p - 1)
       /\ p <= uri_end => ch = At(p - 1) \/ (ch \notin Ends /\ At(p - 1) \notin Ends)
  /\ pc = "normalized" => Found
  /\ QueryIsExact

LEMMA PathOnlyTo ==
  ASSUME NEW m \in Nat, NEW n \in Nat, PathOnly(m),
         \A i \in m .. n - 1 : At(i) \notin Ends
  PROVE  PathOnly(n)
BY DEF PathOnly

LEMMA HashFreeTo ==
  ASSUME NEW a \in Nat, NEW m \in Nat, NEW n \in Nat, HashFree(a, m),
         \A i \in m .. n - 1 : At(i) # HASH
  PROVE  HashFree(a, n)
BY DEF HashFree

(* The predicates speak of the target, which does not change. *)
LEMMA QueryStable ==
  ASSUME UNCHANGED input
  PROVE  /\ uri_end' = uri_end
         /\ \A i : At(i)' = At(i)
         /\ \A n : PathOnly(n)' = PathOnly(n)
         /\ \A m, n : HashFree(m, n)' = HashFree(m, n)
         /\ \A a : Begins(a)' = Begins(a)
         /\ QueryMarks' = QueryMarks
<1>1. uri_end' = uri_end /\ \A i : At(i)' = At(i)
  BY ReadStable
<1> QED BY <1>1 DEF PathOnly, HashFree, Begins, QueryMarks

(* The byte before a query is the only mark there is. *)
LEMMA OneMark ==
  ASSUME uri_end \in Nat, NEW a, Begins(a)
  PROVE  QueryMarks = {a - 1}
<1>1. a - 1 \in QueryMarks
  BY DEF Begins, PathOnly, QueryMarks, Ends
<1>2. ASSUME NEW q \in QueryMarks PROVE q = a - 1
  <2>1. /\ q \in 0 .. uri_end - 1 /\ At(q) = QUESTION
        /\ \A i \in 0 .. q - 1 : At(i) \notin Ends
    BY DEF QueryMarks, Ends
  <2>2. ~(q < a - 1)
    BY <2>1 DEF Begins, PathOnly, Ends
  <2>3. ~(q > a - 1)
    BY <2>1 DEF Begins, Ends
  <2> QED BY <2>1, <2>2, <2>3 DEF Begins
<1> QED BY <1>1, <1>2

(* parsed_args returns what was found. *)
LEMMA Assembled ==
  ASSUME TypeInv, Found
  PROVE  \/ parsed_args = None /\ \A q \in QueryMarks : q + 1 = uri_end
         \/ \E q \in QueryMarks : \E e \in QueryEnds(q) :
              parsed_args = [len |-> e - q - 1, data |-> q + 1] /\ q + 1 # uri_end
<1>0. /\ uri_end \in Nat /\ args \in Slice
      /\ args_start # None => args_start \in Nat
  BY ReadType DEF TypeInv, TypeOK, Option
<1>1. CASE args.data # 0
  <2> DEFINE a == args.data
             e == args.data + args.len
  <2>1. Begins(a) /\ e < uri_end /\ At(e) = HASH /\ HashFree(a, e)
    BY <1>1 DEF Found
  <2>2. a \in 1 .. uri_end /\ args.len \in Nat /\ e \in a .. uri_end - 1
    BY <1>0, <2>1 DEF Begins, Slice
  <2>3. e \in QueryEnds(a - 1)
    BY <1>0, <2>1, <2>2 DEF QueryEnds, HashFree
  <2>4. a - 1 \in QueryMarks
    BY <1>0, <2>1, OneMark
  <2>5. parsed_args = [len |-> e - (a - 1) - 1, data |-> (a - 1) + 1]
    <3>1. parsed_args = args BY <1>1 DEF parsed_args
    <3>2. args = [len |-> args.len, data |-> args.data] BY <1>0 DEF Slice
    <3>3. args.len = e - (a - 1) - 1 /\ args.data = (a - 1) + 1 BY <2>2
    <3> QED BY <3>1, <3>2, <3>3
  <2>6. (a - 1) + 1 # uri_end BY <2>2
  <2> QED BY <2>3, <2>4, <2>5, <2>6
<1>2. CASE args.data = 0 /\ args_start # None
  <2> DEFINE a == args_start
  <2>1. Begins(a) /\ HashFree(a, uri_end)
    BY <1>2 DEF Found
  <2>2. a \in 1 .. uri_end BY <2>1 DEF Begins
  <2>3. QueryMarks = {a - 1} BY <1>0, <2>1, OneMark
  <2>4. CASE a = uri_end
    <3>1. parsed_args = None BY <1>0, <1>2, <2>4 DEF parsed_args
    <3> QED BY <1>0, <2>2, <2>3, <2>4, <3>1
  <2>5. CASE a # uri_end
    <3>1. parsed_args = [len |-> uri_end - a, data |-> a]
      BY <1>0, <1>2, <2>2, <2>5 DEF parsed_args
    <3>2. uri_end \in QueryEnds(a - 1)
      BY <1>0, <2>1, <2>2, <2>5 DEF QueryEnds, HashFree
    <3>3. uri_end - a = uri_end - (a - 1) - 1 /\ a = (a - 1) + 1
      BY <1>0, <2>2
    <3> QED BY <2>3, <2>5, <3>1, <3>2, <3>3
  <2> QED BY <2>4, <2>5
<1>3. CASE args.data = 0 /\ args_start = None
  BY <1>3 DEF Found, parsed_args
<1> QED BY <1>1, <1>2, <1>3

-----------------------------------------------------------------------------
(* The bytes by which stage 1 goes on with the path. *)
LEMMA NoEnds ==
  /\ \A b \in Byte : usual(b) => b \notin Ends
  /\ \A b \in Ordinary : b \notin Ends
  /\ SLASH \notin Ends /\ DOT \notin Ends /\ PLUS \notin Ends /\ PERCENT \notin Ends
  /\ QUESTION # HASH
<1>1. QUESTION \in Named /\ HASH \in Named BY DEF Named
<1>2. \A b \in Byte : usual(b) => b \notin Ends
  BY <1>1, NotUsual DEF Ends
<1>3. \A b \in Ordinary : b \notin Ends
  BY <1>1, <1>2 DEF Ordinary, Ends
<1> QED BY <1>2, <1>3 DEF Ends, SLASH, DOT, PLUS, PERCENT, QUESTION, HASH

LEMMA StageOneQuery ==
  ASSUME TypeInv, ScanInv, QueryInv, ParseUriStep, UNCHANGED input
  PROVE  QueryInv'
<1>0. /\ uri_end \in Nat /\ pc = "uri" /\ pc' \in {"uri", "err"}
      /\ p \in Nat /\ Seen = At(p) /\ p \in 0 .. uri_end
      /\ args_start # None => args_start \in Nat
      /\ args' = args /\ args.data = 0
  <2>1. pc = "uri" /\ pc' \in {"uri", "err"} /\ args' = args
    BY DEF ParseUriStep, InitialSlash, MarkComplex, MarkQuoted, MarkArgs, MarkPlus,
           SegmentByte, NextSegment, MarkExtension, UsualRun, OpaqueByte, RefuseByte,
           Scanning, Scan, Fail, fields
  <2> QED BY <2>1, ReadType DEF TypeInv, TypeOK, Cursor, Option, Seen, QueryInv
<1>1. SUFFICES ASSUME pc' = "uri", ~NeedsNormalization'
               PROVE  IF args_start' = None THEN PathOnly(p')
                      ELSE Begins(args_start') /\ HashFree(args_start', p')
  <2>1. /\ PathOnly(p)' = PathOnly(p') /\ Begins(args_start)' = Begins(args_start')
        /\ HashFree(args_start, p)' = HashFree(args_start', p')
    BY QueryStable DEF PathOnly, Begins, HashFree
  <2> QED BY <1>0, <1>1, <2>1 DEF QueryInv, QueryIsExact
<1>2. (state # "Uri" /\ ~NeedsNormalization) => args_start = None /\ PathOnly(p)
  BY <1>0 DEF ScanInv, QueryInv
(* A step that goes on with the path. *)
<1>3. ASSUME state # "Uri", args_start' = args_start, p' \in Nat,
             NeedsNormalization' = NeedsNormalization,
             \A i \in p .. p' - 1 : At(i) \notin Ends
      PROVE  args_start' = None /\ PathOnly(p')
  BY <1>0, <1>1, <1>2, <1>3, PathOnlyTo
<1>4. ASSUME state # "Uri", args_start' = args_start, p' = p + 1,
             NeedsNormalization' = NeedsNormalization, At(p) \notin Ends
      PROVE  args_start' = None /\ PathOnly(p')
  BY <1>0, <1>3, <1>4
<1>5. CASE InitialSlash
  BY <1>4, <1>5, NoEnds
  DEF InitialSlash, Seen, Scan, flags, marks, NeedsNormalization
<1>6. CASE MarkComplex \/ MarkQuoted
  BY <1>1, <1>6 DEF MarkComplex, MarkQuoted, NeedsNormalization
<1>7. CASE MarkArgs
  <2>1. /\ state # "Uri" /\ args_start' = p + 1 /\ p' = p + 1 /\ At(p) = QUESTION
        /\ NeedsNormalization' = NeedsNormalization /\ p # uri_end
    BY <1>7 DEF MarkArgs, Sees, Seen, Scan, Scanning, flags, NeedsNormalization
  <2>2. PathOnly(p) BY <1>1, <1>2, <2>1
  <2>3. Begins(p + 1) BY <1>0, <2>1, <2>2 DEF Begins
  <2>4. HashFree(p + 1, p + 1) BY <1>0 DEF HashFree
  <2> QED BY <1>0, <2>1, <2>3, <2>4, NoneAssumption
<1>8. CASE MarkPlus \/ SegmentByte \/ NextSegment \/ MarkExtension
  <2>1. /\ state # "Uri" /\ args_start' = args_start /\ p' = p + 1
        /\ NeedsNormalization' = NeedsNormalization
    BY <1>8 DEF MarkPlus, SegmentByte, NextSegment, MarkExtension, Scan, flags, marks,
                NeedsNormalization
  <2>2. At(p) \notin Ends
    BY <1>8, NoEnds DEF MarkPlus, SegmentByte, NextSegment, MarkExtension, Sees, Seen
  <2> QED BY <1>4, <2>1, <2>2
<1>9. CASE UsualRun
  <2>1. /\ state # "Uri" /\ args_start' = args_start
        /\ NeedsNormalization' = NeedsNormalization
    BY <1>9 DEF UsualRun, flags, marks, NeedsNormalization
  <2> PICK q \in p + 1 .. uri_end :
             /\ \A i \in p + 1 .. q - 1 : usual(At(i))
             /\ p' = q
    BY <1>9 DEF UsualRun
  <2>2. At(p) \notin Ends BY <1>9, NoEnds DEF UsualRun, Seen
  <2>3. \A i \in p + 1 .. q - 1 : At(i) \in Byte
    BY <1>0, ReadType DEF TypeInv, TypeOK
  <2>4. \A i \in p .. q - 1 : At(i) \notin Ends
    BY <1>0, <2>2, <2>3, NoEnds
  <2> QED BY <1>0, <1>3, <2>1, <2>4
<1>10. CASE OpaqueByte
  <2>1. /\ state = "Uri" /\ args_start' = args_start /\ p' = p + 1
        /\ NeedsNormalization' = NeedsNormalization /\ At(p) # HASH
    BY <1>10, NotUsual
    DEF OpaqueByte, Opaque, Named, Seen, Scan, flags, marks, NeedsNormalization
  <2>2. args_start # None /\ Begins(args_start) /\ HashFree(args_start, p)
    BY <1>0, <1>1, <2>1 DEF ScanInv, QueryInv
  <2>3. HashFree(args_start, p + 1)
    <3>1. args_start \in Nat /\ p + 1 \in Nat BY <1>0, <2>2
    <3>2. \A i \in p .. (p + 1) - 1 : At(i) # HASH BY <1>0, <2>1
    <3> QED BY <1>0, <2>2, <3>1, <3>2, HashFreeTo
  <2> QED BY <2>1, <2>2, <2>3
<1>11. CASE RefuseByte
  BY <1>1, <1>11, <1>0 DEF RefuseByte, Fail
<1> QED BY <1>5, <1>6, <1>7, <1>8, <1>9, <1>10, <1>11 DEF ParseUriStep

-----------------------------------------------------------------------------
(* No escape that is processed again stands for "?" or "#". *)
LEMMA DecodedNoEnd ==
  ASSUME TypeInv, IsHexDigit(ch), Value \notin Literals
  PROVE  Value \notin Ends
<1>1. decoded \in 0 .. 15 /\ ch \in Byte /\ HexValue(ch) \in 0 .. 15
  BY EscapeType DEF TypeInv, TypeOK
<1>2. CASE IsDigit(ch)
  <2>1. HexValue(ch) \in 0 .. 9 BY <1>2 DEF HexValue, IsDigit
  <2>2. Value # 63 BY <1>1, <2>1 DEF Value
  <2> QED BY <1>2, <2>2 DEF Literals, Ends, QUESTION
<1>3. CASE ~IsDigit(ch)
  <2>1. OrCaseBit(ch) \in 97 .. 102
    BY <1>3 DEF IsHexDigit, IsHexLetter
  <2>2. HexValue(ch) \in 10 .. 15
    BY <1>3, <2>1 DEF HexValue
  <2>3. Value # 35 BY <1>1, <2>2 DEF Value
  <2> QED BY <1>3, <2>3 DEF Literals, Ends, HASH
<1> QED BY <1>2, <1>3

(* A hexadecimal digit is neither. *)
LEMMA DigitNoEnd ==
  ASSUME NEW c \in Byte, IsHexDigit(c)
  PROVE  c \notin Ends
BY DEF IsHexDigit, IsHexLetter, IsDigit, OrCaseBit, Ends, QUESTION, HASH, Byte

(* The ways out of stage 2 leave what parsed_args finds. *)
LEMMA QuestionFound ==
  ASSUME TypeInv, QueryInv, UNCHANGED input, Reading, Is(QUESTION),
         NEW n, FinishArgs(n)
  PROVE  Found'
<1>0. /\ uri_end \in Nat /\ p \in 1 .. uri_end /\ pc = "complex"
      /\ args.data = 0 /\ PathOnly(p - 1) /\ At(p - 1) = QUESTION
  BY ReadType DEF TypeInv, TypeOK, Cursor, Reading, QueryInv, Is, Ends
<1>1. Begins(p) BY <1>0 DEF Begins
<1>2. CASE /\ \A i \in p .. uri_end - 1 : At(i) # HASH
           /\ args_start' = p /\ UNCHANGED args
  <2>1. HashFree(p, uri_end) BY <1>2 DEF HashFree
  <2>2. args'.data = 0 /\ args_start' # None BY <1>0, <1>2, NoneAssumption
  <2>3. Begins(args_start)' /\ HashFree(args_start, uri_end)'
    BY <1>1, <1>2, <2>1, QueryStable DEF Begins, PathOnly, HashFree
  <2> QED BY <2>2, <2>3 DEF Found
<1>3. CASE \E i \in p .. uri_end - 1 :
             /\ At(i) = HASH /\ \A j \in p .. i - 1 : At(j) # HASH
             /\ args' = [len |-> wrapping_sub(i, p), data |-> p]
             /\ args_start' = None
  <2> PICK i \in p .. uri_end - 1 :
             /\ At(i) = HASH /\ \A j \in p .. i - 1 : At(j) # HASH
             /\ args' = [len |-> wrapping_sub(i, p), data |-> p]
    BY <1>3
  <2>1. args'.data = p /\ args'.data # 0 /\ args'.data + args'.len = i
    BY <1>0 DEF wrapping_sub
  <2>2. HashFree(p, i) BY DEF HashFree
  <2>3. /\ Begins(args.data)' /\ HashFree(args.data, args.data + args.len)'
        /\ At(args.data + args.len)' = HASH
    BY <1>1, <2>1, <2>2, QueryStable DEF Begins, PathOnly, HashFree
  <2> QED BY <1>0, <2>1, <2>3, QueryStable DEF Found
<1> QED BY <1>2, <1>3 DEF FinishArgs

LEMMA NothingFound ==
  ASSUME TypeInv, QueryInv, UNCHANGED input, UNCHANGED << args_start, args >>,
         pc = "complex", p <= uri_end => At(p - 1) = HASH
  PROVE  Found'
<1>0. /\ uri_end \in Nat /\ p \in 1 .. uri_end + 1
      /\ args.data = 0 /\ args_start = None /\ PathOnly(p - 1)
  BY ReadType DEF TypeInv, TypeOK, Cursor, QueryInv
<1>1. ASSUME NEW q \in QueryMarks PROVE FALSE
  <2>1. /\ q \in 0 .. uri_end - 1 /\ At(q) = QUESTION
        /\ \A i \in 0 .. q - 1 : At(i) \notin Ends
    BY DEF QueryMarks, Ends
  <2>2. ~(q < p - 1) BY <1>0, <2>1 DEF PathOnly, Ends
  <2>3. p <= uri_end /\ At(p - 1) = HASH BY <1>0, <2>1, <2>2
  <2>4. q # p - 1 BY <2>1, <2>3, NoEnds
  <2>5. ~(q > p - 1) BY <1>0, <2>1, <2>3 DEF Ends
  <2> QED BY <1>0, <2>1, <2>2, <2>4, <2>5
<1>2. QueryMarks' = {} BY <1>1, QueryStable
<1> QED BY <1>0, <1>2 DEF Found

LEMMA StageTwoQuery ==
  ASSUME TypeInv, QueryInv, ParseComplexUriStep, UNCHANGED input
  PROVE  QueryInv'
<1>0. /\ uri_end \in Nat /\ pc = "complex" /\ p \in 1 .. uri_end + 1 /\ ch \in Byte
      /\ args.data = 0 /\ args_start = None /\ PathOnly(p - 1)
      /\ p <= uri_end => ch = At(p - 1) \/ (ch \notin Ends /\ At(p - 1) \notin Ends)
  <2>1. pc = "complex"
    BY DEF ParseComplexUriStep, Percent, OpenSegment, RepeatSlash, ExtensionDot,
           LeadingDot, PlainByte, CloseDotSegment, EscapeRoot, QuestionMark, HashMark,
           EndOfPath, QuotedFirst, LiteralEscape, DecodedByte, RejectEscape, Reading
  <2> QED BY <2>1, ReadType DEF TypeInv, TypeOK, Cursor, QueryInv
(* A step that passes the byte in hand. *)
<1>1. ASSUME Reading, Advance, Stay(state'), ch \notin Ends
      PROVE  QueryInv'
  <2>1. /\ p <= uri_end /\ p' = p + 1 /\ ch' = ReadWithLf(p) /\ pc' = "complex"
        /\ args' = args /\ args_start' = args_start
    BY <1>0, <1>1 DEF Reading, Advance, Stay, fields
  <2>2. At(p - 1) \notin Ends BY <1>0, <1>1, <2>1
  <2>3. p - 1 \in Nat /\ p \in Nat /\ \A i \in p - 1 .. p - 1 : At(i) \notin Ends
    BY <1>0, <2>2
  <2>4. PathOnly(p) BY <1>0, <2>3, PathOnlyTo
  <2>5. p' - 1 = p BY <1>0, <2>1
  <2>6. PathOnly(p - 1)'
    BY <2>4, <2>5, QueryStable DEF PathOnly
  <2>7. p' <= uri_end' => ch' = At(p - 1)'
    BY <1>0, <2>1, <2>5, QueryStable DEF ReadWithLf
  <2> QED BY <1>0, <2>1, <2>6, <2>7 DEF QueryInv, QueryIsExact
<1>2. ASSUME FinishDone(u'), Found'
      PROVE  QueryInv'
  BY <1>2 DEF FinishDone, QueryInv, QueryIsExact
<1>3. CASE Percent \/ OpenSegment \/ RepeatSlash \/ ExtensionDot \/ LeadingDot
           \/ CloseDotSegment
  <2>1. ch \notin Ends
    BY <1>3, NoEnds
    DEF Percent, OpenSegment, RepeatSlash, ExtensionDot, LeadingDot, CloseDotSegment, Is
  <2>2. Reading /\ Advance /\ Stay(state')
    BY <1>3
    DEF Percent, OpenSegment, RepeatSlash, ExtensionDot, LeadingDot, CloseDotSegment, Stay
  <2> QED BY <1>1, <2>1, <2>2
<1>4. CASE PlainByte
  <2>1. ch \notin Ends
    BY <1>4, NotUsual DEF PlainByte, Is, Arms, Named, Ends, QUESTION, HASH, DOT, PLUS
  <2>2. Reading /\ Advance /\ Stay(state')
    BY <1>4 DEF PlainByte, Stay
  <2> QED BY <1>1, <2>1, <2>2
<1>5. CASE QuotedFirst \/ LiteralEscape
  <2>1. ch \notin Ends
    BY <1>0, <1>5, DigitNoEnd DEF QuotedFirst, LiteralEscape
  <2>2. Reading /\ Advance /\ Stay(state')
    BY <1>5 DEF QuotedFirst, LiteralEscape, Stay
  <2> QED BY <1>1, <2>1, <2>2
<1>6. CASE DecodedByte
  <2>1. /\ p <= uri_end /\ p' = p /\ ch' = Value /\ pc' = "complex"
        /\ args' = args /\ args_start' = args_start
    BY <1>0, <1>6 DEF DecodedByte, Reading, Stay, fields
  <2>2. ch' \notin Ends
    BY <1>6, <2>1, DecodedNoEnd DEF DecodedByte
  <2>3. At(p - 1) \notin Ends
    BY <1>0, <1>6, <2>1, DigitNoEnd DEF DecodedByte
  <2>4. PathOnly(p - 1)' /\ At(p - 1)' \notin Ends
    BY <1>0, <2>1, <2>3, QueryStable DEF PathOnly
  <2> QED BY <1>0, <2>1, <2>2, <2>4 DEF QueryInv, QueryIsExact, Ends
<1>7. CASE QuestionMark
  <2>1. PICK n \in PathEnds : FinishArgs(n) BY <1>7 DEF QuestionMark
  <2>2. Found' BY <1>7, <2>1, QuestionFound DEF QuestionMark
  <2>3. FinishDone(u') BY <2>1 DEF FinishArgs, FinishDone
  <2> QED BY <1>2, <2>2, <2>3
<1>8. CASE HashMark
  <2>1. p <= uri_end => At(p - 1) = HASH
    BY <1>0, <1>8 DEF HashMark, Is, Ends
  <2>2. Found' BY <1>0, <1>8, <2>1, NothingFound DEF HashMark
  <2>3. FinishDone(u') BY <1>8 DEF HashMark, FinishDone
  <2> QED BY <1>2, <2>2, <2>3
<1>9. CASE EndOfPath
  <2>1. ~(p <= uri_end) BY <1>0, <1>9 DEF EndOfPath, Reading
  <2>2. Found' BY <1>0, <1>9, <2>1, NothingFound DEF EndOfPath
  <2>3. FinishDone(u') BY <1>9 DEF EndOfPath, FinishDone
  <2> QED BY <1>2, <2>2, <2>3
<1>10. CASE EscapeRoot \/ RejectEscape
  BY <1>10 DEF EscapeRoot, RejectEscape, Fail, QueryInv, QueryIsExact
<1> QED BY <1>3, <1>4, <1>5, <1>6, <1>7, <1>8, <1>9, <1>10 DEF ParseComplexUriStep

-----------------------------------------------------------------------------
LEMMA CallQuery ==
  ASSUME PathInv, QueryInv, UNCHANGED input,
         \/ RejectEmpty \/ CallParseUri \/ CallParseComplexUri
         \/ ReturnBorrowed \/ ReturnOwned
  PROVE  QueryInv'
<1>0. uri_end \in Nat /\ uri_end' = uri_end /\ (\A i : At(i)' = At(i)) /\ TypeInv
  BY ReadType, QueryStable DEF PathInv, TypeInv, TypeOK
<1>1. CASE RejectEmpty
  BY <1>1 DEF RejectEmpty, Fail, QueryInv, QueryIsExact
<1>2. CASE CallParseUri
  <2>1. /\ pc = "call" /\ pc' = "uri" /\ p' = 0 /\ args_start' = None /\ args' = args
    BY <1>0, <1>2 DEF CallParseUri, TypeInv, Cursor, marks, fields
  <2>2. PathOnly(p)' BY <2>1 DEF PathOnly
  <2> QED BY <2>1, <2>2 DEF QueryInv, QueryIsExact
<1>3. CASE CallParseComplexUri
  <2>1. /\ pc = "uri" /\ p = uri_end /\ pc' = "complex" /\ p' = 1
        /\ args_start' = None /\ args' = args /\ ch' = ReadWithLf(0)
    BY <1>3 DEF CallParseComplexUri, Scanned, fields
  <2>2. PathOnly(p - 1)' BY <2>1 DEF PathOnly
  <2>3. p' <= uri_end' => ch' = At(p - 1)'
    BY <1>0, <2>1 DEF ReadWithLf
  <2> QED BY <2>1, <2>2, <2>3 DEF QueryInv, QueryIsExact
<1>4. ASSUME Found, NEW owned, NEW n, Return(owned, n)
      PROVE  QueryInv'
  <2>1. pc' = "ok" /\ result'.args = parsed_args
    BY <1>4 DEF Return
  <2>2. /\ QueryMarks' = QueryMarks /\ \A q : QueryEnds(q)' = QueryEnds(q)
    BY <1>0, QueryStable DEF QueryEnds
  <2>3. QueryIsExact'
    BY <1>0, <1>4, <2>1, <2>2, Assembled DEF QueryIsExact
  <2> QED BY <2>1, <2>3 DEF QueryInv
<1>5. CASE ReturnBorrowed
  <2>1. /\ pc = "uri" /\ p = uri_end /\ ~NeedsNormalization /\ args.data = 0
        /\ args_start # None => args_start \in Nat
    BY <1>0, <1>5 DEF ReturnBorrowed, Scanned, QueryInv, TypeInv, TypeOK, Option
  <2>2. CASE args_start = None
    <3>1. PathOnly(uri_end) BY <2>1, <2>2 DEF QueryInv
    <3>2. QueryMarks = {} BY <1>0, <3>1 DEF QueryMarks, PathOnly, Ends
    <3>3. Found BY <2>1, <2>2, <3>2 DEF Found
    <3> QED BY <1>4, <1>5, <3>3 DEF ReturnBorrowed
  <2>3. CASE args_start # None
    <3>1. Found BY <2>1, <2>3 DEF Found, QueryInv
    <3> QED BY <1>4, <1>5, <3>1 DEF ReturnBorrowed
  <2> QED BY <2>2, <2>3
<1>6. CASE ReturnOwned
  <2>1. Found BY <1>6 DEF ReturnOwned, QueryInv
  <2> QED BY <1>4, <1>6, <2>1 DEF ReturnOwned
<1> QED BY <1>1, <1>2, <1>3, <1>5, <1>6

LEMMA NextQuery == PathInv /\ QueryInv /\ [Next]_vars => QueryInv'
<1> SUFFICES ASSUME PathInv, QueryInv, [Next]_vars PROVE QueryInv'
  OBVIOUS
<1>1. CASE Next
  BY <1>1, NextKeepsInput, StageOneQuery, StageTwoQuery, CallQuery DEF Next, PathInv
<1>2. CASE UNCHANGED vars
  <2>1. UNCHANGED input BY <1>2 DEF vars
  <2>2. \A q : QueryEnds(q)' = QueryEnds(q)
    BY <2>1, QueryStable DEF QueryEnds
  <2>3. Found' = Found /\ QueryIsExact' = QueryIsExact
    BY <1>2, <2>1, <2>2, QueryStable
    DEF vars, marks, fields, Found, QueryIsExact, Begins, PathOnly, HashFree
  <2>4. (IF args_start = None THEN PathOnly(p)
         ELSE Begins(args_start) /\ HashFree(args_start, p))'
        = (IF args_start = None THEN PathOnly(p)
           ELSE Begins(args_start) /\ HashFree(args_start, p))
    BY <1>2, <2>1, QueryStable DEF vars, marks, Begins, PathOnly, HashFree
  <2>5. PathOnly(p - 1)' = PathOnly(p - 1) /\ At(p - 1)' = At(p - 1)
    BY <1>2, <2>1, QueryStable DEF vars, PathOnly
  <2> QED BY <1>2, <2>1, <2>3, <2>4, <2>5, QueryStable
          DEF vars, flags, marks, fields, locals, NeedsNormalization, QueryInv
<1> QED BY <1>1, <1>2

LEMMA InitQuery == Init => QueryInv
BY DEF Init, QueryInv, QueryIsExact

LEMMA ReturnsQuery == QueryInv => QueryIsExact
BY DEF QueryInv

(* The query returned is the target's, from its first "?" to a "#" or the  *)
(* end, and absent if there is none or nothing follows it.                 *)
THEOREM QueriesAreExact == Spec => []QueryIsExact
<1> QED BY InitQuery, ReturnsQuery, InitPathInv, NextPathInv, NextQuery, PTL DEF Spec

-----------------------------------------------------------------------------
(***************************************************************************)
(* A call is deterministic: its next state is a function of its state.     *)
(* Of(s) reads the definitions of OriginForm off the state s, a value of   *)
(* Now.                                                                    *)
(***************************************************************************)
Of(s) == INSTANCE OriginForm WITH
  target       <- s.target,       merge_slashes <- s.merge_slashes,
  pc           <- s.pc,           complex_uri   <- s.complex_uri,
  quoted_uri   <- s.quoted_uri,   plus_in_uri   <- s.plus_in_uri,
  args_start   <- s.args_start,   uri_ext       <- s.uri_ext,
  args         <- s.args,         uri_len       <- s.uri_len,
  exten        <- s.exten,        state         <- s.state,
  p            <- s.p,            ch            <- s.ch,
  decoded      <- s.decoded,      quoted_state  <- s.quoted_state,
  u            <- s.u,            out           <- s.out,
  result       <- s.result

Set(s, f, v)  == [s EXCEPT ![f] = v]
Refusal(s)   == Set(s, "pc", "err")
Goto(s, next) == Set(s, "state", next)

(* One byte of stage 1. *)
On(s, next) == Goto(Set(s, "p", s.p + 1), next)

RunEnds(s) ==
  { q \in s.p + 1 .. Of(s)!uri_end :
      /\ \A i \in s.p + 1 .. q - 1 : usual(Of(s)!At(i))
      /\ (usual(Of(s)!Seen) /\ q # Of(s)!uri_end) => ~usual(Of(s)!At(q))
      /\ ~usual(Of(s)!Seen) => q = s.p + 1 }

StepInName(s, c) ==
  IF c = PERCENT THEN Set(On(s, "Uri"), "quoted_uri", TRUE)
  ELSE IF c = QUESTION THEN Set(On(s, "Uri"), "args_start", s.p + 1)
  ELSE IF c = PLUS THEN Set(On(s, s.state), "plus_in_uri", TRUE)
  ELSE IF c = SLASH THEN Set(On(s, "AfterSlash"), "uri_ext", None)
  ELSE IF c = DOT THEN Set(On(s, "CheckUri"), "uri_ext", s.p + 1)
  ELSE IF s.state = "AfterSlash" THEN On(s, "CheckUri")
  ELSE Set(s, "p", CHOOSE q \in RunEnds(s) : TRUE)

StepOne(s, c) ==
  IF s.state = "Start" THEN IF c = SLASH THEN On(s, "AfterSlash") ELSE Refusal(s)
  ELSE IF ~usual(c) /\ Refused(c) THEN Refusal(s)
  ELSE IF c = HASH \/ (s.state = "AfterSlash" /\ c \in {DOT, SLASH})
       THEN Set(On(s, "Uri"), "complex_uri", TRUE)
  ELSE IF s.state = "Uri" THEN On(s, "Uri")
  ELSE StepInName(s, c)

(* One byte of stage 2: written, or the end of the path or of a segment.   *)
Read(s)     == Set(Set(s, "ch", Of(s)!ReadWithLf(s.p)), "p", s.p + 1)
Write(s, b) == Set(Set(s, "out", [s.out EXCEPT ![s.u] = b]), "u", s.u + 1)

End(s) == CHOOSE n \in Of(s)!PathEnds : TRUE

Marked(s, n) == IF s.uri_ext = None THEN s.exten
                ELSE [len |-> wrapping_sub(n, s.uri_ext), data |-> s.uri_ext]
Finish(s, n) ==
  Set(Set(Set(Set(Set(s, "uri_len", n), "exten", Marked(s, n)), "uri_ext", None),
          "u", n), "pc", "normalized")

Hashes(s) ==
  { i \in s.p .. Of(s)!uri_end - 1 :
      Of(s)!At(i) = HASH /\ \A j \in s.p .. i - 1 : Of(s)!At(j) # HASH }
SeekArgs(s) ==
  IF Hashes(s) = {} THEN Set(s, "args_start", s.p)
  ELSE Set(Set(s, "args_start", None), "args",
           [len |-> wrapping_sub(CHOOSE i \in Hashes(s) : TRUE, s.p),
            data |-> s.p])

StepOut(s, c) ==
  IF Of(s)!PathEnds = {} THEN Refusal(s)
  ELSE IF s.p > Of(s)!uri_end \/ c = HASH THEN Finish(s, End(s))
  ELSE IF c = QUESTION THEN Finish(SeekArgs(s), End(s))
  ELSE Goto(Set(Read(s), "u", End(s)), "Slash")

StepCopy(s, c) ==
  Set(Goto(Write(Read(s), c), "Usual"), "plus_in_uri", s.plus_in_uri \/ c = PLUS)

StepSegment(s, c) ==
  IF c = PERCENT THEN Goto(Set(Read(s), "quoted_state", s.state), "Quoted")
  ELSE IF c = SLASH
       THEN IF s.state = "Usual" THEN Set(Goto(Write(Read(s), c), "Slash"), "uri_ext", None)
            ELSE Goto(IF s.merge_slashes THEN Read(s) ELSE Write(Read(s), c), "Slash")
  ELSE IF c = DOT /\ s.state # "DotDot"
       THEN IF s.state = "Usual" THEN Set(Write(Read(s), c), "uri_ext", s.u + 1)
            ELSE Goto(Write(Read(s), c), IF s.state = "Slash" THEN "Dot" ELSE "DotDot")
  ELSE StepCopy(s, c)

StepEscape(s, c) ==
  IF s.p > Of(s)!uri_end \/ ~IsHexDigit(c) THEN Refusal(s)
  ELSE IF s.state = "Quoted"
       THEN Goto(Set(Set(Read(s), "quoted_uri", TRUE), "decoded", HexValue(c)), "QuotedSecond")
  ELSE IF Of(s)!Value = 0 THEN Refusal(s)
  ELSE IF Of(s)!Value \in Of(s)!Literals THEN Goto(Write(Read(s), Of(s)!Value), "Usual")
  ELSE Goto(Set(Set(s, "ch", Of(s)!Value), "plus_in_uri",
                s.plus_in_uri \/ (~IsDigit(c) /\ Of(s)!Value = PLUS)), s.quoted_state)

StepTwo(s, c) ==
  IF s.state \notin Unquoted THEN StepEscape(s, c)
  ELSE IF \/ s.p > Of(s)!uri_end \/ c \in {QUESTION, HASH}
          \/ s.state \in {"Dot", "DotDot"} /\ c = SLASH
       THEN StepOut(s, c)
  ELSE StepSegment(s, c)

(* The call of stage 2, and the two returns. *)
Normalize(s) ==
  [ target |-> s.target, merge_slashes |-> s.merge_slashes, pc |-> "complex",
    complex_uri |-> s.complex_uri, quoted_uri |-> s.quoted_uri,
    plus_in_uri |-> s.plus_in_uri, args_start |-> None, uri_ext |-> None,
    args |-> s.args, uri_len |-> s.uri_len, exten |-> s.exten,
    state |-> "Usual", p |-> 1, ch |-> Of(s)!ReadWithLf(0), decoded |-> 0,
    quoted_state |-> "Usual", u |-> 0, out |-> [i \in 0 .. Of(s)!uri_end |-> 0],
    result |-> s.result ]

Answer(s, owned, len) ==
  Set(Set(s, "pc", "ok"), "result",
      [owned |-> owned, len |-> len, args |-> Of(s)!parsed_args])

Step(s) ==
  IF s.pc = "call" THEN IF Of(s)!uri_end = 0 THEN Refusal(s) ELSE Set(s, "pc", "uri")
  ELSE IF s.pc = "uri"
       THEN IF ~Of(s)!Scanned THEN StepOne(s, Of(s)!Seen)
            ELSE IF Of(s)!NeedsNormalization THEN Normalize(s)
            ELSE Answer(s, FALSE, IF s.args_start = None THEN Of(s)!uri_end ELSE s.args_start - 1)
  ELSE IF s.pc = "complex" THEN StepTwo(s, s.ch)
  ELSE Answer(s, TRUE, s.uri_len)

(* What is read off the state of the call is what the call reads. *)
LEMMA NowFields ==
  /\ Now.target = target /\ Now.merge_slashes = merge_slashes /\ Now.pc = pc
  /\ Now.complex_uri = complex_uri /\ Now.quoted_uri = quoted_uri
  /\ Now.plus_in_uri = plus_in_uri
  /\ Now.args_start = args_start /\ Now.uri_ext = uri_ext
  /\ Now.args = args /\ Now.uri_len = uri_len /\ Now.exten = exten
  /\ Now.state = state /\ Now.p = p /\ Now.ch = ch /\ Now.decoded = decoded
  /\ Now.quoted_state = quoted_state /\ Now.u = u /\ Now.out = out
  /\ Now.result = result
BY DEF Now

LEMMA NowReads ==
  /\ Of(Now)!uri_end = uri_end
  /\ \A i : Of(Now)!At(i) = At(i)
  /\ \A i : Of(Now)!ReadWithLf(i) = ReadWithLf(i)
  /\ Of(Now)!Seen = Seen
BY NowFields DEF Of!uri_end, uri_end, Of!At, At, Of!ReadWithLf, ReadWithLf, Of!LF, LF,
                 Of!Seen, Seen

LEMMA NowScans ==
  /\ Of(Now)!Scanned = Scanned
  /\ Of(Now)!NeedsNormalization = NeedsNormalization
  /\ Of(Now)!parsed_args = parsed_args
<1>1. Of(Now)!Scanned = Scanned
  BY NowFields, NowReads DEF Of!Scanned, Scanned
<1>2. Of(Now)!NeedsNormalization = NeedsNormalization
  BY NowFields DEF Of!NeedsNormalization, NeedsNormalization
<1>3. Of(Now)!parsed_args = parsed_args
  BY NowFields, NowReads DEF Of!parsed_args, parsed_args
<1> QED BY <1>1, <1>2, <1>3

LEMMA NowNormalizes ==
  /\ Of(Now)!PathEnds = PathEnds
  /\ Of(Now)!Value = Value /\ Of(Now)!Literals = Literals
<1>1. Of(Now)!PathEnds = PathEnds
  BY NowFields DEF Of!PathEnds, PathEnds, Of!SLASH, SLASH
<1>2. Of(Now)!HexValue(ch) = HexValue(ch) /\ Of(Now)!IsDigit(ch) = IsDigit(ch)
  BY DEF Of!HexValue, HexValue, Of!IsDigit, IsDigit, Of!OrCaseBit, OrCaseBit
<1>3. Of(Now)!Value = Value
  BY <1>2, NowFields DEF Of!Value, Value
<1>4. Of(Now)!Literals = Literals
  BY <1>2, NowFields DEF Of!Literals, Literals, Of!PERCENT, PERCENT, Of!HASH, HASH,
                         Of!QUESTION, QUESTION
<1> QED BY <1>1, <1>3, <1>4

(* The ends of a run of usual bytes are one. *)
LEMMA OneRunEnd ==
  ASSUME TypeInv, NEW q \in RunEnds(Now), NEW w \in RunEnds(Now)
  PROVE  q = w
<1>1. p \in Nat /\ uri_end \in Nat
  BY ReadType DEF TypeInv, TypeOK
<1>2. \A x \in RunEnds(Now) :
        /\ x \in p + 1 .. uri_end
        /\ \A i \in p + 1 .. x - 1 : usual(At(i))
        /\ (usual(Seen) /\ x # uri_end) => ~usual(At(x))
        /\ ~usual(Seen) => x = p + 1
  BY NowFields, NowReads DEF RunEnds
<1>3. \A x, y \in RunEnds(Now) : ~(x < y)
  <2> SUFFICES ASSUME NEW x \in RunEnds(Now), NEW y \in RunEnds(Now), x < y PROVE FALSE
    OBVIOUS
  <2>1. usual(Seen) /\ x # uri_end /\ x \in p + 1 .. y - 1
    BY <1>1, <1>2
  <2> QED BY <2>1, <1>2
<1> QED BY <1>1, <1>2, <1>3

(* A flag that a byte of stage 1 sets. *)
LEMMA FlagStep ==
  ASSUME NEW next, NEW v, p' = p + 1, state' = next,
         UNCHANGED << input, pc, marks, fields, locals, result >>
  PROVE  /\ (complex_uri' = v /\ UNCHANGED << quoted_uri, plus_in_uri >>)
              => Now' = Set(On(Now, next), "complex_uri", v)
         /\ (quoted_uri' = v /\ UNCHANGED << complex_uri, plus_in_uri >>)
              => Now' = Set(On(Now, next), "quoted_uri", v)
         /\ (plus_in_uri' = v /\ UNCHANGED << complex_uri, quoted_uri >>)
              => Now' = Set(On(Now, next), "plus_in_uri", v)
<1>1. ASSUME complex_uri' = v, quoted_uri' = quoted_uri, plus_in_uri' = plus_in_uri
      PROVE  Now' = Set(On(Now, next), "complex_uri", v)
  BY <1>1 DEF Now, input, marks, fields, locals, Set, On, Goto
<1>2. ASSUME quoted_uri' = v, complex_uri' = complex_uri, plus_in_uri' = plus_in_uri
      PROVE  Now' = Set(On(Now, next), "quoted_uri", v)
  BY <1>2 DEF Now, input, marks, fields, locals, Set, On, Goto
<1>3. ASSUME plus_in_uri' = v, quoted_uri' = quoted_uri, complex_uri' = complex_uri
      PROVE  Now' = Set(On(Now, next), "plus_in_uri", v)
  BY <1>3 DEF Now, input, marks, fields, locals, Set, On, Goto
<1> QED BY <1>1, <1>2, <1>3

LEMMA StageOneStep ==
  ASSUME TypeInv, ParseUriStep
  PROVE  Now' = Step(Now)
<1> USE NowFields, NowReads
<1>0. pc = "uri" /\ p # uri_end
  BY DEF ParseUriStep, InitialSlash, MarkComplex, MarkQuoted, MarkArgs, MarkPlus,
         SegmentByte, NextSegment, MarkExtension, UsualRun, OpaqueByte, RefuseByte,
         Scanning
<1>1. SUFFICES Now' = StepOne(Now, Seen)
  BY <1>0, NowScans DEF Step, Scanned
<1>2. /\ \A b \in Named : ~usual(b)
      /\ \A b \in Named : ~Refused(b)
  BY NotUsual DEF Named, Refused, DOT, PERCENT, SLASH, QUESTION, HASH, PLUS, DEL
<1>3. /\ PERCENT # QUESTION /\ PERCENT # PLUS /\ PERCENT # SLASH /\ PERCENT # DOT
      /\ PERCENT # HASH /\ QUESTION # PLUS /\ QUESTION # SLASH /\ QUESTION # DOT
      /\ QUESTION # HASH /\ PLUS # SLASH /\ PLUS # DOT /\ PLUS # HASH
      /\ SLASH # DOT /\ SLASH # HASH /\ DOT # HASH
  BY DEF DOT, PERCENT, SLASH, QUESTION, HASH, PLUS
<1> USE DEF Goto, Set, On
<1>4. CASE InitialSlash
  <2>1. Now' = On(Now, "AfterSlash")
    BY <1>4 DEF InitialSlash, Now, Scan, input, fields, locals, flags, marks
  <2> QED BY <1>2, <1>3, <1>4, <2>1 DEF StepOne, StepInName, InitialSlash, Seen
<1>5. CASE MarkComplex
  <2>1. Now' = Set(On(Now, "Uri"), "complex_uri", TRUE)
    BY <1>5, FlagStep DEF MarkComplex, Scan, marks
  <2> QED BY <1>2, <1>3, <1>5, <2>1 DEF StepOne, StepInName, MarkComplex, Sees, Named, ComplexAfterSlash
<1>6. CASE MarkQuoted
  <2>1. Now' = Set(On(Now, "Uri"), "quoted_uri", TRUE)
    BY <1>6, FlagStep DEF MarkQuoted, Scan, marks
  <2> QED BY <1>2, <1>3, <1>6, <2>1 DEF StepOne, StepInName, MarkQuoted, Sees, Named
<1>7. CASE MarkArgs
  <2>1. Now' = Set(On(Now, "Uri"), "args_start", p + 1)
    BY <1>7 DEF MarkArgs, Now, Scan, input, fields, locals, flags, marks
  <2> QED BY <1>2, <1>3, <1>7, <2>1 DEF StepOne, StepInName, MarkArgs, Sees, Named
<1>8. CASE MarkPlus
  <2>1. Now' = Set(On(Now, state), "plus_in_uri", TRUE)
    BY <1>8, FlagStep DEF MarkPlus, Scan, marks
  <2> QED BY <1>2, <1>3, <1>8, <2>1 DEF StepOne, StepInName, MarkPlus, Sees, Named
<1>9. CASE SegmentByte
  <2>1. Now' = On(Now, "CheckUri")
    BY <1>9 DEF SegmentByte, Now, Scan, input, fields, locals, flags, marks
  <2> QED BY <1>2, <1>3, <1>9, <2>1 DEF StepOne, StepInName, SegmentByte, Ordinary, Named
<1>10. CASE NextSegment
  <2>1. Now' = Set(On(Now, "AfterSlash"), "uri_ext", None)
    BY <1>10 DEF NextSegment, Now, Scan, input, fields, locals, flags, marks
  <2> QED BY <1>2, <1>3, <1>10, <2>1 DEF StepOne, StepInName, NextSegment, Sees, Named
<1>11. CASE MarkExtension
  <2>1. Now' = Set(On(Now, "CheckUri"), "uri_ext", p + 1)
    BY <1>11 DEF MarkExtension, Now, Scan, input, fields, locals, flags, marks
  <2> QED BY <1>2, <1>3, <1>11, <2>1 DEF StepOne, StepInName, MarkExtension, Sees, Named
<1>12. CASE UsualRun
  <2>1. p' \in RunEnds(Now)
    BY <1>12 DEF UsualRun, RunEnds
  <2>2. p' = CHOOSE q \in RunEnds(Now) : TRUE
    BY <2>1, OneRunEnd
  <2>3. Now' = Set(Now, "p", p')
    BY <1>12 DEF UsualRun, Now, input, fields, locals, flags, marks
  <2> QED
    BY <1>2, <1>3, <1>12, <2>2, <2>3 DEF StepOne, StepInName, UsualRun, Ordinary, Named
<1>13. CASE OpaqueByte
  <2>1. Now' = On(Now, "Uri")
    BY <1>13 DEF OpaqueByte, Now, Scan, input, fields, locals, flags, marks
  <2> QED BY <1>2, <1>3, <1>13, <2>1 DEF StepOne, StepInName, OpaqueByte, Opaque, Named
<1>14. CASE RefuseByte
  <2>1. Now' = Refusal(Now)
    BY <1>14 DEF RefuseByte, Now, Scan, input, fields, locals, flags, marks, Fail, Refusal
  <2> QED BY <1>2, <1>3, <1>14, <2>1 DEF StepOne, Refusal, RefuseByte, Named
<1> QED
  BY <1>4, <1>5, <1>6, <1>7, <1>8, <1>9, <1>10, <1>11, <1>12, <1>13, <1>14 DEF ParseUriStep

(* The way out of stage 2 is one. *)
LEMMA OnePathEnd ==
  ASSUME u \in Nat, NEW n \in PathEnds
  PROVE  n = (CHOOSE k \in PathEnds : TRUE)
<1>1. \A k, l \in PathEnds : ~(k < l)
  <2> SUFFICES ASSUME NEW k \in PathEnds, NEW l \in PathEnds, k < l PROVE FALSE
    OBVIOUS
  <2>1. CASE state = "DotDot"
    <3>1. \A x \in PathEnds : /\ x \in Nat /\ x - 1 \in 0 .. u - 4 /\ out[x - 1] = SLASH
                              /\ \A i \in x .. u - 4 : out[i] # SLASH
      BY <2>1 DEF PathEnds
    <3>2. l - 1 \in k .. u - 4
      BY <3>1
    <3> QED BY <3>1, <3>2
  <2>2. CASE state # "DotDot"
    BY <2>2 DEF PathEnds
  <2> QED BY <2>1, <2>2
<1>2. \A k \in PathEnds : k \in Nat
  BY DEF PathEnds
<1> QED BY <1>1, <1>2

LEMMA OneHash ==
  ASSUME p \in Nat, uri_end \in Nat, NEW i \in Hashes(Now)
  PROVE  i = (CHOOSE k \in Hashes(Now) : TRUE)
<1>1. \A k \in Hashes(Now) :
        k \in p .. uri_end - 1 /\ At(k) = HASH /\ \A j \in p .. k - 1 : At(j) # HASH
  BY NowFields, NowReads DEF Hashes
<1>2. \A k, l \in Hashes(Now) : ~(k < l)
  BY <1>1
<1> QED BY <1>1, <1>2

(* The query, if any, and the end of the path. *)
LEMMA FinishStep ==
  ASSUME NEW n, FinishDone(n)
  PROVE  /\ UNCHANGED << args_start, args >> => Now' = Finish(Now, n)
         /\ \A v : (args_start' = v /\ args' = args)
                     => Now' = Finish(Set(Now, "args_start", v), n)
         /\ \A v, w : (args_start' = v /\ args' = w)
                     => Now' = Finish(Set(Set(Now, "args_start", v), "args", w), n)
<1> USE DEF FinishDone, Now, Finish, Marked, Set, input, flags
<1>1. ASSUME UNCHANGED << args_start, args >>
      PROVE  Now' = Finish(Now, n)
  BY <1>1
<1>2. ASSUME NEW v, args_start' = v, args' = args
      PROVE  Now' = Finish(Set(Now, "args_start", v), n)
  BY <1>2
<1>3. ASSUME NEW v, NEW w, args_start' = v, args' = w
      PROVE  Now' = Finish(Set(Set(Now, "args_start", v), "args", w), n)
  BY <1>3
<1> QED BY <1>1, <1>2, <1>3

LEMMA StageTwoStep ==
  ASSUME TypeInv, ParseComplexUriStep
  PROVE  Now' = Step(Now)
<1> USE NowFields, NowReads
<1>0. /\ pc = "complex" /\ p \in Nat /\ u \in Nat /\ uri_end \in Nat
      /\ state \in States
  <2>1. pc = "complex"
    BY DEF ParseComplexUriStep, Percent, OpenSegment, RepeatSlash, ExtensionDot,
           LeadingDot, PlainByte, CloseDotSegment, EscapeRoot, QuestionMark, HashMark,
           EndOfPath, QuotedFirst, LiteralEscape, DecodedByte, RejectEscape, Reading
  <2> QED BY <2>1, ReadType DEF TypeInv, TypeOK
<1>1. SUFFICES Now' = StepTwo(Now, ch)
  BY <1>0 DEF Step
<1>2. /\ \A b \in Named : ~usual(b)
      /\ Reading <=> ~(p > uri_end)
      /\ \A n \in PathEnds : n = End(Now)
  BY <1>0, NotUsual, OnePathEnd, NowNormalizes DEF End, Reading
<1>3. /\ PERCENT # QUESTION /\ PERCENT # PLUS /\ PERCENT # SLASH /\ PERCENT # DOT
      /\ PERCENT # HASH /\ QUESTION # PLUS /\ QUESTION # SLASH /\ QUESTION # DOT
      /\ QUESTION # HASH /\ PLUS # SLASH /\ PLUS # DOT /\ PLUS # HASH
      /\ SLASH # DOT /\ SLASH # HASH /\ DOT # HASH
  BY DEF DOT, PERCENT, SLASH, QUESTION, HASH, PLUS
<1> USE DEF Goto, Set, Read, Write
<1>4. CASE Percent
  <2>1. Now' = Goto(Set(Read(Now), "quoted_state", state), "Quoted")
    BY <1>4 DEF Percent, Advance, Stay, input, fields, Now
  <2> QED
    BY <1>2, <1>3, <1>4, <2>1 DEF StepTwo, StepSegment, Percent, Is, Named, Unquoted
<1>5. CASE OpenSegment
  <2>1. Now' = Set(Goto(Write(Read(Now), ch), "Slash"), "uri_ext", None)
    BY <1>5 DEF OpenSegment, Emit, Advance, Stay, input, fields, Now
  <2> QED
    BY <1>2, <1>3, <1>5, <2>1 DEF StepTwo, StepSegment, OpenSegment, Is, Named, Unquoted
<1>6. CASE RepeatSlash
  <2>1. CASE merge_slashes
    <3>1. u' = u /\ out' = out /\ RepeatSlash
      BY <1>6, <2>1 DEF RepeatSlash
    <3>2. UNCHANGED << quoted_uri, plus_in_uri, uri_ext, decoded, quoted_state >>
            /\ Advance /\ Stay("Slash")
      BY <1>6 DEF RepeatSlash
    <3>3. Now' = Goto(Read(Now), "Slash")
      BY <3>1, <3>2 DEF Advance, Stay, input, fields, Now
    <3> QED
      BY <1>2, <1>3, <1>6, <2>1, <3>3
      DEF StepTwo, StepSegment, RepeatSlash, Is, Named, Unquoted
  <2>2. CASE ~merge_slashes
    <3>1. Now' = Goto(Write(Read(Now), ch), "Slash")
      BY <1>6, <2>2 DEF RepeatSlash, Emit, Advance, Stay, input, fields, Now
    <3> QED
      BY <1>2, <1>3, <1>6, <2>2, <3>1
      DEF StepTwo, StepSegment, RepeatSlash, Is, Named, Unquoted
  <2> QED BY <2>1, <2>2
<1>7. CASE ExtensionDot
  <2>1. Now' = Set(Write(Read(Now), ch), "uri_ext", u + 1)
    BY <1>7 DEF ExtensionDot, Emit, Advance, Stay, input, fields, Now
  <2> QED
    BY <1>2, <1>3, <1>7, <2>1 DEF StepTwo, StepSegment, ExtensionDot, Is, Named, Unquoted
<1>8. CASE LeadingDot
  <2>1. Now' = Goto(Write(Read(Now), ch), IF state = "Slash" THEN "Dot" ELSE "DotDot")
    BY <1>8 DEF LeadingDot, Emit, Advance, Stay, input, fields, Now
  <2> QED
    BY <1>2, <1>3, <1>8, <2>1 DEF StepTwo, StepSegment, LeadingDot, Is, Named, Unquoted
<1>9. CASE PlainByte
  <2>1. \A v : plus_in_uri' = v =>
          Now' = Set(Goto(Write(Read(Now), ch), "Usual"), "plus_in_uri", v)
    BY <1>9 DEF PlainByte, Emit, Advance, Stay, input, fields, Now
  <2>2. plus_in_uri' = (plus_in_uri \/ ch = PLUS)
    BY <1>2, <1>9 DEF PlainByte, Is, Named
  <2> QED
    BY <1>2, <1>3, <1>9, <2>1, <2>2
    DEF StepTwo, StepSegment, StepCopy, PlainByte, Arms, Is, Named, Unquoted
<1>10. CASE CloseDotSegment
  <2>1. Now' = Goto(Set(Read(Now), "u", End(Now)), "Slash")
    BY <1>2, <1>10 DEF CloseDotSegment, Advance, Stay, input, fields, Now
  <2>2. PathEnds # {}
    BY <1>10 DEF CloseDotSegment
  <2> QED
    BY <1>2, <1>3, <1>10, <2>1, <2>2, NowNormalizes
    DEF StepTwo, StepOut, CloseDotSegment, Is, Unquoted
<1>11. CASE EscapeRoot
  <2>1. Now' = Refusal(Now)
    BY <1>11 DEF EscapeRoot, Fail, Refusal, input, flags, marks, fields, locals, Now
  <2> QED
    BY <1>2, <1>11, <2>1, NowNormalizes
    DEF StepTwo, StepOut, EscapeRoot, Is, Unquoted, Reading
<1>12. CASE QuestionMark
  <2> PICK n \in PathEnds : FinishArgs(n)
    BY <1>12 DEF QuestionMark
  <2>1. Now' = Finish(SeekArgs(Now), n)
    <3>1. CASE Hashes(Now) = {}
      <4>1. args_start' = p /\ args' = args
        BY <1>0, <3>1 DEF FinishArgs, Hashes
      <4> QED BY <3>1, <4>1, FinishStep DEF FinishArgs, SeekArgs
    <3>2. CASE Hashes(Now) # {}
      <4>1. \E i \in Hashes(Now) :
              /\ args' = [len |-> wrapping_sub(i, p), data |-> p]
              /\ args_start' = None
        BY <1>0, <3>2 DEF FinishArgs, Hashes
      <4> QED BY <1>0, <3>2, <4>1, OneHash, FinishStep DEF FinishArgs, SeekArgs
    <3> QED BY <3>1, <3>2
  <2> QED
    BY <1>2, <1>3, <1>12, <2>1, NowNormalizes
    DEF StepTwo, StepOut, QuestionMark, Is, Unquoted
<1>13. CASE HashMark \/ EndOfPath
  <2> PICK n \in PathEnds : FinishDone(n)
    BY <1>13 DEF HashMark, EndOfPath
  <2>1. Now' = Finish(Now, n)
    BY <1>13, FinishStep DEF HashMark, EndOfPath
  <2> QED
    BY <1>2, <1>3, <1>13, <2>1, NowNormalizes
    DEF StepTwo, StepOut, HashMark, EndOfPath, Is, Unquoted
<1>14. CASE QuotedFirst
  <2>1. /\ decoded' = HexValue(ch) /\ Advance /\ Stay("QuotedSecond")
        /\ UNCHANGED << plus_in_uri, uri_ext, quoted_state, u, out >>
    BY <1>14 DEF QuotedFirst
  <2>2. \A v : quoted_uri' = v =>
          Now' = Goto(Set(Set(Read(Now), "quoted_uri", v), "decoded", HexValue(ch)),
                      "QuotedSecond")
    BY <2>1 DEF Advance, Stay, input, fields, Now
  <2>3. quoted_uri' = TRUE
    BY <1>14 DEF QuotedFirst
  <2>4. Now' = Goto(Set(Set(Read(Now), "quoted_uri", TRUE), "decoded", HexValue(ch)),
                    "QuotedSecond")
    BY <2>2, <2>3
  <2> QED
    BY <1>2, <1>14, <2>4 DEF StepTwo, StepEscape, QuotedFirst, Unquoted
<1>15. CASE LiteralEscape
  <2>1. Now' = Goto(Write(Read(Now), Value), "Usual")
    BY <1>15 DEF LiteralEscape, Advance, Stay, input, fields, Now
  <2>2. Value # 0
    BY <1>15 DEF LiteralEscape, Literals, PERCENT, HASH, QUESTION
  <2> QED
    BY <1>2, <1>15, <2>1, <2>2, NowNormalizes
    DEF StepTwo, StepEscape, LiteralEscape, Unquoted
<1>16. CASE DecodedByte
  <2>1. \A v : plus_in_uri' = v =>
          Now' = Goto(Set(Set(Now, "ch", Value), "plus_in_uri", v), quoted_state)
    BY <1>16 DEF DecodedByte, Stay, input, fields, Now
  <2> QED
    BY <1>2, <1>16, <2>1, NowNormalizes DEF StepTwo, StepEscape, DecodedByte, Unquoted
<1>17. CASE RejectEscape
  <2>1. Now' = Refusal(Now)
    BY <1>17 DEF RejectEscape, Fail, Refusal, input, flags, marks, fields, locals, Now
  <2> QED
    BY <1>0, <1>2, <1>17, <2>1, NowNormalizes
    DEF StepTwo, StepEscape, RejectEscape, Unquoted, States
<1> QED
  BY <1>4, <1>5, <1>6, <1>7, <1>8, <1>9, <1>10, <1>11, <1>12, <1>13, <1>14, <1>15,
     <1>16, <1>17
  DEF ParseComplexUriStep

LEMMA AnswerStep ==
  ASSUME NEW owned, NEW len, Return(owned, len)
  PROVE  Now' = Answer(Now, owned, len)
BY NowScans DEF Return, Answer, Set, input, flags, marks, fields, locals, Now

(* The next state of a call is the one Step gives. *)
LEMMA NextStep == TypeInv /\ Next => Now' = Step(Now)
<1> SUFFICES ASSUME TypeInv, Next PROVE Now' = Step(Now)
  OBVIOUS
<1> USE NowFields, NowReads, NowScans DEF Set
<1>1. CASE RejectEmpty
  BY <1>1 DEF RejectEmpty, Fail, Step, Refusal, input, flags, marks, fields, locals, Now
<1>2. CASE CallParseUri
  BY <1>2 DEF CallParseUri, Step, input, flags, marks, fields, locals, Now
<1>3. CASE ParseUriStep
  BY <1>3, StageOneStep
<1>4. CASE CallParseComplexUri
  <2>1. Now' = Normalize(Now)
    BY <1>4 DEF CallParseComplexUri, Normalize, input, flags, fields, Now
  <2> QED BY <1>4, <2>1 DEF CallParseComplexUri, Scanned, Step
<1>5. CASE ParseComplexUriStep
  BY <1>5, StageTwoStep
<1>6. CASE ReturnBorrowed
  <2>1. Now' = Answer(Now, FALSE, IF args_start = None THEN uri_end ELSE args_start - 1)
    BY <1>6, AnswerStep DEF ReturnBorrowed
  <2> QED BY <1>6, <2>1 DEF ReturnBorrowed, Scanned, Step
<1>7. CASE ReturnOwned
  <2>1. Now' = Answer(Now, TRUE, uri_len)
    BY <1>7, AnswerStep DEF ReturnOwned
  <2> QED BY <1>7, <2>1 DEF ReturnOwned, Step
<1> QED
  BY <1>1, <1>2, <1>3, <1>4, <1>5, <1>6, <1>7 DEF Next

(* A call begins with its two arguments and nothing else. *)
Begin(t, merge) ==
  [ target |-> t, merge_slashes |-> merge, pc |-> "call", complex_uri |-> FALSE,
    quoted_uri |-> FALSE, plus_in_uri |-> FALSE, args_start |-> None,
    uri_ext |-> None, args |-> [len |-> 0, data |-> 0], uri_len |-> 0,
    exten |-> [len |-> 0, data |-> 0], state |-> "Start", p |-> 0, ch |-> 0,
    decoded |-> 0, quoted_state |-> "Usual", u |-> 0, out |-> None,
    result |-> None ]

LEMMA InitBegins == Init => Now = Begin(target, merge_slashes)
BY DEF Init, Now, Begin

(* A call that takes a step has not returned. *)
LEMMA NextRuns == Next => pc \notin {"ok", "err"}
BY DEF Next, RejectEmpty, CallParseUri, ParseUriStep, CallParseComplexUri,
       ParseComplexUriStep, ReturnBorrowed, ReturnOwned, InitialSlash, MarkComplex,
       MarkQuoted, MarkArgs, MarkPlus, SegmentByte, NextSegment, MarkExtension,
       UsualRun, OpaqueByte, RefuseByte, Percent, OpenSegment, RepeatSlash,
       ExtensionDot, LeadingDot, PlainByte, CloseDotSegment, EscapeRoot, QuestionMark,
       HashMark, EndOfPath, QuotedFirst, LiteralEscape, DecodedByte, RejectEscape,
       Scanned, Scanning, Reading
=============================================================================

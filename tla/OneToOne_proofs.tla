--------------------------- MODULE OneToOne_proofs ---------------------------
(***************************************************************************)
(* Theorem: the C reference implements the port, step by step, for every   *)
(* input, both values of merge_slashes and every caller that passes enough *)
(* room.                                                                   *)
(***************************************************************************)
EXTENDS OneToOne, NginxUri_proofs, WellFoundedInduction

USE NullAssumption, NoneAssumption

(***************************************************************************)
(* The two sides name the same bytes, and test them alike: the table, the  *)
(* bytes that stage 1 refuses, the digits of an escape.                    *)
(***************************************************************************)
LEMMA SameBytes ==
  /\ Port!SLASH = SLASH /\ Port!DOT = DOT /\ Port!HASH = HASH /\ Port!PLUS = PLUS
  /\ Port!PERCENT = PERCENT /\ Port!QUESTION = QUESTION /\ Port!LF = LF
  /\ Port!Byte = Byte
BY DEF Port!SLASH, SLASH, Port!DOT, DOT, Port!HASH, HASH, Port!PLUS, PLUS,
       Port!PERCENT, PERCENT, Port!QUESTION, QUESTION, Port!LF, LF, Port!Byte, Byte

LEMMA SameTable == \A c : Port!usual(c) <=> Usual(c)
<1>1. \A h, l : Port!Word(h, l) = Word(h, l)
  BY DEF Port!Word, Word
<1>2. Port!USUAL = UsualMap
  BY <1>1 DEF Port!USUAL, UsualMap, High, Low
<1> QED
  BY <1>2 DEF Port!usual, Usual

LEMMA SameTests ==
  ASSUME NEW c \in Byte
  PROVE  /\ Port!Refused(c) <=> Control(c)
         /\ Port!IsDigit(c) <=> Decimal(c)
         /\ Port!IsHexDigit(c) <=> (Decimal(c) \/ Letter(c))
         /\ Port!IsHexDigit(c) => Port!HexValue(c) = Digit(c)
         /\ ~(Decimal(c) /\ Letter(c))
<1>1. Port!Refused(c) <=> Control(c)
  BY DEF Port!Refused, Port!DEL, Control, Byte
<1>2. Port!IsDigit(c) <=> Decimal(c)
  BY DEF Port!IsDigit, Decimal, Byte
<1>3. Port!OrCaseBit(c) = OrCaseBit(c) /\ OrCaseBit(c) \in Int
  BY DEF Port!OrCaseBit, OrCaseBit, Byte
<1>4. Port!IsHexLetter(c) <=> Letter(c)
  BY <1>3 DEF Port!IsHexLetter, Letter
<1>5. ~(Decimal(c) /\ Letter(c))
  BY DEF Decimal, Letter, OrCaseBit, Byte
<1> QED
  BY <1>1, <1>2, <1>3, <1>4, <1>5 DEF Port!IsHexDigit, Port!HexValue, Digit

LEMMA Names ==
  /\ StateName["sw_start"] = "Start" /\ StateName["sw_after_slash_in_uri"] = "AfterSlash"
  /\ StateName["sw_check_uri"] = "CheckUri" /\ StateName["sw_uri"] = "Uri"
  /\ StateName["sw_usual"] = "Usual" /\ StateName["sw_slash"] = "Slash"
  /\ StateName["sw_dot"] = "Dot" /\ StateName["sw_dot_dot"] = "DotDot"
  /\ StateName["sw_quoted"] = "Quoted" /\ StateName["sw_quoted_second"] = "QuotedSecond"
BY DEF StateName

(* The reads of the port are those of the reference. *)
LEMMA SameReads ==
  ASSUME InputOK
  PROVE  /\ Port!uri_end = in_len
         /\ \A i \in Nat : Port!ReadWithLf(i) = inbuf(i)
         /\ \A i \in 0 .. in_len - 1 : Port!At(i) = inbuf(i)
<1>1. in_len \in Nat
  BY ReadByte
<1>2. Port!uri_end = in_len /\ \A i : Port!At(i) = in[i + 1]
  BY DEF Port!uri_end, Port!At, in_len
<1> QED
  BY <1>1, <1>2, SameBytes DEF Port!ReadWithLf, inbuf

(***************************************************************************)
(* The inductive invariant, with WrapperInv.  A run of usual bytes that is *)
(* open goes on to its end.  The fields of the request that a stage has    *)
(* not set yet are those of the memset.  In the loops that the port takes  *)
(* in one step, the invariant says what is left of that step to do: which  *)
(* byte began it, how far the scan has come, and what it has found.        *)
(***************************************************************************)
RunOpen ==
  /\ pc = "uri" /\ state = "sw_check_uri" /\ run \in p + 1 .. in_len
  /\ \A i \in p .. run - 1 : Usual(inbuf(i))
  /\ run = in_len \/ ~Usual(inbuf(run))

Empty == [len |-> 0, data |-> None]

UriStates == {"sw_start", "sw_after_slash_in_uri", "sw_check_uri", "sw_uri"}

InStageOne ==
  /\ state \in UriStates /\ left = None /\ nbuf = [i \in 0 .. in_len |-> None]
  /\ r.uri = Empty /\ r.args = Empty /\ r.exten = Empty

(* The extension, if there is one, is behind the cursor. *)
ExtensionBehind == r.uri_ext # None => r.uri_ext <= u

InMainLoop ==
  /\ left = None
  /\ r.uri.data = "nbuf" /\ r.args_start = None /\ r.args = Empty /\ r.exten = Empty
  /\ ExtensionBehind /\ (r.uri_ext # None => Resume = "sw_usual")

(* The main loop was left at the byte that ch still holds, or at the end.  *)
Left ==
  /\ left \in [p : Nat, u : Nat] /\ left.p \in 1 .. in_len + 1
  /\ left.u \in 0 .. in_len
  /\ state \in Unquoted /\ r.uri.data = "nbuf" /\ r.exten = Empty

(* Until the scan has found a slash. *)
InScan ==
  /\ Left /\ state = "sw_dot_dot" /\ p = left.p /\ u <= left.u - 4
  /\ \A i \in u + 1 .. left.u - 4 : nbuf[i] # SLASH
  /\ r.args_start = None /\ r.args = Empty /\ r.uri_ext = None
  /\ p <= in_len => Case({SLASH, QUESTION, HASH})

(* Where the path ends. *)
Ended ==
  /\ Left /\ ExtensionBehind
  /\ state = "sw_dot" => u = left.u - 1
  /\ state = "sw_dot_dot" => /\ u - 1 \in 0 .. left.u - 4 /\ nbuf[u - 1] = SLASH
                             /\ \A i \in u .. left.u - 4 : nbuf[i] # SLASH
  /\ state \notin {"sw_dot", "sw_dot_dot"} => u = left.u

InQuery ==
  /\ Ended /\ left.p <= in_len /\ Case({QUESTION})
  /\ r.args_start = left.p /\ r.args = Empty
  /\ p >= left.p /\ \A i \in left.p .. p - 1 : inbuf(i) # HASH

QueryEnd(i) == inbuf(i) = HASH /\ \A j \in left.p .. i - 1 : inbuf(j) # HASH

Finishing ==
  /\ Ended /\ r.args_start = None
  /\ \/ r.args = Empty /\ (left.p <= in_len => Case({HASH}))
     \/ /\ left.p <= in_len /\ Case({QUESTION})
        /\ \E i \in left.p .. in_len - 1 :
             QueryEnd(i) /\ r.args = [len |-> i - left.p, data |-> left.p]

Replying ==
  /\ r.args = Empty \/ (r.args.data \in Nat \ {0} /\ r.args_start = None)
  /\ IF Owned THEN left \in [p : Nat, u : Nat]
     ELSE /\ left = None /\ Simple /\ p = in_len
          /\ r.uri = [len |-> RawLength, data |-> "inbuf"]

HistoryInv ==
  /\ out_cap >= in_len
  /\ run # None => RunOpen
  /\ pc \in {"call", "uri"} => InStageOne
  /\ pc = "complex" => InMainLoop
  /\ pc = "dots" => InScan
  /\ pc = "args" => InQuery
  /\ pc = "done" => Finishing
  /\ pc = "reply" => Replying

PortInv == WrapperInv /\ HistoryInv

-----------------------------------------------------------------------------
(***************************************************************************)
(* What the mapping shows of each stage: of stage 1, of the main loop of   *)
(* stage 2, and of its inner loops, which stand where it was left.         *)
(***************************************************************************)
NoSlice == [len |-> 0, data |-> 0]

MapsStageOne ==
  /\ port_pc = pc /\ port_args_start = r.args_start
  /\ port_args = NoSlice /\ Offset(r.exten) = NoSlice /\ port_uri_len = 0
  /\ port_p = (IF run # None THEN run ELSE p)
  /\ port_u = u /\ port_out = None /\ port_result = None

MapsStageTwo ==
  /\ port_pc = "complex" /\ port_args_start = None
  /\ port_args = NoSlice /\ Offset(r.exten) = NoSlice /\ port_uri_len = 0
  /\ port_p = (IF left # None THEN left.p ELSE p)
  /\ port_u = (IF left # None THEN left.u ELSE u)
  /\ port_out = Zeroed /\ port_result = None

LEMMA StageOneMaps ==
  pc \in {"call", "uri"} /\ InStageOne => MapsStageOne
BY DEF InStageOne, MapsStageOne, NoSlice, Empty, port_pc, port_args_start, port_args,
       port_uri_len, port_p, port_u, port_out, port_result, Offset, InLoop, Normalized,
       Owned

LEMMA StageTwoMaps ==
  /\ pc = "complex" \/ InLoop
  /\ pc = "complex" => r.args_start = None /\ r.args = Empty
  /\ r.exten = Empty /\ r.uri.data = "nbuf" /\ run = None
  => MapsStageTwo
BY DEF MapsStageTwo, NoSlice, Empty, port_pc, port_args_start, port_args,
       port_uri_len, port_p, port_u, port_out, port_result, Offset, InLoop, Normalized,
       Owned

LEMMA StageOneMapsNext ==
  (pc \in {"call", "uri"} /\ InStageOne)' => MapsStageOne'
BY StageOneMaps, PTL

LEMMA StageTwoMapsNext ==
  (/\ pc = "complex" \/ InLoop
   /\ pc = "complex" => r.args_start = None /\ r.args = Empty
   /\ r.exten = Empty /\ r.uri.data = "nbuf" /\ run = None)'
  => MapsStageTwo'
BY StageTwoMaps, PTL

(* A step of the reference is one of the port, or none. *)
Matched == Port!Next \/ UNCHANGED Port!vars

(* The fields of a request that differs from r in one of them at most.     *)
Fields(q, complex, quoted, plus, start, ext) ==
  /\ q.complex_uri = complex /\ q.quoted_uri = quoted /\ q.plus_in_uri = plus
  /\ q.args_start = start /\ q.uri_ext = ext
  /\ q.uri = r.uri /\ q.args = r.args /\ q.exten = r.exten

LEMMA AssignFields ==
  ASSUME r \in RequestType, NEW v
  PROVE
    /\ Fields(With("complex_uri", v), v, r.quoted_uri, r.plus_in_uri, r.args_start, r.uri_ext)
    /\ Fields(With("quoted_uri", v), r.complex_uri, v, r.plus_in_uri, r.args_start, r.uri_ext)
    /\ Fields(With("plus_in_uri", v), r.complex_uri, r.quoted_uri, v, r.args_start, r.uri_ext)
    /\ Fields(With("args_start", v), r.complex_uri, r.quoted_uri, r.plus_in_uri, v, r.uri_ext)
    /\ Fields(With("uri_ext", v), r.complex_uri, r.quoted_uri, r.plus_in_uri, r.args_start, v)
BY DEF Fields, With, RequestType

(* Only a run of usual bytes in stage 1 is recorded. *)
LEMMA NoRun ==
  ASSUME PortInv, RecordRun,
         pc # "uri" \/ p = in_len \/ state # "sw_check_uri" \/ ~Usual(inbuf(p))
  PROVE  run = None /\ run' = None
<1>1. pc = "uri" => p \in 0 .. in_len /\ in_len \in Nat
  BY ReadByte DEF PortInv, WrapperInv, Types
<1>2. run = None
  BY <1>1 DEF PortInv, HistoryInv, RunOpen
<1>3. CurrentRun = None
  BY <1>2 DEF CurrentRun, Scans
<1> QED BY <1>2, <1>3 DEF RecordRun

-----------------------------------------------------------------------------
(* A refusal of the reference is one of the port: it drops what it has.    *)
LEMMA RefusalMatches ==
  ASSUME Refuse, RecordLeft, run = None, run' = None, pc \notin {"reply", "returned"},
         InLoop => r.args_start = None /\ r.args = Empty,
         HistoryInv, InputOK
  PROVE  HistoryInv' /\ Port!Fail
<1>1. /\ UNCHANGED << in, merge_slashes, out_cap, r, state, p, ch, decoded, quoted_state >>
      /\ UNCHANGED << u, nbuf >>
      /\ pc' = "returned" /\ rc' = -1
  BY DEF Refuse, Return, call, local2
<1>2. left' = left
  BY <1>1 DEF RecordLeft, InLoop
<1>3. in_len' = in_len /\ UNCHANGED Zeroed
  BY <1>1 DEF in_len, Zeroed
<1>4. HistoryInv'
  BY <1>1, <1>3 DEF HistoryInv
<1>5. UNCHANGED << port_args_start, port_args, Offset(r.args), Offset(r.exten) >>
  BY <1>1 DEF port_args_start, port_args, Offset, Empty, InLoop
<1>6. UNCHANGED << port_uri_len, port_p, port_u, port_out, port_result >>
  BY <1>1, <1>2, <1>3
  DEF port_uri_len, port_p, port_u, port_out, port_result, Owned, Normalized
<1>7. port_pc' = "err"
  BY <1>1 DEF port_pc
<1>8. UNCHANGED << StateName[state], StateName[quoted_state] >>
  BY <1>1
<1> QED
  BY <1>1, <1>4, <1>5, <1>6, <1>7, <1>8
  DEF Port!Fail, Port!input, Port!flags, Port!marks, Port!fields, Port!locals

LEMMA CallMatches ==
  ASSUME PortInv, RecordRun, RecordLeft, EmptyInput \/ CopyInput
  PROVE  HistoryInv' /\ Matched
<1>1. /\ pc = "call" /\ InStageOne /\ in_len \in Nat /\ p = 0 /\ InputOK /\ out_cap >= in_len
      /\ UNCHANGED << in, merge_slashes, out_cap, r, state, p, local2 >>
  BY ReadByte
  DEF PortInv, HistoryInv, WrapperInv, Types, EmptyInput, CopyInput, Refuse, Return, call
<1>2. run = None /\ run' = None
  BY <1>1, NoRun
<1>3. in_len' = in_len /\ Port!uri_end = in_len
  BY <1>1, SameReads DEF in_len
<1>4. MapsStageOne
  BY <1>1, StageOneMaps
<1>5. CASE EmptyInput
  <2>1. HistoryInv' /\ Port!Fail
    BY <1>1, <1>2, <1>5, RefusalMatches DEF EmptyInput, InLoop, PortInv
  <2>2. Port!RejectEmpty
    BY <1>1, <1>3, <1>4, <1>5, <2>1 DEF Port!RejectEmpty, MapsStageOne, EmptyInput
  <2> QED BY <2>1, <2>2 DEF Matched, Port!Next
<1>6. CASE CopyInput
  <2>1. pc' = "uri" /\ in_len # 0 /\ left' = left
    BY <1>1, <1>6 DEF CopyInput, RecordLeft, InLoop
  <2>2. InStageOne'
    BY <1>1, <1>3, <2>1 DEF InStageOne, local2
  <2>3. HistoryInv'
    BY <1>1, <1>2, <1>3, <2>1, <2>2 DEF HistoryInv
  <2>4. MapsStageOne'
    BY <2>1, <2>2, StageOneMapsNext
  <2>5. Port!CallParseUri
    BY <1>1, <1>2, <1>3, <1>4, <2>1, <2>4
    DEF Port!CallParseUri, MapsStageOne, local2,
        Port!input, Port!flags, Port!marks, Port!fields, Port!locals
  <2> QED BY <2>3, <2>5 DEF Matched, Port!Next
<1> QED BY <1>5, <1>6

(***************************************************************************)
(* Stage 1.  The reference takes the bytes of a run of usual bytes one at  *)
(* a time; the port takes them all with the first of them.                 *)
(***************************************************************************)
StageOneReads == sw_start \/ sw_after_slash_in_uri \/ sw_check_uri \/ sw_uri

LEMMA StageOneKeeps ==
  ASSUME PortInv, RecordLeft, StageOneReads
  PROVE  /\ pc = "uri" /\ p \in 0 .. in_len - 1 /\ in_len \in Nat /\ in_len' = in_len
         /\ InputOK /\ inbuf(p) \in Byte /\ r \in RequestType
         /\ InStageOne /\ InStageOne' /\ MapsStageOne /\ MapsStageOne'
         /\ p' = p + 1 /\ UNCHANGED << in, merge_slashes, out_cap, pc, left, u, nbuf >>
         /\ UNCHANGED << Port!input, Port!fields, Port!locals, port_pc, port_result >>
<1>1. /\ pc = "uri" /\ pc' = "uri" /\ p # in_len /\ p' = p + 1
      /\ UNCHANGED << in, merge_slashes, out_cap, ch, decoded, quoted_state, u, nbuf >>
  BY DEF StageOneReads, sw_start, sw_after_slash_in_uri, sw_check_uri, sw_uri, Scans, Go,
         call, local2
<1>2. /\ InputOK /\ in_len \in Nat /\ r \in RequestType /\ p \in 0 .. in_len
      /\ InStageOne /\ \A i \in Nat : inbuf(i) \in Byte
  BY <1>1, ReadByte DEF PortInv, HistoryInv, WrapperInv, Types
<1>3. in_len' = in_len /\ left' = left
  BY <1>1 DEF in_len, RecordLeft, InLoop
<1>4. state' \in UriStates
  BY <1>2 DEF StageOneReads, sw_start, sw_after_slash_in_uri, sw_check_uri, sw_uri, Go,
              InStageOne, UriStates
<1>5. r'.uri = r.uri /\ r'.args = r.args /\ r'.exten = r.exten
  <2>1. \/ r' = r
        \/ \E v : \/ r' = With("complex_uri", v) \/ r' = With("quoted_uri", v)
                 \/ r' = With("plus_in_uri", v)
                 \/ r' = With("args_start", v) \/ r' = With("uri_ext", v)
    BY DEF StageOneReads, sw_start, sw_after_slash_in_uri, sw_check_uri, sw_uri, Go
  <2> QED BY <1>2, <2>1, AssignFields DEF Fields
<1>6. InStageOne'
  BY <1>1, <1>2, <1>3, <1>4, <1>5 DEF InStageOne
<1>7. MapsStageOne /\ MapsStageOne'
  BY <1>1, <1>2, <1>6, StageOneMaps, StageOneMapsNext
<1>8. UNCHANGED << Port!input, Port!fields, Port!locals, port_pc, port_result >>
  BY <1>1, <1>7 DEF MapsStageOne, Port!input, Port!fields, Port!locals
<1> QED
  BY <1>1, <1>2, <1>3, <1>6, <1>7, <1>8

(* A byte that is not of such a run: what the port sees of it. *)
LEMMA OneByte ==
  ASSUME PortInv, RecordRun, RecordLeft, StageOneReads,
         state # "sw_check_uri" \/ ~Usual(inbuf(p))
  PROVE  /\ HistoryInv'
         /\ Port!Scanning /\ Port!Seen = inbuf(p) /\ port_p = p /\ port_p' = p + 1
         /\ \A b : Port!Sees(b) <=> Sees({b})
<1>1. /\ pc = "uri" /\ p \in 0 .. in_len - 1 /\ in_len \in Nat /\ in_len' = in_len
      /\ InputOK /\ MapsStageOne /\ MapsStageOne' /\ p' = p + 1 /\ pc' = pc
      /\ out_cap' = out_cap /\ InStageOne'
  BY StageOneKeeps
<1>2. run = None /\ run' = None
  BY NoRun
<1>3. HistoryInv'
  BY <1>1, <1>2 DEF HistoryInv, PortInv
<1>4. port_p = p /\ port_p' = p + 1
  BY <1>1, <1>2 DEF MapsStageOne
<1>5. Port!Seen = inbuf(p) /\ Port!Scanning
  BY <1>1, <1>4, SameReads DEF Port!Seen, Port!Scanning, MapsStageOne
<1>6. \A b : Port!Sees(b) <=> Sees({b})
  BY <1>5, SameTable DEF Port!Sees, Sees
<1> QED
  BY <1>3, <1>4, <1>5, <1>6

(* A step of the port that takes one byte, to the state next. *)
LEMMA PortScans ==
  ASSUME PortInv, RecordRun, RecordLeft, StageOneReads,
         state # "sw_check_uri" \/ ~Usual(inbuf(p)), NEW next, StateName[state'] = next
  PROVE  /\ Port!Scan(next)
         /\ r' = r => UNCHANGED << Port!flags, Port!marks >>
         /\ UNCHANGED r.complex_uri /\ UNCHANGED r.quoted_uri /\ UNCHANGED r.plus_in_uri
              => UNCHANGED Port!flags
         /\ UNCHANGED r.args_start /\ UNCHANGED r.uri_ext => UNCHANGED Port!marks
         /\ port_args_start' = r.args_start'
         /\ UNCHANGED r.args_start => UNCHANGED port_args_start
<1>1. /\ MapsStageOne /\ MapsStageOne'
      /\ UNCHANGED << Port!input, Port!fields, Port!locals, port_pc, port_result >>
  BY StageOneKeeps
<1>2. port_p' = port_p + 1
  BY OneByte
<1>3. port_args_start = r.args_start /\ port_args_start' = r.args_start'
  BY <1>1 DEF MapsStageOne
<1> QED
  BY <1>1, <1>2, <1>3 DEF Port!Scan, Port!flags, Port!marks

LEMMA StartMatches ==
  ASSUME PortInv, RecordRun, RecordLeft, sw_start
  PROVE  HistoryInv' /\ Matched
<1>1. StageOneReads /\ state = "sw_start" /\ state' = "sw_after_slash_in_uri" /\ r' = r
      /\ inbuf(p) = SLASH
  BY DEF StageOneReads, sw_start, Scans, Go
<1>2. HistoryInv' /\ Port!Scanning /\ Port!Seen = SLASH
  BY <1>1, OneByte
<1>3. StateName[state] = "Start" /\ StateName[state'] = "AfterSlash"
  BY <1>1 DEF StateName
<1>4. Port!InitialSlash
  BY <1>1, <1>2, <1>3, PortScans, SameBytes DEF Port!InitialSlash
<1> QED BY <1>2, <1>4 DEF Matched, Port!Next, Port!ParseUriStep

(* The arms that the states after a slash and inside a segment share, and  *)
(* the one on # that the states inside a segment and after it do.          *)
LEMMA SharedArms ==
  ASSUME PortInv, RecordRun, RecordLeft,
         \/ /\ sw_after_slash_in_uri \/ sw_check_uri
            /\ \/ Sees({PERCENT}) /\ Go("sw_uri", With("quoted_uri", TRUE))
               \/ Sees({QUESTION}) /\ Go("sw_uri", With("args_start", p + 1))
               \/ Sees({PLUS}) /\ Go(state, With("plus_in_uri", TRUE))
         \/ /\ sw_check_uri \/ sw_uri
            /\ Sees({HASH}) /\ Go("sw_uri", With("complex_uri", TRUE))
         \/ /\ sw_after_slash_in_uri
            /\ Sees({DOT, SLASH, HASH}) /\ Go("sw_uri", With("complex_uri", TRUE))
  PROVE  HistoryInv' /\ Matched
<1>1. /\ StageOneReads /\ state \in {"sw_after_slash_in_uri", "sw_check_uri", "sw_uri"}
      /\ ~Usual(inbuf(p))
  BY DEF StageOneReads, sw_after_slash_in_uri, sw_check_uri, sw_uri, Scans, Sees
<1>2. /\ HistoryInv' /\ Port!Scanning /\ \A b : Port!Sees(b) <=> Sees({b})
      /\ port_p = p
  BY <1>1, OneByte
<1>3. r \in RequestType /\ StateName["sw_uri"] = "Uri"
  BY <1>1, StageOneKeeps DEF StateName
<1>4. CASE /\ sw_after_slash_in_uri \/ sw_check_uri
           /\ Sees({PERCENT}) /\ Go("sw_uri", With("quoted_uri", TRUE))
  <2>1. /\ StateName[state'] = "Uri"
        /\ Fields(r', r.complex_uri, TRUE, r.plus_in_uri, r.args_start, r.uri_ext)
    BY <1>3, <1>4, AssignFields DEF Go
  <2>2. StateName[state] \in {"AfterSlash", "CheckUri"}
    BY <1>4, Names DEF sw_after_slash_in_uri, sw_check_uri, Scans
  <2>3. Port!MarkQuoted
    BY <1>1, <1>2, <1>4, <2>1, <2>2, PortScans, SameBytes DEF Port!MarkQuoted, Fields
  <2> QED BY <1>2, <2>3 DEF Matched, Port!Next, Port!ParseUriStep
<1>5. CASE /\ sw_after_slash_in_uri \/ sw_check_uri
           /\ Sees({QUESTION}) /\ Go("sw_uri", With("args_start", p + 1))
  <2>1. /\ StateName[state'] = "Uri"
        /\ Fields(r', r.complex_uri, r.quoted_uri, r.plus_in_uri, p + 1, r.uri_ext)
    BY <1>3, <1>5, AssignFields DEF Go
  <2>2. StateName[state] \in {"AfterSlash", "CheckUri"}
    BY <1>5, Names DEF sw_after_slash_in_uri, sw_check_uri, Scans
  <2>3. Port!MarkArgs
    BY <1>1, <1>2, <1>5, <2>1, <2>2, PortScans, SameBytes DEF Port!MarkArgs, Fields
  <2> QED BY <1>2, <2>3 DEF Matched, Port!Next, Port!ParseUriStep
<1>6. CASE /\ sw_after_slash_in_uri \/ sw_check_uri
           /\ Sees({PLUS}) /\ Go(state, With("plus_in_uri", TRUE))
  <2>1. /\ StateName[state'] = StateName[state]
        /\ Fields(r', r.complex_uri, r.quoted_uri, TRUE, r.args_start, r.uri_ext)
    BY <1>3, <1>6, AssignFields DEF Go
  <2>2. StateName[state] \in {"AfterSlash", "CheckUri"}
    BY <1>6, Names DEF sw_after_slash_in_uri, sw_check_uri, Scans
  <2>3. Port!MarkPlus
    BY <1>1, <1>2, <1>6, <2>1, <2>2, PortScans, SameBytes DEF Port!MarkPlus, Fields
  <2> QED BY <1>2, <2>3 DEF Matched, Port!Next, Port!ParseUriStep
<1>7. CASE /\ Go("sw_uri", With("complex_uri", TRUE))
           /\ \/ (sw_check_uri \/ sw_uri) /\ Sees({HASH})
              \/ sw_after_slash_in_uri /\ Sees({DOT, SLASH, HASH})
  <2>1. /\ StateName[state'] = "Uri"
        /\ Fields(r', TRUE, r.quoted_uri, r.plus_in_uri, r.args_start, r.uri_ext)
    BY <1>3, <1>7, AssignFields DEF Go
  <2>2. \/ StateName[state] \in {"CheckUri", "Uri"} /\ Port!Sees(HASH)
        \/ /\ StateName[state] = "AfterSlash"
           /\ \E b \in Port!ComplexAfterSlash : Port!Sees(b)
    BY <1>2, <1>7, SameBytes, Names
    DEF sw_after_slash_in_uri, sw_check_uri, sw_uri, Scans, Sees, Port!ComplexAfterSlash
  <2>3. Port!MarkComplex
    BY <1>1, <1>2, <2>1, <2>2, PortScans, SameBytes DEF Port!MarkComplex, Fields
  <2> QED BY <1>2, <2>3 DEF Matched, Port!Next, Port!ParseUriStep
<1> QED BY <1>4, <1>5, <1>6, <1>7

LEMMA AfterSlashMatches ==
  ASSUME PortInv, RecordRun, RecordLeft, sw_after_slash_in_uri
  PROVE  HistoryInv' /\ Matched
<1>1. StageOneReads /\ state = "sw_after_slash_in_uri"
  BY DEF StageOneReads, sw_after_slash_in_uri, Scans
<1>2. CASE Passes({DOT, SLASH, HASH, PERCENT, QUESTION, PLUS}) /\ Go("sw_check_uri", r)
  <2>1. HistoryInv' /\ Port!Scanning /\ Port!Seen = inbuf(p) /\ inbuf(p) \in Byte
    BY <1>1, OneByte, StageOneKeeps
  <2>2. StateName[state] = "AfterSlash" /\ StateName[state'] = "CheckUri" /\ r' = r
    BY <1>1, <1>2 DEF Go, StateName
  <2>3. Port!Seen \in Port!Ordinary
    BY <1>2, <2>1, SameBytes, SameTable, SameTests
    DEF Passes, Port!Ordinary, Port!Named
  <2>4. Port!SegmentByte
    BY <1>1, <2>1, <2>2, <2>3, PortScans DEF Port!SegmentByte
  <2> QED BY <2>1, <2>4 DEF Matched, Port!Next, Port!ParseUriStep
<1> QED BY <1>2, SharedArms DEF sw_after_slash_in_uri

LEMMA UriMatches ==
  ASSUME PortInv, RecordRun, RecordLeft, sw_uri
  PROVE  HistoryInv' /\ Matched
<1>1. StageOneReads /\ state = "sw_uri"
  BY DEF StageOneReads, sw_uri, Scans
<1>2. CASE Passes({HASH}) /\ Go(state, r)
  <2>1. HistoryInv' /\ Port!Scanning /\ Port!Seen = inbuf(p) /\ inbuf(p) \in Byte
    BY <1>1, OneByte, StageOneKeeps
  <2>2. StateName[state] = "Uri" /\ StateName[state'] = "Uri" /\ r' = r
    BY <1>1, <1>2 DEF Go, StateName
  <2>3. Port!Seen \in Port!Opaque
    BY <1>2, <2>1, SameBytes, SameTable, SameTests DEF Passes, Port!Opaque
  <2>4. Port!OpaqueByte
    BY <1>1, <2>1, <2>2, <2>3, PortScans DEF Port!OpaqueByte
  <2> QED BY <2>1, <2>4 DEF Matched, Port!Next, Port!ParseUriStep
<1> QED BY <1>1, <1>2, SharedArms DEF sw_uri

LEMMA RefusedByteMatches ==
  ASSUME PortInv, RecordRun, RecordLeft, ScanError
  PROVE  HistoryInv' /\ Matched
<1>1. /\ pc = "uri" /\ p \in 0 .. in_len - 1 /\ InStageOne /\ InputOK /\ in_len \in Nat
      /\ inbuf(p) \in Byte
  BY ReadByte DEF PortInv, HistoryInv, WrapperInv, Types, ScanError
<1>2. run = None /\ run' = None
  BY <1>1, NoRun DEF ScanError
<1>3. MapsStageOne
  BY <1>1, StageOneMaps
<1>4. Port!Scanning /\ Port!Seen = inbuf(p)
  BY <1>1, <1>2, <1>3, SameReads DEF MapsStageOne, Port!Scanning, Port!Seen
<1>5. HistoryInv' /\ Port!Fail
  BY <1>1, <1>2, RefusalMatches DEF ScanError, InLoop, PortInv
<1>6. StateName[state] = "Start" <=> state = "sw_start"
  BY <1>1 DEF InStageOne, UriStates, StateName
<1>7. Port!RefuseByte
  BY <1>1, <1>4, <1>5, <1>6, SameBytes, SameTable, SameTests
  DEF Port!RefuseByte, ScanError
<1> QED BY <1>5, <1>7 DEF Matched, Port!Next, Port!ParseUriStep

(* A set of numbers that is not empty has a least one. *)
LEMMA Smallest ==
  ASSUME NEW S, S \subseteq Nat, S # {}
  PROVE  \E n \in S : \A m \in S : n <= m
<1>1. PICK n \in S : \A m \in S : << m, n >> \notin OpToRel(<, Nat)
  <2>1. IsWellFoundedOn(OpToRel(<, Nat), Nat)
    BY NatLessThanWellFounded
  <2> QED BY <2>1, WFMin
<1>2. \A m \in S : ~(m < n)
  BY <1>1 DEF OpToRel
<1> QED BY <1>2

LEMMA RunHasEnd ==
  ASSUME InputOK, p \in Nat, p < in_len, Usual(inbuf(p))
  PROVE  RunEnds # {}
<1> DEFINE Stops == { q \in p + 1 .. in_len : q = in_len \/ ~Usual(inbuf(q)) }
<1>1. in_len \in Nat /\ in_len \in Stops /\ Stops \subseteq Nat
  BY ReadByte
<1>2. PICK q \in Stops : \A m \in Stops : q <= m
  BY <1>1, Smallest
<1>3. \A i \in p + 1 .. q - 1 : Usual(inbuf(i))
  <2>1. \A i \in p + 1 .. q - 1 : i \in p + 1 .. in_len /\ i # in_len /\ i \notin Stops
    BY <1>1, <1>2
  <2> QED BY <2>1
<1>4. q \in RunEnds
  BY <1>1, <1>2, <1>3 DEF RunEnds
<1> QED BY <1>4

(* The first byte of a run is the step of the port that takes the run; the *)
(* port waits at its end while the reference takes the others.             *)
LEMMA RunMatches ==
  ASSUME PortInv, RecordRun, RecordLeft, sw_check_uri, Usual(inbuf(p))
  PROVE  HistoryInv' /\ Matched
<1>1. /\ StageOneReads /\ Scans("sw_check_uri") /\ state' = "sw_check_uri" /\ r' = r
  BY DEF StageOneReads, sw_check_uri, Scans, Sees, Go
<1>2. /\ pc = "uri" /\ p \in 0 .. in_len - 1 /\ in_len \in Nat /\ in_len' = in_len
      /\ InputOK /\ MapsStageOne /\ MapsStageOne' /\ p' = p + 1 /\ inbuf(p) \in Byte
      /\ UNCHANGED << in, out_cap, pc >> /\ InStageOne'
      /\ UNCHANGED << Port!input, Port!fields, Port!locals, port_pc, port_result >>
  BY <1>1, StageOneKeeps
<1> DEFINE q == CurrentRun
<1>3. /\ q \in p + 1 .. in_len /\ \A i \in p .. q - 1 : Usual(inbuf(i))
      /\ q = in_len \/ ~Usual(inbuf(q))
  <2>1. CASE run # None
    BY <2>1 DEF CurrentRun, PortInv, HistoryInv, RunOpen
  <2>2. CASE run = None
    <3>1. q = CHOOSE e \in RunEnds : TRUE
      BY <1>1, <2>2 DEF CurrentRun
    <3>2. q \in RunEnds
      BY <1>2, <3>1, RunHasEnd
    <3> QED BY <3>2 DEF RunEnds
  <2> QED BY <2>1, <2>2
<1>4. run' = (IF q = p + 1 THEN None ELSE q)
  BY <1>2 DEF RecordRun
<1> HIDE DEF q
<1>5. \A i \in Nat : inbuf(i)' = inbuf(i)
  BY <1>2 DEF inbuf
<1>6. run' # None => RunOpen'
  <2>1. q \in (p + 1) + 1 .. in_len \/ q = p + 1
    BY <1>2, <1>3
  <2>2. \A i \in p + 1 .. q - 1 : Usual(inbuf(i)) /\ i \in Nat
    BY <1>2, <1>3
  <2> QED BY <1>1, <1>2, <1>3, <1>4, <1>5, <2>1, <2>2 DEF RunOpen
<1>7. HistoryInv'
  BY <1>2, <1>6 DEF HistoryInv, PortInv
<1>8. q # None /\ port_p' = q
  BY <1>2, <1>3, <1>4 DEF MapsStageOne
<1>9. CASE run # None
  <2>1. port_p = q
    BY <1>2, <1>9 DEF q, CurrentRun, MapsStageOne
  <2> QED
    BY <1>1, <1>2, <1>7, <1>8, <2>1
    DEF Matched, Port!vars, Port!flags, Port!marks, MapsStageOne, Scans
<1>10. CASE run = None
  <2>1. port_p = p
    BY <1>2, <1>10 DEF MapsStageOne
  <2>2. Port!Scanning /\ Port!Seen = inbuf(p) /\ Port!uri_end = in_len
    BY <1>2, <2>1, SameReads DEF Port!Seen, Port!Scanning, MapsStageOne
  <2>3. Port!Seen \in Port!Ordinary /\ Port!usual(Port!Seen)
    BY <1>2, <2>2, SameTable, SameBytes DEF Port!Ordinary
  <2>4. \A i \in p + 1 .. q - 1 : Port!usual(Port!At(i))
    BY <1>2, <1>3, SameReads, SameTable
  <2>5. q # Port!uri_end => ~Port!usual(Port!At(q))
    BY <1>2, <1>3, <2>2, SameReads, SameTable
  <2>6. Port!UsualRun
    BY <1>1, <1>2, <1>3, <1>8, <2>1, <2>2, <2>3, <2>4, <2>5, Names
    DEF Port!UsualRun, Scans, Port!flags, Port!marks, MapsStageOne
  <2> QED BY <1>7, <2>6 DEF Matched, Port!Next, Port!ParseUriStep
<1> QED BY <1>9, <1>10

LEMMA CheckUriMatches ==
  ASSUME PortInv, RecordRun, RecordLeft, sw_check_uri
  PROVE  HistoryInv' /\ Matched
<1>1. StageOneReads /\ state = "sw_check_uri"
  BY DEF StageOneReads, sw_check_uri, Scans
<1>2. CASE ~Usual(inbuf(p))
  <2>1. /\ HistoryInv' /\ Port!Scanning /\ Port!Seen = inbuf(p) /\ inbuf(p) \in Byte
        /\ port_p = p /\ port_p' = p + 1 /\ \A b : Port!Sees(b) <=> Sees({b})
        /\ StateName[state] = "CheckUri" /\ r \in RequestType
        /\ p \in 0 .. in_len - 1 /\ in_len \in Nat /\ Port!uri_end = in_len
    BY <1>1, <1>2, OneByte, StageOneKeeps, Names, SameReads
  <2>2. CASE Sees({SLASH}) /\ Go("sw_after_slash_in_uri", With("uri_ext", None))
    <3>1. /\ StateName[state'] = "AfterSlash"
          /\ Fields(r', r.complex_uri, r.quoted_uri, r.plus_in_uri, r.args_start, None)
      BY <2>1, <2>2, AssignFields, Names DEF Go
    <3>2. Port!NextSegment
      BY <1>1, <1>2, <2>1, <2>2, <3>1, PortScans, SameBytes DEF Port!NextSegment, Fields
    <3> QED BY <2>1, <3>2 DEF Matched, Port!Next, Port!ParseUriStep
  <2>3. CASE Sees({DOT}) /\ Go(state, With("uri_ext", p + 1))
    <3>1. /\ StateName[state'] = "CheckUri"
          /\ Fields(r', r.complex_uri, r.quoted_uri, r.plus_in_uri, r.args_start, p + 1)
      BY <2>1, <2>3, AssignFields DEF Go
    <3>2. Port!MarkExtension
      BY <1>1, <1>2, <2>1, <2>3, <3>1, PortScans, SameBytes DEF Port!MarkExtension, Fields
    <3> QED BY <2>1, <3>2 DEF Matched, Port!Next, Port!ParseUriStep
  <2>4. CASE Passes({DOT, SLASH, HASH, PERCENT, QUESTION, PLUS}) /\ Go(state, r)
    <3>1. StateName[state'] = "CheckUri" /\ r' = r /\ state' = state
      BY <2>1, <2>4 DEF Go
    <3>2. Port!Seen \in Port!Ordinary /\ ~Port!usual(Port!Seen)
      BY <1>2, <2>1, <2>4, SameBytes, SameTable, SameTests
      DEF Passes, Port!Ordinary, Port!Named
    <3>3. /\ UNCHANGED << Port!input, Port!fields, Port!locals, port_pc, port_result >>
          /\ UNCHANGED << Port!flags, Port!marks >>
      BY <1>1, <1>2, <3>1, StageOneKeeps, PortScans
    <3>4. p + 1 \in p + 1 .. in_len /\ p + 1 .. (p + 1) - 1 = {}
      BY <2>1
    <3>5. Port!UsualRun
      BY <2>1, <3>1, <3>2, <3>3, <3>4 DEF Port!UsualRun
    <3> QED BY <2>1, <3>5 DEF Matched, Port!Next, Port!ParseUriStep
  <2> QED BY <1>1, <2>2, <2>3, <2>4, SharedArms DEF sw_check_uri
<1> QED BY <1>2, RunMatches

-----------------------------------------------------------------------------
(* Between the stages: a path that stays in the input is returned as it is *)
(* by one step of the port, which Reply takes.                             *)
LEMMA BetweenMatches ==
  ASSUME PortInv, RecordRun, RecordLeft, KeepPath \/ EnterComplex
  PROVE  HistoryInv' /\ Matched
<1>1. /\ pc = "uri" /\ p = in_len /\ in_len \in Nat /\ InputOK /\ r \in RequestType
      /\ UNCHANGED << in, merge_slashes, out_cap, nbuf >> /\ InStageOne
  BY ReadByte
  DEF PortInv, HistoryInv, WrapperInv, Types, KeepPath, EnterComplex, call, local2
<1>2. run = None /\ run' = None /\ in_len' = in_len
  BY <1>1, NoRun DEF in_len
<1>3. MapsStageOne
  BY <1>1, StageOneMaps
<1>4. CASE KeepPath
  <2>1. /\ pc' = "reply" /\ Simple /\ UNCHANGED << state, p, ch, decoded, quoted_state, u >>
        /\ left' = left /\ r' = With("uri", [len |-> RawLength, data |-> "inbuf"])
    BY <1>1, <1>4 DEF KeepPath, RecordLeft, InLoop, local2
  <2>2. /\ r'.uri = [len |-> RawLength, data |-> "inbuf"]
        /\ UNCHANGED << r.complex_uri, r.quoted_uri, r.plus_in_uri >>
        /\ UNCHANGED << r.args_start, r.uri_ext, r.args, r.exten >>
    BY <1>1, <2>1 DEF With, RequestType
  <2>3. ~Owned' /\ Simple' /\ RawLength' = RawLength
    BY <1>2, <2>1, <2>2 DEF Owned, Simple, RawLength
  <2>4. Replying'
    BY <1>1, <1>2, <2>1, <2>2, <2>3 DEF Replying, InStageOne, Empty
  <2>5. HistoryInv'
    BY <1>1, <1>2, <2>1, <2>4 DEF HistoryInv, PortInv
  <2>6. /\ UNCHANGED << port_pc, port_args_start, port_args, Offset(r.exten), port_uri_len >>
        /\ UNCHANGED << port_p, port_u, port_out, port_result >>
    BY <1>1, <1>2, <1>3, <2>1, <2>2, <2>3
    DEF MapsStageOne, NoSlice, InStageOne, Empty, Offset, InLoop, Normalized,
        port_pc, port_args_start, port_args, port_uri_len, port_p, port_u, port_out,
        port_result
  <2> QED
    BY <1>1, <2>1, <2>2, <2>5, <2>6
    DEF Matched, Port!vars, Port!input, Port!flags, Port!marks, Port!fields, Port!locals
<1>5. CASE EnterComplex
  <2>1. /\ pc' = "complex" /\ ~Simple /\ left' = None
        /\ state' = "sw_usual" /\ quoted_state' = "sw_usual" /\ decoded' = 0 /\ u' = 0
        /\ ch' = inbuf(0) /\ p' = 1
        /\ r' = [r EXCEPT !.uri = [len |-> RawLength, data |-> "nbuf"],
                         !.uri_ext = None, !.args_start = None]
    BY <1>5 DEF EnterComplex, RecordLeft
  <2>2. /\ r'.uri.data = "nbuf" /\ r'.uri_ext = None /\ r'.args_start = None
        /\ UNCHANGED << r.complex_uri, r.quoted_uri, r.plus_in_uri, r.args, r.exten >>
    BY <1>1, <2>1 DEF RequestType
  <2>3. InMainLoop'
    BY <1>1, <2>1, <2>2 DEF InMainLoop, InStageOne, Empty, ExtensionBehind
  <2>4. HistoryInv'
    BY <1>1, <1>2, <2>1, <2>3 DEF HistoryInv, PortInv
  <2>5. MapsStageTwo'
    BY <1>2, <2>1, <2>2, <2>3, StageTwoMapsNext DEF InMainLoop
  <2>6. Zeroed' = [i \in 0 .. in_len |-> 0]
    BY <1>1, <1>2 DEF Zeroed, InStageOne
  <2>7. Port!uri_end = in_len /\ Port!ReadWithLf(0) = inbuf(0)
    BY <1>1, SameReads
  <2>8. Port!CallParseComplexUri
    BY <1>1, <1>2, <1>3, <2>1, <2>2, <2>5, <2>6, <2>7, Names
    DEF Port!CallParseComplexUri, Port!Scanned, Port!NeedsNormalization, Simple,
        MapsStageOne, MapsStageTwo, Port!input, Port!flags, Port!fields
  <2> QED BY <2>4, <2>8 DEF Matched, Port!Next
<1> QED BY <1>4, <1>5

-----------------------------------------------------------------------------
(* The zeroed buffer of the port follows the one of the reference.         *)
LEMMA ZeroedFollows ==
  ASSUME Types, in' = in
  PROVE  /\ \A i \in 0 .. in_len : Zeroed[i] = SLASH <=> nbuf[i] = SLASH
         /\ nbuf' = nbuf => Zeroed' = Zeroed
         /\ \A b \in Byte : u \in 0 .. in_len /\ Write(b)
              => Zeroed' = [Zeroed EXCEPT ![u] = b] /\ u' = u + 1
<1>1. in_len' = in_len /\ in_len \in Nat
  BY ReadByte DEF in_len, Types
<1>2. \A i \in 0 .. in_len : Zeroed[i] = (IF nbuf[i] = None THEN 0 ELSE nbuf[i])
  BY DEF Zeroed
<1>3. \A i \in 0 .. in_len : Zeroed[i] = SLASH <=> nbuf[i] = SLASH
  BY <1>2 DEF SLASH
<1>4. ASSUME nbuf' = nbuf PROVE Zeroed' = Zeroed
  BY <1>1, <1>4 DEF Zeroed
<1>5. ASSUME NEW b \in Byte, u \in 0 .. in_len, Write(b)
      PROVE  Zeroed' = [Zeroed EXCEPT ![u] = b] /\ u' = u + 1
  <2>1. nbuf' = [nbuf EXCEPT ![u] = b] /\ b # None /\ nbuf \in [0 .. in_len -> Byte \cup {None}]
    BY <1>5 DEF Write, Byte, Types
  <2>2. Zeroed' = [ i \in 0 .. in_len |-> IF nbuf'[i] = None THEN 0 ELSE nbuf'[i] ]
    BY <1>1 DEF Zeroed
  <2>3. \A i \in 0 .. in_len : nbuf'[i] = IF i = u THEN b ELSE nbuf[i]
    BY <2>1
  <2>4. \A i \in 0 .. in_len : Zeroed'[i] = IF i = u THEN b ELSE Zeroed[i]
    BY <1>2, <2>1, <2>2, <2>3
  <2>5. Zeroed' = [Zeroed EXCEPT ![u] = b]
    BY <2>2, <2>4 DEF Zeroed
  <2> QED BY <1>5, <2>5 DEF Write
<1> QED BY <1>3, <1>4, <1>5

(***************************************************************************)
(* Stage 2.  A step that stays in the main loop keeps the invariant if it  *)
(* leaves the slices and the extension as they have to be; the port reads  *)
(* what the reference reads.                                               *)
(***************************************************************************)
StaysInLoop ==
  /\ pc = "complex" /\ pc' = "complex"
  /\ UNCHANGED << call, rc, reply >>
  /\ \E complex, quoted, plus, ext :
       /\ Fields(r', complex, quoted, plus, r.args_start, ext)
       /\ complex = r.complex_uri

LEMMA LoopKeeps ==
  ASSUME PortInv, RecordRun, RecordLeft, StaysInLoop,
         r'.uri_ext # None => r'.uri_ext <= u' /\ Resume' = "sw_usual"
  PROVE  /\ HistoryInv' /\ MapsStageTwo' /\ in' = in
         /\ merge_slashes' = merge_slashes
         /\ port_p' = p' /\ port_u' = u' /\ port_out' = Zeroed'
         /\ UNCHANGED << Port!input, port_pc, port_args_start, Port!fields, port_result >>
         /\ UNCHANGED r.complex_uri
<1>1. /\ pc = "complex" /\ pc' = "complex" /\ InMainLoop
      /\ UNCHANGED << in, merge_slashes, out_cap >>
      /\ UNCHANGED << r.complex_uri, r.args_start, r.uri, r.args, r.exten >>
  BY DEF StaysInLoop, PortInv, HistoryInv, call, Fields
<1>2. run = None /\ run' = None
  BY <1>1, NoRun
<1>3. left' = None /\ left = None
  BY <1>1 DEF RecordLeft, InMainLoop
<1>4. InMainLoop'
  BY <1>1, <1>3 DEF InMainLoop, ExtensionBehind
<1>5. HistoryInv'
  BY <1>1, <1>2, <1>4 DEF PortInv, HistoryInv, in_len
<1>6. MapsStageTwo
  BY <1>1, <1>2, StageTwoMaps DEF InMainLoop
<1>7. MapsStageTwo'
  BY <1>1, <1>2, <1>4, StageTwoMapsNext DEF InMainLoop
<1> QED
  BY <1>1, <1>3, <1>5, <1>6, <1>7 DEF MapsStageTwo, Port!input, Port!fields

LEMMA LoopReads ==
  ASSUME PortInv, RecordRun, pc = "complex"
  PROVE  /\ InMainLoop /\ InputOK /\ in_len \in Nat /\ r \in RequestType /\ ch \in Byte
         /\ MapsStageTwo /\ port_p = p /\ port_u = u /\ port_out = Zeroed
         /\ Port!uri_end = in_len /\ (Port!Reading <=> p <= in_len) /\ p \in 1 .. in_len + 1
         /\ Port!ReadWithLf(p) = inbuf(p) /\ u \in 0 .. in_len /\ Types
         /\ \A b : Port!Is(b) <=> Case({b})
<1>1. /\ InMainLoop /\ InputOK /\ in_len \in Nat /\ r \in RequestType /\ ch \in Byte
      /\ u \in 0 .. in_len /\ p \in Nat /\ p \in 1 .. in_len + 1 /\ Types
  BY LoopFacts DEF PortInv, HistoryInv, Types, InStageTwo
<1>2. run = None
  BY NoRun
<1>3. MapsStageTwo
  BY <1>1, <1>2, StageTwoMaps DEF InMainLoop
<1>4. port_p = p /\ port_u = u /\ port_out = Zeroed /\ port_pc = "complex"
  BY <1>1, <1>3 DEF MapsStageTwo, InMainLoop
<1>5. Port!uri_end = in_len /\ Port!ReadWithLf(p) = inbuf(p)
  BY <1>1, SameReads
<1>6. Port!Reading <=> p <= in_len
  BY <1>4, <1>5 DEF Port!Reading
<1>7. \A b : Port!Is(b) <=> Case({b})
  BY SameTable DEF Port!Is, Case
<1> QED BY <1>1, <1>3, <1>4, <1>5, <1>6, <1>7

(* The parts of such a step of the port. *)
LEMMA PortStays ==
  ASSUME PortInv, RecordRun, RecordLeft, StaysInLoop,
         r'.uri_ext # None => r'.uri_ext <= u' /\ Resume' = "sw_usual"
  PROVE  /\ HistoryInv' /\ Port!Stay(StateName[state'])
         /\ ch' = inbuf(p) /\ p' = p + 1 => Port!Advance
         /\ Write(ch) => Port!Emit
         /\ \A b \in Byte :
              Write(b) => port_out' = [port_out EXCEPT ![port_u] = b] /\ port_u' = port_u + 1
         /\ UNCHANGED nbuf => UNCHANGED port_out
         /\ port_u = u /\ port_u' = u' /\ port_p = p /\ port_p' = p'
<1>1. /\ HistoryInv' /\ in' = in
      /\ port_p' = p' /\ port_u' = u' /\ port_out' = Zeroed'
      /\ UNCHANGED << Port!input, port_pc, port_args_start, Port!fields, port_result >>
      /\ UNCHANGED r.complex_uri
  BY LoopKeeps
<1>2. /\ ch \in Byte /\ u \in 0 .. in_len /\ Types
      /\ port_p = p /\ port_u = u /\ port_out = Zeroed /\ Port!ReadWithLf(p) = inbuf(p)
  BY LoopReads DEF StaysInLoop
<1>3. Port!Stay(StateName[state'])
  BY <1>1 DEF Port!Stay
<1>4. ch' = inbuf(p) /\ p' = p + 1 => Port!Advance
  BY <1>1, <1>2 DEF Port!Advance
<1>5. \A b \in Byte :
        Write(b) => port_out' = [port_out EXCEPT ![port_u] = b] /\ port_u' = port_u + 1
  BY <1>1, <1>2, ZeroedFollows
<1>6. Write(ch) => Port!Emit
  BY <1>2, <1>5 DEF Port!Emit
<1>7. UNCHANGED nbuf => UNCHANGED port_out
  BY <1>1, <1>2, ZeroedFollows
<1> QED BY <1>1, <1>2, <1>3, <1>4, <1>5, <1>6, <1>7

LEMMA SlashAndDotMatch ==
  ASSUME PortInv, RecordRun, RecordLeft, pc' = "complex", sw_usual \/ sw_slash
  PROVE  HistoryInv' /\ Matched
<1>0. /\ pc = "complex" /\ p <= in_len
  BY DEF sw_usual, sw_slash, Reads
<1>1. /\ InMainLoop /\ r \in RequestType /\ Port!Reading
      /\ \A b : Port!Is(b) <=> Case({b})
      /\ u \in 0 .. in_len /\ in_len \in Nat
  BY <1>0, LoopReads
<1>2. Fields(r, r.complex_uri, r.quoted_uri, r.plus_in_uri, r.args_start, r.uri_ext)
  BY DEF Fields
<1>3. CASE sw_usual
  <2>1. StateName[state] = "Usual"
    BY <1>3, Names DEF sw_usual, Reads
  <2>2. CASE Case({SLASH}) /\ Write(ch) /\ ReadOn("sw_slash", With("uri_ext", None))
    <3>1. /\ Fields(r', r.complex_uri, r.quoted_uri, r.plus_in_uri, r.args_start, None)
          /\ ch' = inbuf(p) /\ p' = p + 1 /\ StateName[state'] = "Slash"
          /\ UNCHANGED << decoded, quoted_state >> /\ StaysInLoop
      BY <1>0, <1>1, <2>2, AssignFields, Names DEF ReadOn, StaysInLoop
    <3>2. r'.uri_ext = None
      BY <3>1 DEF Fields
    <3>3. Port!OpenSegment /\ HistoryInv'
      BY <1>1, <2>1, <2>2, <3>1, <3>2, PortStays, SameBytes DEF Port!OpenSegment, Fields
    <3> QED BY <3>3 DEF Matched, Port!Next, Port!ParseComplexUriStep
  <2>3. CASE Case({DOT}) /\ Write(ch) /\ ReadOn(state, With("uri_ext", u + 1))
    <3>1. /\ Fields(r', r.complex_uri, r.quoted_uri, r.plus_in_uri, r.args_start, u + 1)
          /\ ch' = inbuf(p) /\ p' = p + 1 /\ StateName[state'] = "Usual"
          /\ UNCHANGED << decoded, quoted_state >> /\ StaysInLoop
      BY <1>0, <1>1, <2>1, <2>3, AssignFields DEF ReadOn, StaysInLoop
    <3>2. r'.uri_ext = u + 1 /\ u' = u + 1 /\ Resume' = "sw_usual" /\ u + 1 <= u + 1
      BY <1>1, <1>3, <2>3, <3>1 DEF Fields, Write, Resume, Quoting, ReadOn, sw_usual, Reads
    <3>3. Port!ExtensionDot /\ HistoryInv'
      BY <1>1, <2>1, <2>3, <3>1, <3>2, PortStays, SameBytes DEF Port!ExtensionDot, Fields
    <3> QED BY <3>3 DEF Matched, Port!Next, Port!ParseComplexUriStep
  <2> QED
    BY <1>3, <2>2, <2>3 DEF sw_usual, GotoArgs, GotoDone, Leave
<1>4. CASE sw_slash
  <2>1. StateName[state] = "Slash" /\ state = "sw_slash" /\ r.uri_ext = None
    BY <1>1, <1>4, Names DEF sw_slash, Reads, InMainLoop, Resume, Quoting
  <2>2. CASE /\ Case({SLASH}) /\ ReadOn(state, r)
             /\ IF merge_slashes THEN Back(0) ELSE Write(ch)
    <3>1. /\ r' = r /\ ch' = inbuf(p) /\ p' = p + 1 /\ StateName[state'] = "Slash"
          /\ UNCHANGED << decoded, quoted_state >> /\ StaysInLoop
      BY <1>0, <1>2, <2>1, <2>2 DEF ReadOn, StaysInLoop
    <3>2. merge_slashes => u' = u /\ nbuf' = nbuf
      BY <1>1, <2>2 DEF Back
    <3>3. Port!RepeatSlash /\ HistoryInv'
      BY <1>1, <2>1, <2>2, <3>1, <3>2, PortStays, SameBytes DEF Port!RepeatSlash
    <3> QED BY <3>3 DEF Matched, Port!Next, Port!ParseComplexUriStep
  <2>3. CASE Case({DOT}) /\ Write(ch) /\ ReadOn("sw_dot", r)
    <3>1. /\ r' = r /\ ch' = inbuf(p) /\ p' = p + 1 /\ StateName[state'] = "Dot"
          /\ UNCHANGED << decoded, quoted_state >> /\ StaysInLoop
      BY <1>0, <1>2, <2>1, <2>3, Names DEF ReadOn, StaysInLoop
    <3>2. Port!LeadingDot /\ HistoryInv'
      BY <1>1, <2>1, <2>3, <3>1, PortStays, SameBytes DEF Port!LeadingDot
    <3> QED BY <3>2 DEF Matched, Port!Next, Port!ParseComplexUriStep
  <2> QED
    BY <1>4, <2>2, <2>3 DEF sw_slash, GotoArgs, GotoDone, Leave
<1> QED BY <1>3, <1>4

LEMMA DotSegmentMatches ==
  ASSUME PortInv, RecordRun, RecordLeft, pc' = "complex", sw_dot
  PROVE  HistoryInv' /\ Matched
<1>0. /\ pc = "complex" /\ p <= in_len /\ state = "sw_dot"
  BY DEF sw_dot, Reads
<1>1. /\ InMainLoop /\ r \in RequestType /\ Port!Reading
      /\ \A b : Port!Is(b) <=> Case({b})
      /\ u \in 0 .. in_len /\ in_len \in Nat /\ port_u = u
  BY <1>0, LoopReads
<1>2. Fields(r, r.complex_uri, r.quoted_uri, r.plus_in_uri, r.args_start, r.uri_ext)
  BY DEF Fields
<1>3. StateName[state] = "Dot" /\ r.uri_ext = None /\ u >= 2
  BY <1>0, <1>1, Names, LoopFacts
  DEF InMainLoop, Resume, Quoting, PortInv, InStageTwo, Least
<1>4. CASE Case({DOT}) /\ Write(ch) /\ ReadOn("sw_dot_dot", r)
  <2>1. /\ r' = r /\ ch' = inbuf(p) /\ p' = p + 1 /\ StateName[state'] = "DotDot"
        /\ UNCHANGED << decoded, quoted_state >> /\ StaysInLoop
    BY <1>0, <1>2, <1>4, Names DEF ReadOn, StaysInLoop
  <2>2. Port!LeadingDot /\ HistoryInv'
    BY <1>1, <1>3, <1>4, <2>1, PortStays, SameBytes DEF Port!LeadingDot
  <2> QED BY <2>2 DEF Matched, Port!Next, Port!ParseComplexUriStep
<1>5. CASE Case({SLASH}) /\ Back(1) /\ ReadOn("sw_slash", r)
  <2>1. /\ r' = r /\ ch' = inbuf(p) /\ p' = p + 1 /\ StateName[state'] = "Slash"
        /\ UNCHANGED << decoded, quoted_state, nbuf >> /\ StaysInLoop /\ u' = u - 1
    BY <1>0, <1>2, <1>5, Names DEF ReadOn, StaysInLoop, Back
  <2>2. u - 1 \in Port!PathEnds
    BY <1>1, <1>3 DEF Port!PathEnds
  <2>3. Port!CloseDotSegment /\ HistoryInv'
    BY <1>1, <1>3, <1>5, <2>1, <2>2, PortStays, SameBytes DEF Port!CloseDotSegment
  <2> QED BY <2>3 DEF Matched, Port!Next, Port!ParseComplexUriStep
<1> QED
  BY <1>4, <1>5 DEF sw_dot, GotoArgs, GotoDone, Leave

LEMMA UnquotedNames ==
  \A s \in Unquoted : /\ StateName[s] \in Port!Unquoted
                      /\ StateName[s] = "DotDot" <=> s = "sw_dot_dot"
                      /\ StateName[s] = "Dot" <=> s = "sw_dot"
BY Names DEF Unquoted, Port!Unquoted

LEMMA CopyMatches ==
  ASSUME PortInv, RecordRun, RecordLeft, CopyByte
  PROVE  HistoryInv' /\ Matched
<1>1. pc = "complex" /\ p <= in_len /\ state \in Unquoted /\ Write(ch)
  BY DEF CopyByte, Reads
<1>2. /\ InMainLoop /\ r \in RequestType /\ Port!Reading
      /\ \A b : Port!Is(b) <=> Case({b})
      /\ u \in 0 .. in_len /\ in_len \in Nat
  BY <1>1, LoopReads
<1>3. PICK q : /\ ReadOn("sw_usual", q)
               /\ q = IF Case({PLUS}) THEN With("plus_in_uri", TRUE) ELSE r
  BY DEF CopyByte
<1>4. Fields(r', r.complex_uri, r.quoted_uri, r.plus_in_uri \/ Case({PLUS}), r.args_start,
             r.uri_ext)
  <2>1. r.plus_in_uri \in BOOLEAN
    BY <1>2 DEF RequestType
  <2>2. CASE Case({PLUS})
    BY <1>2, <1>3, <2>2, AssignFields DEF ReadOn, Fields
  <2>3. CASE ~Case({PLUS})
    BY <1>3, <2>1, <2>3 DEF ReadOn, Fields
  <2> QED BY <2>2, <2>3
<1>5. /\ ch' = inbuf(p) /\ p' = p + 1 /\ StateName[state'] = "Usual"
      /\ UNCHANGED << decoded, quoted_state >> /\ StaysInLoop
  BY <1>1, <1>3, <1>4, Names DEF ReadOn, StaysInLoop
<1>6. r'.uri_ext # None => r'.uri_ext <= u' /\ Resume' = "sw_usual"
  <2>1. r'.uri_ext = r.uri_ext /\ u' = u + 1 /\ Resume' = "sw_usual"
    BY <1>1, <1>3, <1>4 DEF Fields, Write, Resume, Quoting, ReadOn
  <2>2. r.uri_ext # None => r.uri_ext \in Nat /\ r.uri_ext <= u + 1
    BY <1>2 DEF InMainLoop, ExtensionBehind, RequestType, MaybeOffset
  <2> QED BY <2>1, <2>2
<1>7. ~ \E b \in Port!Arms : Port!Is(b)
  <2>1. ~Case(Switched)
    BY DEF CopyByte
  <2>2. Port!Arms = Switched
    BY <1>1, SameBytes, UnquotedNames
    DEF Port!Arms, Port!Named, Switched, DOT, PLUS, SLASH, PERCENT, QUESTION, HASH
  <2> QED BY <1>2, <2>1, <2>2 DEF Case
<1>8. Port!PlainByte /\ HistoryInv'
  BY <1>1, <1>2, <1>4, <1>5, <1>6, <1>7, PortStays, SameBytes, UnquotedNames
  DEF Port!PlainByte, Fields
<1> QED BY <1>8 DEF Matched, Port!Next, Port!ParseComplexUriStep

LEMMA QuotedMatches ==
  ASSUME PortInv, RecordRun, RecordLeft, BeginQuoted \/ sw_quoted \/ sw_quoted_second
  PROVE  HistoryInv' /\ Matched
<1>1. pc = "complex" /\ pc' = "complex" /\ p <= in_len
  BY DEF BeginQuoted, sw_quoted, sw_quoted_second, Reads, ReadOn
<1>2. /\ InMainLoop /\ r \in RequestType /\ Port!Reading /\ Types
      /\ \A b : Port!Is(b) <=> Case({b})
      /\ u \in 0 .. in_len /\ in_len \in Nat /\ ch \in Byte
      /\ decoded \in 0 .. 15 /\ quoted_state \in Unquoted
  BY <1>1, LoopReads DEF Types
<1>3. Fields(r, r.complex_uri, r.quoted_uri, r.plus_in_uri, r.args_start, r.uri_ext)
  BY DEF Fields
<1>4. r.uri_ext # None => r.uri_ext \in Nat /\ r.uri_ext <= u /\ Resume = "sw_usual"
  BY <1>2 DEF InMainLoop, ExtensionBehind, RequestType, MaybeOffset
<1>5. CASE BeginQuoted
  <2>1. /\ Case({PERCENT}) /\ state \in Unquoted /\ state' = "sw_quoted"
        /\ quoted_state' = state /\ r' = r /\ ch' = inbuf(p) /\ p' = p + 1
        /\ UNCHANGED << decoded, u, nbuf, call, rc, reply >>
    BY <1>5 DEF BeginQuoted, Reads
  <2>2. StaysInLoop /\ Resume' = Resume /\ StateName[state'] = "Quoted"
    BY <1>1, <1>3, <2>1, Names DEF StaysInLoop, Resume, Quoting, Unquoted
  <2>3. Port!Percent /\ HistoryInv'
    BY <1>2, <1>4, <2>1, <2>2, PortStays, SameBytes, UnquotedNames DEF Port!Percent
  <2> QED BY <2>3 DEF Matched, Port!Next, Port!ParseComplexUriStep
<1>6. CASE sw_quoted
  <2>1. /\ state = "sw_quoted" /\ (Decimal(ch) \/ Letter(ch)) /\ decoded' = Digit(ch)
        /\ state' = "sw_quoted_second" /\ ch' = inbuf(p) /\ p' = p + 1
        /\ UNCHANGED << quoted_state, u, nbuf, call, rc, reply >>
        /\ r' = With("quoted_uri", TRUE)
    BY <1>6 DEF sw_quoted, Reads
  <2>2. Fields(r', r.complex_uri, TRUE, r.plus_in_uri, r.args_start, r.uri_ext)
    BY <1>2, <2>1, AssignFields
  <2>3. StaysInLoop /\ Resume' = Resume /\ r'.uri_ext = r.uri_ext
    BY <1>1, <2>1, <2>2 DEF StaysInLoop, Resume, Quoting, Fields
  <2>4. StateName[state] = "Quoted" /\ StateName[state'] = "QuotedSecond"
    BY <2>1, Names
  <2>5. Port!QuotedFirst /\ HistoryInv'
    BY <1>2, <1>4, <2>1, <2>2, <2>3, <2>4, PortStays, SameTests
    DEF Port!QuotedFirst, Fields
  <2> QED BY <2>5 DEF Matched, Port!Next, Port!ParseComplexUriStep
<1>7. CASE sw_quoted_second
  <2>1. state = "sw_quoted_second" /\ (Decimal(ch) \/ Letter(ch))
    BY <1>7 DEF sw_quoted_second, Reads
  <2>2. StateName[state] = "QuotedSecond" /\ Port!IsHexDigit(ch)
    BY <1>2, <2>1, Names, SameTests
  <2>3. Port!Value = Quoted /\ Quoted \in Byte
    <3>1. Digit(ch) \in 0 .. 15 /\ Port!HexValue(ch) = Digit(ch)
      BY <1>2, <2>1, <2>2, DigitType, SameTests
    <3>2. \A d \in 0 .. 15, e \in 0 .. 15 : (d * 16 + e) % 256 = 16 * d + e
      OBVIOUS
    <3> QED BY <1>2, <3>1, <3>2, DigitType DEF Port!Value, Quoted
  <2>4. Port!Literals = Verbatim
    BY <1>2, SameTests, SameBytes DEF Port!Literals, Verbatim
  <2>5. CASE Quoted \in Verbatim /\ Write(Quoted) /\ ReadOn("sw_usual", r)
    <3>1. /\ r' = r /\ ch' = inbuf(p) /\ p' = p + 1 /\ StateName[state'] = "Usual"
          /\ UNCHANGED << decoded, quoted_state >> /\ StaysInLoop /\ u' = u + 1
          /\ Resume' = "sw_usual"
      BY <1>1, <1>3, <2>5, Names DEF ReadOn, StaysInLoop, Write, Resume, Quoting
    <3>2. r'.uri_ext # None => r'.uri_ext <= u' /\ Resume' = "sw_usual"
      BY <1>2, <1>4, <3>1
    <3>3. Port!LiteralEscape /\ HistoryInv'
      BY <1>2, <2>2, <2>3, <2>4, <2>5, <3>1, <3>2, PortStays DEF Port!LiteralEscape
    <3> QED BY <3>3 DEF Matched, Port!Next, Port!ParseComplexUriStep
  <2>6. CASE Quoted \notin Verbatim
    <3>1. /\ Quoted \notin Verbatim \cup {0} /\ state' = quoted_state /\ ch' = Quoted
          /\ r' = IF Letter(ch) /\ Quoted = PLUS THEN With("plus_in_uri", TRUE) ELSE r
          /\ UNCHANGED << pc, p, decoded, quoted_state, u, nbuf, call, rc, reply >>
      BY <1>7, <2>6 DEF sw_quoted_second
    <3>2. Fields(r', r.complex_uri, r.quoted_uri,
                 r.plus_in_uri \/ (~Decimal(ch) /\ Quoted = PLUS), r.args_start, r.uri_ext)
      <4>1. r.plus_in_uri \in BOOLEAN /\ (Letter(ch) <=> ~Decimal(ch))
        BY <1>2, <2>1, SameTests DEF RequestType
      <4>2. CASE Letter(ch) /\ Quoted = PLUS
        BY <1>2, <3>1, <4>1, <4>2, AssignFields DEF Fields
      <4>3. CASE ~(Letter(ch) /\ Quoted = PLUS)
        BY <3>1, <4>1, <4>3 DEF Fields
      <4> QED BY <4>2, <4>3
    <3>3. StaysInLoop /\ Resume' = Resume /\ r'.uri_ext = r.uri_ext
      BY <1>1, <1>2, <2>1, <3>1, <3>2 DEF StaysInLoop, Resume, Quoting, Fields, Unquoted
    <3>4. Port!DecodedByte /\ HistoryInv'
      BY <1>2, <1>4, <2>2, <2>3, <2>4, <3>1, <3>2, <3>3, PortStays, SameTests, SameBytes
      DEF Port!DecodedByte, Fields
    <3> QED BY <3>4 DEF Matched, Port!Next, Port!ParseComplexUriStep
  <2> QED BY <1>7, <2>5, <2>6 DEF sw_quoted_second
<1> QED BY <1>5, <1>6, <1>7

LEMMA BadEscapeMatches ==
  ASSUME PortInv, RecordRun, RecordLeft, BadEscape
  PROVE  HistoryInv' /\ Matched
<1>1. pc = "complex" /\ state \in {"sw_quoted", "sw_quoted_second"}
  BY DEF BadEscape
<1>2. /\ InMainLoop /\ InputOK /\ in_len \in Nat /\ MapsStageTwo /\ ch \in Byte /\ Types
      /\ (Port!Reading <=> p <= in_len) /\ p \in 1 .. in_len + 1
      /\ decoded \in 0 .. 15
  BY <1>1, LoopReads DEF Types
<1>3. run = None /\ run' = None
  BY <1>1, NoRun
<1>4. HistoryInv' /\ Port!Fail
  BY <1>1, <1>2, <1>3, RefusalMatches DEF BadEscape, InLoop, PortInv, InMainLoop, Empty
<1>5. /\ StateName[state] \in {"Quoted", "QuotedSecond"}
      /\ (state = "sw_quoted_second" => StateName[state] = "QuotedSecond")
  BY <1>1, Names
<1>6. Decimal(ch) => Port!Value = Quoted
  <2>1. Decimal(ch) => Digit(ch) \in 0 .. 15 /\ Port!HexValue(ch) = Digit(ch)
    BY <1>2, DigitType, SameTests DEF Port!IsHexDigit
  <2>2. \A d \in 0 .. 15, e \in 0 .. 15 : (d * 16 + e) % 256 = 16 * d + e
    OBVIOUS
  <2> QED BY <1>2, <2>1, <2>2 DEF Port!Value, Quoted
<1>7. port_pc = "complex"
  BY <1>2 DEF MapsStageTwo
<1>8. Port!RejectEscape
  BY <1>1, <1>2, <1>4, <1>5, <1>6, <1>7, SameTests DEF Port!RejectEscape, BadEscape
<1> QED BY <1>4, <1>8 DEF Matched, Port!Next, Port!ParseComplexUriStep

-----------------------------------------------------------------------------
(***************************************************************************)
(* The inner loops.  The port waits at the byte where the main loop was    *)
(* left, and so do its copies of the variables that the loops change.      *)
(***************************************************************************)
LEMMA LeavingWaits ==
  ASSUME PortInv, RecordRun, RecordLeft, pc = "complex", state \in Unquoted,
         nbuf' = nbuf, UNCHANGED << p, ch, state, decoded, quoted_state, call, rc, reply >>,
         InLoop', r' = r \/ (pc' = "args" /\ r' = With("args_start", p))
  PROVE  /\ UNCHANGED Port!vars
         /\ left' = [p |-> p, u |-> u] /\ Left' /\ run' = None /\ out_cap' >= in_len'
         /\ in_len' = in_len /\ in_len \in Nat /\ InMainLoop /\ Types
         /\ u \in Nat /\ p \in 1 .. in_len + 1
         /\ r'.args = Empty /\ r'.exten = Empty /\ r'.uri_ext = r.uri_ext
         /\ r'.args_start = IF r' = r THEN None ELSE p
<1>1. /\ InMainLoop /\ Types /\ in_len \in Nat /\ r \in RequestType
      /\ u \in 0 .. in_len /\ p \in Nat /\ p \in 1 .. in_len + 1
      /\ MapsStageTwo /\ port_p = p /\ port_u = u /\ out_cap >= in_len
  BY LoopReads DEF Types, PortInv, HistoryInv
<1>2. run = None /\ run' = None
  BY NoRun
<1>3. left' = [p |-> p, u |-> u]
  BY DEF RecordLeft, InLoop
<1>4. UNCHANGED << in, merge_slashes, out_cap >> /\ in_len' = in_len
  BY DEF call, in_len
<1>5. /\ UNCHANGED << r.complex_uri, r.quoted_uri, r.plus_in_uri, r.uri_ext >>
      /\ UNCHANGED << r.uri, r.args, r.exten >>
      /\ r'.args_start = IF r' = r THEN None ELSE p
  BY <1>1, AssignFields DEF Fields, InMainLoop
<1>6. left' \in [p : Nat, u : Nat] /\ left' # None /\ left'.p = p /\ left'.u = u
  BY <1>1, <1>3
<1>7. Left'
  BY <1>1, <1>4, <1>5, <1>6 DEF Left, InMainLoop
<1>8. MapsStageTwo'
  <2>1. pc' # "complex" /\ r'.exten = Empty /\ r'.uri.data = "nbuf"
    BY <1>1, <1>5 DEF InLoop, InMainLoop
  <2> QED BY <1>2, <2>1, StageTwoMapsNext
<1>9. Zeroed' = Zeroed
  BY <1>1, <1>4, ZeroedFollows
<1>10. UNCHANGED << port_p, port_u, port_out >>
  BY <1>1, <1>6, <1>8, <1>9 DEF MapsStageTwo
<1>11. UNCHANGED Port!vars
  BY <1>1, <1>4, <1>5, <1>8, <1>10
  DEF MapsStageTwo, Port!vars, Port!input, Port!flags, Port!marks, Port!fields, Port!locals
<1> QED
  BY <1>1, <1>2, <1>3, <1>4, <1>5, <1>7, <1>11 DEF InMainLoop

(* The path ends where the loop was left, or one dot before. *)
LEMMA PathEndMatches ==
  ASSUME PortInv, RecordRun, RecordLeft, pc = "complex",
         state \in Unquoted, state # "sw_dot_dot",
         Back(IF state = "sw_dot" THEN 1 ELSE 0),
         \/ p <= in_len /\ Case({QUESTION}) /\ GotoArgs
         \/ p <= in_len /\ Case({HASH}) /\ GotoDone
         \/ p > in_len /\ GotoDone
  PROVE  HistoryInv' /\ Matched
<1>1. /\ UNCHANGED << p, ch, state, decoded, quoted_state, call, rc, reply, nbuf >>
      /\ u' = (IF state = "sw_dot" THEN u - 1 ELSE u)
  BY LoopReads DEF GotoArgs, GotoDone, Leave, Back, Types
<1>2. InLoop' /\ (r' = r \/ (pc' = "args" /\ r' = With("args_start", p)))
  BY DEF GotoArgs, GotoDone, Leave, InLoop
<1>3. /\ UNCHANGED Port!vars
      /\ left' = [p |-> p, u |-> u] /\ Left' /\ run' = None /\ out_cap' >= in_len'
      /\ in_len' = in_len /\ in_len \in Nat /\ InMainLoop /\ u \in Nat /\ p \in 1 .. in_len + 1
      /\ r'.args = Empty /\ r'.uri_ext = r.uri_ext
      /\ r'.args_start = IF r' = r THEN None ELSE p
  BY <1>1, <1>2, LeavingWaits
<1>4. left'.p = p /\ left'.u = u
  BY <1>3
<1>5. Ended'
  <2>1. r.uri_ext # None => u' = u /\ r.uri_ext <= u
    BY <1>1, <1>3
    DEF InMainLoop, ExtensionBehind, Resume, Quoting, Unquoted
  <2>2. ExtensionBehind'
    BY <1>3, <2>1 DEF ExtensionBehind
  <2> QED BY <1>1, <1>3, <1>4, <2>2 DEF Ended
<1>6. ch' = ch /\ p' = p
  BY <1>1
<1>7. CASE GotoArgs
  <2>1. pc' = "args" /\ r' # r /\ p <= in_len /\ Case({QUESTION})
    <3>1. pc' = "args" /\ r'.args_start = p
      BY <1>3, <1>7, AssignFields, LoopReads DEF GotoArgs, Leave, Fields
    <3>2. r.args_start = None /\ p # None
      BY <1>3 DEF InMainLoop
    <3> QED BY <3>1, <3>2 DEF GotoDone, Leave
  <2>2. left'.p .. p' - 1 = {} /\ p' >= left'.p
    BY <1>3, <1>4, <1>6
  <2>3. InQuery'
    BY <1>3, <1>4, <1>5, <1>6, <2>1, <2>2 DEF InQuery, Case
  <2> QED BY <1>3, <2>1, <2>3 DEF HistoryInv, Matched
<1>8. CASE GotoDone
  <2>1. pc' = "done" /\ r' = r
    BY <1>8 DEF GotoDone, Leave
  <2>2. p <= in_len => Case({HASH})
    BY <1>3, <2>1 DEF GotoArgs, Leave
  <2>3. Finishing'
    BY <1>3, <1>4, <1>5, <1>6, <2>1, <2>2 DEF Finishing, Case
  <2> QED BY <1>3, <2>1, <2>3 DEF HistoryInv, Matched
<1> QED BY <1>7, <1>8

LEMMA ScanStartMatches ==
  ASSUME PortInv, RecordRun, RecordLeft, pc = "complex", state = "sw_dot_dot",
         Back(4), Leave("dots", r), p <= in_len => Case({SLASH, QUESTION, HASH})
  PROVE  HistoryInv' /\ Matched
<1>1. /\ UNCHANGED << p, ch, state, decoded, quoted_state, call, rc, reply, nbuf, r >>
      /\ u' = u - 4 /\ pc' = "dots" /\ InLoop' /\ state \in Unquoted
  BY DEF Leave, Back, InLoop, Unquoted
<1>2. /\ UNCHANGED Port!vars
      /\ left' = [p |-> p, u |-> u] /\ Left' /\ run' = None /\ out_cap' >= in_len'
      /\ in_len' = in_len /\ in_len \in Nat /\ InMainLoop /\ u \in Nat /\ p \in 1 .. in_len + 1
      /\ r'.args = Empty /\ r'.args_start = None
  BY <1>1, LeavingWaits
<1>3. left'.p = p /\ left'.u = u /\ r.uri_ext = None
  BY <1>1, <1>2 DEF InMainLoop, Resume, Quoting
<1>4. u' + 1 .. left'.u - 4 = {} /\ u' <= left'.u - 4
  BY <1>1, <1>2, <1>3
<1>5. InScan'
  BY <1>1, <1>2, <1>3, <1>4 DEF InScan, Case
<1> QED BY <1>1, <1>2, <1>5 DEF HistoryInv, Matched

LEMMA LeavingMatches ==
  ASSUME PortInv, RecordRun, RecordLeft, pc' # "complex",
         sw_usual \/ sw_slash \/ sw_dot \/ sw_dot_dot \/ LoopEnds
  PROVE  HistoryInv' /\ Matched
<1>1. CASE sw_usual \/ sw_slash \/ sw_dot
  <2>1. /\ pc = "complex" /\ p <= in_len /\ state \in Unquoted \ {"sw_dot_dot"}
        /\ Back(IF state = "sw_dot" THEN 1 ELSE 0)
        /\ (Case({QUESTION}) /\ GotoArgs) \/ (Case({HASH}) /\ GotoDone)
    BY <1>1 DEF sw_usual, sw_slash, sw_dot, Reads, ReadOn, Unquoted
  <2> QED BY <2>1, PathEndMatches
<1>2. CASE sw_dot_dot
  BY <1>2, ScanStartMatches DEF sw_dot_dot, Reads
<1>3. CASE LoopEnds
  <2>1. pc = "complex" /\ p > in_len /\ state \in Unquoted
    BY <1>3 DEF LoopEnds
  <2>2. ~(p <= in_len)
    BY <2>1, LoopReads
  <2> QED
    BY <1>3, <2>1, <2>2, ScanStartMatches, PathEndMatches DEF LoopEnds
<1> QED BY <1>1, <1>2, <1>3

(* What every step inside the inner loops leaves as it was. *)
LEMMA InnerWaits ==
  ASSUME PortInv, RecordRun, RecordLeft, InLoop, pc' # "complex", pc' # "reply",
         Left, nbuf' = nbuf, UNCHANGED << ch, state, decoded, quoted_state, call, rc, reply >>,
         InLoop', UNCHANGED << r.complex_uri, r.quoted_uri, r.plus_in_uri, r.uri_ext >>,
         UNCHANGED << r.uri, r.exten >>
  PROVE  /\ UNCHANGED Port!vars /\ left' = left /\ Left' /\ run' = None
         /\ out_cap' >= in_len' /\ in_len' = in_len
<1>1. /\ Types /\ in_len \in Nat /\ out_cap >= in_len
  BY ReadByte DEF PortInv, HistoryInv, WrapperInv, Types
<1>2. run = None /\ run' = None
  BY NoRun DEF InLoop
<1>3. left' = left
  BY DEF RecordLeft, InLoop
<1>4. UNCHANGED << in, merge_slashes, out_cap >> /\ in_len' = in_len
  BY DEF call, in_len
<1>5. Left' /\ left # None
  BY <1>3, <1>4 DEF Left
<1>6. MapsStageTwo
  BY <1>2, StageTwoMaps DEF Left, InLoop
<1>7. MapsStageTwo'
  BY <1>2, <1>5, StageTwoMapsNext DEF Left
<1>8. Zeroed' = Zeroed
  BY <1>1, <1>4, ZeroedFollows
<1>9. UNCHANGED << port_p, port_u, port_out >>
  BY <1>3, <1>5, <1>6, <1>7, <1>8 DEF MapsStageTwo
<1>10. UNCHANGED Port!vars
  BY <1>4, <1>6, <1>7, <1>9
  DEF MapsStageTwo, Port!vars, Port!input, Port!flags, Port!marks, Port!fields, Port!locals
<1> QED BY <1>1, <1>2, <1>3, <1>4, <1>5, <1>10

LEMMA InnerReads ==
  ASSUME PortInv, RecordRun, InLoop, Left
  PROVE  /\ MapsStageTwo /\ run = None /\ port_p = left.p /\ port_u = left.u
         /\ port_out = Zeroed /\ Types /\ InputOK /\ in_len \in Nat /\ r \in RequestType
         /\ u \in Int /\ p \in Nat /\ left.u \in Nat /\ left.p \in Nat
         /\ Port!uri_end = in_len /\ (Port!Reading <=> left.p <= in_len)
         /\ \A b : Port!Is(b) <=> Case({b})
         /\ \A i \in 0 .. in_len : Zeroed[i] = SLASH <=> nbuf[i] = SLASH
<1>1. /\ Types /\ InputOK /\ in_len \in Nat /\ r \in RequestType /\ left # None
      /\ u \in Int /\ p \in Nat /\ left.u \in Nat /\ left.p \in Nat
  BY ReadByte DEF PortInv, WrapperInv, Types, Left
<1>2. run = None
  BY NoRun DEF InLoop
<1>3. MapsStageTwo
  BY <1>2, StageTwoMaps DEF Left, InLoop
<1>4. /\ port_p = left.p /\ port_u = left.u /\ port_out = Zeroed /\ port_pc = "complex"
  BY <1>1, <1>3 DEF MapsStageTwo
<1>5. Port!uri_end = in_len
  BY <1>1, SameReads
<1>6. Port!Reading <=> left.p <= in_len
  BY <1>4, <1>5 DEF Port!Reading
<1>7. \A b : Port!Is(b) <=> Case({b})
  BY SameTable DEF Port!Is, Case
<1>8. \A i \in 0 .. in_len : Zeroed[i] = SLASH <=> nbuf[i] = SLASH
  BY <1>1 DEF Zeroed, SLASH
<1> QED BY <1>1, <1>2, <1>3, <1>4, <1>5, <1>6, <1>7, <1>8

LEMMA ScanBackMatches ==
  ASSUME PortInv, RecordRun, RecordLeft, ScanBack
  PROVE  HistoryInv' /\ Matched
<1>1. /\ InScan /\ InLoop /\ InLoop' /\ pc = "dots" /\ pc' = "dots" /\ r' = r
      /\ u >= 0 /\ nbuf[u] # SLASH /\ u' = u - 1
      /\ UNCHANGED << nbuf, p, ch, state, decoded, quoted_state, call, rc, reply >>
  BY DEF PortInv, HistoryInv, ScanBack, Back, Leave, InLoop
<1>2. Left /\ u \in Int /\ left.u \in Nat
  BY <1>1, InnerReads DEF InScan
<1>3. /\ UNCHANGED Port!vars /\ left' = left /\ Left' /\ run' = None
      /\ out_cap' >= in_len' /\ in_len' = in_len
  BY <1>1, <1>2, InnerWaits
<1>4. u - 1 <= left.u - 4 /\ \A i \in (u - 1) + 1 .. left.u - 4 : nbuf[i] # SLASH
  BY <1>1, <1>2 DEF InScan
<1>5. InScan'
  BY <1>1, <1>3, <1>4 DEF InScan, Case
<1> QED BY <1>1, <1>3, <1>5 DEF HistoryInv, Matched

LEMMA AboveRootMatches ==
  ASSUME PortInv, RecordRun, RecordLeft, AboveRoot
  PROVE  HistoryInv' /\ Matched
<1>1. InScan /\ InLoop /\ pc = "dots" /\ u < 0 /\ Refuse /\ Left /\ state = "sw_dot_dot"
  BY DEF PortInv, HistoryInv, AboveRoot, InLoop, InScan
<1>2. /\ MapsStageTwo /\ port_p = left.p /\ port_u = left.u /\ port_out = Zeroed /\ run = None
      /\ Port!uri_end = in_len /\ in_len \in Nat /\ InputOK /\ u \in Int /\ left.u \in Nat
      /\ \A b : Port!Is(b) <=> Case({b})
      /\ \A i \in 0 .. in_len : Zeroed[i] = SLASH <=> nbuf[i] = SLASH
  BY <1>1, InnerReads
<1>3. run' = None
  BY <1>1, NoRun
<1>4. HistoryInv' /\ Port!Fail
  BY <1>1, <1>2, <1>3, RefusalMatches DEF PortInv, InScan
<1>5. StateName[state] = "DotDot"
  BY <1>1, Names
<1>6. \A i \in 0 .. left.u - 4 : Zeroed[i] # SLASH
  <2>1. u >= -1
    BY <1>1 DEF PortInv, WrapperInv, ScanningBack
  <2>2. \A i \in 0 .. left.u - 4 : i \in 0 .. in_len /\ i \in u + 1 .. left.u - 4
    BY <1>1, <1>2, <2>1 DEF Left
  <2> QED BY <1>1, <1>2, <2>2 DEF InScan
<1>7. Port!PathEnds = {}
  BY <1>2, <1>5, <1>6, SameBytes DEF Port!PathEnds
<1>8. port_p <= in_len => \E b \in {SLASH, QUESTION, HASH} : Port!Is(b)
  BY <1>1, <1>2 DEF InScan, Case
<1>9. Port!EscapeRoot
  BY <1>2, <1>4, <1>5, <1>7, <1>8, SameBytes DEF Port!EscapeRoot, MapsStageTwo
<1> QED BY <1>4, <1>9 DEF Matched, Port!Next, Port!ParseComplexUriStep

LEMMA ParentMatches ==
  ASSUME PortInv, RecordRun, RecordLeft, ParentFound
  PROVE  HistoryInv' /\ Matched
<1>1. /\ InScan /\ Left /\ InLoop /\ pc = "dots" /\ u >= 0 /\ nbuf[u] = SLASH
      /\ state = "sw_dot_dot" /\ p = left.p /\ u <= left.u - 4
      /\ nbuf' = nbuf /\ UNCHANGED << quoted_state, decoded, call, rc, reply >>
  BY DEF PortInv, HistoryInv, ParentFound, Back, InLoop, InScan, GotoArgs, GotoDone, Leave
<1>2. /\ MapsStageTwo /\ port_p = left.p /\ port_u = left.u /\ port_out = Zeroed /\ run = None
      /\ Port!uri_end = in_len /\ in_len \in Nat /\ InputOK /\ u \in Int /\ left.u \in Nat
      /\ (Port!Reading <=> left.p <= in_len) /\ p \in Nat /\ r \in RequestType /\ Types
      /\ \A b : Port!Is(b) <=> Case({b})
      /\ \A i \in 0 .. in_len : Zeroed[i] = SLASH <=> nbuf[i] = SLASH
  BY <1>1, InnerReads
<1>3. u' = u + 1 /\ u \in 0 .. left.u - 4 /\ left.u <= in_len
  BY <1>1, <1>2 DEF ParentFound, Back, Left
<1>4. \A i \in u + 1 .. left.u - 4 : nbuf[i] # SLASH
  BY <1>1 DEF InScan
<1>5. CASE GotoArgs \/ GotoDone
  <2>1. /\ InLoop' /\ pc' # "complex" /\ pc' # "reply" /\ UNCHANGED << ch, state, p >>
        /\ r' = r \/ r' = With("args_start", p)
    BY <1>5 DEF GotoArgs, GotoDone, Leave, InLoop
  <2>2. /\ UNCHANGED << r.complex_uri, r.quoted_uri, r.plus_in_uri, r.uri_ext >>
        /\ UNCHANGED << r.uri, r.exten, r.args >>
    BY <1>2, <2>1, AssignFields DEF Fields
  <2>3. /\ UNCHANGED Port!vars /\ left' = left /\ Left' /\ run' = None
        /\ out_cap' >= in_len' /\ in_len' = in_len
    BY <1>1, <2>1, <2>2, InnerWaits
  <2>4. (u + 1) - 1 = u /\ left.u # 0
    BY <1>2, <1>3
  <2>5. Ended'
    <3>1. r'.uri_ext = None
      BY <1>1, <2>2 DEF InScan
    <3> QED
      BY <1>1, <1>3, <1>4, <2>1, <2>3, <2>4, <3>1 DEF Ended, ExtensionBehind
  <2>6. r.args = Empty /\ r.args_start = None
    BY <1>1 DEF InScan
  <2>7. CASE GotoArgs /\ p <= in_len /\ ch = QUESTION
    <3>1. pc' = "args" /\ r'.args_start = left'.p /\ r'.args = Empty
      BY <1>1, <1>2, <2>2, <2>3, <2>6, <2>7, AssignFields DEF GotoArgs, Leave, Fields
    <3>2. ~Usual(ch)
      BY <1>1, <2>7 DEF InScan, Case
    <3>3. left'.p .. p' - 1 = {} /\ p' >= left'.p
      BY <1>1, <1>2, <2>1, <2>3
    <3>4. InQuery'
      BY <1>1, <2>1, <2>3, <2>5, <2>7, <3>1, <3>2, <3>3 DEF InQuery, Case
    <3> QED BY <2>3, <3>1, <3>4 DEF HistoryInv, Matched
  <2>8. CASE GotoDone /\ (p > in_len \/ ch = HASH)
    <3>1. pc' = "done" /\ r' = r
      BY <2>8 DEF GotoDone, Leave
    <3>2. p <= in_len => Case({HASH})
      BY <1>1, <1>2, <2>8 DEF InScan, Case
    <3>3. Finishing'
      BY <1>1, <2>1, <2>3, <2>5, <2>6, <3>1, <3>2 DEF Finishing, Case
    <3> QED BY <2>3, <3>1, <3>3 DEF HistoryInv, Matched
  <2> QED
    <3>1. ~(pc' = "complex")
      BY <2>1
    <3> QED BY <2>1, <2>7, <2>8, <3>1 DEF ParentFound
<1>6. CASE ~GotoArgs /\ ~GotoDone
  <2>1. /\ p <= in_len /\ ch = SLASH /\ pc' = "complex" /\ state' = "sw_slash"
        /\ ch' = inbuf(p) /\ p' = p + 1 /\ r' = r
        /\ UNCHANGED << decoded, quoted_state >>
    BY <1>6 DEF ParentFound
  <2>2. left' = None /\ run' = None
    BY <1>1, <2>1, NoRun DEF RecordLeft
  <2>3. in_len' = in_len /\ UNCHANGED << in, merge_slashes, out_cap >>
    BY <1>1 DEF call, in_len
  <2>4. InMainLoop'
    BY <1>1, <2>1, <2>2 DEF InMainLoop, InScan, Left, ExtensionBehind
  <2>5. HistoryInv'
    BY <2>1, <2>2, <2>3, <2>4 DEF HistoryInv, PortInv
  <2>6. MapsStageTwo'
    BY <2>1, <2>2, <2>4, StageTwoMapsNext DEF InMainLoop
  <2>7. Zeroed' = Zeroed
    BY <1>1, <1>2, <2>3, ZeroedFollows
  <2>8. StateName[state] = "DotDot" /\ StateName[state'] = "Slash"
    BY <1>1, <2>1, Names
  <2>9. Port!Is(SLASH)
    BY <1>1, <1>2, <2>1 DEF InScan, Case
  <2>10. u + 1 \in Port!PathEnds
    <3>1. Zeroed[u] = SLASH /\ \A i \in u + 1 .. left.u - 4 : Zeroed[i] # SLASH
      <4>1. \A i \in u .. left.u - 4 : i \in 0 .. in_len
        BY <1>2, <1>3
      <4>2. u \in u .. left.u - 4 /\ \A i \in u + 1 .. left.u - 4 : i \in u .. left.u - 4
        BY <1>2, <1>3
      <4> QED BY <1>1, <1>2, <1>4, <4>1, <4>2
    <3>2. u + 1 \in 0 .. left.u /\ (u + 1) - 1 = u
      BY <1>2, <1>3
    <3> QED BY <1>2, <1>3, <2>8, <3>1, <3>2, SameBytes DEF Port!PathEnds
  <2>11. Port!ReadWithLf(p) = inbuf(p)
    BY <1>2, SameReads
  <2>12. Port!CloseDotSegment
    BY <1>1, <1>2, <1>3, <2>1, <2>2, <2>3, <2>6, <2>7, <2>8, <2>9, <2>10, <2>11, SameBytes
    DEF Port!CloseDotSegment, MapsStageTwo, Port!Advance, Port!Stay, Port!input, Port!fields
  <2> QED BY <2>5, <2>12 DEF Matched, Port!Next, Port!ParseComplexUriStep
<1> QED BY <1>5, <1>6

LEMMA SeekHashMatches ==
  ASSUME PortInv, RecordRun, RecordLeft, SeekHash
  PROVE  HistoryInv' /\ Matched
<1>1. /\ InQuery /\ Ended /\ Left /\ InLoop /\ InLoop' /\ pc = "args" /\ p < in_len /\ p' = p + 1
      /\ pc' # "complex" /\ pc' # "reply"
      /\ UNCHANGED << state, ch, decoded, quoted_state, u, nbuf, call, rc, reply >>
      /\ r.args_start = left.p /\ r.args = Empty
  BY DEF PortInv, HistoryInv, SeekHash, InLoop, InQuery, Ended, local2
<1>2. /\ in_len \in Nat /\ p \in Nat /\ r \in RequestType /\ left.p \in Nat
  BY <1>1, InnerReads
<1>3. /\ UNCHANGED << r.complex_uri, r.quoted_uri, r.plus_in_uri, r.uri_ext, r.uri, r.exten >>
  BY <1>2 DEF SeekHash, RequestType
<1>4. /\ UNCHANGED Port!vars /\ left' = left /\ Left' /\ run' = None
      /\ out_cap' >= in_len' /\ in_len' = in_len
  BY <1>1, <1>3, InnerWaits
<1>5. Ended'
  BY <1>1, <1>3, <1>4 DEF Ended, ExtensionBehind
<1>6. in' = in /\ \A i : inbuf(i)' = inbuf(i)
  BY <1>1, <1>4 DEF call, inbuf
<1>7. p >= left.p /\ \A i \in left.p .. p - 1 : inbuf(i) # HASH
  BY <1>1 DEF InQuery
<1>8. CASE inbuf(p) = HASH
  <2>1. /\ pc' = "done" /\ r'.args_start = None
        /\ r'.args = [len |-> p - left.p, data |-> left.p]
    BY <1>1, <1>2, <1>8 DEF SeekHash, RequestType
  <2>2. p \in left.p .. in_len - 1 /\ QueryEnd(p)
    BY <1>1, <1>2, <1>7, <1>8 DEF QueryEnd
  <2>3. \A i : QueryEnd(i)' <=> QueryEnd(i)
    BY <1>4, <1>6 DEF QueryEnd
  <2>4. \E i \in left'.p .. in_len' - 1 :
          QueryEnd(i)' /\ r'.args = [len |-> i - left'.p, data |-> left'.p]
    BY <1>4, <2>1, <2>2, <2>3
  <2>5. Finishing'
    BY <1>1, <1>4, <1>5, <2>1, <2>4 DEF Finishing, InQuery, Case
  <2> QED BY <1>4, <2>1, <2>5 DEF HistoryInv, Matched
<1>9. CASE inbuf(p) # HASH
  <2>1. pc' = "args" /\ r' = r
    BY <1>1, <1>9 DEF SeekHash
  <2>2. \A i \in left.p .. (p + 1) - 1 : inbuf(i) # HASH
    BY <1>2, <1>7, <1>9
  <2>3. p + 1 >= left.p
    BY <1>2, <1>7
  <2>4. InQuery'
    BY <1>1, <1>4, <1>5, <1>6, <2>1, <2>2, <2>3 DEF InQuery, Case
  <2> QED BY <1>4, <2>1, <2>4 DEF HistoryInv, Matched
<1> QED BY <1>8, <1>9

(* The end of stage 2, in one step of the port from the byte where its     *)
(* loop was left. *)
LEMMA DoneMatches ==
  ASSUME PortInv, RecordRun, RecordLeft, Done
  PROVE  HistoryInv' /\ Matched
<1>1. /\ Ended /\ Left /\ InLoop /\ pc' = "reply" /\ state \in Unquoted
      /\ UNCHANGED << state, p, ch, decoded, quoted_state, u, nbuf, call, rc, reply >>
      /\ u \in 0 .. in_len
  BY DEF PortInv, HistoryInv, WrapperInv, Done, InLoop, InQuery, Finishing, Ended, Left,
         local2, PathWritten
<1>2. /\ MapsStageTwo /\ port_p = left.p /\ port_u = left.u /\ port_out = Zeroed /\ run = None
      /\ Port!uri_end = in_len /\ in_len \in Nat /\ InputOK /\ left.u \in Nat /\ p \in Nat
      /\ (Port!Reading <=> left.p <= in_len) /\ left.p \in Nat /\ r \in RequestType /\ Types
      /\ \A b : Port!Is(b) <=> Case({b})
      /\ \A i \in 0 .. in_len : Zeroed[i] = SLASH <=> nbuf[i] = SLASH
  BY <1>1, InnerReads
<1>3. run' = None /\ left' = [left EXCEPT !.u = u]
  BY <1>1, NoRun DEF RecordLeft, InLoop
<1>4. left' \in [p : Nat, u : Nat] /\ left'.p = left.p /\ left'.u = u /\ left' # None
  BY <1>1, <1>3 DEF Left
<1>5. in_len' = in_len /\ UNCHANGED << in, merge_slashes, out_cap >>
  BY <1>1 DEF call, in_len
<1>6. /\ r'.uri = [r.uri EXCEPT !.len = u] /\ r'.uri_ext = None
      /\ r'.exten = IF r.uri_ext # None THEN [len |-> u - r.uri_ext, data |-> r.uri_ext]
                    ELSE r.exten
      /\ UNCHANGED << r.complex_uri, r.quoted_uri, r.plus_in_uri, r.args_start, r.args >>
  BY <1>2 DEF Done, RequestType
<1>7. r'.uri.len = u /\ r'.uri.data = "nbuf"
  BY <1>1, <1>2, <1>6 DEF Left, RequestType, Str
<1>8. Owned' /\ Normalized' /\ ~InLoop'
  BY <1>1, <1>7 DEF Owned, Normalized, InLoop
<1>9. /\ \/ pc = "args" /\ r.args_start = left.p /\ r.args = Empty /\ Case({QUESTION})
            /\ left.p <= in_len /\ \A i \in left.p .. in_len - 1 : inbuf(i) # HASH
         \/ pc = "done" /\ Finishing
  <2>1. CASE pc = "args"
    <3>1. InQuery /\ p >= in_len
      BY <2>1 DEF PortInv, HistoryInv, Done
    <3>2. \A i \in left.p .. in_len - 1 : i \in left.p .. p - 1
      BY <1>2, <3>1
    <3> QED BY <2>1, <3>1, <3>2 DEF InQuery
  <2>2. CASE pc = "done"
    BY <2>2 DEF PortInv, HistoryInv
  <2> QED BY <2>1, <2>2 DEF Done
<1>10. Replying'
  <2>1. left.p \in Nat \ {0}
    BY <1>1 DEF Left
  <2>2. r.args = Empty \/ (r.args.data = left.p /\ r.args_start = None)
    <3>1. r.args = Empty \/ (/\ r.args_start = None
                            /\ \E i : r.args = [len |-> i - left.p, data |-> left.p])
      BY <1>9 DEF Finishing
    <3>2. \A i : [len |-> i - left.p, data |-> left.p].data = left.p
      OBVIOUS
    <3> QED BY <3>1, <3>2
  <2> QED BY <1>4, <1>6, <1>8, <2>1, <2>2 DEF Replying
<1>11. HistoryInv'
  BY <1>1, <1>3, <1>5, <1>10 DEF HistoryInv, PortInv
<1>12. u \in Port!PathEnds
  <2>1. \A i \in 0 .. left.u - 4 : Zeroed[i] = SLASH <=> nbuf[i] = SLASH
    BY <1>1, <1>2 DEF Left
  <2>2. CASE state = "sw_dot_dot"
    <3>1. /\ u - 1 \in 0 .. left.u - 4 /\ nbuf[u - 1] = SLASH
          /\ \A i \in u .. left.u - 4 : nbuf[i] # SLASH
      BY <1>1, <2>2 DEF Ended
    <3>2. u \in 0 .. left.u /\ \A i \in u .. left.u - 4 : i \in 0 .. left.u - 4
      BY <1>1, <1>2, <3>1
    <3>3. StateName[state] = "DotDot"
      BY <2>2, Names
    <3> QED BY <1>2, <2>1, <3>1, <3>2, <3>3, SameBytes DEF Port!PathEnds
  <2>3. CASE state = "sw_dot"
    <3>1. StateName[state] = "Dot" /\ u = left.u - 1 /\ u \in 0 .. left.u
      BY <1>1, <1>2, <2>3, Names DEF Ended
    <3> QED BY <1>2, <3>1 DEF Port!PathEnds
  <2>4. CASE state \notin {"sw_dot", "sw_dot_dot"}
    <3>1. /\ StateName[state] # "Dot" /\ StateName[state] # "DotDot"
          /\ u = left.u /\ u \in 0 .. left.u
      BY <1>1, <1>2, <2>4, UnquotedNames DEF Ended
    <3> QED BY <1>2, <3>1 DEF Port!PathEnds
  <2> QED BY <2>2, <2>3, <2>4
<1>13. Port!FinishDone(u)
  <2>1. port_uri_len' = u /\ port_pc' = "normalized" /\ port_result' = None
    BY <1>1, <1>7, <1>8 DEF port_uri_len, port_pc, port_result
  <2>2. port_p' = port_p /\ port_u' = u /\ port_out' = port_out
    <3>1. Zeroed' = Zeroed
      BY <1>1, <1>2, <1>5, ZeroedFollows
    <3> QED BY <1>2, <1>3, <1>4, <1>8, <3>1 DEF port_p, port_u, port_out
  <2>3. Offset(r'.exten) = IF r.uri_ext # None
                            THEN [len |-> Port!wrapping_sub(u, r.uri_ext), data |-> r.uri_ext]
                            ELSE Offset(r.exten)
    <3>1. r.uri_ext # None => Port!wrapping_sub(u, r.uri_ext) = u - r.uri_ext
      BY <1>1 DEF Ended, ExtensionBehind, Port!wrapping_sub
    <3> QED BY <1>6, <3>1 DEF Offset
  <2>4. Offset(r.exten)' = Offset(r'.exten)
    BY DEF Offset
  <2> QED
    BY <1>1, <1>2, <1>5, <1>6, <2>1, <2>2, <2>3, <2>4
    DEF Port!FinishDone, MapsStageTwo, Port!input, Port!flags
<1>14. port_args_start' = r.args_start /\ port_args' = Offset(r.args)
  BY <1>6, <1>8 DEF port_args_start, port_args, Offset
<1>15. port_args_start = None /\ port_args = NoSlice /\ Offset(Empty) = NoSlice
  BY <1>2 DEF MapsStageTwo, Offset, Empty, NoSlice
<1>16. Case({QUESTION}) /\ left.p <= in_len
       /\ Port!FinishArgs(u) => Port!QuestionMark
  BY <1>1, <1>2, <1>12, UnquotedNames, SameBytes DEF Port!QuestionMark
<1>17. \A i \in 0 .. in_len - 1 : Port!At(i) = inbuf(i)
  BY <1>2, SameReads
<1>18. CASE pc = "args"
  <2>1. /\ r.args_start = left.p /\ r.args = Empty /\ Case({QUESTION}) /\ left.p <= in_len
        /\ \A i \in left.p .. in_len - 1 : inbuf(i) # HASH
    BY <1>9, <1>18
  <2>2. \A i \in left.p .. in_len - 1 : Port!At(i) # HASH
    BY <1>2, <1>17, <2>1
  <2>3. Port!FinishArgs(u)
    BY <1>2, <1>13, <1>14, <1>15, <2>1, <2>2, SameBytes DEF Port!FinishArgs
  <2> QED BY <1>11, <1>16, <2>1, <2>3 DEF Matched, Port!Next, Port!ParseComplexUriStep
<1>19. CASE pc = "done" /\ r.args # Empty
  <2>1. /\ left.p <= in_len /\ Case({QUESTION}) /\ r.args_start = None
        /\ \E i \in left.p .. in_len - 1 :
             QueryEnd(i) /\ r.args = [len |-> i - left.p, data |-> left.p]
    BY <1>9, <1>19 DEF Finishing
  <2>2. PICK i \in left.p .. in_len - 1 :
             QueryEnd(i) /\ r.args = [len |-> i - left.p, data |-> left.p]
    BY <2>1
  <2>3. Port!At(i) = HASH /\ \A j \in left.p .. i - 1 : Port!At(j) # HASH
    <3>1. i \in 0 .. in_len - 1 /\ \A j \in left.p .. i - 1 : j \in 0 .. in_len - 1
      BY <1>2
    <3> QED BY <1>17, <2>2, <3>1 DEF QueryEnd
  <2>4. Offset(r.args) = [len |-> Port!wrapping_sub(i, left.p), data |-> left.p]
    BY <1>2, <2>2 DEF Offset, Port!wrapping_sub
  <2>5. Port!FinishArgs(u)
    BY <1>2, <1>13, <1>14, <2>1, <2>3, <2>4, SameBytes DEF Port!FinishArgs
  <2> QED BY <1>11, <1>16, <2>1, <2>5 DEF Matched, Port!Next, Port!ParseComplexUriStep
<1>20. CASE pc = "done" /\ r.args = Empty
  <2>1. r.args_start = None
    BY <1>9, <1>20 DEF Finishing
  <2>2. UNCHANGED << port_args_start, port_args >>
    BY <1>14, <1>15, <1>20, <2>1
  <2>3. CASE left.p <= in_len
    <3>1. Case({HASH})
      <4>1. \A i : [len |-> i - left.p, data |-> left.p] # Empty
        BY <1>2 DEF Empty
      <4> QED BY <1>9, <1>20, <2>3, <4>1 DEF Finishing
    <3>2. Port!HashMark
      BY <1>1, <1>2, <1>12, <1>13, <2>2, <2>3, <3>1, UnquotedNames, SameBytes
      DEF Port!HashMark
    <3> QED BY <1>11, <3>2 DEF Matched, Port!Next, Port!ParseComplexUriStep
  <2>4. CASE ~(left.p <= in_len)
    <3>1. Port!EndOfPath
      BY <1>1, <1>2, <1>12, <1>13, <2>2, <2>4, UnquotedNames
      DEF Port!EndOfPath, MapsStageTwo
    <3> QED BY <1>11, <3>1 DEF Matched, Port!Next, Port!ParseComplexUriStep
  <2> QED BY <2>3, <2>4
<1> QED BY <1>9, <1>18, <1>19, <1>20

-----------------------------------------------------------------------------
(* The wrapper and parse_origin_form assemble the same answer. *)
LEMMA ReplyMatches ==
  ASSUME PortInv, RecordRun, RecordLeft, OutTooSmall \/ Reply
  PROVE  HistoryInv' /\ Matched
<1>1. /\ pc = "reply" /\ pc' = "returned" /\ Replying /\ out_cap >= in_len
      /\ r.uri.len \in 0 .. in_len /\ Types /\ InputOK /\ in_len \in Nat
      /\ r \in RequestType /\ out_cap \in Nat
      /\ UNCHANGED << in, merge_slashes, out_cap, r, state, p, ch, decoded, quoted_state >>
      /\ UNCHANGED << u, nbuf >>
  BY ReadByte
  DEF PortInv, HistoryInv, WrapperInv, Types, OutTooSmall, Reply, Return, call, local2
<1>2. Reply /\ rc' = 0
  BY <1>1 DEF OutTooSmall, Reply, Return
<1>3. run = None /\ run' = None
  BY <1>1, NoRun
<1>4. left' = left /\ in_len' = in_len
  BY <1>1 DEF RecordLeft, InLoop, in_len
<1>5. HistoryInv'
  BY <1>1, <1>3, <1>4 DEF HistoryInv
<1>6. Owned' = Owned /\ Zeroed' = Zeroed
  BY <1>1, <1>4 DEF Owned, Zeroed
<1>7. /\ UNCHANGED << port_args_start, port_args, Offset(r.exten), port_uri_len >>
      /\ UNCHANGED << port_p, port_u, port_out >> /\ port_pc' = "ok" /\ port_result = None
  BY <1>1, <1>2, <1>3, <1>4, <1>6
  DEF port_args_start, port_args, port_uri_len, port_p, port_u, port_out, port_pc,
      port_result, Offset, InLoop, Normalized
<1>8. port_args_start = r.args_start /\ port_args = Offset(r.args)
  BY <1>1 DEF port_args_start, port_args, InLoop
<1>9. Port!uri_end = in_len
  BY <1>1, SameReads
<1>10. port_result' = [owned |-> Owned, len |-> r.uri.len, args |-> Port!parsed_args]
  <2>1. port_result' =
          [ owned |-> Owned, len |-> r.uri.len,
            args |-> IF Args.data # None
                     THEN [ len |-> IF Args.data # None THEN Args.len ELSE 0,
                            data |-> IF Args.data # None THEN Args.data ELSE 0 ]
                     ELSE None ]
    <3>1. /\ reply'.out_len = r.uri.len /\ reply'.args_present = (Args.data # None)
          /\ reply'.args_offset = IF Args.data # None THEN Args.data ELSE 0
          /\ reply'.args_len = IF Args.data # None THEN Args.len ELSE 0
      BY <1>2 DEF Reply
    <3> QED BY <1>1, <1>2, <1>6, <3>1 DEF port_result
  <2>2. Port!parsed_args = IF Args.data # None THEN [len |-> Args.len, data |-> Args.data]
                           ELSE None
    <3>1. CASE r.args = Empty
      <4>1. port_args = NoSlice /\ r.args.data = None
        BY <1>8, <3>1 DEF Offset, Empty, NoSlice
      <4>2. CASE r.args_start # None /\ in_len > r.args_start
        <5>1. r.args_start \in Nat
          BY <1>1, <4>2 DEF RequestType, MaybeOffset
        <5>2. Args = [len |-> in_len - r.args_start, data |-> r.args_start]
          BY <4>2 DEF Args
        <5> QED
          BY <1>8, <1>9, <4>1, <4>2, <5>1, <5>2 DEF Port!parsed_args, NoSlice
      <4>3. CASE ~(r.args_start # None /\ in_len > r.args_start)
        BY <1>8, <1>9, <4>1, <4>3 DEF Port!parsed_args, NoSlice, Args
      <4> QED BY <4>2, <4>3
    <3>2. CASE r.args.data \in Nat \ {0} /\ r.args_start = None
      <4>1. Args = r.args /\ r.args.data # None
        BY <3>2 DEF Args
      <4>2. port_args = [len |-> r.args.len, data |-> r.args.data]
        BY <1>8, <4>1 DEF Offset
      <4> QED BY <3>2, <4>1, <4>2 DEF Port!parsed_args
    <3> QED BY <1>1, <3>1, <3>2 DEF Replying
  <2> QED BY <2>1, <2>2
<1>11. ASSUME NEW owned, NEW len, port_result' = [owned |-> owned, len |-> len,
                                                  args |-> Port!parsed_args]
       PROVE  Port!Return(owned, len)
  BY <1>1, <1>7, <1>11
  DEF Port!Return, Port!input, Port!flags, Port!marks, Port!fields, Port!locals
<1>12. CASE Owned
  <2>1. port_pc = "normalized" /\ port_uri_len = r.uri.len
    BY <1>1, <1>12 DEF port_pc, port_uri_len, Normalized
  <2>2. Port!Return(TRUE, port_uri_len)
    BY <1>10, <1>11, <1>12, <2>1 DEF Owned
  <2>3. Port!ReturnOwned
    BY <2>1, <2>2 DEF Port!ReturnOwned
  <2> QED BY <1>5, <2>3 DEF Matched, Port!Next
<1>13. CASE ~Owned
  <2>1. left = None /\ Simple /\ p = in_len /\ r.uri.len = RawLength
    BY <1>1, <1>13 DEF Replying
  <2>2. port_pc = "uri" /\ port_p = in_len
    BY <1>1, <1>3, <1>13, <2>1 DEF port_pc, port_p
  <2>3. Port!Scanned /\ ~Port!NeedsNormalization
    BY <1>9, <2>1, <2>2 DEF Port!Scanned, Port!NeedsNormalization, Simple
  <2>4. RawLength = IF port_args_start = None THEN Port!uri_end ELSE port_args_start - 1
    BY <1>8, <1>9 DEF RawLength
  <2>5. Port!Return(FALSE, RawLength)
    BY <1>10, <1>11, <1>13, <2>1 DEF Owned
  <2>6. Port!ReturnBorrowed
    BY <2>3, <2>4, <2>5 DEF Port!ReturnBorrowed
  <2> QED BY <1>5, <2>6 DEF Matched, Port!Next
<1> QED BY <1>12, <1>13

-----------------------------------------------------------------------------
LEMMA InitPort == HistInit => PortInv /\ Port!Init
<1> SUFFICES ASSUME HistInit PROVE PortInv /\ Port!Init
  OBVIOUS
<1>1. /\ in \in Inputs /\ merge_slashes \in BOOLEAN /\ out_cap >= in_len
      /\ run = None /\ left = None /\ pc = "call" /\ r = Request0
      /\ state = "sw_start" /\ p = 0
      /\ ch = 0 /\ decoded = 0 /\ quoted_state = "sw_usual" /\ u = 0
      /\ nbuf = [i \in 0 .. in_len |-> None]
  BY RoomAssumption DEF HistInit, Init, Entry, in_len
<1>2. WrapperInv
  BY InitWrapper DEF HistInit
<1>3. /\ r.uri = Empty /\ r.args = Empty /\ r.exten = Empty /\ r.uri_ext = None
      /\ r.args_start = None
      /\ r.complex_uri = FALSE /\ r.quoted_uri = FALSE /\ r.plus_in_uri = FALSE
  BY <1>1 DEF Request0, Empty
<1>4. InStageOne
  BY <1>1, <1>3 DEF InStageOne, UriStates
<1>5. PortInv
  BY <1>1, <1>2, <1>4 DEF PortInv, HistoryInv
<1>6. MapsStageOne
  BY <1>1, <1>4, StageOneMaps
<1>7. Port!Init
  BY <1>1, <1>3, <1>6, Names DEF Port!Init, MapsStageOne, NoSlice
<1> QED BY <1>5, <1>7

LEMMA NextPort == PortInv /\ [HistNext]_hist_vars => PortInv' /\ [Port!Next]_(Port!vars)
<1> SUFFICES ASSUME PortInv, [HistNext]_hist_vars
             PROVE  PortInv' /\ (Port!Next \/ UNCHANGED Port!vars)
  OBVIOUS
<1>1. WrapperInv'
  BY NextWrapper DEF PortInv, HistNext, hist_vars
<1>2. CASE HistNext
  <2>1. Next /\ RecordRun /\ RecordLeft
    BY <1>2 DEF HistNext
  <2>2. ~OutOfMemory
    BY MemoryAssumption DEF OutOfMemory
  <2>3. HistoryInv' /\ Matched
    <3>1. CASE sw_usual \/ sw_slash \/ sw_dot
      BY <2>1, <3>1, SlashAndDotMatch, DotSegmentMatches, LeavingMatches
    <3>2. CASE sw_dot_dot \/ LoopEnds
      <4>1. pc' # "complex"
        BY <3>2 DEF sw_dot_dot, LoopEnds, Leave, GotoDone
      <4> QED BY <2>1, <3>2, <4>1, LeavingMatches
    <3> QED
      BY <2>1, <2>2, <3>1, <3>2, CallMatches, StartMatches, AfterSlashMatches,
         CheckUriMatches, UriMatches, RefusedByteMatches, BetweenMatches, CopyMatches,
         QuotedMatches, BadEscapeMatches, ScanBackMatches, AboveRootMatches,
         ParentMatches, SeekHashMatches, DoneMatches, ReplyMatches
      DEF Next
  <2> QED BY <1>1, <2>3 DEF PortInv, Matched
<1>3. CASE UNCHANGED hist_vars
  <2>1. /\ UNCHANGED << in, merge_slashes, out_cap, pc, r, state, p, ch, decoded >>
        /\ UNCHANGED << quoted_state, u, nbuf, rc, reply, run, left >>
    BY <1>3 DEF hist_vars, vars, call, local2
  <2>2. in_len' = in_len /\ \A i : inbuf(i)' = inbuf(i)
    BY <2>1 DEF in_len, inbuf
  <2>3. HistoryInv'
    BY <2>1, <2>2
    DEF PortInv, HistoryInv, RunOpen, InStageOne, InMainLoop, ExtensionBehind, Resume,
        InScan, InQuery, Finishing, Ended, Left, Replying, QueryEnd, Owned, Simple,
        RawLength, Case
  <2>4. UNCHANGED Port!vars
    BY <2>1, <2>2
    DEF Port!vars, Port!input, Port!flags, Port!marks, Port!fields, Port!locals,
        port_pc, port_args_start, port_args, port_uri_len, port_p, port_u, port_out,
        port_result, Offset, InLoop, Normalized, Owned, Zeroed
  <2> QED BY <1>1, <2>3, <2>4 DEF PortInv
<1> QED BY <1>2, <1>3

(***************************************************************************)
(* The C reference is the port: with room for the path and enough memory,  *)
(* each of its steps is a step of parse_origin_form or none, for every     *)
(* input; so it takes the same decisions at the same bytes, and returns    *)
(* the same path and query or refuses the same targets.                    *)
(***************************************************************************)
THEOREM ReferenceIsPort == HistSpec => PortSteps
<1> QED BY InitPort, NextPort, PTL DEF HistSpec, PortSteps

-----------------------------------------------------------------------------
(***************************************************************************)
(* What the caller of the reference is given.                              *)
(***************************************************************************)
LEMMA HowItReturns ==
  ASSUME Next, pc' = "returned"
  PROVE  rc' = -1 \/ OutTooSmall \/ Reply
<1>1. CASE EmptyInput \/ OutOfMemory \/ ScanError \/ AboveRoot \/ BadEscape
  BY <1>1 DEF EmptyInput, OutOfMemory, ScanError, AboveRoot, BadEscape, Refuse, Return
<1>2. CASE OutTooSmall \/ Reply
  BY <1>2
<1>3. CASE CopyInput \/ KeepPath \/ EnterComplex
  BY <1>3 DEF CopyInput, KeepPath, EnterComplex
<1>4. CASE sw_start \/ sw_after_slash_in_uri \/ sw_check_uri \/ sw_uri
  BY <1>4 DEF sw_start, sw_after_slash_in_uri, sw_check_uri, sw_uri, Scans, Go
<1>5. CASE sw_usual \/ sw_slash \/ sw_dot \/ sw_dot_dot
  BY <1>5
  DEF sw_usual, sw_slash, sw_dot, sw_dot_dot, Reads, ReadOn, Leave, GotoArgs, GotoDone
<1>6. CASE BeginQuoted \/ CopyByte \/ sw_quoted \/ sw_quoted_second
  BY <1>6 DEF BeginQuoted, CopyByte, sw_quoted, sw_quoted_second, Reads, ReadOn
<1>7. CASE ScanBack \/ ParentFound \/ LoopEnds
  BY <1>7 DEF ScanBack, ParentFound, LoopEnds, Leave, GotoArgs, GotoDone
<1>8. CASE SeekHash \/ Done
  BY <1>8 DEF SeekHash, Done
<1> QED
  BY <1>1, <1>2, <1>3, <1>4, <1>5, <1>6, <1>7, <1>8 DEF Next

LEMMA ReplyCopies ==
  ASSUME PortInv, Reply
  PROVE  ReplyIsPath'
<1>1. /\ pc = "reply" /\ pc' = "returned" /\ rc' = 0 /\ Replying
      /\ r.uri.len \in 0 .. in_len /\ in_len \in Nat /\ InputOK /\ Types
      /\ UNCHANGED << in, r, nbuf >>
      /\ reply'.out = [ i \in 0 .. r.uri.len - 1 |-> PathByte(i) ]
      /\ reply'.out_len = r.uri.len
  BY ReadByte DEF PortInv, HistoryInv, WrapperInv, Types, Reply, Return, call, local2
<1>2. /\ port_result'.owned = Owned /\ port_result'.len = r.uri.len
  BY <1>1 DEF port_result, Owned
<1>3. Port!Path' = [ i \in 0 .. r.uri.len - 1 |->
                       IF Owned THEN port_out'[i] ELSE Port!At(i) ]
  BY <1>1, <1>2 DEF Port!Path, Port!PathLen, Port!At
<1>4. \A i \in 0 .. r.uri.len - 1 : i \in 0 .. in_len - 1 /\ i \in 0 .. in_len
  BY <1>1
<1>5. CASE Owned
  <2>1. port_out' = Zeroed
    BY <1>1, <1>5 DEF port_out, Owned, Zeroed, in_len
  <2>2. r.uri.data # "inbuf"
    BY <1>5 DEF Owned
  <2>3. \A i \in 0 .. r.uri.len - 1 : nbuf[i] \in Byte
    BY <1>1, <2>2 DEF PortInv, WrapperInv, Written
  <2>4. \A b \in Byte : b # None
    BY DEF Byte
  <2>5. \A i \in 0 .. r.uri.len - 1 : Zeroed[i] = nbuf[i]
    BY <1>4, <2>3, <2>4 DEF Zeroed
  <2>6. \A i \in 0 .. r.uri.len - 1 : PathByte(i) = nbuf[i]
    BY <2>2 DEF PathByte
  <2> QED
    BY <1>1, <1>3, <1>5, <2>1, <2>5, <2>6 DEF ReplyIsPath
<1>6. CASE ~Owned
  <2>1. r.uri.data = "inbuf"
    BY <1>1, <1>6 DEF Replying
  <2>2. \A i \in 0 .. r.uri.len - 1 : PathByte(i) = Port!At(i)
    BY <1>1, <1>4, <2>1, SameReads DEF PathByte
  <2> QED
    BY <1>1, <1>3, <1>6, <2>2 DEF ReplyIsPath
<1> QED
  BY <1>5, <1>6

LEMMA NextReply == PortInv /\ ReplyIsPath /\ [HistNext]_hist_vars => ReplyIsPath'
<1> SUFFICES ASSUME PortInv, ReplyIsPath, [HistNext]_hist_vars, pc' = "returned"
             PROVE  ReplyIsPath'
  BY DEF ReplyIsPath
<1>1. CASE HistNext
  <2>1. rc' = -1 \/ OutTooSmall \/ Reply
    BY <1>1, HowItReturns DEF HistNext
  <2>2. ~OutTooSmall
    <3>1. pc = "reply" => /\ out_cap >= in_len /\ out_cap \in Nat /\ in_len \in Nat
                          /\ r.uri.len \in 0 .. in_len
      BY ReadByte DEF PortInv, HistoryInv, WrapperInv, Types
    <3> QED
      BY <3>1 DEF OutTooSmall
  <2> QED
    BY <2>1, <2>2, ReplyCopies DEF ReplyIsPath
<1>2. CASE UNCHANGED hist_vars
  <2>1. UNCHANGED << in, pc, r, nbuf, rc, reply >>
    BY <1>2 DEF hist_vars, vars, call, local2
  <2>2. Port!Path' = Port!Path
    BY <2>1
    DEF Port!Path, Port!PathLen, Port!At, port_result, port_out, Owned, Zeroed, in_len
  <2> QED
    BY <2>1, <2>2 DEF ReplyIsPath
<1> QED
  BY <1>1, <1>2

(***************************************************************************)
(* The wrapper gives its caller a rejection, or a copy of the path that    *)
(* the port returns at this state of the mapping: whichever buffer holds   *)
(* the path, no byte of it is left out, and -2 is never given to a caller  *)
(* with room for the input.                                                *)
(***************************************************************************)
THEOREM ReplyIsPortPath == HistSpec => []ReplyIsPath
<1>1. HistInit => ReplyIsPath
  BY DEF HistInit, Init, Entry, ReplyIsPath
<1> QED
  BY <1>1, InitPort, NextPort, NextReply, PTL DEF HistSpec

-----------------------------------------------------------------------------
(***************************************************************************)
(* What is proved of the port, read at the states the mapping gives: the   *)
(* port's invariants are invariants of the reference.                      *)
(***************************************************************************)
Proved == INSTANCE Result_proofs WITH
  Targets      <- Inputs,          UsizeSize    <- UsizeSize,
  target       <- in,              pc           <- port_pc,
  complex_uri  <- r.complex_uri,   quoted_uri   <- r.quoted_uri,
  plus_in_uri  <- r.plus_in_uri,   args_start   <- port_args_start,
  uri_ext      <- r.uri_ext,       args         <- port_args,
  uri_len      <- port_uri_len,    exten        <- Offset(r.exten),
  state        <- StateName[state],
  quoted_state <- StateName[quoted_state],
  p            <- port_p,          u            <- port_u,
  out          <- port_out,        result       <- port_result

LEMMA ProvedAssumptions ==
  /\ Proved!TargetsAssumption /\ Proved!NoneAssumption /\ Proved!UsizeAssumption
<1>1. Proved!Byte = Byte
  BY DEF Proved!Byte, Byte
<1>2. Proved!TargetsAssumption
  BY <1>1, InputsAssumption DEF Proved!TargetsAssumption
<1>3. Proved!NoneAssumption
  BY DEF Proved!NoneAssumption
<1>4. Proved!UsizeAssumption
  BY UsizeAssumption DEF Proved!UsizeAssumption
<1> QED
  BY <1>2, <1>3, <1>4

LEMMA PortInvariants ==
  /\ Proved!Init => Proved!PathInv /\ Proved!QueryInv
  /\ Proved!PathInv /\ Proved!QueryInv /\ [Proved!Next]_(Proved!vars)
       => Proved!PathInv' /\ Proved!QueryInv'
  /\ Proved!PathInv /\ Proved!QueryInv
       => Proved!PathIsNormal /\ Proved!QueryIsExact
BY ProvedAssumptions, Proved!TargetsAssumption, Proved!NoneAssumption,
   Proved!UsizeAssumption, Proved!InitPathInv, Proved!InitQuery, Proved!NextPathInv,
   Proved!NextQuery, Proved!ReturnsNormal, Proved!ReturnsQuery

(* The two instances are of the same definitions.                          *)
LEMMA SameInit ==
  /\ Port!Init = Proved!Init
  /\ Port!vars = Proved!vars /\ Port!vars' = Proved!vars'
BY DEF Port!Init, Proved!Init, Port!fields, Proved!fields, Port!flags, Proved!flags,
       Port!input, Proved!input, Port!locals, Proved!locals, Port!marks, Proved!marks,
       Port!vars, Proved!vars

LEMMA SameStageOne == Port!ParseUriStep = Proved!ParseUriStep
BY DEF Port!At, Proved!At, Port!Byte, Proved!Byte, Port!ComplexAfterSlash,
       Proved!ComplexAfterSlash, Port!DEL, Proved!DEL, Port!DOT, Proved!DOT, Port!Fail,
       Proved!Fail, Port!HASH, Proved!HASH, Port!InitialSlash, Proved!InitialSlash,
       Port!MarkArgs, Proved!MarkArgs, Port!MarkComplex, Proved!MarkComplex,
       Port!MarkExtension, Proved!MarkExtension, Port!MarkPlus, Proved!MarkPlus,
       Port!MarkQuoted, Proved!MarkQuoted, Port!Named, Proved!Named, Port!NextSegment,
       Proved!NextSegment, Port!Opaque, Proved!Opaque, Port!OpaqueByte, Proved!OpaqueByte,
       Port!Ordinary, Proved!Ordinary, Port!PERCENT, Proved!PERCENT, Port!PLUS,
       Proved!PLUS, Port!ParseUriStep, Proved!ParseUriStep, Port!QUESTION, Proved!QUESTION,
       Port!RefuseByte, Proved!RefuseByte, Port!Refused, Proved!Refused, Port!SLASH,
       Proved!SLASH, Port!Scan, Proved!Scan, Port!Scanning, Proved!Scanning, Port!Seen,
       Proved!Seen, Port!Sees, Proved!Sees, Port!SegmentByte, Proved!SegmentByte,
       Port!USUAL, Proved!USUAL, Port!UsualRun, Proved!UsualRun, Port!Word, Proved!Word,
       Port!fields, Proved!fields, Port!flags, Proved!flags, Port!input, Proved!input,
       Port!locals, Proved!locals, Port!marks, Proved!marks, Port!uri_end, Proved!uri_end,
       Port!usual, Proved!usual

LEMMA SameStageTwo == Port!ParseComplexUriStep = Proved!ParseComplexUriStep
BY DEF Port!Advance, Proved!Advance, Port!Arms, Proved!Arms, Port!At, Proved!At,
       Port!CloseDotSegment, Proved!CloseDotSegment, Port!DOT, Proved!DOT,
       Port!DecodedByte, Proved!DecodedByte, Port!Emit, Proved!Emit, Port!EndOfPath,
       Proved!EndOfPath, Port!EscapeRoot, Proved!EscapeRoot, Port!ExtensionDot,
       Proved!ExtensionDot, Port!Fail, Proved!Fail, Port!FinishArgs, Proved!FinishArgs,
       Port!FinishDone, Proved!FinishDone, Port!HASH, Proved!HASH, Port!HashMark,
       Proved!HashMark, Port!HexValue, Proved!HexValue, Port!Is, Proved!Is, Port!IsDigit,
       Proved!IsDigit, Port!IsHexDigit, Proved!IsHexDigit, Port!IsHexLetter,
       Proved!IsHexLetter, Port!LF, Proved!LF, Port!LeadingDot, Proved!LeadingDot,
       Port!LiteralEscape, Proved!LiteralEscape, Port!Literals, Proved!Literals,
       Port!Named, Proved!Named, Port!OpenSegment, Proved!OpenSegment, Port!OrCaseBit,
       Proved!OrCaseBit, Port!PERCENT, Proved!PERCENT, Port!PLUS, Proved!PLUS,
       Port!ParseComplexUriStep, Proved!ParseComplexUriStep, Port!PathEnds,
       Proved!PathEnds, Port!Percent, Proved!Percent, Port!PlainByte, Proved!PlainByte,
       Port!QUESTION, Proved!QUESTION, Port!QuestionMark, Proved!QuestionMark,
       Port!QuotedFirst, Proved!QuotedFirst, Port!ReadWithLf, Proved!ReadWithLf,
       Port!Reading, Proved!Reading, Port!RejectEscape, Proved!RejectEscape,
       Port!RepeatSlash, Proved!RepeatSlash, Port!SLASH, Proved!SLASH, Port!Stay,
       Proved!Stay, Port!USUAL, Proved!USUAL, Port!Unquoted, Proved!Unquoted, Port!Value,
       Proved!Value, Port!Word, Proved!Word, Port!fields, Proved!fields, Port!flags,
       Proved!flags, Port!input, Proved!input, Port!locals, Proved!locals, Port!marks,
       Proved!marks, Port!uri_end, Proved!uri_end, Port!usual, Proved!usual,
       Port!wrapping_sub, Proved!wrapping_sub

LEMMA SameNext == Port!Next = Proved!Next
<1>1. Port!RejectEmpty = Proved!RejectEmpty /\ Port!CallParseUri = Proved!CallParseUri
  BY DEF Port!CallParseUri, Proved!CallParseUri, Port!Fail, Proved!Fail, Port!RejectEmpty,
         Proved!RejectEmpty, Port!fields, Proved!fields, Port!flags, Proved!flags,
         Port!input, Proved!input, Port!locals, Proved!locals, Port!marks, Proved!marks,
         Port!uri_end, Proved!uri_end
<1>2. Port!CallParseComplexUri = Proved!CallParseComplexUri
  BY DEF Port!At, Proved!At, Port!CallParseComplexUri, Proved!CallParseComplexUri, Port!LF,
         Proved!LF, Port!NeedsNormalization, Proved!NeedsNormalization, Port!ReadWithLf,
         Proved!ReadWithLf, Port!Scanned, Proved!Scanned, Port!fields, Proved!fields,
         Port!flags, Proved!flags, Port!input, Proved!input, Port!uri_end, Proved!uri_end
<1>3. Port!ReturnBorrowed = Proved!ReturnBorrowed /\ Port!ReturnOwned = Proved!ReturnOwned
  BY DEF Port!NeedsNormalization, Proved!NeedsNormalization, Port!Return, Proved!Return,
         Port!ReturnBorrowed, Proved!ReturnBorrowed, Port!ReturnOwned, Proved!ReturnOwned,
         Port!Scanned, Proved!Scanned, Port!fields, Proved!fields, Port!flags, Proved!flags,
         Port!input, Proved!input, Port!locals, Proved!locals, Port!marks, Proved!marks,
         Port!parsed_args, Proved!parsed_args, Port!uri_end, Proved!uri_end
<1> QED
  BY <1>1, <1>2, <1>3, SameStageOne, SameStageTwo DEF Port!Next, Proved!Next

LEMMA SameResults ==
  Port!PathIsNormal = Proved!PathIsNormal /\ Port!QueryIsExact = Proved!QueryIsExact
BY DEF Port!At, Proved!At, Port!DOT, Proved!DOT, Port!DotsAfter, Proved!DotsAfter,
       Port!HASH, Proved!HASH, Port!Path, Proved!Path, Port!PathIsNormal,
       Proved!PathIsNormal, Port!PathLen, Proved!PathLen, Port!QUESTION, Proved!QUESTION,
       Port!QueryEnds, Proved!QueryEnds, Port!QueryIsExact, Proved!QueryIsExact,
       Port!QueryMarks, Proved!QueryMarks, Port!SLASH, Proved!SLASH, Port!uri_end,
       Proved!uri_end

LEMMA PortProperties == HistSpec => [](Port!PathIsNormal /\ Port!QueryIsExact)
<1>1. Port!Init => Proved!PathInv /\ Proved!QueryInv
  BY SameInit, PortInvariants
<1>2. Proved!PathInv /\ Proved!QueryInv /\ [Port!Next]_(Port!vars)
        => Proved!PathInv' /\ Proved!QueryInv'
  <2>1. [Port!Next]_(Port!vars) => [Proved!Next]_(Proved!vars)
    BY SameInit, SameNext
  <2> QED
    BY <2>1, PortInvariants
<1>3. Proved!PathInv /\ Proved!QueryInv => Port!PathIsNormal /\ Port!QueryIsExact
  BY SameResults, PortInvariants
<1> QED
  BY <1>1, <1>2, <1>3, InitPort, NextPort, PTL DEF HistSpec

-----------------------------------------------------------------------------
(***************************************************************************)
(* The reply says of the reference's result what the port's theorems say   *)
(* of the port's.                                                          *)
(***************************************************************************)
ReplyTypes ==
  (pc = "returned" /\ rc = 0) =>
    /\ reply.args_len \in Int /\ reply.args_offset \in Int
    /\ ~reply.args_present => reply.args_len = 0 /\ reply.args_offset = 0

LEMMA NextReplyTypes == PortInv /\ ReplyTypes /\ [HistNext]_hist_vars => ReplyTypes'
<1> SUFFICES ASSUME PortInv, ReplyTypes, [HistNext]_hist_vars, pc' = "returned", rc' = 0
             PROVE  ReplyTypes'
  BY DEF ReplyTypes
<1>1. CASE HistNext
  <2>1. Reply
    BY <1>1, HowItReturns DEF HistNext, OutTooSmall, Return
  <2>2. /\ Replying /\ r \in RequestType /\ in_len \in Nat
    BY <2>1, ReadByte DEF PortInv, HistoryInv, WrapperInv, Types, Reply
  <2>3. r.args_start # None => r.args_start \in Nat
    BY <2>2 DEF RequestType, MaybeOffset
  <2>4. r.args.data # None => r.args.data \in Int /\ r.args.len \in Int
    BY <2>2 DEF Replying, Empty, RequestType, Str
  <2>5. Args.data # None => Args.data \in Int /\ Args.len \in Int
    BY <2>2, <2>3, <2>4 DEF Args
  <2>6. /\ reply'.args_present = (Args.data # None)
        /\ reply'.args_offset = IF Args.data # None THEN Args.data ELSE 0
        /\ reply'.args_len = IF Args.data # None THEN Args.len ELSE 0
    BY <2>1 DEF Reply
  <2>7. CASE Args.data # None
    BY <2>5, <2>6, <2>7 DEF ReplyTypes
  <2>8. CASE Args.data = None
    BY <2>6, <2>8 DEF ReplyTypes
  <2> QED
    BY <2>7, <2>8
<1>2. CASE UNCHANGED hist_vars
  BY <1>2 DEF hist_vars, vars, ReplyTypes
<1> QED
  BY <1>1, <1>2

LEMMA ReplyOfPath == ReplyIsPath /\ Port!PathIsNormal => ReplyIsNormal
<1> SUFFICES ASSUME ReplyIsPath, Port!PathIsNormal, pc = "returned", rc = 0
             PROVE  ReplyIsNormal
  BY DEF ReplyIsNormal
<1>1. port_pc = "ok" /\ port_result.len = reply.out_len
  BY DEF port_pc, port_result
<1>2. Port!PathLen = reply.out_len /\ Port!Path = reply.out
  BY <1>1 DEF Port!PathLen, ReplyIsPath
<1> QED
  BY <1>1, <1>2, SameBytes DEF Port!PathIsNormal, ReplyIsNormal

LEMMA ReplyOfQuery == ReplyTypes /\ Port!QueryIsExact => ReplyQueryIsExact
<1> SUFFICES ASSUME ReplyTypes, Port!QueryIsExact, pc = "returned", rc = 0
             PROVE  ReplyQueryIsExact
  BY DEF ReplyQueryIsExact
<1>1. /\ port_pc = "ok" /\ Port!uri_end = in_len
      /\ port_result.args = IF reply.args_present
                            THEN [len |-> reply.args_len, data |-> reply.args_offset]
                            ELSE None
  BY DEF port_pc, port_result, Port!uri_end, in_len
<1>2. reply.args_present => port_result.args # None
  BY <1>1 DEF ReplyTypes
<1>3. CASE reply.args_present
  <2>1. PICK q \in Port!QueryMarks : \E e \in Port!QueryEnds(q) :
          port_result.args = [len |-> e - q - 1, data |-> q + 1] /\ q + 1 # in_len
    BY <1>1, <1>2, <1>3 DEF Port!QueryIsExact
  <2>2. PICK e \in Port!QueryEnds(q) :
          port_result.args = [len |-> e - q - 1, data |-> q + 1] /\ q + 1 # in_len
    BY <2>1
  <2>3. reply.args_offset = q + 1 /\ reply.args_len = e - q - 1
    BY <1>1, <1>3, <2>2
  <2> QED
    BY <1>3, <2>2, <2>3 DEF ReplyQueryIsExact
<1>4. CASE ~reply.args_present
  <2>1. ASSUME NEW q \in Port!QueryMarks, NEW e \in Port!QueryEnds(q)
        PROVE  port_result.args # [len |-> e - q - 1, data |-> q + 1]
    <3>1. q \in Int /\ e \in Int
      BY DEF Port!QueryMarks, Port!QueryEnds
    <3> QED
      BY <1>1, <1>4, <3>1
  <2> QED
    BY <1>1, <1>4, <2>1 DEF Port!QueryIsExact, ReplyQueryIsExact
<1> QED
  BY <1>3, <1>4

(***************************************************************************)
(* The path that the reference hands out is normal, for every input and    *)
(* both values of merge_slashes: what is proved of the port holds of the   *)
(* code it was translated from.                                            *)
(***************************************************************************)
THEOREM RepliesAreNormal == HistSpec => []ReplyIsNormal
<1>1. HistInit => ReplyIsPath
  BY DEF HistInit, Init, Entry, ReplyIsPath
<1> QED
  BY <1>1, ReplyOfPath, PortProperties, InitPort, NextPort, NextReply, PTL DEF HistSpec

(* The query it hands out is the input's, absent and empty told apart.     *)
THEOREM ReplyQueriesAreExact == HistSpec => []ReplyQueryIsExact
<1>1. HistInit => ReplyTypes
  BY DEF HistInit, Init, Entry, ReplyTypes
<1> QED
  BY <1>1, ReplyOfQuery, PortProperties, InitPort, NextPort, NextReplyTypes, PTL
  DEF HistSpec
-----------------------------------------------------------------------------
(***************************************************************************)
(* The steps of the port that the reference stands for are those of a      *)
(* function of its state, Step, which has proved of the port's own steps.  *)
(***************************************************************************)
LEMMA SameNow ==
  /\ Port!Now = Proved!Now /\ Port!Now' = Proved!Now'
  /\ Port!Now.pc = port_pc
BY DEF Port!Now, Proved!Now

LEMMA ProvedStep ==
  /\ Proved!Init => Proved!Now = Proved!Begin(in, merge_slashes)
  /\ Proved!PathInv /\ Proved!Next => Proved!Now' = Proved!Step(Proved!Now)
  /\ Proved!Next => port_pc \notin {"ok", "err"}
BY ProvedAssumptions, Proved!TargetsAssumption, Proved!NoneAssumption,
   Proved!UsizeAssumption, Proved!InitBegins, Proved!NextStep, Proved!NextRuns
   DEF Proved!PathInv

(* An extension that is not there has no length. *)
ExtenNull ==
  (pc = "reply" \/ (pc = "returned" /\ rc = 0)) =>
    (r.exten.data = None => r.exten.len = 0)

LEMMA HowItReplies ==
  ASSUME Next, pc' = "reply"
  PROVE  KeepPath \/ Done
<1>1. CASE EmptyInput \/ OutOfMemory \/ ScanError \/ AboveRoot \/ BadEscape
  BY <1>1 DEF EmptyInput, OutOfMemory, ScanError, AboveRoot, BadEscape, Refuse, Return
<1>2. CASE OutTooSmall \/ Reply
  BY <1>2 DEF OutTooSmall, Reply, Return
<1>3. CASE CopyInput \/ EnterComplex
  BY <1>3 DEF CopyInput, EnterComplex
<1>4. CASE sw_start \/ sw_after_slash_in_uri \/ sw_check_uri \/ sw_uri
  BY <1>4 DEF sw_start, sw_after_slash_in_uri, sw_check_uri, sw_uri, Scans, Go
<1>5. CASE sw_usual \/ sw_slash \/ sw_dot \/ sw_dot_dot
  BY <1>5
  DEF sw_usual, sw_slash, sw_dot, sw_dot_dot, Reads, ReadOn, Leave, GotoArgs, GotoDone
<1>6. CASE BeginQuoted \/ CopyByte \/ sw_quoted \/ sw_quoted_second
  BY <1>6 DEF BeginQuoted, CopyByte, sw_quoted, sw_quoted_second, Reads, ReadOn
<1>7. CASE ScanBack \/ ParentFound \/ LoopEnds
  BY <1>7 DEF ScanBack, ParentFound, LoopEnds, Leave, GotoArgs, GotoDone
<1>8. CASE SeekHash
  BY <1>8 DEF SeekHash
<1> QED
  BY <1>1, <1>2, <1>3, <1>4, <1>5, <1>6, <1>7, <1>8 DEF Next

LEMMA NextExtenNull == PortInv /\ ExtenNull /\ [HistNext]_hist_vars => ExtenNull'
<1> SUFFICES ASSUME PortInv, ExtenNull, [HistNext]_hist_vars PROVE ExtenNull'
  OBVIOUS
<1>1. CASE HistNext /\ pc' = "reply"
  <2>1. r.exten = Empty /\ (r.uri_ext # None => r.uri_ext \in Int) /\ r \in RequestType
    BY <1>1, HowItReplies
    DEF HistNext, KeepPath, Done, PortInv, HistoryInv, InStageOne, InQuery, Finishing,
        Ended, Left, WrapperInv, Types, RequestType, MaybeOffset
  <2>2. CASE KeepPath
    <3>1. r'.exten = r.exten
      BY <2>1, <2>2 DEF KeepPath, With, RequestType
    <3> QED BY <2>1, <3>1 DEF ExtenNull, Empty
  <2>3. CASE Done
    <3>1. r'.exten = IF r.uri_ext # None
                     THEN [len |-> u - r.uri_ext, data |-> r.uri_ext] ELSE r.exten
      BY <2>1, <2>3 DEF Done, RequestType
    <3> QED BY <2>1, <3>1 DEF ExtenNull, Empty
  <2> QED BY <1>1, <2>2, <2>3, HowItReplies DEF HistNext
<1>2. CASE HistNext /\ pc' = "returned" /\ rc' = 0
  <2>1. pc = "reply" /\ r' = r
    BY <1>2, HowItReturns DEF HistNext, OutTooSmall, Reply, Return
  <2> QED BY <2>1 DEF ExtenNull
<1>3. CASE UNCHANGED hist_vars
  BY <1>3 DEF hist_vars, vars, ExtenNull
<1> QED BY <1>1, <1>2, <1>3 DEF ExtenNull

HistInv ==
  /\ PortInv /\ Proved!PathInv /\ Proved!QueryInv
  /\ ReplyIsPath /\ ReplyTypes /\ ExtenNull

LEMMA InitHist ==
  HistInit => HistInv /\ Port!Now = Proved!Begin(in, merge_slashes)
<1>1. HistInit => ReplyIsPath /\ ReplyTypes /\ ExtenNull
  BY DEF HistInit, Init, Entry, ReplyIsPath, ReplyTypes, ExtenNull
<1> QED
  BY <1>1, InitPort, SameInit, SameNow, PortInvariants, ProvedStep DEF HistInv

LEMMA NextHist ==
  HistInv /\ [HistNext]_hist_vars =>
    /\ HistInv'
    /\ \/ Port!Now' = Port!Now
       \/ /\ Port!Now.pc \notin {"ok", "err"}
          /\ Port!Now' = Proved!Step(Port!Now)
<1> SUFFICES ASSUME HistInv, [HistNext]_hist_vars
             PROVE  /\ HistInv'
                    /\ \/ Port!Now' = Port!Now
                       \/ /\ Port!Now.pc \notin {"ok", "err"}
                          /\ Port!Now' = Proved!Step(Port!Now)
  OBVIOUS
<1>1. PortInv' /\ [Proved!Next]_(Proved!vars)
  BY NextPort, SameInit, SameNext DEF HistInv
<1>2. HistInv'
  BY <1>1, PortInvariants, NextReply, NextReplyTypes, NextExtenNull DEF HistInv
<1>3. CASE Proved!Next
  BY <1>2, <1>3, SameNow, ProvedStep DEF HistInv
<1>4. CASE UNCHANGED Proved!vars
  <2>1. Proved!Now' = Proved!Now
    BY <1>4 DEF Proved!vars, Proved!input, Proved!flags, Proved!marks, Proved!fields,
                Proved!locals, Proved!Now
  <2> QED BY <1>2, <2>1, SameNow
<1> QED BY <1>1, <1>3, <1>4
(* What the reference has returned is what the port it stands for returns. *)
LEMMA HistReturns ==
  ASSUME HistInv, pc = "returned"
  PROVE  /\ rc \in {0, -1}
         /\ port_pc = IF rc = 0 THEN "ok" ELSE "err"
         /\ rc = 0 =>
              /\ reply.out = Port!Path
              /\ reply.args_offset \in Nat /\ reply.args_len \in Nat
              /\ reply.args_offset + reply.args_len <= in_len
              /\ port_args_start = r.args_start
              /\ Offset(r.exten) = IF r.exten.data = None THEN [len |-> 0, data |-> 0]
                                   ELSE r.exten
<1>1. rc \in {0, -1} /\ (rc = 0 => reply.out = Port!Path)
  BY DEF HistInv, ReplyIsPath
<1>2. port_pc = IF rc = 0 THEN "ok" ELSE "err"
  BY DEF port_pc
<1> SUFFICES ASSUME rc = 0
             PROVE  /\ reply.args_offset \in Nat /\ reply.args_len \in Nat
                    /\ reply.args_offset + reply.args_len <= in_len
                    /\ port_args_start = r.args_start
                    /\ Offset(r.exten) = IF r.exten.data = None
                                         THEN [len |-> 0, data |-> 0] ELSE r.exten
  BY <1>1, <1>2
<1>3. ReplyQueryIsExact
  BY ReplyOfQuery, PortInvariants, SameResults DEF HistInv
<1>4. port_args_start = r.args_start
  BY DEF port_args_start, InLoop
<1>5. r.exten \in Str
  BY DEF HistInv, PortInv, WrapperInv, Types, RequestType
<1>6. Offset(r.exten) = IF r.exten.data = None
                        THEN [len |-> 0, data |-> 0] ELSE r.exten
  BY <1>5 DEF HistInv, ExtenNull, Offset, Str
<1>7. CASE reply.args_present
  <2>1. PICK q \in Port!QueryMarks : \E e \in Port!QueryEnds(q) :
          reply.args_offset = q + 1 /\ reply.args_len = e - q - 1
    BY <1>3, <1>7 DEF ReplyQueryIsExact
  <2>2. PICK e \in Port!QueryEnds(q) :
          reply.args_offset = q + 1 /\ reply.args_len = e - q - 1
    BY <2>1
  <2>3. in_len \in Nat /\ Port!uri_end = in_len
    BY ReadByte DEF HistInv, PortInv, WrapperInv, Types, Port!uri_end, in_len
  <2>4. q \in 0 .. in_len - 1 /\ e \in q + 1 .. in_len
    BY <2>3 DEF Port!QueryMarks, Port!QueryEnds
  <2> QED BY <1>4, <1>6, <2>2, <2>3, <2>4
<1>8. CASE ~reply.args_present
  <2>1. in_len \in Nat
    BY ReadByte DEF HistInv, PortInv, WrapperInv, Types
  <2> QED BY <1>4, <1>6, <1>8, <2>1 DEF HistInv, ReplyTypes
<1> QED BY <1>7, <1>8
=============================================================================

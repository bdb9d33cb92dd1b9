--------------------------- MODULE NginxUri_proofs ---------------------------
(***************************************************************************)
(* Theorem about the pointers of the C reference, for every input, every   *)
(* capacity of the caller and every failure of malloc.                     *)
(***************************************************************************)
EXTENDS NginxUri, TLAPS

(* Reads of the copied input, and of the line feed after it, yield bytes.  *)
InputOK == in \in Seq(Byte)

LEMMA ReadByte ==
  ASSUME InputOK
  PROVE  in_len \in Nat /\ \A i \in Nat : inbuf(i) \in Byte
<1>1. in_len \in Nat
  BY DEF InputOK, in_len
<1>2. \A i \in Nat : i < in_len => in[i + 1] \in Byte
  BY DEF InputOK, in_len
<1>3. LF \in Byte
  BY DEF LF, Byte
<1> QED BY <1>1, <1>2, <1>3 DEF inbuf

(* No step changes what is read. *)
LEMMA CallStable ==
  ASSUME UNCHANGED call
  PROVE  InputOK' = InputOK /\ in_len' = in_len /\ out_cap' = out_cap
BY DEF call, InputOK, in_len

(***************************************************************************)
(* The inductive invariant.  Stage 2 has written at least as much as its   *)
(* state implies, "/", "/." or "/..", so a step back never leaves nbuf by  *)
(* more than one; and fewer bytes than it has read, by one more for each   *)
(* character of an escape.  All the bytes below u are written.             *)
(***************************************************************************)
MaybeOffset == Nat \cup {None}
Str         == [len : Int, data : Int \cup {None, "inbuf", "nbuf"}]
RequestType ==
  [ uri : Str, args : Str, exten : Str, uri_ext : MaybeOffset, args_start : MaybeOffset,
    complex_uri : BOOLEAN, quoted_uri : BOOLEAN, plus_in_uri : BOOLEAN ]

Types ==
  /\ InputOK /\ out_cap \in Nat /\ r \in RequestType
  /\ p \in Nat /\ u \in Int /\ ch \in Byte /\ decoded \in 0 .. 15
  /\ quoted_state \in Unquoted
  /\ nbuf \in [0 .. in_len -> Byte \cup {None}]

Quoting == {"sw_quoted", "sw_quoted_second"}
Resume  == IF state \in Quoting THEN quoted_state ELSE state
Least   == IF Resume = "sw_dot_dot" THEN 3
           ELSE IF Resume = "sw_dot" THEN 2 ELSE IF Resume = "sw_slash" THEN 1 ELSE 0
Lag     == IF state = "sw_quoted" THEN 1 ELSE IF state = "sw_quoted_second" THEN 2 ELSE 0
Written(n) == \A i \in 0 .. n - 1 : nbuf[i] \in Byte

InStageTwo ==
  /\ state \in Unquoted \cup Quoting
  /\ p \in 1 .. in_len + 1 /\ u >= Least /\ u + Lag < p /\ Written(u)
ScanningBack == u >= -1 /\ u + 1 < p /\ p <= in_len + 1 /\ Written(u + 1)
PathWritten  == u \in 0 .. in_len /\ Written(u)

WrapperInv ==
  /\ Types
  /\ pc = "call" => p = 0 /\ r.args_start = None
  /\ pc = "uri" => /\ p \in 0 .. in_len
                   /\ r.args_start # None => r.args_start \in 1 .. in_len
  /\ pc = "complex" => InStageTwo
  /\ pc = "dots" => ScanningBack
  /\ pc = "args" => PathWritten /\ r.args_start \in Nat
  /\ pc = "done" => PathWritten
  /\ pc = "reply" => /\ r.uri.len \in 0 .. in_len
                     /\ r.uri.data # "inbuf" => Written(r.uri.len)
  /\ PointersStayInside

LEMMA InitWrapper == Init => WrapperInv
<1> SUFFICES ASSUME Init PROVE WrapperInv
  OBVIOUS
<1>1. InputOK
  BY InputsAssumption DEF Init, InputOK
<1>2. out_cap \in Nat
  BY CapsAssumption DEF Init, in_len
<1>3. r \in RequestType /\ r.args_start = None
  BY DEF Init, Entry, Request0, RequestType, Str, MaybeOffset
<1>4. Types
  BY <1>1, <1>2, <1>3 DEF Init, Entry, Types, Byte, Unquoted
<1> QED
  BY <1>3, <1>4 DEF Init, Entry, WrapperInv, PointersStayInside

USE NullAssumption

(* An assignment to a flag or an offset of the request. *)
LEMMA Assign ==
  ASSUME r \in RequestType
  PROVE  /\ \A f \in {"complex_uri", "quoted_uri", "plus_in_uri"} :
              /\ With(f, TRUE) \in RequestType
              /\ With(f, TRUE).args_start = r.args_start
         /\ \A o \in MaybeOffset :
              /\ With("uri_ext", o) \in RequestType
              /\ With("uri_ext", o).args_start = r.args_start
              /\ With("args_start", o) \in RequestType
              /\ With("args_start", o).args_start = o
BY DEF With, RequestType

(* The same interval, written two ways. *)
LEMMA UpTo ==
  ASSUME NEW a \in Int
  PROVE  0 .. (a + 1) - 1 = 0 .. a
OBVIOUS

(* A byte at u extends what is written by one; a step back shortens it. *)
LEMMA WriteByte ==
  ASSUME Types, u \in 0 .. in_len, Written(u), NEW b \in Byte, Write(b)
  PROVE  /\ nbuf' \in [0 .. in_len -> Byte \cup {None}]
         /\ u' = u + 1 /\ u' \in Int /\ Written(u)'
BY DEF Types, Write, Written

LEMMA StepBack ==
  ASSUME Types, NEW n \in Int, NEW m \in Int, Written(m), u - n <= m, Back(n)
  PROVE  /\ nbuf' = nbuf /\ u' = u - n /\ u' \in Int /\ Written(u)'
BY DEF Types, Back, Written

-----------------------------------------------------------------------------
LEMMA CallOfWrapper ==
  ASSUME WrapperInv, EmptyInput \/ OutOfMemory \/ CopyInput
  PROVE  WrapperInv'
<1> USE DEF WrapperInv, Types, Written, call, local2
<1>0. UNCHANGED call /\ InputOK /\ in_len \in Nat
  BY ReadByte DEF EmptyInput, OutOfMemory, CopyInput, Refuse, Return
<1>1. CASE EmptyInput \/ OutOfMemory
  BY <1>0, <1>1, CallStable
  DEF EmptyInput, OutOfMemory, Refuse, Return, PointersStayInside
<1>2. CASE CopyInput
  BY <1>0, <1>2, CallStable DEF CopyInput, PointersStayInside
<1> QED BY <1>1, <1>2

LEMMA StageOneStep ==
  ASSUME WrapperInv, sw_start \/ sw_after_slash_in_uri \/ sw_check_uri \/ sw_uri
  PROVE  WrapperInv'
<1>1. /\ pc = "uri" /\ pc' = "uri" /\ p # in_len /\ p' = p + 1
      /\ UNCHANGED << local2, call, rc, reply >>
  BY DEF sw_start, sw_after_slash_in_uri, sw_check_uri, sw_uri, Scans, Go
<1>2. in_len \in Nat /\ InputOK /\ p \in 0 .. in_len /\ r \in RequestType
  BY <1>1, ReadByte DEF WrapperInv, Types
<1>3. \/ r' = r \/ r' = With("args_start", p + 1) \/ r' = With("uri_ext", None)
      \/ r' = With("uri_ext", p + 1)
      \/ \E f \in {"complex_uri", "quoted_uri", "plus_in_uri"} : r' = With(f, TRUE)
  BY DEF sw_start, sw_after_slash_in_uri, sw_check_uri, sw_uri, Go
<1>4. r' \in RequestType /\ r'.args_start \in {r.args_start, p + 1}
  <2>1. p + 1 \in MaybeOffset /\ None \in MaybeOffset
    BY <1>2 DEF MaybeOffset
  <2> QED BY <1>2, <1>3, <2>1, Assign
<1> QED
  BY <1>1, <1>2, <1>4, CallStable
  DEF WrapperInv, Types, Written, PointersStayInside, local2

LEMMA BetweenStages ==
  ASSUME WrapperInv, ScanError \/ KeepPath \/ EnterComplex
  PROVE  WrapperInv'
<1>0. /\ UNCHANGED call /\ InputOK /\ in_len \in Nat /\ pc = "uri" /\ r \in RequestType
      /\ inbuf(0) \in Byte /\ p \in 0 .. in_len
  BY ReadByte
  DEF WrapperInv, Types, ScanError, KeepPath, EnterComplex, Refuse, Return
<1>1. CASE ScanError
  BY <1>0, <1>1, CallStable
  DEF ScanError, Refuse, Return, WrapperInv, Types, Written, PointersStayInside, local2
<1>2. RawLength \in 0 .. in_len
  BY <1>0 DEF RawLength, WrapperInv
<1>3. CASE KeepPath
  <2>1. /\ r' \in RequestType /\ r'.uri.len = RawLength /\ r'.uri.data = "inbuf"
    BY <1>0, <1>2, <1>3 DEF KeepPath, With, RequestType, Str
  <2> QED
    BY <1>0, <1>2, <1>3, <2>1, CallStable
    DEF KeepPath, WrapperInv, Types, Written, PointersStayInside, local2
<1>4. CASE EnterComplex
  <2>1. r' \in RequestType
    <3>1. /\ [len |-> RawLength, data |-> "nbuf"] \in Str /\ None \in MaybeOffset
      BY <1>0, <1>2 DEF Str, MaybeOffset
    <3> QED BY <1>0, <1>4, <3>1 DEF EnterComplex, RequestType
  <2>2. InStageTwo'
    BY <1>0, <1>4, CallStable
    DEF EnterComplex, InStageTwo, Unquoted, Quoting, Least, Resume, Lag, Written
  <2> QED
    BY <1>0, <1>4, <2>1, <2>2, CallStable
    DEF EnterComplex, WrapperInv, Types, PointersStayInside, Unquoted, InStageTwo
<1> QED BY <1>1, <1>3, <1>4

-----------------------------------------------------------------------------
(* A step of stage 2 that goes on with the next byte of the input.         *)
LEMMA GoesOn ==
  ASSUME Types, UNCHANGED << call, rc, reply >>, pc' = "complex",
         r' \in RequestType, p \in 1 .. in_len, p' = p + 1, ch' = inbuf(p),
         decoded' \in 0 .. 15, quoted_state' \in Unquoted, state' \in Unquoted \cup Quoting,
         nbuf' \in [0 .. in_len -> Byte \cup {None}], u' \in Int, Written(u)',
         u' >= Least', u' + Lag' <= p
  PROVE  WrapperInv'
<1>1. InputOK /\ in_len \in Nat /\ inbuf(p) \in Byte
  BY ReadByte DEF Types
<1>2. InputOK' /\ in_len' = in_len /\ out_cap' = out_cap
  BY <1>1, CallStable
<1>3. Types'
  BY <1>1, <1>2 DEF Types
<1>4. Least' \in 0 .. 3 /\ Lag' \in {0, 1, 2}
  BY DEF Least, Lag
<1>5. p \in Nat /\ \A a \in Int, b \in 0 .. 3, l \in {0, 1, 2} :
        a >= b /\ a + l <= p => a >= 0 /\ a < p + 1 /\ a + l < p + 1
  BY <1>1
<1>6. u' >= 0 /\ u' < p + 1 /\ u' + Lag' < p + 1
  BY <1>4, <1>5
<1>7. InStageTwo'
  <2>1. p' \in 1 .. in_len' + 1
    BY <1>1, <1>2
  <2> QED BY <1>6, <2>1 DEF InStageTwo
<1> QED
  BY <1>2, <1>3, <1>6, <1>7 DEF WrapperInv, PointersStayInside, InStageTwo

(* A step that leaves the loop of stage 2, and the wrapper's refusals.     *)
LEMMA Leaves ==
  ASSUME Types, UNCHANGED << call, rc, reply >>, r' \in RequestType, p' = p,
         UNCHANGED << ch, decoded, quoted_state, nbuf >>, u' \in Int,
         \/ pc' = "dots" /\ ScanningBack'
         \/ pc' = "args" /\ PathWritten' /\ r'.args_start \in Nat
         \/ pc' = "done" /\ PathWritten'
  PROVE  WrapperInv'
<1>1. InputOK' /\ in_len' = in_len /\ out_cap' = out_cap
  BY CallStable DEF Types
<1>2. Types'
  BY <1>1 DEF Types
<1>3. pc' = "dots" => u' >= -1 /\ \A i \in 0 .. u' : nbuf'[i] \in Byte
  BY UpTo DEF ScanningBack, Written
<1> QED
  BY <1>1, <1>2, <1>3 DEF WrapperInv, PointersStayInside

LEMMA Refuses ==
  ASSUME WrapperInv, Refuse
  PROVE  WrapperInv'
<1>1. InputOK' /\ in_len' = in_len /\ out_cap' = out_cap
  BY CallStable DEF WrapperInv, Types, Refuse, Return
<1> QED
  BY <1>1 DEF Refuse, Return, WrapperInv, Types, PointersStayInside, local2

(* A byte is written, or the cursor steps back, and the loop goes on in a  *)
(* state that what is left of the buffer allows.                           *)
LEMMA LoopFacts ==
  ASSUME WrapperInv, pc = "complex"
  PROVE  /\ Types /\ InStageTwo /\ in_len \in Nat /\ u \in 0 .. in_len
         /\ p <= in_len => u \in 0 .. in_len - 1 /\ u + 1 <= p /\ p \in 1 .. in_len
<1>1. Types /\ InStageTwo /\ in_len \in Nat
  BY ReadByte DEF WrapperInv, Types
<1> QED
  BY <1>1 DEF Types, InStageTwo, Least, Lag

LEMMA WritesOn ==
  ASSUME WrapperInv, pc = "complex", p <= in_len, NEW b \in Byte, Write(b),
         NEW next \in Unquoted, NEW request \in RequestType, ReadOn(next, request),
         Least' <= u + 1
  PROVE  WrapperInv'
<1>1. Types /\ Written(u) /\ u \in 0 .. in_len /\ p \in 1 .. in_len /\ u + 1 <= p
  BY LoopFacts DEF InStageTwo
<1>2. /\ nbuf' \in [0 .. in_len -> Byte \cup {None}]
      /\ u' = u + 1 /\ u' \in Int /\ Written(u)'
  BY <1>1, WriteByte
<1>3. state' = next /\ Lag' = 0
  BY DEF ReadOn, Lag, Unquoted
<1>4. u' >= Least' /\ u' + Lag' <= p
  BY <1>1, <1>2, <1>3
<1> QED
  BY <1>1, <1>2, <1>3, <1>4, GoesOn DEF ReadOn, Types

LEMMA StepsBackOn ==
  ASSUME WrapperInv, pc = "complex", p <= in_len, NEW n \in 0 .. 1, Back(n),
         NEW next \in Unquoted, NEW request \in RequestType, ReadOn(next, request),
         Least' <= u - n
  PROVE  WrapperInv'
<1>1. Types /\ Written(u) /\ u \in 0 .. in_len /\ p \in 1 .. in_len /\ u + 1 <= p
  BY LoopFacts DEF InStageTwo
<1>2. nbuf' = nbuf /\ u' = u - n /\ u' \in Int /\ Written(u)'
  BY <1>1, StepBack
<1>3. state' = next /\ Lag' = 0
  BY DEF ReadOn, Lag, Unquoted
<1>4. u' >= Least' /\ u' + Lag' <= p
  BY <1>1, <1>2, <1>3
<1> QED
  BY <1>1, <1>2, <1>3, <1>4, GoesOn DEF ReadOn, Types

(* The path ends here, after a step back that the state allows.            *)
LEMMA PathCloses ==
  ASSUME WrapperInv, pc = "complex", NEW n \in 0 .. 1, n <= Least, Back(n),
         GotoDone \/ (p <= in_len /\ GotoArgs)
  PROVE  WrapperInv'
<1>1. Types /\ Written(u) /\ u \in 0 .. in_len /\ u >= Least /\ in_len \in Nat
  BY LoopFacts DEF InStageTwo
<1>2. nbuf' = nbuf /\ u' = u - n /\ u' \in Int /\ Written(u)'
  BY <1>1, StepBack
<1>3. u' \in 0 .. in_len' /\ UNCHANGED call
  <2>1. UNCHANGED call BY DEF GotoDone, GotoArgs, Leave
  <2>2. u - n \in 0 .. in_len BY <1>1 DEF Least
  <2> QED BY <1>2, <2>1, <2>2, CallStable
<1>4. PathWritten'
  BY <1>2, <1>3 DEF PathWritten
<1>5. /\ r \in RequestType /\ p \in Nat /\ p \in MaybeOffset
      /\ With("args_start", p) \in RequestType /\ With("args_start", p).args_start = p
  BY <1>1, Assign DEF Types, MaybeOffset
<1>6. CASE GotoDone
  BY <1>1, <1>2, <1>4, <1>5, <1>6, Leaves DEF GotoDone, Leave
<1>7. CASE GotoArgs
  BY <1>1, <1>2, <1>4, <1>5, <1>7, Leaves DEF GotoArgs, Leave
<1> QED BY <1>6, <1>7

(* The backwards scan starts at most one byte below nbuf.                  *)
LEMMA ScanStarts ==
  ASSUME WrapperInv, pc = "complex", state = "sw_dot_dot", Back(4), Leave("dots", r)
  PROVE  WrapperInv'
<1>1. /\ Types /\ Written(u) /\ u >= 3 /\ u + 0 < p /\ p <= in_len + 1
      /\ in_len \in Nat /\ u \in Int /\ p \in Nat
  BY LoopFacts DEF InStageTwo, Least, Lag, Resume, Quoting, Types
<1>2. nbuf' = nbuf /\ u' = u - 4 /\ p' = p /\ UNCHANGED call
  BY DEF Back, Leave
<1>3. /\ u - 4 >= -1 /\ (u - 4) + 1 < p /\ (u - 4) \in Int
      /\ \A i \in 0 .. ((u - 4) + 1) - 1 : nbuf[i] \in Byte
  BY <1>1 DEF Written
<1>4. ScanningBack'
  BY <1>1, <1>2, <1>3, CallStable DEF ScanningBack, Written
<1> QED
  BY <1>1, <1>2, <1>3, <1>4, Leaves DEF Leave, Types

(* What an escape stands for is a byte.                                    *)
LEMMA DigitType ==
  ASSUME Types
  PROVE  /\ Digit(ch) \in Int /\ Quoted \in Byte
         /\ Decimal(ch) \/ Letter(ch) => Digit(ch) \in 0 .. 15
<1>1. ch \in Byte /\ decoded \in 0 .. 15
  BY DEF Types
<1>2. OrCaseBit(ch) \in Int
  BY <1>1 DEF OrCaseBit, Byte
<1>3. Digit(ch) \in Int /\ (Decimal(ch) \/ Letter(ch) => Digit(ch) \in 0 .. 15)
  BY <1>1, <1>2 DEF Digit, Decimal, Letter, Byte
<1>4. (decoded * 16 + Digit(ch)) % 256 \in 0 .. 255
  BY <1>1, <1>3
<1> QED BY <1>3, <1>4 DEF Quoted, Byte

LEMMA UnquotedStep ==
  ASSUME WrapperInv, sw_usual \/ sw_slash \/ sw_dot \/ sw_dot_dot
  PROVE  WrapperInv'
<1> USE DEF Reads, Unquoted, Quoting, Least, Resume
<1>0. /\ pc = "complex" /\ p <= in_len /\ Types /\ ch \in Byte /\ r \in RequestType
      /\ u \in Nat /\ u >= Least
  BY LoopFacts DEF sw_usual, sw_slash, sw_dot, sw_dot_dot, Types, InStageTwo
<1>1. /\ With("uri_ext", None) \in RequestType /\ With("uri_ext", u + 1) \in RequestType
  <2>1. None \in MaybeOffset /\ u + 1 \in MaybeOffset
    BY <1>0 DEF MaybeOffset
  <2> QED BY <1>0, <2>1, Assign
<1>2. CASE sw_usual
  BY <1>0, <1>1, <1>2, WritesOn, PathCloses DEF sw_usual, ReadOn
<1>3. CASE sw_slash
  BY <1>0, <1>3, WritesOn, StepsBackOn, PathCloses DEF sw_slash, ReadOn
<1>4. CASE sw_dot
  BY <1>0, <1>4, WritesOn, StepsBackOn, PathCloses DEF sw_dot, ReadOn
<1>5. CASE sw_dot_dot
  BY <1>0, <1>5, ScanStarts DEF sw_dot_dot
<1> QED BY <1>2, <1>3, <1>4, <1>5

LEMMA CopyStep ==
  ASSUME WrapperInv, CopyByte
  PROVE  WrapperInv'
<1>0. pc = "complex" /\ p <= in_len /\ Types /\ ch \in Byte /\ u \in Nat /\ Write(ch)
  BY LoopFacts DEF CopyByte, Reads, Types
<1>1. PICK q \in {r, With("plus_in_uri", TRUE)} : ReadOn("sw_usual", q)
  BY DEF CopyByte
<1>2. q \in RequestType
  BY <1>0, Assign DEF Types
<1>3. Least' <= u + 1
  BY <1>0, <1>1 DEF ReadOn, Least, Resume, Quoting
<1> QED
  BY <1>0, <1>1, <1>2, <1>3, WritesOn DEF Unquoted

LEMMA QuotedStep ==
  ASSUME WrapperInv, BeginQuoted \/ sw_quoted \/ sw_quoted_second
  PROVE  WrapperInv'
<1>0. /\ pc = "complex" /\ p <= in_len /\ Types /\ InStageTwo /\ ch \in Byte
      /\ r \in RequestType /\ u \in Nat /\ u + 1 <= p /\ p \in 1 .. in_len
      /\ u + Lag < p /\ Written(u) /\ u >= Least
  <2>1. pc = "complex" /\ p <= in_len
    BY DEF BeginQuoted, sw_quoted, sw_quoted_second, Reads
  <2> QED BY <2>1, LoopFacts DEF Types, InStageTwo
<1>1. CASE BeginQuoted
  <2>1. Least' = Least /\ Lag' = 1
    BY <1>1 DEF BeginQuoted, Reads, Least, Lag, Resume, Quoting, Unquoted
  <2>2. /\ state \in Unquoted /\ state' \in Quoting /\ u' = u /\ nbuf' = nbuf
        /\ quoted_state' \in Unquoted
    BY <1>1 DEF BeginQuoted, Reads, Quoting
  <2>3. Written(u)' /\ u' >= Least' /\ u' + Lag' <= p
    BY <1>0, <2>1, <2>2 DEF Written
  <2> QED
    BY <1>0, <1>1, <2>2, <2>3, GoesOn DEF BeginQuoted, Types
<1>2. CASE sw_quoted
  <2>1. Least' = Least /\ Lag' = 2 /\ Lag = 1
    BY <1>2 DEF sw_quoted, Reads, Least, Lag, Resume, Quoting
  <2>2. u' = u /\ nbuf' = nbuf /\ quoted_state' = quoted_state /\ state' \in Quoting
    BY <1>2 DEF sw_quoted, Quoting
  <2>3. Written(u)' /\ u' >= Least' /\ u' + Lag' <= p
    BY <1>0, <2>1, <2>2 DEF Written
  <2>4. r' \in RequestType /\ decoded' \in 0 .. 15
    BY <1>0, <1>2, Assign, DigitType DEF sw_quoted
  <2> QED
    BY <1>0, <1>2, <2>2, <2>3, <2>4, GoesOn DEF sw_quoted, Types
<1>3. CASE sw_quoted_second /\ Quoted \in Verbatim
  <2>1. Write(Quoted) /\ ReadOn("sw_usual", r) /\ Quoted \in Byte
    BY <1>0, <1>3, DigitType DEF sw_quoted_second
  <2>2. Least' <= u + 1
    BY <1>0, <2>1 DEF ReadOn, Least, Resume, Quoting
  <2> QED
    BY <1>0, <2>1, <2>2, WritesOn DEF Unquoted
<1>4. CASE sw_quoted_second /\ Quoted \notin Verbatim
  <2>1. /\ state = "sw_quoted_second" /\ state' = quoted_state /\ ch' = Quoted
        /\ UNCHANGED << pc, p, decoded, quoted_state, u, nbuf, call, rc, reply >>
        /\ r' \in {r, With("plus_in_uri", TRUE)}
    BY <1>4 DEF sw_quoted_second, Reads
  <2>2. /\ Quoted \in Byte /\ r' \in RequestType /\ quoted_state \in Unquoted
    BY <1>0, <2>1, DigitType, Assign DEF Types
  <2>3. InputOK' /\ in_len' = in_len /\ out_cap' = out_cap
    BY <1>0, <2>1, CallStable DEF Types
  <2>4. Least' = Least /\ Lag' = 0 /\ Lag = 2
    BY <2>1, <2>2 DEF Least, Lag, Resume, Quoting, Unquoted
  <2>5. Types'
    BY <1>0, <2>1, <2>2, <2>3 DEF Types
  <2>6. InStageTwo'
    BY <1>0, <2>1, <2>2, <2>3, <2>4 DEF InStageTwo, Written
  <2> QED
    BY <1>0, <2>1, <2>3, <2>5, <2>6 DEF WrapperInv, PointersStayInside
<1> QED BY <1>1, <1>2, <1>3, <1>4

LEMMA EndStep ==
  ASSUME WrapperInv, LoopEnds
  PROVE  WrapperInv'
<1>0. pc = "complex" BY DEF LoopEnds
<1>1. CASE state = "sw_dot_dot"
  BY <1>0, <1>1, ScanStarts DEF LoopEnds
<1>2. CASE state = "sw_dot" /\ Back(1) /\ GotoDone
  BY <1>0, <1>2, PathCloses DEF Least, Resume, Quoting
<1>3. CASE state \in {"sw_usual", "sw_slash"} /\ Back(0) /\ GotoDone
  BY <1>0, <1>3, PathCloses DEF Least, Resume, Quoting
<1> QED BY <1>1, <1>2, <1>3 DEF LoopEnds

LEMMA ScanStep ==
  ASSUME WrapperInv, ScanBack \/ ParentFound
  PROVE  WrapperInv'
<1>0. /\ pc = "dots" /\ Types /\ ScanningBack /\ in_len \in Nat /\ u \in Nat
      /\ r \in RequestType /\ p \in 1 .. in_len + 1 /\ u + 1 < p /\ Written(u + 1)
      /\ UNCHANGED call
  BY ReadByte
  DEF WrapperInv, Types, ScanBack, ParentFound, ScanningBack, Leave, GotoArgs, GotoDone
<1>1. CASE ScanBack
  <2>1. u' = u - 1 /\ nbuf' = nbuf /\ p' = p
    BY <1>1 DEF ScanBack, Back, Leave
  <2>2. /\ u - 1 >= -1 /\ (u - 1) + 1 < p /\ u - 1 \in Int
        /\ \A i \in 0 .. ((u - 1) + 1) - 1 : nbuf[i] \in Byte
    BY <1>0 DEF Written
  <2>3. ScanningBack'
    BY <1>0, <2>1, <2>2, CallStable DEF ScanningBack, Written
  <2> QED
    BY <1>0, <1>1, <2>1, <2>2, <2>3, Leaves DEF ScanBack, Leave
<1>2. CASE ParentFound
  <2>1. u' = u + 1 /\ nbuf' = nbuf /\ u + 1 \in 0 .. in_len
    BY <1>0, <1>2 DEF ParentFound, Back
  <2>2. Written(u)' /\ in_len' = in_len
    BY <1>0, <2>1, CallStable DEF Written
  <2>3. PathWritten'
    BY <2>1, <2>2 DEF PathWritten
  <2>4. CASE p <= in_len /\ GotoArgs
    <3>1. /\ p \in Nat /\ With("args_start", p) \in RequestType
          /\ With("args_start", p).args_start = p
      BY <1>0, Assign DEF MaybeOffset
    <3> QED BY <1>0, <2>1, <2>3, <2>4, <3>1, Leaves DEF GotoArgs, Leave
  <2>5. CASE GotoDone
    BY <1>0, <2>1, <2>3, <2>5, Leaves DEF GotoDone, Leave
  <2>6. CASE ~GotoDone /\ ~(p <= in_len /\ GotoArgs)
    <3>1. /\ p <= in_len /\ pc' = "complex" /\ state' = "sw_slash"
          /\ ch' = inbuf(p) /\ p' = p + 1
          /\ UNCHANGED << r, decoded, quoted_state, call, rc, reply >>
      BY <1>2, <2>6 DEF ParentFound
    <3>2. Least' = 1 /\ Lag' = 0
      BY <3>1 DEF Least, Resume, Quoting, Lag
    <3>3. u' >= Least' /\ u' + Lag' <= p
      BY <1>0, <2>1, <3>2
    <3> QED
      BY <1>0, <2>1, <2>2, <3>1, <3>3, GoesOn DEF Types, Unquoted
  <2> QED BY <2>4, <2>5, <2>6
<1> QED BY <1>1, <1>2

LEMMA QueryStep ==
  ASSUME WrapperInv, SeekHash \/ Done
  PROVE  WrapperInv'
<1>0. /\ pc \in {"args", "done"} /\ Types /\ PathWritten /\ r \in RequestType
      /\ in_len \in Nat /\ u \in 0 .. in_len /\ p \in Nat
      /\ UNCHANGED << call, ch, decoded, quoted_state, u, nbuf, rc, reply >>
      /\ pc = "args" => r.args_start \in Nat
  BY ReadByte DEF WrapperInv, Types, PathWritten, SeekHash, Done, local2
<1>1. InputOK' /\ in_len' = in_len /\ out_cap' = out_cap
  BY <1>0, CallStable DEF Types
<1>2. PathWritten'
  BY <1>0, <1>1 DEF PathWritten, Written
<1>3. CASE SeekHash
  <2>1. p' = p + 1 /\ pc = "args" /\ p - r.args_start \in Int
    BY <1>0, <1>3 DEF SeekHash
  <2>2. /\ [len |-> p - r.args_start, data |-> r.args_start] \in Str /\ None \in MaybeOffset
    BY <1>0, <2>1 DEF Str, MaybeOffset
  <2>3. r' \in RequestType /\ (pc' = "done" \/ (pc' = "args" /\ r' = r))
    BY <1>0, <1>3, <2>1, <2>2 DEF SeekHash, RequestType
  <2>4. Types'
    BY <1>0, <1>1, <2>1, <2>3 DEF Types
  <2> QED
    BY <1>0, <1>1, <1>2, <2>1, <2>3, <2>4 DEF WrapperInv, PointersStayInside
<1>4. CASE Done
  <2>1. r.uri_ext # None => [len |-> u - r.uri_ext, data |-> r.uri_ext] \in Str
    BY <1>0 DEF RequestType, Str, MaybeOffset
  <2>2. /\ r' = [r EXCEPT !.uri = [@ EXCEPT !.len = u], !.exten = r'.exten,
                        !.uri_ext = None]
        /\ r'.exten \in Str /\ None \in MaybeOffset
    BY <1>0, <1>4, <2>1 DEF Done, RequestType, MaybeOffset
  <2>3. [r.uri EXCEPT !.len = u] \in Str /\ [r.uri EXCEPT !.len = u].len = u
    BY <1>0 DEF RequestType, Str
  <2>4. r' \in RequestType /\ r'.uri.len = u
    BY <1>0, <2>2, <2>3 DEF RequestType
  <2>5. Types' /\ pc' = "reply"
    BY <1>0, <1>1, <1>4, <2>4 DEF Types, Done
  <2> QED
    BY <1>0, <1>1, <1>2, <2>4, <2>5 DEF WrapperInv, PointersStayInside, PathWritten
<1> QED BY <1>3, <1>4

LEMMA ReplyStep ==
  ASSUME WrapperInv, OutTooSmall \/ Reply
  PROVE  WrapperInv'
<1>0. /\ pc = "reply" /\ pc' = "returned" /\ Types /\ in_len \in Nat
      /\ r.uri.len \in 0 .. in_len /\ UNCHANGED << call, r, state, p, local2 >>
      /\ out_cap \in Nat
  BY ReadByte DEF WrapperInv, Types, OutTooSmall, Reply, Return
<1>1. InputOK' /\ in_len' = in_len /\ out_cap' = out_cap
  BY <1>0, CallStable DEF Types
<1>2. Types'
  BY <1>0, <1>1 DEF Types, local2
<1>3. CASE OutTooSmall
  <2>1. rc' = -2 /\ out_cap < in_len
    BY <1>0, <1>3 DEF OutTooSmall, Return
  <2> QED
    BY <1>0, <1>1, <1>2, <2>1 DEF WrapperInv, PointersStayInside
<1>4. CASE Reply
  <2>1. /\ rc' = 0 /\ reply'.out_len = r.uri.len
        /\ reply'.out = [ i \in 0 .. r.uri.len - 1 |->
                            IF r.uri.data = "inbuf" THEN inbuf(i) ELSE nbuf[i] ]
    BY <1>4 DEF Reply, Return, PathByte
  <2>2. \A i \in 0 .. r.uri.len - 1 : inbuf(i) \in Byte
    BY <1>0, ReadByte DEF Types
  <2>3. r.uri.data # "inbuf" => \A i \in 0 .. r.uri.len - 1 : nbuf[i] \in Byte
    BY <1>0 DEF WrapperInv, Written
  <2>4. \A i \in 0 .. reply'.out_len - 1 : reply'.out[i] \in Byte
    BY <2>1, <2>2, <2>3
  <2> QED
    BY <1>0, <1>1, <1>2, <2>1, <2>4 DEF WrapperInv, PointersStayInside
<1> QED BY <1>3, <1>4

LEMMA NextWrapper == WrapperInv /\ [Next]_vars => WrapperInv'
<1> SUFFICES ASSUME WrapperInv, [Next]_vars PROVE WrapperInv'
  OBVIOUS
<1>1. CASE Next
  BY <1>1, CallOfWrapper, StageOneStep, BetweenStages, UnquotedStep, CopyStep,
     QuotedStep, EndStep, ScanStep, QueryStep, ReplyStep, Refuses
  DEF Next, AboveRoot, BadEscape
<1>2. CASE UNCHANGED vars
  <2>1. InputOK' = InputOK /\ in_len' = in_len /\ out_cap' = out_cap
    BY <1>2, CallStable DEF vars
  <2> QED
    BY <1>2, <2>1
    DEF vars, local2, WrapperInv, Types, InStageTwo, ScanningBack, PathWritten, Written,
        Least, Resume, Lag, PointersStayInside
<1> QED BY <1>1, <1>2

(***************************************************************************)
(* The C code keeps its pointers inside its buffers, reads no byte that it *)
(* has not written and answers -2 only to a caller that gave too little    *)
(* room, for every input and whether or not memory runs out.               *)
(***************************************************************************)
THEOREM PointersAlwaysInside == Spec => []PointersStayInside
<1>1. WrapperInv => PointersStayInside
  BY DEF WrapperInv
<1> QED BY <1>1, InitWrapper, NextWrapper, PTL DEF Spec
=============================================================================

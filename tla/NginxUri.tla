------------------------------ MODULE NginxUri ------------------------------
(***************************************************************************)
(* The reference the port is compared with: nginx_parse_origin_form of     *)
(* src/nginx-reference/nginx_url.c, the wrapper, and the two functions of  *)
(* nginx it calls.  An action is one iteration of a loop of the C code, or *)
(* the straight line between two loops.                                    *)
(*                                                                         *)
(* A pointer is its offset in the buffer it points into: uri_start and     *)
(* uri_end are 0 and in_len, the others point into inbuf but for u,        *)
(* uri_ext (in stage 2) and exten.data, which point into nbuf.  The byte   *)
(* that malloc leaves in a buffer is None.  empty_path_in_uri is never     *)
(* set, so the branches it guards are left out.                            *)
(***************************************************************************)
EXTENDS Bytes, Sequences

CONSTANTS
  Inputs,          \* the byte strings a caller may pass
  OutCaps(_),      \* the capacities of out it may pass with so many bytes
  MallocMayFail,   \* whether memory may run out
  None             \* NULL, or a byte not written

ASSUME InputsAssumption == Inputs \subseteq Seq(Byte)
ASSUME NullAssumption   == None \notin Int \cup {"inbuf", "nbuf"}
ASSUME CapsAssumption   == \A in \in Inputs : OutCaps(Len(in)) \subseteq Nat

VARIABLES
  in, merge_slashes, out_cap,                    \* the arguments
  pc,                                            \* where control is
  r,                                             \* ngx_http_request_t
  state, p, ch, decoded, quoted_state, u, nbuf,  \* locals of the stages
  rc, reply                                      \* what the caller gets

call   == << in, merge_slashes, out_cap >>
local2 == << ch, decoded, quoted_state, u, nbuf >>
vars   == << call, pc, r, state, p, local2, rc, reply >>

in_len == Len(in)
inbuf(i) == IF i < in_len THEN in[i + 1] ELSE LF

(* The bitmap of usual characters, for a build that is not NGX_WIN32: the  *)
(* two halves of each of its words.                                        *)
High == << 0, \h7fff, \hffff, \h7fff, \hffff, \hffff, \hffff, \hffff >>
Low  == << 0, \h37d6, \hffff, \hffff, \hffff, \hffff, \hffff, \hffff >>

UsualMap == [ w \in 1 .. 8 |-> Word(High[w], Low[w]) ]
Usual(c) == (c % 32) \in UsualMap[(c \div 32) + 1]

(* memset(&r, 0, sizeof(r)) *)
Request0 ==
  [ uri |-> [len |-> 0, data |-> None],
    args |-> [len |-> 0, data |-> None], exten |-> [len |-> 0, data |-> None],
    uri_ext |-> None, args_start |-> None,
    complex_uri |-> FALSE, quoted_uri |-> FALSE, plus_in_uri |-> FALSE ]

With(field, value) == [r EXCEPT ![field] = value]

Entry ==
  /\ pc = "call" /\ r = Request0
  /\ state = "sw_start" /\ p = 0
  /\ ch = 0 /\ decoded = 0 /\ quoted_state = "sw_usual" /\ u = 0
  /\ nbuf = [i \in 0 .. in_len |-> None]
  /\ rc = None /\ reply = None

Init ==
  /\ in \in Inputs /\ merge_slashes \in BOOLEAN /\ out_cap \in OutCaps(in_len)
  /\ Entry

(* The wrapper returns. *)
Return(code) ==
  /\ pc' = "returned" /\ rc' = code
  /\ UNCHANGED << call, r, state, p, local2 >>

Refuse == Return(-1) /\ UNCHANGED reply

EmptyInput == pc = "call" /\ in_len = 0 /\ Refuse
OutOfMemory == pc = "call" /\ in_len # 0 /\ MallocMayFail /\ Refuse

CopyInput ==
  /\ pc = "call" /\ in_len # 0
  /\ pc' = "uri"
  /\ UNCHANGED << r, state, p, local2, call, rc, reply >>
-----------------------------------------------------------------------------
(* Stage 1, ngx_http_parse_uri: the byte at p, a case of the inner switch, *)
(* and the default case with the usual bytes that never reach the switch.  *)
Scans(s) == pc = "uri" /\ p # in_len /\ state = s
Sees(B)  == ~Usual(inbuf(p)) /\ inbuf(p) \in B
Control(c)  == c <= 32 \/ c = 127
Passes(B) == Usual(inbuf(p)) \/ (inbuf(p) \notin B /\ ~Control(inbuf(p)))

Go(next, request) ==
  /\ state' = next /\ r' = request /\ p' = p + 1
  /\ UNCHANGED << pc, local2, call, rc, reply >>

sw_start == Scans("sw_start") /\ inbuf(p) = SLASH /\ Go("sw_after_slash_in_uri", r)

sw_after_slash_in_uri ==
  /\ Scans("sw_after_slash_in_uri")
  /\ \/ Sees({DOT, SLASH, HASH}) /\ Go("sw_uri", With("complex_uri", TRUE))
     \/ Sees({PERCENT}) /\ Go("sw_uri", With("quoted_uri", TRUE))
     \/ Sees({QUESTION}) /\ Go("sw_uri", With("args_start", p + 1))
     \/ Sees({PLUS}) /\ Go(state, With("plus_in_uri", TRUE))
     \/ Passes({DOT, SLASH, HASH, PERCENT, QUESTION, PLUS}) /\ Go("sw_check_uri", r)

sw_check_uri ==
  /\ Scans("sw_check_uri")
  /\ \/ Sees({SLASH}) /\ Go("sw_after_slash_in_uri", With("uri_ext", None))
     \/ Sees({DOT}) /\ Go(state, With("uri_ext", p + 1))
     \/ Sees({PERCENT}) /\ Go("sw_uri", With("quoted_uri", TRUE))
     \/ Sees({QUESTION}) /\ Go("sw_uri", With("args_start", p + 1))
     \/ Sees({HASH}) /\ Go("sw_uri", With("complex_uri", TRUE))
     \/ Sees({PLUS}) /\ Go(state, With("plus_in_uri", TRUE))
     \/ Passes({DOT, SLASH, HASH, PERCENT, QUESTION, PLUS}) /\ Go(state, r)

sw_uri ==
  /\ Scans("sw_uri")
  /\ \/ Sees({HASH}) /\ Go(state, With("complex_uri", TRUE))
     \/ Passes({HASH}) /\ Go(state, r)

ScanError ==
  /\ pc = "uri" /\ p # in_len
  /\ IF state = "sw_start" THEN inbuf(p) # SLASH
     ELSE ~Usual(inbuf(p)) /\ Control(inbuf(p))
  /\ Refuse

(* Between the stages the wrapper sets r.uri, as the function of nginx     *)
(* that it stands for does; a path that needs no normalization stays where *)
(* it is, in inbuf.                                                        *)
Simple == ~r.complex_uri /\ ~r.quoted_uri
RawLength == IF r.args_start # None THEN r.args_start - 1 ELSE in_len

KeepPath ==
  /\ pc = "uri" /\ p = in_len /\ Simple
  /\ r' = With("uri", [len |-> RawLength, data |-> "inbuf"])
  /\ pc' = "reply"
  /\ UNCHANGED << state, p, local2, call, rc, reply >>

EnterComplex ==
  /\ pc = "uri" /\ p = in_len /\ ~Simple
  /\ pc' = "complex"
  /\ r' = [r EXCEPT !.uri = [len |-> RawLength, data |-> "nbuf"],
                    !.uri_ext = None, !.args_start = None]
  /\ state' = "sw_usual" /\ quoted_state' = "sw_usual" /\ decoded' = 0 /\ u' = 0
  /\ ch' = inbuf(0) /\ p' = 1
  /\ UNCHANGED << nbuf, call, rc, reply >>
-----------------------------------------------------------------------------
(* Stage 2, ngx_http_parse_complex_uri.                                    *)
Unquoted == {"sw_usual", "sw_slash", "sw_dot", "sw_dot_dot"}
Reads_PastLf(s) == pc = "complex" /\ p <= in_len + 1 /\ state = s
Reads(s) == pc = "complex" /\ p <= in_len /\ state = s
Case(B)  == ~Usual(ch) /\ ch \in B

ReadOn(next, request) ==
  /\ state' = next /\ r' = request
  /\ ch' = inbuf(p) /\ p' = p + 1
  /\ UNCHANGED << pc, decoded, quoted_state, call, rc, reply >>
Write(b)   == nbuf' = [nbuf EXCEPT ![u] = b] /\ u' = u + 1
Back(n)    == u' = u - n /\ UNCHANGED nbuf

(* goto args, with args_start = p, and goto done. *)
Leave(label, request) ==
  /\ pc' = label /\ r' = request
  /\ UNCHANGED << state, p, ch, decoded, quoted_state, call, rc, reply >>
GotoArgs == Leave("args", With("args_start", p))
GotoDone == Leave("done", r)

sw_usual ==
  /\ Reads("sw_usual")
  /\ \/ Case({SLASH}) /\ Write(ch) /\ ReadOn("sw_slash", With("uri_ext", None))
     \/ Case({DOT}) /\ Write(ch) /\ ReadOn(state, With("uri_ext", u + 1))
     \/ Case({QUESTION}) /\ Back(0) /\ GotoArgs
     \/ Case({HASH}) /\ Back(0) /\ GotoDone

sw_slash ==
  /\ Reads("sw_slash")
  /\ \/ /\ Case({SLASH}) /\ ReadOn(state, r)
        /\ IF merge_slashes THEN Back(0) ELSE Write(ch)
     \/ Case({DOT}) /\ Write(ch) /\ ReadOn("sw_dot", r)
     \/ Case({QUESTION}) /\ Back(0) /\ GotoArgs
     \/ Case({HASH}) /\ Back(0) /\ GotoDone

sw_dot ==
  /\ Reads("sw_dot")
  /\ \/ Case({SLASH}) /\ Back(1) /\ ReadOn("sw_slash", r)
     \/ Case({DOT}) /\ Write(ch) /\ ReadOn("sw_dot_dot", r)
     \/ Case({QUESTION}) /\ Back(1) /\ GotoArgs
     \/ Case({HASH}) /\ Back(1) /\ GotoDone

(* The scan backwards is a loop of its own; ch tells what follows it. *)
sw_dot_dot ==
  /\ Reads("sw_dot_dot") /\ Case({SLASH, QUESTION, HASH})
  /\ Back(4) /\ Leave("dots", r)

ScanBack ==
  /\ pc = "dots" /\ u >= 0 /\ nbuf[u] # SLASH
  /\ Back(1) /\ Leave("dots", r)

AboveRoot == pc = "dots" /\ u < 0 /\ Refuse

ParentFound ==
  /\ pc = "dots" /\ u >= 0 /\ nbuf[u] = SLASH
  /\ Back(-1)
  /\ \/ p <= in_len /\ ch = QUESTION /\ GotoArgs
     \/ (p > in_len \/ ch = HASH) /\ GotoDone
     \/ /\ p <= in_len /\ ch = SLASH
        /\ pc' = "complex" /\ state' = "sw_slash"
        /\ ch' = inbuf(p) /\ p' = p + 1
        /\ UNCHANGED << r, decoded, quoted_state, call, rc, reply >>

(* The cases the four states share: %, and every byte that is copied. *)
BeginQuoted ==
  /\ \E s \in Unquoted : Reads(s)
  /\ Case({PERCENT})
  /\ pc' = pc /\ state' = "sw_quoted" /\ quoted_state' = state
  /\ ch' = inbuf(p) /\ p' = p + 1
  /\ UNCHANGED << r, decoded, u, nbuf, call, rc, reply >>

Switched == {SLASH, PERCENT, QUESTION, HASH}
              \cup (IF state = "sw_dot_dot" THEN {} ELSE {DOT})

CopyByte ==
  /\ \E s \in Unquoted : Reads(s)
  /\ ~Case(Switched)
  /\ Write(ch)
  /\ ReadOn("sw_usual", IF Case({PLUS}) THEN With("plus_in_uri", TRUE) ELSE r)

(* Escapes: the digit ch stands for, if it is one. *)
Decimal(c) == c >= 48 /\ c <= 57
Letter(c)  == OrCaseBit(c) >= 97 /\ OrCaseBit(c) <= 102
Digit(c)   == IF Decimal(c) THEN c - 48 ELSE OrCaseBit(c) - 97 + 10

sw_quoted ==
  /\ Reads("sw_quoted") /\ (Decimal(ch) \/ Letter(ch))
  /\ decoded' = Digit(ch)
  /\ state' = "sw_quoted_second" /\ r' = With("quoted_uri", TRUE)
  /\ ch' = inbuf(p) /\ p' = p + 1
  /\ UNCHANGED << pc, quoted_state, u, nbuf, call, rc, reply >>

Quoted == (decoded * 16 + Digit(ch)) % 256
Verbatim == IF Decimal(ch) THEN {PERCENT, HASH} ELSE {QUESTION}

sw_quoted_second ==
  /\ Reads("sw_quoted_second") /\ (Decimal(ch) \/ Letter(ch))
  /\ \/ Quoted \in Verbatim /\ Write(Quoted) /\ ReadOn("sw_usual", r)
     \/ /\ Quoted \notin Verbatim \cup {0}
        /\ state' = quoted_state /\ ch' = Quoted
        /\ r' = IF Letter(ch) /\ Quoted = PLUS THEN With("plus_in_uri", TRUE) ELSE r
        /\ UNCHANGED << pc, p, decoded, quoted_state, u, nbuf, call, rc, reply >>

BadEscape ==
  /\ pc = "complex" /\ state \in {"sw_quoted", "sw_quoted_second"}
  /\ \/ p > in_len
     \/ ~Decimal(ch) /\ ~Letter(ch)
     \/ state = "sw_quoted_second" /\ Decimal(ch) /\ Quoted = 0
  /\ Refuse

LoopEnds_KeepsDot ==
  /\ pc = "complex" /\ p > in_len /\ state \in Unquoted
  /\ \/ state = "sw_dot_dot" /\ Back(4) /\ Leave("dots", r)
     \/ state # "sw_dot_dot" /\ Back(0) /\ GotoDone

LoopEnds ==
  /\ pc = "complex" /\ p > in_len /\ state \in Unquoted
  /\ \/ state = "sw_dot_dot" /\ Back(4) /\ Leave("dots", r)
     \/ state = "sw_dot" /\ Back(1) /\ GotoDone
     \/ state \in {"sw_usual", "sw_slash"} /\ Back(0) /\ GotoDone

(* The query runs up to a # or to the end. *)
SeekHash_NotAdvanced ==
  /\ pc = "args" /\ p < in_len
  /\ IF inbuf(p) = HASH
     THEN /\ pc' = "done" /\ p' = p + 1
          /\ r' = [r EXCEPT !.args = [len |-> p - r.args_start, data |-> r.args_start],
                            !.args_start = None]
     ELSE UNCHANGED << pc, p, r >>
  /\ UNCHANGED << state, local2, call, rc, reply >>

SeekHash ==
  /\ pc = "args" /\ p < in_len /\ p' = p + 1
  /\ IF inbuf(p) = HASH
     THEN /\ pc' = "done"
          /\ r' = [r EXCEPT !.args = [len |-> p - r.args_start, data |-> r.args_start],
                            !.args_start = None]
     ELSE UNCHANGED << pc, r >>
  /\ UNCHANGED << state, local2, call, rc, reply >>

Done ==
  /\ pc = "done" \/ (pc = "args" /\ p >= in_len)
  /\ pc' = "reply"
  /\ r' = [r EXCEPT !.uri.len = u,
                    !.exten = IF r.uri_ext # None
                              THEN [len |-> u - r.uri_ext, data |-> r.uri_ext] ELSE @,
                    !.uri_ext = None]
  /\ UNCHANGED << state, p, local2, call, rc, reply >>
-----------------------------------------------------------------------------
(* The end of the wrapper: r.args, the check of the capacity, the copies.  *)
Args_EvenEmpty == IF r.args_start # None /\ in_len >= r.args_start
                  THEN [len |-> in_len - r.args_start, data |-> r.args_start]
                  ELSE r.args

Args == IF r.args_start # None /\ in_len > r.args_start
        THEN [len |-> in_len - r.args_start, data |-> r.args_start]
        ELSE r.args

OutTooSmall == pc = "reply" /\ r.uri.len > out_cap /\ Return(-2) /\ UNCHANGED reply

(* memcpy(out, r.uri.data, r.uri.len), byte by byte, and one that forgets  *)
(* which buffer holds the path.                                            *)
PathByte_OfInput(i) == inbuf(i)
PathByte(i) == IF r.uri.data = "inbuf" THEN inbuf(i) ELSE nbuf[i]

Reply ==
  /\ pc = "reply" /\ r.uri.len <= out_cap
  /\ Return(0)
  /\ reply' = [ out |-> [ i \in 0 .. r.uri.len - 1 |-> PathByte(i) ],
                out_len |-> r.uri.len,
                args_present |-> Args.data # None,
                args_offset |-> IF Args.data # None THEN Args.data ELSE 0,
                args_len |-> IF Args.data # None THEN Args.len ELSE 0 ]

Next ==
  \/ EmptyInput \/ OutOfMemory \/ CopyInput
  \/ sw_start \/ sw_after_slash_in_uri \/ sw_check_uri \/ sw_uri \/ ScanError
  \/ KeepPath \/ EnterComplex
  \/ sw_usual \/ sw_slash \/ sw_dot \/ sw_dot_dot \/ ScanBack \/ AboveRoot
  \/ ParentFound \/ BeginQuoted \/ CopyByte
  \/ sw_quoted \/ sw_quoted_second \/ BadEscape \/ LoopEnds \/ SeekHash \/ Done
  \/ OutTooSmall \/ Reply

Spec == Init /\ [][Next]_vars /\ WF_vars(Next)
-----------------------------------------------------------------------------
(***************************************************************************)
(* The pointers stay where the comments in the C code and the wrapper say  *)
(* they do: p is at most one past the line feed, so what it reads is the   *)
(* input or that line feed; every write is below in_len, so neither buffer *)
(* is overrun; the scan backwards starts at most one byte below nbuf, and  *)
(* all it reads has been written.  Hence room for in_len bytes is enough,  *)
(* and the code -2 tells of a caller that gave less.                       *)
(***************************************************************************)
PointersStayInside ==
  /\ pc = "complex" => p <= in_len + 1 /\ u >= 0 /\ u < p
  /\ pc = "dots" => u >= -1 /\ \A i \in 0 .. u : nbuf[i] \in Byte
  /\ (pc = "returned" /\ rc = -2) => out_cap < in_len
  /\ (pc = "returned" /\ rc = 0) =>
       /\ reply.out_len <= in_len
       /\ \A i \in 0 .. reply.out_len - 1 : reply.out[i] \in Byte

=============================================================================

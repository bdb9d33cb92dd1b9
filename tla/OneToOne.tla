------------------------------ MODULE OneToOne ------------------------------
(***************************************************************************)
(* "A faithful, 1-to-1 Rust port of nginx's URL path normalization" (the   *)
(* README of the repository), as a refinement: a call of the reference,    *)
(* NginxUri, is a call of the port, OriginForm, step by step.              *)
(*                                                                         *)
(* The port takes in one step what the reference does in the iterations of *)
(* three inner loops: the run of usual bytes of stage 1, the scan back for *)
(* a parent and the search for the end of the query.  Two variables that   *)
(* record the past and change nothing tell where such a loop began or, for *)
(* the first, where it will end.                                           *)
(***************************************************************************)
EXTENDS NginxUri

(* The caller that the port is compared under, the fuzzer, gives room for  *)
(* every byte of the input and does not run out of memory.                 *)
ASSUME RoomAssumption   == \A i \in Inputs : \A n \in OutCaps(Len(i)) : n >= Len(i)
ASSUME MemoryAssumption == ~MallocMayFail

CONSTANT UsizeSize      \* number of values of the port's usize
ASSUME UsizeAssumption == /\ UsizeSize \in Nat \ {0}
                          /\ \A i \in Inputs : 2 * Len(i) + 2 < UsizeSize

ASSUME NoneAssumption ==
  None \notin [p : Nat, u : Nat] \cup [len : Int, data : Int]

VARIABLES
  run,      \* the end of the run of usual bytes that stage 1 is inside of
  left      \* p and u where stage 2 left its main loop, or None

hist_vars == << vars, run, left >>

HistInit == Init /\ run = None /\ left = None

(* The ends of the run of usual bytes that begins at p. *)
RunEnds ==
  { q \in p + 1 .. in_len :
      /\ \A i \in p .. q - 1 : Usual(inbuf(i))
      /\ q = in_len \/ ~Usual(inbuf(q)) }

CurrentRun ==
  IF run # None THEN run
  ELSE IF Scans("sw_check_uri") /\ Usual(inbuf(p)) THEN CHOOSE q \in RunEnds : TRUE
  ELSE None

InLoop == pc \in {"dots", "args", "done"}

RecordRun == run' = IF CurrentRun = p' THEN None ELSE CurrentRun

RecordLeft ==
  left' = IF pc' = "complex" THEN None
          ELSE IF pc = "complex" /\ InLoop' THEN [p |-> p, u |-> u]
          ELSE IF InLoop /\ pc' = "reply" THEN [left EXCEPT !.u = u]
          ELSE left

HistNext == Next /\ RecordRun /\ RecordLeft
HistSpec == HistInit /\ [][HistNext]_hist_vars /\ WF_hist_vars(HistNext)
-----------------------------------------------------------------------------
(* The state of the port that a state of the reference stands for.         *)
StateName ==
  [ sw_start |-> "Start", sw_after_slash_in_uri |-> "AfterSlash",
    sw_check_uri |-> "CheckUri", sw_uri |-> "Uri",
    sw_usual |-> "Usual", sw_slash |-> "Slash", sw_dot |-> "Dot",
    sw_dot_dot |-> "DotDot", sw_quoted |-> "Quoted",
    sw_quoted_second |-> "QuotedSecond" ]

Owned == r.uri.data = "nbuf"

port_pc ==
  CASE pc \in {"call", "uri"}               -> pc
    [] pc \in {"complex", "dots", "args", "done"} -> "complex"
    [] pc = "reply"                         -> IF Owned THEN "normalized" ELSE "uri"
    [] pc = "returned"                      -> IF rc = 0 THEN "ok" ELSE "err"

(* A pointer that is NULL, and a byte of the zeroed buffer not yet written. *)
Offset(slice) == [len |-> slice.len, data |-> IF slice.data = None THEN 0 ELSE slice.data]
Zeroed == [ i \in 0 .. in_len |-> IF nbuf[i] = None THEN 0 ELSE nbuf[i] ]

(* Stage 2 has returned a path. *)
Normalized == Owned /\ (pc = "reply" \/ (pc = "returned" /\ rc = 0))

port_args_start == IF InLoop THEN None ELSE r.args_start
port_args       == IF InLoop THEN [len |-> 0, data |-> 0] ELSE Offset(r.args)
port_uri_len    == IF Normalized THEN r.uri.len ELSE 0
port_p          == IF run # None THEN run ELSE IF left # None THEN left.p ELSE p
port_u          == IF left # None THEN left.u ELSE u
port_out        == IF Owned THEN Zeroed ELSE None
port_result ==
  IF pc = "returned" /\ rc = 0
  THEN [ owned |-> Owned, len |-> reply.out_len,
         args  |-> IF reply.args_present
                   THEN [len |-> reply.args_len, data |-> reply.args_offset]
                   ELSE None ]
  ELSE None

Port == INSTANCE OriginForm WITH
  Targets      <- Inputs,          UsizeSize    <- UsizeSize,
  target       <- in,              pc           <- port_pc,
  complex_uri  <- r.complex_uri,   quoted_uri   <- r.quoted_uri,
  plus_in_uri  <- r.plus_in_uri,   args_start   <- port_args_start,
  uri_ext      <- r.uri_ext,       args         <- port_args,
  uri_len      <- port_uri_len,    exten        <- Offset(r.exten),
  state        <- StateName[state],
  quoted_state <- StateName[quoted_state],
  p            <- port_p,          u            <- port_u,
  out          <- port_out,        result       <- port_result
-----------------------------------------------------------------------------
(***************************************************************************)
(* Every behaviour of the reference is one of the port: the two take the   *)
(* same decisions at the same bytes, write the same bytes, and return the  *)
(* same path and query or refuse the same targets.                         *)
(***************************************************************************)
PortSteps == Port!Init /\ [][Port!Next]_(Port!vars)

(***************************************************************************)
(* What the caller of the reference is given is what the port returns: a   *)
(* rejection, or, copied out of the buffer the request points into, the    *)
(* bytes of the port's path.                                               *)
(***************************************************************************)
ReplyIsPath ==
  pc = "returned" =>
    /\ rc \in {0, -1}
    /\ rc = 0 => reply.out = Port!Path

(***************************************************************************)
(* The path the caller of the reference is given is normal: it starts with *)
(* a slash, has no dot segment and no NUL and, merging, no empty segment,  *)
(* whether it was copied out of the input or built.                        *)
(***************************************************************************)
ReplyIsNormal ==
  (pc = "returned" /\ rc = 0) =>
    /\ reply.out_len > 0 /\ reply.out[0] = SLASH
    /\ \A i \in 0 .. reply.out_len - 1 :
         /\ reply.out[i] # 0
         /\ \A k \in 1 .. 2 : ~Port!DotsAfter(reply.out, reply.out_len, i, k)
         /\ (merge_slashes /\ i > 0) =>
              ~(reply.out[i - 1] = SLASH /\ reply.out[i] = SLASH)

(***************************************************************************)
(* The query it is given is the input's, from the first "?" to a "#" or    *)
(* the end; it is told that there is none exactly if there is none or      *)
(* nothing follows the "?".                                                *)
(***************************************************************************)
ReplyQueryIsExact ==
  (pc = "returned" /\ rc = 0) =>
    IF reply.args_present
    THEN \E q \in Port!QueryMarks : \E e \in Port!QueryEnds(q) :
           /\ reply.args_offset = q + 1 /\ reply.args_len = e - q - 1
           /\ q + 1 # in_len
    ELSE \A q \in Port!QueryMarks : q + 1 = in_len

(* The reference reaches the return of the port, whatever the target.      *)
PortReturns == Port!Termination
=============================================================================

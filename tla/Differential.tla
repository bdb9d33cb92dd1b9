---------------------------- MODULE Differential ----------------------------
(***************************************************************************)
(* The function check of the differential fuzzer, src/fuzz/src/main.rs:    *)
(* one target is parsed by the reference (c_parse), then by the port       *)
(* (rust_parse), and the two results are compared.  The reference is given *)
(* one byte more than the target has, and memory does not run out.         *)
(***************************************************************************)
EXTENDS OriginForm

VARIABLES c_pc, c_r, c_state, c_p, c_ch, c_decoded, c_quoted_state, c_u, c_nbuf,
          c_rc, c_reply,
          verdict         \* what check returns

Capacity(n) == {n + 1}

C == INSTANCE NginxUri WITH
       Inputs <- Targets, OutCaps <- Capacity, MallocMayFail <- FALSE,
       in <- target, out_cap <- uri_end + 1,
       pc <- c_pc, r <- c_r, state <- c_state, p <- c_p, ch <- c_ch,
       decoded <- c_decoded, quoted_state <- c_quoted_state, u <- c_u,
       nbuf <- c_nbuf, rc <- c_rc, reply <- c_reply

c_vars   == << c_pc, c_r, c_state, c_p, c_ch, c_decoded, c_quoted_state, c_u,
               c_nbuf, c_rc, c_reply >>
all_vars == << vars, c_vars, verdict >>

CheckInit == Init /\ C!Entry /\ verdict = None

CParse ==
  /\ c_pc # "returned" /\ C!Next
  /\ UNCHANGED << vars, verdict >>

RustParse ==
  /\ c_pc = "returned" /\ Next
  /\ UNCHANGED << c_vars, verdict >>

(* What c_parse makes of the reply: a result, a rejection, or a panic.     *)
Result(path, query) == [kind |-> "some", path |-> path, args |-> query]
Rejected == [kind |-> "none"]
Panic    == [kind |-> "panic"]

ArgsOf(len, data) == SubSeq(target, data + 1, data + len)

CResult ==
  IF c_rc = -1 THEN Rejected
  ELSE IF c_rc # 0 \/ c_reply.args_offset + c_reply.args_len > uri_end THEN Panic
  ELSE Result(c_reply.out, IF c_reply.args_present
                           THEN ArgsOf(c_reply.args_len, c_reply.args_offset)
                           ELSE None)

RustResult ==
  IF pc = "err" THEN Rejected
  ELSE Result(Path, IF result.args # None
                    THEN ArgsOf(result.args.len, result.args.data)
                    ELSE None)

Check ==
  /\ c_pc = "returned" /\ Returned /\ verdict = None
  /\ verdict' = (CResult # Panic /\ CResult = RustResult)
  /\ UNCHANGED << vars, c_vars >>

CheckNext == CParse \/ RustParse \/ Check

(* The two parsers are called one after the other and never wait. *)
CheckSpec == CheckInit /\ [][CheckNext]_all_vars /\ WF_all_vars(CheckNext)
-----------------------------------------------------------------------------
(***************************************************************************)
(* The port and the reference agree: both reject the target, or both       *)
(* accept it with the same path and the same query.                        *)
(***************************************************************************)
Agreement == verdict \in {None, TRUE}

(***************************************************************************)
(* Where both accept a target, the two request structures agree in what    *)
(* the fuzzer cannot see: the three flags, the extension and the query's   *)
(* start that is left for the wrapper.                                     *)
(***************************************************************************)
RequestsAgree ==
  (c_pc = "returned" /\ c_rc = 0 /\ pc = "ok") =>
    /\ complex_uri = c_r.complex_uri
    /\ quoted_uri = c_r.quoted_uri
    /\ plus_in_uri = c_r.plus_in_uri
    /\ args_start = c_r.args_start /\ uri_ext = c_r.uri_ext
    /\ IF c_r.exten.data = None THEN exten = [len |-> 0, data |-> 0]
                                ELSE exten = c_r.exten

(* Every call of check comes to a verdict: both parsers return. *)
Verdict == <>(verdict # None)
=============================================================================

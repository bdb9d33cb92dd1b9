------------------------------ MODULE Request ------------------------------
(***************************************************************************)
(* The state of one call of parse_origin_form (src/src/lib.rs): its two    *)
(* arguments, the Request structure the two stages fill in, the locals of  *)
(* the stage that is running and, at the end, the value returned.          *)
(*                                                                         *)
(* Offsets are 0-based, as in the code.  The field empty_path_in_uri is    *)
(* never assigned in the crate (it stays at its default, false), so it and *)
(* the branches it guards are left out.                                    *)
(***************************************************************************)
EXTENDS Bytes, Sequences

CONSTANTS
  Targets,      \* the request targets a caller may pass
  UsizeSize,    \* number of values of a usize
  None          \* Option::None

ASSUME TargetsAssumption == Targets \subseteq Seq(Byte)
ASSUME NoneAssumption    == None \notin Nat

(* A slice never has more bytes than an isize counts. *)
ASSUME UsizeAssumption   == /\ UsizeSize \in Nat \ {0}
                            /\ \A t \in Targets : 2 * Len(t) + 2 < UsizeSize

VARIABLES
  target, merge_slashes,                  \* the arguments
  pc,                                     \* where control is
  complex_uri, quoted_uri, plus_in_uri,   \* Request: flags
  args_start, uri_ext,                    \* Request: offsets or None
  args, uri_len, exten,                   \* Request: results
  state, p,                               \* locals of both stages
  ch, decoded, quoted_state, u, out,      \* locals of stage 2
  result                                  \* the value returned

input  == << target, merge_slashes >>
flags  == << complex_uri, quoted_uri, plus_in_uri >>
marks  == << args_start, uri_ext >>
fields == << args, uri_len, exten >>
locals == << ch, decoded, quoted_state, u, out >>
vars   == << input, pc, flags, marks, fields, state, p, locals, result >>

(* The types UriState and State of the two stages. *)
UriStates == {"Start", "AfterSlash", "CheckUri", "Uri"}
States    == {"Usual", "Slash", "Dot", "DotDot", "Quoted", "QuotedSecond"}

(* An ngx_str_t: a length and an offset. *)
Slice    == [len : Nat, data : Nat]
Option(S) == S \cup {None}

uri_end == Len(target)

(* buf[i], and the read that yields a line feed past the end. *)
At(i) == target[i + 1]
ReadWithLf(i) == IF i < uri_end THEN At(i) ELSE LF

(* Subtraction of two usize values, which wraps where b > a. *)
wrapping_sub(a, b) == IF b <= a THEN a - b ELSE a - b + UsizeSize

(* Err(ParseError), from either stage.  What the step assigned to the      *)
(* Request or to a local before it failed is dropped with them.            *)
Fail ==
  /\ pc' = "err"
  /\ UNCHANGED << input, flags, marks, fields, state, p, locals, result >>
=============================================================================

------------------------------ MODULE RoundTrip ------------------------------
(***************************************************************************)
(* What PATH_ESCAPE_SET is for: the path that parse_origin_form returns is *)
(* encoded with it and sent on as a request target, which the same parser  *)
(* reads again.                                                            *)
(***************************************************************************)
EXTENDS OriginForm, PathEscape

VARIABLES first      \* the path of the first call, once it has returned

trip_vars == << vars, first >>

TripInit == Init /\ first = None

ParseStep == Next /\ UNCHANGED first

(* The second call starts from the state the first one started from.  The  *)
(* encoded path is a slice too, so no longer than one can be.              *)
Forward ==
  /\ pc = "ok" /\ first = None
  /\ first' = [ i \in 1 .. PathLen |-> Path[i - 1] ]
  /\ target' = percent_encode(first') /\ 2 * Len(target') + 2 < UsizeSize
  /\ pc' = "call"
  /\ complex_uri' = FALSE /\ quoted_uri' = FALSE /\ plus_in_uri' = FALSE
  /\ args_start' = None /\ uri_ext' = None
  /\ args' = [len |-> 0, data |-> 0] /\ exten' = [len |-> 0, data |-> 0]
  /\ uri_len' = 0 /\ state' = "Start" /\ p' = 0
  /\ ch' = 0 /\ decoded' = 0 /\ quoted_state' = "Usual" /\ u' = 0 /\ out' = None
  /\ result' = None
  /\ UNCHANGED merge_slashes

TripNext == ParseStep \/ Forward
TripSpec == TripInit /\ [][TripNext]_trip_vars
-----------------------------------------------------------------------------
(***************************************************************************)
(* The encoded path is a target that is accepted, whose path is, byte for  *)
(* byte, the one that was encoded, and that has no query: nothing in a     *)
(* normalized path needs an escape that is not in PATH_ESCAPE_SET, and     *)
(* normalization has no effect on a path that it has returned.             *)
(***************************************************************************)
PathSurvives ==
  (first # None /\ Returned) =>
    /\ pc = "ok"
    /\ first = [ i \in 1 .. PathLen |-> Path[i - 1] ]
    /\ result.args = None
=============================================================================

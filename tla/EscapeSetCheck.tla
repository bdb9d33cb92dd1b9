--------------------------- MODULE EscapeSetCheck ---------------------------
(***************************************************************************)
(* check_path_escape_set of src/fuzz/src/main.rs: the two encoders are     *)
(* compared on every input of one byte, until they differ.                 *)
(***************************************************************************)
EXTENDS PathEscape

VARIABLES byte, agree      \* the loop variable, the value returned

Init == byte = 0 /\ agree = "running"

SameEscape == ngx_escape_uri(<< byte >>) = percent_encode(<< byte >>)

CheckByte ==
  /\ agree = "running" /\ byte < 256
  /\ IF SameEscape THEN byte' = byte + 1 /\ UNCHANGED agree
                   ELSE agree' = "false" /\ UNCHANGED byte

Finish ==
  /\ agree = "running" /\ byte = 256
  /\ agree' = "true" /\ UNCHANGED byte

Next == CheckByte \/ Finish
-----------------------------------------------------------------------------
(***************************************************************************)
(* The two sets are the same for every byte, with the same spelling of the *)
(* escapes: the check never fails.                                         *)
(***************************************************************************)
EscapeSetsAgree == agree # "false"
=============================================================================

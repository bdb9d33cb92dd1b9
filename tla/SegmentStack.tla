---------------------------- MODULE SegmentStack ----------------------------
(***************************************************************************)
(* What stage 2 (ngx_http_parse_complex_uri in src/src/lib.rs) promises at *)
(* every step: it keeps the path read so far as a stack of closed segments *)
(* and an open one.  A slash closes the open segment; only then, or at the *)
(* end of the path, does it matter whether the segment is "." or "..", and *)
(* that is decided by looking at it.  There is no buffer, no cursor into   *)
(* one, no scan backwards, no state that counts dots and none that is      *)
(* saved at a "%".                                                         *)
(*                                                                         *)
(* The first slash closes the empty segment of the root, which nothing     *)
(* removes.                                                                *)
(***************************************************************************)
EXTENDS Bytes, Sequences, SequencesExt

VARIABLES
  target, merge_slashes,
  phase,              \* "idle", "running", then "ended" or "refused"
  p, ch,              \* the byte in hand and the position after it
  escape, digit,      \* how many bytes of an escape are read; its first digit
  closed, open        \* the stack of segments and the segment being read

stack_vars == << target, merge_slashes, phase, p, ch, escape, digit, closed, open >>

StackInit ==
  /\ phase = "idle" /\ p = 0 /\ ch = 0 /\ escape = 0 /\ digit = 0
  /\ closed = << >> /\ open = << >>

Read == ch' = (IF p < Len(target) THEN target[p + 1] ELSE LF) /\ p' = p + 1
More == p <= Len(target)

Begin ==
  /\ phase = "idle" /\ phase' = "running"
  /\ Read
  /\ UNCHANGED << target, merge_slashes, escape, digit, closed, open >>

Refuse ==
  /\ phase' = "refused"
  /\ UNCHANGED << target, merge_slashes, p, ch, escape, digit, closed, open >>

(* At a byte of the path, or at its end. *)
AtByte == phase = "running" /\ More /\ escape = 0
AtEnd  == phase = "running" /\ escape = 0 /\ (More => ch \in {QUESTION, HASH})

Put(b) ==
  /\ open' = Append(open, b)
  /\ Read
  /\ UNCHANGED << target, merge_slashes, phase, digit, closed >>

Content ==
  /\ AtByte /\ ch \notin {PERCENT, SLASH, QUESTION, HASH}
  /\ Put(ch) /\ UNCHANGED escape
-----------------------------------------------------------------------------
(* What becomes of the open segment at a slash or at the end of the path:  *)
(* "." is dropped, ".." is dropped with the segment before it, an empty    *)
(* one between two slashes is dropped if slashes are merged.               *)
DotSegments == { << DOT >>, << DOT, DOT >> }
Parent      == open = << DOT, DOT >>
HasParent   == Len(closed) > 1
Merges      == open = << >> /\ closed # << >> /\ merge_slashes

Drop ==
  /\ open \in DotSegments /\ (Parent => HasParent)
  /\ closed' = IF Parent THEN Front(closed) ELSE closed
  /\ open' = << >>

Close ==
  /\ AtByte /\ ch = SLASH
  /\ \/ Drop
     \/ Merges /\ UNCHANGED << closed, open >>
     \/ /\ open \notin DotSegments /\ ~Merges
        /\ closed' = Append(closed, open) /\ open' = << >>
  /\ Read
  /\ UNCHANGED << target, merge_slashes, phase, escape, digit >>

End ==
  /\ AtEnd
  /\ \/ Drop
     \/ open \notin DotSegments /\ UNCHANGED << closed, open >>
  /\ phase' = "ended"
  /\ UNCHANGED << target, merge_slashes, p, ch, escape, digit >>

AboveRoot ==
  /\ AtEnd \/ (AtByte /\ ch = SLASH)
  /\ Parent /\ ~HasParent
  /\ Refuse
-----------------------------------------------------------------------------
Value == 16 * digit + HexValue(ch)
AtDigit(k) == phase = "running" /\ More /\ escape = k /\ IsHexDigit(ch)

BeginEscape ==
  /\ AtByte /\ ch = PERCENT
  /\ escape' = 1 /\ Read
  /\ UNCHANGED << target, merge_slashes, phase, digit, closed, open >>

FirstDigit ==
  /\ AtDigit(1)
  /\ escape' = 2 /\ digit' = HexValue(ch) /\ Read
  /\ UNCHANGED << target, merge_slashes, phase, closed, open >>

(* An escaped %, # or ? is content; any other byte is treated as if it had *)
(* been written as itself.                                                 *)
EscapedContent ==
  /\ AtDigit(2) /\ Value \in {PERCENT, HASH, QUESTION}
  /\ escape' = 0 /\ Put(Value)

Decode ==
  /\ AtDigit(2) /\ Value \notin {0, PERCENT, HASH, QUESTION}
  /\ escape' = 0 /\ ch' = Value
  /\ UNCHANGED << target, merge_slashes, phase, p, digit, closed, open >>

BadEscape ==
  /\ phase = "running" /\ escape > 0
  /\ (More /\ IsHexDigit(ch)) => (escape = 2 /\ Value = 0)
  /\ Refuse

StackNext ==
  \/ Begin \/ Content \/ Close \/ End \/ AboveRoot
  \/ BeginEscape \/ FirstDigit \/ EscapedContent \/ Decode \/ BadEscape

StackSpec == StackInit /\ [][StackNext]_stack_vars
=============================================================================

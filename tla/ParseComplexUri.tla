-------------------------- MODULE ParseComplexUri --------------------------
(***************************************************************************)
(* Stage 2 of src/src/lib.rs, ngx_http_parse_complex_uri with finish_done  *)
(* and finish_args: it reads the target once more, one byte behind p, and  *)
(* writes the normalized path into out.  An action is one iteration of the *)
(* loop; the arms of the four unquoted states that do the same thing share *)
(* an action.                                                              *)
(***************************************************************************)
EXTENDS Request

Unquoted == {"Usual", "Slash", "Dot", "DotDot"}

(* The condition of the loop, and a slip that lets the sentinel in. *)
Reading_Sentinel == pc = "complex" /\ p <= uri_end + 1
Reading == pc = "complex" /\ p <= uri_end

(* An arm of the match on ch, reached only by a byte that is not usual. *)
Is(b) == ~usual(ch) /\ ch = b

Advance == ch' = ReadWithLf(p) /\ p' = p + 1
Emit    == out' = [out EXCEPT ![u] = ch] /\ u' = u + 1

(* What a step leaves alone that stays in the loop. *)
Stay(next) ==
  /\ state' = next
  /\ UNCHANGED << input, pc, complex_uri, args_start, fields, result >>

Percent ==
  /\ Reading /\ state \in Unquoted /\ Is(PERCENT)
  /\ quoted_state' = state
  /\ Advance /\ Stay("Quoted")
  /\ UNCHANGED << quoted_uri, plus_in_uri, uri_ext, decoded, u, out >>

OpenSegment_KeepsExtension ==
  /\ Reading /\ state = "Usual" /\ Is(SLASH)
  /\ Emit /\ Advance /\ Stay("Slash")
  /\ UNCHANGED << quoted_uri, plus_in_uri, uri_ext, decoded, quoted_state >>

OpenSegment ==
  /\ Reading /\ state = "Usual" /\ Is(SLASH)
  /\ uri_ext' = None
  /\ Emit /\ Advance /\ Stay("Slash")
  /\ UNCHANGED << quoted_uri, plus_in_uri, decoded, quoted_state >>

RepeatSlash ==
  /\ Reading /\ state = "Slash" /\ Is(SLASH)
  /\ IF merge_slashes THEN UNCHANGED << u, out >> ELSE Emit
  /\ Advance /\ Stay("Slash")
  /\ UNCHANGED << quoted_uri, plus_in_uri, uri_ext, decoded, quoted_state >>

ExtensionDot ==
  /\ Reading /\ state = "Usual" /\ Is(DOT)
  /\ uri_ext' = u + 1
  /\ Emit /\ Advance /\ Stay("Usual")
  /\ UNCHANGED << quoted_uri, plus_in_uri, decoded, quoted_state >>

(* The dots that open a segment: "/." and then "/..". *)
LeadingDot ==
  /\ Reading /\ state \in {"Slash", "Dot"} /\ Is(DOT)
  /\ Emit /\ Advance /\ Stay(IF state = "Slash" THEN "Dot" ELSE "DotDot")
  /\ UNCHANGED << quoted_uri, plus_in_uri, uri_ext, decoded, quoted_state >>

(***************************************************************************)
(* Every other byte is copied: the usual ones, + (which is recorded), the  *)
(* third dot of a segment and those that only the default arms take.       *)
(***************************************************************************)
Arms == IF state = "DotDot" THEN Named \ {DOT, PLUS} ELSE Named \ {PLUS}

PlainByte_NoPlus ==
  /\ Reading /\ state \in Unquoted /\ ~ \E b \in Arms : Is(b)
  /\ Emit /\ Advance /\ Stay("Usual")
  /\ UNCHANGED << quoted_uri, plus_in_uri, uri_ext, decoded, quoted_state >>

PlainByte ==
  /\ Reading /\ state \in Unquoted /\ ~ \E b \in Arms : Is(b)
  /\ plus_in_uri' = (plus_in_uri \/ Is(PLUS))
  /\ Emit /\ Advance /\ Stay("Usual")
  /\ UNCHANGED << quoted_uri, uri_ext, decoded, quoted_state >>
-----------------------------------------------------------------------------
(***************************************************************************)
(* Where the path ends once a segment "." or ".." has been resolved: the   *)
(* dot is dropped; the two dots are dropped with the segment before them,  *)
(* by a scan backwards for a slash that starts four bytes back.  The set   *)
(* is empty if the scan finds none.                                        *)
(***************************************************************************)
PathEnds_ThreeBack ==
  { n \in 0 .. u :
      CASE state = "Dot"    -> n = u - 1
        [] state = "DotDot" -> /\ n - 1 \in 0 .. u - 3 /\ out[n - 1] = SLASH
                               /\ \A i \in n .. u - 3 : out[i] # SLASH
        [] OTHER            -> n = u }

PathEnds_OnSlash ==
  { n \in 0 .. u :
      CASE state = "Dot"    -> n = u - 1
        [] state = "DotDot" -> /\ n \in 0 .. u - 4 /\ out[n] = SLASH
                               /\ \A i \in n + 1 .. u - 4 : out[i] # SLASH
        [] OTHER            -> n = u }

PathEnds ==
  { n \in 0 .. u :
      CASE state = "Dot"    -> n = u - 1
        [] state = "DotDot" -> /\ n - 1 \in 0 .. u - 4 /\ out[n - 1] = SLASH
                               /\ \A i \in n .. u - 4 : out[i] # SLASH
        [] OTHER            -> n = u }

CloseDotSegment ==
  /\ Reading /\ state \in {"Dot", "DotDot"} /\ Is(SLASH)
  /\ u' \in PathEnds
  /\ Advance /\ Stay("Slash")
  /\ UNCHANGED << quoted_uri, plus_in_uri, uri_ext, decoded, quoted_state, out >>

(* The ".." of a segment that has none before it. *)
EscapeRoot_NotAtEnd ==
  /\ Reading /\ state = "DotDot" /\ PathEnds = {}
  /\ \E b \in {SLASH, QUESTION, HASH} : Is(b)
  /\ Fail

EscapeRoot ==
  /\ pc = "complex" /\ state = "DotDot" /\ PathEnds = {}
  /\ p <= uri_end => \E b \in {SLASH, QUESTION, HASH} : Is(b)
  /\ Fail

(* finish_done *)
FinishDone(n) ==
  /\ uri_len' = n
  /\ exten' = IF uri_ext # None
              THEN [len |-> wrapping_sub(n, uri_ext), data |-> uri_ext]
              ELSE exten
  /\ uri_ext' = None
  /\ u' = n
  /\ pc' = "normalized"
  /\ UNCHANGED << input, flags, state, p, ch, decoded, quoted_state, out, result >>

(* finish_args, entered with args_start = p: the query ends at the first   *)
(* # after it, if there is one.                                            *)
FinishArgs_LastHash(n) ==
  /\ \/ /\ \A i \in p .. uri_end - 1 : At(i) # HASH
        /\ args_start' = p /\ UNCHANGED args
     \/ \E i \in p .. uri_end - 1 :
          /\ At(i) = HASH /\ \A j \in i + 1 .. uri_end - 1 : At(j) # HASH
          /\ args' = [len |-> wrapping_sub(i, p), data |-> p]
          /\ args_start' = None
  /\ FinishDone(n)

FinishArgs(n) ==
  /\ \/ /\ \A i \in p .. uri_end - 1 : At(i) # HASH
        /\ args_start' = p /\ UNCHANGED args
     \/ \E i \in p .. uri_end - 1 :
          /\ At(i) = HASH /\ \A j \in p .. i - 1 : At(j) # HASH
          /\ args' = [len |-> wrapping_sub(i, p), data |-> p]
          /\ args_start' = None
  /\ FinishDone(n)

QuestionMark ==
  /\ Reading /\ state \in Unquoted /\ Is(QUESTION)
  /\ \E n \in PathEnds : FinishArgs(n)

HashMark ==
  /\ Reading /\ state \in Unquoted /\ Is(HASH)
  /\ \E n \in PathEnds : FinishDone(n)
  /\ UNCHANGED << args_start, args >>

EndOfPath ==
  /\ pc = "complex" /\ ~Reading /\ state \in Unquoted
  /\ \E n \in PathEnds : FinishDone(n)
  /\ UNCHANGED << args_start, args >>
-----------------------------------------------------------------------------
QuotedFirst ==
  /\ Reading /\ state = "Quoted" /\ IsHexDigit(ch)
  /\ quoted_uri' = TRUE
  /\ decoded' = HexValue(ch)
  /\ Advance /\ Stay("QuotedSecond")
  /\ UNCHANGED << plus_in_uri, uri_ext, quoted_state, u, out >>

(* The byte an escape stands for once its second digit is read. *)
Value == 16 * decoded + HexValue(ch)

(* The values that are content whatever the segment holds so far: each is  *)
(* looked for only in the branch of the digit it ends with.                *)
Literals == IF IsDigit(ch) THEN {PERCENT, HASH} ELSE {QUESTION}

LiteralEscape ==
  /\ Reading /\ state = "QuotedSecond" /\ IsHexDigit(ch) /\ Value \in Literals
  /\ out' = [out EXCEPT ![u] = Value] /\ u' = u + 1
  /\ Advance /\ Stay("Usual")
  /\ UNCHANGED << quoted_uri, plus_in_uri, uri_ext, decoded, quoted_state >>

(* Any other value is processed again in the state before the %, with no   *)
(* byte read.                                                              *)
DecodedByte_NotRestored ==
  /\ Reading /\ state = "QuotedSecond" /\ IsHexDigit(ch)
  /\ Value \notin Literals \cup {0}
  /\ ch' = Value
  /\ plus_in_uri' = (plus_in_uri \/ (~IsDigit(ch) /\ Value = PLUS))
  /\ Stay(state)
  /\ UNCHANGED << quoted_uri, uri_ext, p, decoded, quoted_state, u, out >>

DecodedByte ==
  /\ Reading /\ state = "QuotedSecond" /\ IsHexDigit(ch)
  /\ Value \notin Literals \cup {0}
  /\ ch' = Value
  /\ plus_in_uri' = (plus_in_uri \/ (~IsDigit(ch) /\ Value = PLUS))
  /\ Stay(quoted_state)
  /\ UNCHANGED << quoted_uri, uri_ext, p, decoded, quoted_state, u, out >>

RejectEscape ==
  /\ pc = "complex"
  /\ \/ Reading /\ state \in {"Quoted", "QuotedSecond"} /\ ~IsHexDigit(ch)
     \/ Reading /\ state = "QuotedSecond" /\ IsHexDigit(ch) /\ Value = 0
     \/ ~Reading /\ state \in {"Quoted", "QuotedSecond"}
  /\ Fail

(* ngx_http_parse_complex_uri *)
ParseComplexUriStep ==
  \/ Percent \/ OpenSegment \/ RepeatSlash \/ ExtensionDot \/ LeadingDot
  \/ PlainByte \/ CloseDotSegment \/ EscapeRoot
  \/ QuestionMark \/ HashMark \/ EndOfPath
  \/ QuotedFirst \/ LiteralEscape \/ DecodedByte \/ RejectEscape
=============================================================================

----------------------------- MODULE ParseUri ------------------------------
(***************************************************************************)
(* Stage 1 of src/src/lib.rs, ngx_http_parse_uri: one scan of the whole    *)
(* target that sets the flags and offsets of the Request and modifies no   *)
(* byte.  An action is one iteration of the scanning loop; the arms of the *)
(* match that do the same thing share an action.                           *)
(***************************************************************************)
EXTENDS Request

Scanning == pc = "uri" /\ p # uri_end

(* The byte matched, and an arm of the match on it: the arms are reached   *)
(* only by a byte that is not usual.                                       *)
Seen   == At(p)
Sees(b) == ~usual(Seen) /\ Seen = b

(* What every iteration leaves alone. *)
Scan(next) ==
  /\ state' = next
  /\ p' = p + 1
  /\ UNCHANGED << input, pc, fields, locals, result >>

InitialSlash ==
  /\ Scanning /\ state = "Start" /\ Seen = SLASH
  /\ Scan("AfterSlash")
  /\ UNCHANGED << flags, marks >>

(* The bytes after a slash that call for stage 2. *)
ComplexAfterSlash == {DOT, SLASH, HASH}

MarkComplex ==
  /\ Scanning
  /\ \/ state = "AfterSlash" /\ \E b \in ComplexAfterSlash : Sees(b)
     \/ state \in {"CheckUri", "Uri"} /\ Sees(HASH)
  /\ complex_uri' = TRUE
  /\ Scan("Uri")
  /\ UNCHANGED << quoted_uri, plus_in_uri, marks >>

MarkQuoted ==
  /\ Scanning /\ state \in {"AfterSlash", "CheckUri"} /\ Sees(PERCENT)
  /\ quoted_uri' = TRUE
  /\ Scan("Uri")
  /\ UNCHANGED << complex_uri, plus_in_uri, marks >>

MarkArgs ==
  /\ Scanning /\ state \in {"AfterSlash", "CheckUri"} /\ Sees(QUESTION)
  /\ args_start' = p + 1
  /\ Scan("Uri")
  /\ UNCHANGED << flags, uri_ext >>

MarkPlus ==
  /\ Scanning /\ state \in {"AfterSlash", "CheckUri"} /\ Sees(PLUS)
  /\ plus_in_uri' = TRUE
  /\ Scan(state)
  /\ UNCHANGED << complex_uri, quoted_uri, marks >>

(***************************************************************************)
(* The bytes of a segment: the usual ones and, by the default arm, any     *)
(* other byte no arm names and the parser does not refuse (with nginx's    *)
(* table there is none).                                                   *)
(***************************************************************************)
Ordinary == { b \in Byte : usual(b) \/ (b \notin Named /\ ~Refused(b)) }

SegmentByte ==
  /\ Scanning /\ state = "AfterSlash" /\ Seen \in Ordinary
  /\ Scan("CheckUri")
  /\ UNCHANGED << flags, marks >>

NextSegment_InsideSegment ==
  /\ Scanning /\ state = "CheckUri" /\ Sees(SLASH)
  /\ uri_ext' = None
  /\ Scan("CheckUri")
  /\ UNCHANGED << flags, args_start >>

NextSegment ==
  /\ Scanning /\ state = "CheckUri" /\ Sees(SLASH)
  /\ uri_ext' = None
  /\ Scan("AfterSlash")
  /\ UNCHANGED << flags, args_start >>

MarkExtension ==
  /\ Scanning /\ state = "CheckUri" /\ Sees(DOT)
  /\ uri_ext' = p + 1
  /\ Scan("CheckUri")
  /\ UNCHANGED << flags, args_start >>

(***************************************************************************)
(* An inner loop consumes a whole run of usual bytes, up to q; the default *)
(* arm consumes its byte alone.                                            *)
(***************************************************************************)
UsualRun ==
  /\ Scanning /\ state = "CheckUri" /\ Seen \in Ordinary
  /\ \E q \in p + 1 .. uri_end :
       /\ \A i \in p + 1 .. q - 1 : usual(At(i))
       /\ (usual(Seen) /\ q # uri_end) => ~usual(At(q))
       /\ ~usual(Seen) => q = p + 1
       /\ p' = q
  /\ UNCHANGED << input, pc, flags, marks, fields, state, locals, result >>

(* Once the path's shape is decided, every byte passes but # and the       *)
(* refused ones.                                                           *)
Opaque == { b \in Byte : usual(b) \/ (b # HASH /\ ~Refused(b)) }

OpaqueByte ==
  /\ Scanning /\ state = "Uri" /\ Seen \in Opaque
  /\ Scan("Uri")
  /\ UNCHANGED << flags, marks >>

RefuseByte ==
  /\ Scanning
  /\ \/ state = "Start" /\ Seen # SLASH
     \/ state # "Start" /\ ~usual(Seen) /\ Refused(Seen)
  /\ Fail

(* ngx_http_parse_uri *)
ParseUriStep ==
  \/ InitialSlash \/ MarkComplex \/ MarkQuoted \/ MarkArgs \/ MarkPlus
  \/ SegmentByte \/ NextSegment \/ MarkExtension \/ UsualRun \/ OpaqueByte
  \/ RefuseByte
=============================================================================

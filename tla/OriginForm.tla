----------------------------- MODULE OriginForm -----------------------------
(***************************************************************************)
(* parse_origin_form of src/src/lib.rs: one call, from its two arguments   *)
(* to the value it returns.  It runs stage 1, then stage 2 if a flag calls *)
(* for it, and assembles the path and the query.                           *)
(*                                                                         *)
(* The call is sequential and shares nothing; the only choice in it is     *)
(* which arguments the caller passes.                                      *)
(***************************************************************************)
EXTENDS ParseUri, ParseComplexUri

Init ==
  /\ target \in Targets /\ merge_slashes \in BOOLEAN
  /\ pc = "call"
  /\ complex_uri = FALSE /\ quoted_uri = FALSE /\ plus_in_uri = FALSE
  /\ args_start = None /\ uri_ext = None
  /\ args = [len |-> 0, data |-> 0]
  /\ exten = [len |-> 0, data |-> 0]
  /\ uri_len = 0
  /\ state = "Start" /\ p = 0
  /\ ch = 0 /\ decoded = 0 /\ quoted_state = "Usual" /\ u = 0 /\ out = None
  /\ result = None

RejectEmpty ==
  /\ pc = "call" /\ uri_end = 0
  /\ Fail

CallParseUri ==
  /\ pc = "call" /\ uri_end # 0
  /\ pc' = "uri"
  /\ UNCHANGED << input, flags, marks, fields, state, p, locals, result >>

Scanned == pc = "uri" /\ p = uri_end
NeedsNormalization == complex_uri \/ quoted_uri

(* The buffer is allocated and stage 2 starts: it forgets the two offsets  *)
(* and reads its first byte.                                               *)
CallParseComplexUri ==
  /\ Scanned /\ NeedsNormalization
  /\ pc' = "complex"
  /\ out' = [i \in 0 .. uri_end |-> 0]
  /\ uri_ext' = None /\ args_start' = None
  /\ state' = "Usual" /\ quoted_state' = "Usual" /\ decoded' = 0 /\ u' = 0
  /\ ch' = ReadWithLf(0) /\ p' = 1
  /\ UNCHANGED << input, flags, fields, result >>

(* The query as a slice of the target.  Where stage 2 found its end, that  *)
(* end counts even if the query is empty; where none did, an empty query   *)
(* is no query.                                                            *)
parsed_args_KeepEmpty ==
  IF args.data # 0 THEN args
  ELSE IF args_start # None /\ uri_end >= args_start
       THEN [len |-> uri_end - args_start, data |-> args_start]
       ELSE None

parsed_args ==
  IF args.data # 0 THEN args
  ELSE IF args_start # None /\ uri_end > args_start
       THEN [len |-> uri_end - args_start, data |-> args_start]
       ELSE None

Return(owned, len) ==
  /\ pc' = "ok"
  /\ result' = [owned |-> owned, len |-> len, args |-> parsed_args]
  /\ UNCHANGED << input, flags, marks, fields, state, p, locals >>

(* The target up to its query, unchanged. *)
ReturnBorrowed ==
  /\ Scanned /\ ~NeedsNormalization
  /\ Return(FALSE, IF args_start = None THEN uri_end ELSE args_start - 1)

(* The buffer, truncated to the length of the path. *)
ReturnOwned ==
  /\ pc = "normalized"
  /\ Return(TRUE, uri_len)

Next ==
  \/ RejectEmpty \/ CallParseUri \/ ParseUriStep
  \/ CallParseComplexUri \/ ParseComplexUriStep
  \/ ReturnBorrowed \/ ReturnOwned

(* A call that has been made is run: nothing in it waits. *)
Spec == Init /\ [][Next]_vars /\ WF_vars(Next)
-----------------------------------------------------------------------------
(* All there is to a call, as a value. *)
Now ==
  [ target |-> target, merge_slashes |-> merge_slashes, pc |-> pc,
    complex_uri |-> complex_uri, quoted_uri |-> quoted_uri,
    plus_in_uri |-> plus_in_uri, args_start |-> args_start, uri_ext |-> uri_ext,
    args |-> args, uri_len |-> uri_len, exten |-> exten, state |-> state, p |-> p,
    ch |-> ch, decoded |-> decoded, quoted_state |-> quoted_state, u |-> u,
    out |-> out, result |-> result ]

(* The call has returned, with a value or an error. *)
Returned == pc \in {"ok", "err"}

(* The path returned, as a 0-based array of bytes. *)
PathLen == result.len
Path == [ i \in 0 .. PathLen - 1 |-> IF result.owned THEN out[i] ELSE At(i) ]

(* The unquoted state stage 2 is in, or goes back to after an escape. *)
Resume == IF state \in Unquoted THEN state ELSE quoted_state
-----------------------------------------------------------------------------
(***************************************************************************)
(* Every variable keeps its type; a local is of the type of the stage that *)
(* runs, and the buffer exists from the call of stage 2 on.                *)
(***************************************************************************)
Outcome  == [owned : BOOLEAN, len : Nat, args : Option(Slice)]
TargetOK == target \in Seq(Byte)

TypeOK ==
  /\ TargetOK /\ merge_slashes \in BOOLEAN
  /\ pc \in {"call", "uri", "complex", "normalized", "ok", "err"}
  /\ complex_uri \in BOOLEAN /\ quoted_uri \in BOOLEAN /\ plus_in_uri \in BOOLEAN
  /\ args_start \in Option(Nat \ {0}) /\ uri_ext \in Option(Nat)
  /\ args \in Slice /\ exten \in Slice /\ uri_len \in Nat
  /\ state \in UriStates \cup States
  /\ (pc \in {"call", "uri"}) => state \in UriStates
  /\ (pc \in {"complex", "normalized"}) => state \in States
  /\ p \in Nat
  /\ ch \in Byte /\ decoded \in 0 .. 15 /\ quoted_state \in Unquoted
  /\ u \in Nat
  /\ out \in Option([0 .. uri_end -> Byte])
  /\ (pc \in {"complex", "normalized"}) => out \in [0 .. uri_end -> Byte]
  /\ result \in Option(Outcome)
  /\ pc = "ok" => result \in Outcome

(***************************************************************************)
(* The output never overtakes the input: stage 2 has always written fewer  *)
(* bytes than it has read, so every write is inside the buffer and the     *)
(* path is no longer than the target (the claim of the comment on the      *)
(* allocation in parse_origin_form).                                       *)
(***************************************************************************)
OutputFits ==
  /\ pc = "complex" => u < p /\ p <= uri_end + 1
  /\ pc = "normalized" => uri_len <= uri_end
  /\ pc = "ok" => PathLen <= uri_end

(***************************************************************************)
(* While stage 2 runs, its state tells what the buffer ends with: a slash, *)
(* "/." or "/..".  The subtractions u - 1 and the index of the backwards   *)
(* scan rest on it, and so does the claim that the scan finds a slash      *)
(* whenever it is begun at all.                                            *)
(***************************************************************************)
StateTellsOutput ==
  pc = "complex" =>
    /\ u > 0 => out[0] = SLASH
    /\ Resume = "Slash"  => u > 0 /\ out[u - 1] = SLASH
    /\ Resume = "Dot"    => u > 1 /\ out[u - 2] = SLASH /\ out[u - 1] = DOT
    /\ Resume = "DotDot" => /\ u > 2 /\ out[u - 3] = SLASH
                            /\ out[u - 2] = DOT /\ out[u - 1] = DOT

(* Byte i of the path s of n bytes is a slash that opens a segment of k    *)
(* dots.                                                                   *)
DotsAfter(s, n, i, k) ==
  /\ i + k < n /\ s[i] = SLASH
  /\ \A j \in i + 1 .. i + k : s[j] = DOT
  /\ (i + k + 1 = n) \/ s[i + k + 1] = SLASH

(***************************************************************************)
(* The path returned, borrowed or owned, is normal: it starts with a       *)
(* slash, has no segment "." or "..", no NUL and, if slashes are merged,   *)
(* no empty segment.  Stage 1 alone answers for a borrowed path.           *)
(***************************************************************************)
PathIsNormal ==
  pc = "ok" =>
    /\ PathLen > 0 /\ Path[0] = SLASH
    /\ \A i \in 0 .. PathLen - 1 :
         /\ Path[i] # 0
         /\ \A k \in 1 .. 2 : ~DotsAfter(Path, PathLen, i, k)
         /\ (merge_slashes /\ i > 0) => ~(Path[i - 1] = SLASH /\ Path[i] = SLASH)

(***************************************************************************)
(* The extension stage 2 records ends with the path, follows a dot and     *)
(* holds neither a slash nor a dot; so the subtraction in finish_done does *)
(* not wrap, although a comment on it says that it may.                    *)
(***************************************************************************)
ExtensionInsidePath ==
  (pc = "normalized" /\ exten.data # 0) =>
    /\ exten.data + exten.len = uri_len
    /\ out[exten.data - 1] = DOT
    /\ \A i \in exten.data .. uri_len - 1 : out[i] \notin {SLASH, DOT}

(***************************************************************************)
(* The query that is returned is the one the target has: the bytes after   *)
(* its first "?", if no "#" is before that, up to a "#" or the end; it is  *)
(* absent if the target ends with that "?".  It is found by stage 1, or    *)
(* again by stage 2 in one of two forms, and assembled by parsed_args.     *)
(***************************************************************************)
QueryMarks ==
  { q \in 0 .. uri_end - 1 :
      At(q) = QUESTION /\ \A i \in 0 .. q - 1 : At(i) \notin {QUESTION, HASH} }

QueryEnds(q) ==
  { e \in q + 1 .. uri_end :
      /\ \A i \in q + 1 .. e - 1 : At(i) # HASH
      /\ e = uri_end \/ At(e) = HASH }

QueryIsExact ==
  pc = "ok" =>
    \/ /\ result.args = None
       /\ \A q \in QueryMarks : q + 1 = uri_end
    \/ \E q \in QueryMarks : \E e \in QueryEnds(q) :
         /\ result.args = [len |-> e - q - 1, data |-> q + 1]
         /\ q + 1 # uri_end

(***************************************************************************)
(* A plus sign in the path is reported, whether stage 1 or stage 2 met it  *)
(* and whether it was escaped.                                             *)
(***************************************************************************)
PlusIsReported ==
  (pc = "ok" /\ \E i \in 0 .. PathLen - 1 : Path[i] = PLUS) => plus_in_uri

(***************************************************************************)
(* Every step of a stage makes progress: it reads a byte, or takes the one *)
(* step back from an escape to the byte it stands for, or leaves the       *)
(* stage.  With it, a stage takes at most two steps per byte.              *)
(***************************************************************************)
Measure == 2 * (uri_end + 1 - p) + (IF state = "QuotedSecond" THEN 1 ELSE 0)
Progress == [][pc' = pc => Measure' < Measure]_vars

(* Every call returns. *)
Termination == <>Returned
=============================================================================

---------------------------- MODULE MCOriginForm ----------------------------
(***************************************************************************)
(* Instances of OriginForm for TLC: the sets of targets the runs explore,  *)
(* and the comparison of what is returned with Normalization.              *)
(***************************************************************************)
EXTENDS StackMapping, SequencesExt

(* Targets of "/" and at most n tokens from T after it. *)
Rooted(T, n) == { <<SLASH>> \o FlattenSeq(s) : s \in BoundedSeq(T, n) }

a == 97
Slash == << SLASH >>
Escape(high, low) == << PERCENT, high, low >>
ESlash    == Escape(50, 70)     \* %2F
EDot      == Escape(50, 101)    \* %2e
EPercent  == Escape(50, 53)     \* %25
EHash     == Escape(50, 51)     \* %23
EQuestion == Escape(51, 102)    \* %3f
EPlus     == Escape(50, 66)     \* %2B
ENul      == Escape(48, 48)     \* %00

(* Segments of dots and letters, and the slashes between them. *)
SegmentTargets == Rooted({ <<SLASH>>, <<DOT>>, <<a>> }, 8)

(* Escapes beside the bytes they stand for. *)
EscapeTargets ==
  Rooted({ <<SLASH>>, <<DOT>>, ESlash, EDot, EPercent, EPlus, <<a>> }, 4)
    \cup Rooted({ <<DOT>>, EDot, EHash, EQuestion, ENul, <<PERCENT>>,
                  <<PERCENT, a>>, <<QUESTION>>, <<PLUS>>, <<SLASH>> }, 3)

(* Queries and fragments after paths of every kind. *)
QueryTargets ==
  Rooted({ <<QUESTION>>, <<HASH>>, <<DOT>>, <<SLASH>>, <<a>>, <<PLUS>>, EPercent }, 4)

(* Every byte in every state of stage 1, the digits of an escape at the    *)
(* edges of their ranges, and targets that do not start with a slash.      *)
Edges == { 0, 10, 32, 34, 35, 37, 43, 46, 47, 48, 57, 58, 63, 64, 65, 70, 71,
           96, 97, 102, 103, 127, 128, 255 }
ByteTargets ==
  { << >> } \cup { << b >> : b \in Byte }
    \cup { pre \o << b >> : b \in Byte,
             pre \in { <<SLASH>>, <<SLASH, a>>, <<SLASH, SLASH>>, <<SLASH, DOT>> } }
    \cup { << SLASH, PERCENT, b, c >> : b, c \in Edges }

PathTargets         == SegmentTargets \cup EscapeTargets
QueryAndByteTargets == QueryTargets \cup ByteTargets
-----------------------------------------------------------------------------
N == INSTANCE Normalization

(***************************************************************************)
(* The value returned is the one Normalization gives for the target: the   *)
(* same targets are refused, and of the others the path and the query are  *)
(* the same bytes, whether the path is borrowed or owned.                  *)
(***************************************************************************)
MatchesNormalization ==
  Returned =>
    LET expected == N!Normalized(target, merge_slashes) IN
    /\ (pc = "ok") = expected.ok
    /\ pc = "ok" =>
         /\ [ i \in 1 .. PathLen |-> Path[i - 1] ] = expected.path
         /\ IF result.args = None
            THEN expected.query = << >>
            ELSE expected.query =
                   << SubSeq(target, result.args.data + 1,
                             result.args.data + result.args.len) >>

(***************************************************************************)
(* README.md:28 of the repository: "Normalized paths allocate only when    *)
(* their bytes differ from the input".  Here: a path that is the whole     *)
(* target, byte for byte, is borrowed.                                     *)
(***************************************************************************)
AllocatesOnlyForOtherBytes ==
  (pc = "ok" /\ PathLen = uri_end /\ \A i \in 0 .. uri_end - 1 : Path[i] = At(i))
    => ~result.owned

(***************************************************************************)
(* The comment on word 1 of USUAL says that it excludes, among others, the *)
(* space and the quotation mark: no byte that stage 1 passes as usual is   *)
(* one of those it lists.                                                  *)
(***************************************************************************)
UsualExcludesListed ==
  (Scanning /\ state # "Start" /\ usual(Seen)) =>
    Seen \notin { 32, QUOTE, HASH, PERCENT, PLUS, SLASH, QUESTION }
=============================================================================

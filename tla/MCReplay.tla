------------------------------ MODULE MCReplay ------------------------------
(***************************************************************************)
(* Instances of Replay for TLC: the targets of the differential fuzzer.    *)
(***************************************************************************)
EXTENDS Replay, SequencesExt

a == 97

(* Every byte and escape that either parser has a branch for.              *)
Marks  == { <<SLASH>>, <<DOT>>, <<a>>, <<QUESTION>>, <<HASH>>, <<PLUS>>,
            <<PERCENT, 50, 101>>, <<PERCENT, 50, 70>> }
Tokens == Marks \cup { <<PERCENT, 50, 98>>, <<PERCENT, 50, 51>>,
                       <<PERCENT, 51, 70>>, <<PERCENT>> }
Dots   == { <<SLASH>>, <<DOT>>, <<a>> }

Rooted(T, n) == { <<SLASH>> \o FlattenSeq(s) : s \in BoundedSeq(T, n) }

MixedTargets == Rooted(Tokens, 2) \cup Rooted(Marks, 3) \cup Rooted(Dots, 5)

(* Every byte after a slash, in a segment and as either digit of an        *)
(* escape; and the bytes that a table or an arm names, with one neighbour  *)
(* of each kind, alone and after the openings of stage 2.                  *)
Edges == Named \cup { 0, LF, 32, QUOTE, a, DEL, 128, 255 }

ByteTargets ==
  { << >> } \cup { << b >> : b \in Edges }
    \cup { pre \o << b >> : b \in Byte,
             pre \in { <<SLASH>>, <<SLASH, a>>, <<SLASH, PERCENT>>,
                       <<SLASH, PERCENT, 50>> } }
    \cup { pre \o << b >> : b \in Edges,
             pre \in { <<SLASH, SLASH>>, <<SLASH, DOT>>, <<SLASH, DOT, DOT>> } }
    \cup { << SLASH, PERCENT, b, 102 >> : b \in Byte }

AllTargets == MixedTargets \cup ByteTargets
=============================================================================

----------------------------- MODULE MCOneToOne -----------------------------
(***************************************************************************)
(* An instance of OneToOne for TLC: a caller that keeps to the contract of *)
(* the wrapper, with enough memory.                                        *)
(***************************************************************************)
EXTENDS OneToOne, SequencesExt

a == 97
Tokens == { <<SLASH>>, <<DOT>>, <<a>>, <<QUESTION>>, <<HASH>>, <<PLUS>>,
            <<PERCENT, 50, 101>>, <<PERCENT, 50, 70>>, <<PERCENT, 50, 53>>, <<32>> }

Inputs1 ==
  { << >>, << a >> }
    \cup { <<SLASH>> \o FlattenSeq(s) : s \in BoundedSeq(Tokens, 3) }
    \cup { <<SLASH>> \o FlattenSeq(s) :
             s \in BoundedSeq({ <<SLASH>>, <<DOT>>, <<a>> }, 5) }
    \cup { <<SLASH, a>> \o FlattenSeq(s) : s \in BoundedSeq({ <<a>>, <<DOT>>, <<QUESTION>> }, 4) }

Exact(n) == { n + 1 }
=============================================================================

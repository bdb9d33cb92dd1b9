----------------------------- MODULE MCFuzzMain -----------------------------
(***************************************************************************)
(* An instance of FuzzMain for TLC: the byte values and the printable ones *)
(* are a few, the generator is the one of the code.                        *)
(***************************************************************************)
EXTENDS FuzzMain

SomeTargets == << << >>, << 47 >>, << 47, 46, 46 >>, << 47, 0 >> >>
SomePrintable == << 37, 46, 47 >>

(* Seed 0, the lowest and the highest bit, and the default. *)
DefaultSeed == U64(\h9E37, \h79B9, \h7F4A, \h7C15)
SomeSeeds == { Zero, U64(0, 0, 0, 1), U64(\h8000, 0, 0, 0), DefaultSeed }
=============================================================================

------------------------------ MODULE MCBench ------------------------------
(***************************************************************************)
(* The instance of Bench for TLC: the four inputs at their full length.    *)
(***************************************************************************)
EXTENDS Bench

FourCases == cases
=============================================================================

-------------------------------- MODULE Bench --------------------------------
(***************************************************************************)
(* The benchmark, src/bench/src/main.rs: its four long inputs, and the     *)
(* comparison of reference and port that main makes of each before it      *)
(* times them.  The timed calls repeat the compared one, and main panics   *)
(* if the port returns an error to them; clocks and output are left out.   *)
(***************************************************************************)
EXTENDS Differential, SequencesExt

CONSTANT GrowTo       \* the length the inputs grow to (1000)

ASSUME BenchAssumption == GrowTo \in Nat

VARIABLE asserted     \* what assert_eq of main finds

grow_CutToLength(prefix, unit) ==
  LET times == GrowTo \div Len(unit) + 1
  IN  SubSeq(prefix \o FlattenSeq([ i \in 1 .. times |-> unit ]), 1, GrowTo)

(* A prefix, and whole units after it until the length is reached. *)
grow(prefix, unit) ==
  LET missing == GrowTo - Len(prefix)
      times   == (missing + Len(unit) - 1) \div Len(unit)
  IN  prefix \o FlattenSeq([ i \in 1 .. times |-> unit ])

letters(n) == [ i \in 1 .. n |-> 96 + i ]
Simple     == grow(<< >>, << SLASH >> \o letters(10))        \* /abcdefghij
Decode     == grow(<< >>, << SLASH, PERCENT, 52, 49, PERCENT, 52, 50,
                             PERCENT, 52, 51, PERCENT, 52, 52 >>)  \* /%41%42%43%44
DotDot     == grow(<< SLASH, 98, 97, 115, 101 >>,            \* /base
                   << SLASH, 120, SLASH, DOT, DOT >>)        \* /x/..
SlashMerge == grow(<< >>, << SLASH, 97, SLASH, SLASH, 98, SLASH, SLASH, SLASH >>)

cases == { Simple, Decode, DotDot, SlashMerge }

bench_vars == << all_vars, asserted >>

BenchInit == CheckInit /\ target \in cases /\ merge_slashes /\ asserted = None

BenchCall == (CParse \/ RustParse) /\ UNCHANGED asserted

(* c_normalize: the path alone, or None if the reference does not accept.  *)
c_normalize == IF c_rc = 0 THEN c_reply.out ELSE None
r_res       == IF pc = "ok" THEN Path ELSE None

CrossCheck ==
  /\ c_pc = "returned" /\ Returned /\ asserted = None
  /\ asserted' = (c_normalize = r_res)
  /\ UNCHANGED all_vars

BenchNext == BenchCall \/ CrossCheck
BenchSpec == BenchInit /\ [][BenchNext]_bench_vars
-----------------------------------------------------------------------------
(***************************************************************************)
(* On inputs of a thousand bytes the assertion holds and both sides accept *)
(* the input (which the assertion does not say: two rejections are equal   *)
(* too), so no timed call of the port panics.                              *)
(***************************************************************************)
BenchRuns == asserted # None => asserted /\ pc = "ok"

(***************************************************************************)
(* Each input takes the way through the parsers that its comment gives:    *)
(* the simple one is borrowed and never enters stage 2, in either          *)
(* implementation; the others are normalized; every "/x/.." cancels out    *)
(* and runs of slashes collapse, from the first to the last of them.       *)
(***************************************************************************)
Reps(s, n) == FlattenSeq([ i \in 1 .. n |-> s ])
PathSeq    == [ i \in 1 .. PathLen |-> Path[i - 1] ]
CasesExercise ==
  asserted # None =>
    CASE target = Simple     -> PathSeq = target /\ ~result.owned /\ ~c_r.complex_uri
      [] target = Decode     -> /\ result.owned
                                /\ PathSeq = Reps(<< SLASH, 65, 66, 67, 68 >>,
                                                  uri_end \div 13)
      [] target = DotDot     -> PathSeq = << SLASH, 98, 97, 115, 101, SLASH >>
      [] target = SlashMerge -> /\ result.owned
                                /\ PathSeq = Reps(<< SLASH, 97, SLASH, 98 >>, uri_end \div 8)
                                               \o << SLASH >>
=============================================================================

------------------------------ MODULE FuzzMain ------------------------------
(***************************************************************************)
(* The fuzzer's main, src/fuzz/src/main.rs: the two escape sets, a fixed   *)
(* corpus, every short suffix of "/", and random inputs, each target       *)
(* compared by check until one diverges.                                   *)
(*                                                                         *)
(* What a call of check finds is a choice here (Differential is the model  *)
(* of the call); agreed remembers the calls that found no divergence.      *)
(***************************************************************************)
EXTENDS Rng

CONSTANTS
  Corpus,       \* the fixed targets, a sequence
  ByteCount,    \* number of byte values (256): base of the first odometer
  Printable,    \* the printable bytes, a sequence (95): base of the second
  Seeds,        \* the seeds and numbers of iterations that the command line
  Iterations,   \*   may give
  None

ASSUME FuzzAssumption ==
  /\ ByteCount \in Nat \ {0} /\ Seeds \subseteq u64 /\ Iterations \subseteq Nat
  /\ Corpus \in Seq(Seq(Nat)) /\ Printable \in Seq(Nat)
  /\ None \notin Nat \cup {"SUCCESS", "FAILURE"}

VARIABLES
  seed, iterations,     \* the arguments
  byte, agree,          \* check_path_escape_set
  phase, exit,          \* the part of main that runs, and its exit code
  n, sweep, merge,      \* the loop variables
  rng, len, buf,        \* the random input, and the length drawn for it
  agreed

check_vars == << byte, agree >>
arguments  == << seed, iterations >>
random     == << rng, len, buf >>
vars == << arguments, check_vars, phase, exit, n, sweep, merge, random, agreed >>

E == INSTANCE EscapeSetCheck

Init ==
  /\ seed \in Seeds /\ iterations \in Iterations
  /\ E!Init
  /\ phase = "escape_set" /\ exit = None
  /\ n = 0 /\ sweep = 1 /\ merge = TRUE
  /\ rng = seed /\ len = None /\ buf = << >>
  /\ agreed = {}

In(part) == phase = part /\ exit = None

Enter(part) ==
  /\ phase' = part /\ n' = 0 /\ merge' = TRUE
  /\ UNCHANGED << arguments, exit, random, agreed >>

(* A call of check: it finds the same again, and a divergence ends main.   *)
Agrees(target, m) == agreed' = agreed \cup {<< target, m >>} /\ UNCHANGED exit
Diverges(target, m) ==
  << target, m >> \notin agreed /\ exit' = "FAILURE" /\ UNCHANGED agreed

(* One target of a corpus: with merge_slashes on, then off. *)
CheckTarget(target) ==
  /\ Agrees(target, merge) \/ Diverges(target, merge)
  /\ merge' = ~merge /\ n' = IF merge THEN n ELSE n + 1
  /\ UNCHANGED << arguments, check_vars, phase, sweep, random >>
-----------------------------------------------------------------------------
CheckEscapes ==
  /\ In("escape_set") /\ agree = "running"
  /\ E!Next
  /\ UNCHANGED << arguments, phase, exit, n, sweep, merge, random, agreed >>

EscapesChecked ==
  /\ In("escape_set") /\ agree # "running"
  /\ IF agree = "true"
     THEN Enter("corpus")
     ELSE /\ exit' = "FAILURE"
          /\ UNCHANGED << arguments, phase, n, merge, random, agreed >>
  /\ UNCHANGED << check_vars, sweep >>

CheckCorpus ==
  /\ In("corpus") /\ n < Len(Corpus)
  /\ CheckTarget(Corpus[n + 1])

CorpusChecked ==
  /\ In("corpus") /\ n = Len(Corpus)
  /\ Enter("suffixes")
  /\ UNCHANGED << check_vars, sweep >>
-----------------------------------------------------------------------------
(***************************************************************************)
(* The exhaustive sweeps: suffixes of one, two and three bytes, then of    *)
(* four printable ones.  The odometer writes the digits of the counter,    *)
(* lowest first, over the suffix of a buffer that is used again: it writes *)
(* the remainder of v by the base, and divides v for the next digit.       *)
(***************************************************************************)
ByteValues == [ v \in 1 .. ByteCount |-> v - 1 ]
Sweeps == << [alphabet |-> ByteValues, width |-> 1],
             [alphabet |-> ByteValues, width |-> 2],
             [alphabet |-> ByteValues, width |-> 3],
             [alphabet |-> Printable, width |-> 4] >>

Power(base, k)  == << base, base * base, base * base * base, base * base * base * base >>[k]
Total(s)        == Power(Len(s.alphabet), s.width)

Divided_Once(v, base, k) == IF k = 1 THEN v ELSE v \div base
Divided(v, base, k) ==
  << v, v \div base, (v \div base) \div base,
     ((v \div base) \div base) \div base >>[k]

Odometer(s, v) ==
  [ i \in 1 .. s.width |->
      s.alphabet[(Divided(v, Len(s.alphabet), i) % Len(s.alphabet)) + 1] ]

total  == Total(Sweeps[sweep])
Suffix == Odometer(Sweeps[sweep], n)

CheckSuffix ==
  /\ In("suffixes") /\ n < total
  /\ CheckTarget(<< 47 >> \o Suffix)

SuffixesChecked ==
  /\ In("suffixes") /\ n = total
  /\ IF sweep < Len(Sweeps) THEN Enter("suffixes") /\ sweep' = sweep + 1
                            ELSE Enter("random") /\ UNCHANGED sweep
  /\ UNCHANGED check_vars
-----------------------------------------------------------------------------
(* gen_input: a length up to 32, then the bytes, of which the first is a   *)
(* slash three times in four.                                              *)
ALPHABET ==
  << 47, 47, 47, 47, 46, 46, 46, 46, 37, 37, 37,           \* ////....%%%
     50, 101, 69, 102, 48, 97, 103, 90, 65, 122,           \* 2eEf0agZAz
     63, 35, 43, 32, 92, 58, 126, 61, 38,                  \* ?#+ \:~=&
     0, 127, 1, 128, 255, 45, 95 >>

draw1 == next_u64(rng)
draw2 == next_u64(draw1)

BeginInput ==
  /\ In("random") /\ len = None /\ n < iterations
  /\ rng' = draw1 /\ len' = below(draw1, 33) /\ buf' = << >>
  /\ UNCHANGED << arguments, check_vars, phase, exit, n, sweep, merge, agreed >>

FromAlphabet(x) == ALPHABET[below(x, Len(ALPHABET)) + 1]

PushByte ==
  /\ In("random") /\ len # None /\ Len(buf) < len
  /\ IF buf = << >>
     THEN IF below(draw1, 4) # 0
          THEN rng' = draw1 /\ buf' = << 47 >>
          ELSE rng' = draw2 /\ buf' = << FromAlphabet(draw2) >>
     ELSE rng' = draw1 /\ buf' = Append(buf, FromAlphabet(draw1))
  /\ UNCHANGED << arguments, check_vars, phase, exit, n, sweep, merge, len, agreed >>

(* A random input is checked once, with merge_slashes drawn as well. *)
CheckRandom ==
  /\ In("random") /\ len # None /\ Len(buf) = len
  /\ rng' = draw1
  /\ LET m == below(draw1, 2) = 0 IN Agrees(buf, m) \/ Diverges(buf, m)
  /\ n' = n + 1 /\ len' = None
  /\ UNCHANGED << arguments, check_vars, phase, sweep, merge, buf >>

AllPassed ==
  /\ In("random") /\ len = None /\ n = iterations
  /\ exit' = "SUCCESS"
  /\ UNCHANGED << arguments, check_vars, phase, n, sweep, merge, random, agreed >>

Next ==
  \/ CheckEscapes \/ EscapesChecked \/ CheckCorpus \/ CorpusChecked
  \/ CheckSuffix \/ SuffixesChecked
  \/ BeginInput \/ PushByte \/ CheckRandom \/ AllPassed

Spec == Init /\ [][Next]_vars
-----------------------------------------------------------------------------
(* The two escape sets are the same for every byte. *)
EscapeSetsAgree == E!EscapeSetsAgree

(***************************************************************************)
(* ALL PASSED means what the comments on the phases promise: every target  *)
(* of the corpus, "/" with every suffix of one to three bytes and "/" with *)
(* every one of four printable bytes has been compared, with merge_slashes *)
(* on and off, and none diverges.  No suffix is skipped or seen twice in   *)
(* place of another by the odometers, at their first and last value and    *)
(* between the sweeps.                                                     *)
(***************************************************************************)
AllSuffixes(S, k) == { << 47 >> \o s : s \in [1 .. k -> S] }
Promised ==
  { Corpus[i] : i \in DOMAIN Corpus }
    \cup (UNION { AllSuffixes(0 .. ByteCount - 1, k) : k \in 1 .. 3 })
    \cup AllSuffixes({ Printable[i] : i \in DOMAIN Printable }, 4)

SuccessIsExhaustive ==
  exit = "SUCCESS" => Promised \X BOOLEAN \subseteq agreed

(***************************************************************************)
(* The generator is stuck at 0, where every random input is the empty one, *)
(* if it was given the seed 0 and never otherwise, however long it runs:   *)
(* no other state of xorshift leads to 0.                                  *)
(***************************************************************************)
StuckOnlyAtSeedZero == rng = Zero <=> seed = Zero

(***************************************************************************)
(* The module's comment, src/fuzz/src/main.rs:3: "For each generated input *)
(* and both `merge_slashes` values".  Here: if all passed, every target    *)
(* that was compared at all was compared with both values.                 *)
(***************************************************************************)
BothMergeValues ==
  exit = "SUCCESS" => \A call \in agreed : << call[1], ~call[2] >> \in agreed
=============================================================================

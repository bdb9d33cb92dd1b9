--------------------------- MODULE FuzzMain_proofs ---------------------------
(***************************************************************************)
(* Proof that the generator of the fuzzer is stuck at 0 for the seed 0 and *)
(* for no other, for every seed and any number of iterations.              *)
(***************************************************************************)
EXTENDS FuzzMain, SequenceTheorems, TLAPS

(* A shift within 64 bits stays within them. *)
LEMMA ShiftType ==
  ASSUME NEW x \in u64, NEW k \in Nat
  PROVE  xor(x, shr(x, k)) \in u64 /\ xor(x, shl(x, k)) \in u64
BY DEF u64, xor, shr, shl

LEMMA XorZero ==
  ASSUME NEW x, NEW y, xor(x, y) = Zero
  PROVE  x = y
BY DEF xor, Zero

(* x ^= x >> k for a shift by at least 12 loses no nonzero x: a bit of x   *)
(* would need another k places higher, and after six of them there is no   *)
(* room.                                                                   *)
LEMMA ShiftRight ==
  ASSUME NEW x \in u64, NEW k \in 12 .. 63
  PROVE  xor(x, shr(x, k)) = Zero <=> x = Zero
<1>1. ASSUME xor(x, shr(x, k)) = Zero, NEW i \in x PROVE FALSE
  <2>1. x = shr(x, k)
    BY <1>1, XorZero
  <2>2. \A j \in x : j \in Bit /\ j + k \in x
    BY <2>1 DEF shr, u64
  <2>3. i \in Nat /\ k \in Nat /\ k >= 12
    BY <2>2 DEF Bit
  <2>4. i + k \in x /\ (i + k) + k \in x /\ ((i + k) + k) + k \in x
    BY <2>2
  <2>5. /\ (((i + k) + k) + k) + k \in x
        /\ ((((i + k) + k) + k) + k) + k \in x
        /\ (((((i + k) + k) + k) + k) + k) + k \in x
    BY <2>2, <2>4
  <2>6. (((((i + k) + k) + k) + k) + k) + k \in 0 .. 63
    BY <2>2, <2>5 DEF Bit
  <2> QED
    BY <2>3, <2>6
<1>2. ASSUME x = Zero PROVE xor(x, shr(x, k)) = Zero
  BY <1>2 DEF xor, shr, Zero
<1> QED
  BY <1>1, <1>2 DEF Zero

(* x ^= x << k likewise, with a bit k places lower. *)
LEMMA ShiftLeft ==
  ASSUME NEW x \in u64, NEW k \in 12 .. 63
  PROVE  xor(x, shl(x, k)) = Zero <=> x = Zero
<1>1. ASSUME xor(x, shl(x, k)) = Zero, NEW i \in x PROVE FALSE
  <2>1. x = shl(x, k)
    BY <1>1, XorZero
  <2>2. \A j \in x : j \in Bit /\ j - k \in x
    BY <2>1 DEF shl, u64
  <2>3. i \in 0 .. 63 /\ k \in Nat /\ k >= 12
    BY <2>2 DEF Bit
  <2>4. i - k \in x /\ (i - k) - k \in x /\ ((i - k) - k) - k \in x
    BY <2>2
  <2>5. /\ (((i - k) - k) - k) - k \in x
        /\ ((((i - k) - k) - k) - k) - k \in x
        /\ (((((i - k) - k) - k) - k) - k) - k \in x
    BY <2>2, <2>4
  <2>6. (((((i - k) - k) - k) - k) - k) - k \in 0 .. 63
    BY <2>2, <2>5 DEF Bit
  <2> QED
    BY <2>3, <2>6
<1>2. ASSUME x = Zero PROVE xor(x, shl(x, k)) = Zero
  BY <1>2 DEF xor, shl, Zero
<1> QED
  BY <1>1, <1>2 DEF Zero

(* The next state of the generator is 0 if and only if its state is. *)
LEMMA NextZero ==
  ASSUME NEW x \in u64
  PROVE  next_u64(x) \in u64 /\ (next_u64(x) = Zero <=> x = Zero)
<1> DEFINE a == xor(x, shr(x, 12))
           b == xor(a, shl(a, 25))
           c == xor(b, shr(b, 27))
<1>0. next_u64(x) = c
  BY DEF next_u64
<1>1. a \in u64 /\ (a = Zero <=> x = Zero)
  BY ShiftType, ShiftRight
<1> HIDE DEF a
<1>2. b \in u64 /\ (b = Zero <=> a = Zero)
  BY <1>1, ShiftType, ShiftLeft
<1> HIDE DEF b
<1>3. c \in u64 /\ (c = Zero <=> b = Zero)
  BY <1>2, ShiftType, ShiftRight, 27 \in 12 .. 63 /\ 27 \in Nat
<1> HIDE DEF c
<1> QED
  BY <1>0, <1>1, <1>2, <1>3

-----------------------------------------------------------------------------
(* What is inductive: with StuckOnlyAtSeedZero, that both are 64 bits wide *)
(* (a set with other elements could be shifted away).                      *)
RngInv == seed \in u64 /\ rng \in u64 /\ StuckOnlyAtSeedZero

LEMMA RngInit == Init => RngInv
BY FuzzAssumption DEF Init, RngInv, StuckOnlyAtSeedZero

(* A step of main leaves the generator alone, or draws from it once or     *)
(* twice; no step changes the seed.                                        *)
LEMMA StepDraws ==
  ASSUME Next
  PROVE  seed' = seed /\ rng' \in {rng, draw1, draw2}
<1>1. ASSUME NEW t, CheckTarget(t) PROVE seed' = seed /\ rng' = rng
  BY <1>1 DEF CheckTarget, arguments, random
<1>2. ASSUME NEW part, Enter(part) PROVE seed' = seed /\ rng' = rng
  BY <1>2 DEF Enter, arguments, random
<1>3. CASE CheckEscapes
  BY <1>3 DEF CheckEscapes, arguments, random
<1>4. CASE EscapesChecked
  BY <1>4, <1>2 DEF EscapesChecked, arguments, random
<1>5. CASE CheckCorpus
  BY <1>5, <1>1 DEF CheckCorpus
<1>6. CASE CorpusChecked
  BY <1>6, <1>2 DEF CorpusChecked
<1>7. CASE CheckSuffix
  BY <1>7, <1>1 DEF CheckSuffix
<1>8. CASE SuffixesChecked
  BY <1>8, <1>2 DEF SuffixesChecked
<1>9. CASE BeginInput
  BY <1>9 DEF BeginInput, arguments
<1>10. CASE PushByte
  BY <1>10 DEF PushByte, arguments
<1>11. CASE CheckRandom
  BY <1>11 DEF CheckRandom, arguments
<1>12. CASE AllPassed
  BY <1>12 DEF AllPassed, arguments, random
<1> QED
  BY <1>3, <1>4, <1>5, <1>6, <1>7, <1>8, <1>9, <1>10, <1>11, <1>12 DEF Next

LEMMA RngNext == RngInv /\ [Next]_vars => RngInv'
<1> SUFFICES ASSUME RngInv, [Next]_vars PROVE RngInv'
  OBVIOUS
<1>1. CASE Next
  <2>1. draw1 \in u64 /\ (draw1 = Zero <=> rng = Zero)
    BY NextZero DEF RngInv, draw1
  <2>2. draw2 \in u64 /\ (draw2 = Zero <=> draw1 = Zero)
    BY <2>1, NextZero DEF draw2
  <2> QED
    BY <1>1, <2>1, <2>2, StepDraws DEF RngInv, StuckOnlyAtSeedZero
<1>2. CASE UNCHANGED vars
  BY <1>2 DEF vars, arguments, random, RngInv, StuckOnlyAtSeedZero
<1> QED
  BY <1>1, <1>2

(* Whatever the seed and however many inputs are drawn, the generator      *)
(* reaches the state 0, where it stays and every input is empty, only if   *)
(* it was seeded with it.                                                  *)
THEOREM SeedDecides == Spec => []StuckOnlyAtSeedZero
<1>1. RngInv => StuckOnlyAtSeedZero
  BY DEF RngInv
<1> QED
  BY <1>1, RngInit, RngNext, PTL DEF Spec

-----------------------------------------------------------------------------
(***************************************************************************)
(* The odometers.  A digit more multiplies the counters by the base, and   *)
(* the next digit is found by one division more.                           *)
(***************************************************************************)
LEMMA NextDigit ==
  ASSUME NEW b \in Nat \ {0}, NEW m \in Nat, NEW q \in Nat, q < m,
         NEW r \in 0 .. b - 1
  PROVE  /\ q * b + r \in Nat
         /\ q * b + r < m * b
         /\ (q * b + r) \div b = q
         /\ (q * b + r) % b = r
<1>1. q * b \in Nat /\ m * b \in Nat
  OBVIOUS
<1>2. q * b + b <= m * b
  <2>1. \A x \in Nat : x * b >= 0
    OBVIOUS
  <2>2. m - (q + 1) \in Nat
    OBVIOUS
  <2>3. (m - (q + 1)) * b >= 0
    BY <2>1, <2>2
  <2>4. (m - (q + 1)) * b = m * b - (q * b + b)
    OBVIOUS
  <2> QED
    BY <2>3, <2>4, <1>1
<1> DEFINE v == q * b + r
<1>3. v \in Nat /\ v < m * b
  BY <1>1, <1>2
<1>4. v \div b = q /\ v % b = r
  OBVIOUS
<1> QED
  BY <1>3, <1>4

(* Every choice of k digits is what the odometer shows for some counter.   *)
LEMMA DigitsReached ==
  ASSUME NEW b \in Nat \ {0}, NEW k \in 1 .. 4, NEW d \in [1 .. k -> 0 .. b - 1]
  PROVE  \E v \in Nat : /\ v < Power(b, k)
                       /\ \A i \in 1 .. k : Divided(v, b, i) % b = d[i]
<1> DEFINE w1 == d[k]
           w2 == w1 * b + d[k - 1]
           w3 == w2 * b + d[k - 2]
           w4 == w3 * b + d[k - 3]
<1>1. w1 \in Nat /\ w1 < b /\ w1 % b = d[k]
  <2>1. d[k] \in 0 .. b - 1
    OBVIOUS
  <2> QED
    BY <2>1
<1> HIDE DEF w1
<1>2. CASE k = 1
  <2>1. w1 < Power(b, 1) /\ Divided(w1, b, 1) = w1
    BY <1>1 DEF Power, Divided
  <2> QED
    BY <1>1, <1>2, <2>1
<1>3. ASSUME k > 1
      PROVE  /\ w2 \in Nat /\ w2 < b * b
             /\ w2 \div b = w1 /\ w2 % b = d[k - 1]
  <2>1. d[k - 1] \in 0 .. b - 1
    BY <1>3
  <2> QED
    BY <2>1, <1>1, NextDigit
<1> HIDE DEF w2
<1>4. CASE k = 2
  <2>1. /\ w2 < Power(b, 2)
        /\ Divided(w2, b, 1) = w2 /\ Divided(w2, b, 2) = w2 \div b
    BY <1>3, <1>4 DEF Power, Divided
  <2>2. \A i \in 1 .. 2 : i = 1 \/ i = 2
    OBVIOUS
  <2> QED
    BY <1>1, <1>3, <1>4, <2>1, <2>2
<1>5. ASSUME k > 2
      PROVE  /\ w3 \in Nat /\ w3 < b * b * b
             /\ w3 \div b = w2 /\ w3 % b = d[k - 2]
  <2> DEFINE m == b * b
             r == d[k - 2]
  <2>1. /\ r \in 0 .. b - 1 /\ m \in Nat /\ w2 \in Nat /\ w2 < m
        /\ w3 = w2 * b + r
    BY <1>3, <1>5
  <2>2. b * b * b = m * b
    OBVIOUS
  <2> HIDE DEF m, r, w3
  <2>3. w3 \in Nat /\ w3 < m * b /\ w3 \div b = w2 /\ w3 % b = r
    BY <2>1, NextDigit
  <2> QED
    BY <2>2, <2>3 DEF r
<1> HIDE DEF w3
<1>6. CASE k = 3
  <2>1. /\ w3 < Power(b, 3)
        /\ Divided(w3, b, 1) = w3 /\ Divided(w3, b, 2) = w3 \div b
        /\ Divided(w3, b, 3) = (w3 \div b) \div b
    BY <1>5, <1>6 DEF Power, Divided
  <2>2. \A i \in 1 .. 3 : i = 1 \/ i = 2 \/ i = 3
    OBVIOUS
  <2> QED
    BY <1>1, <1>3, <1>5, <1>6, <2>1, <2>2
<1>7. ASSUME k > 3
      PROVE  /\ w4 \in Nat /\ w4 < b * b * b * b
             /\ w4 \div b = w3 /\ w4 % b = d[k - 3]
  <2> DEFINE m == b * b * b
             r == d[k - 3]
  <2>1. /\ r \in 0 .. b - 1 /\ m \in Nat /\ w3 \in Nat /\ w3 < m
        /\ w4 = w3 * b + r
    BY <1>5, <1>7
  <2>2. b * b * b * b = m * b
    OBVIOUS
  <2> HIDE DEF m, r, w4
  <2>3. w4 \in Nat /\ w4 < m * b /\ w4 \div b = w3 /\ w4 % b = r
    BY <2>1, NextDigit
  <2> QED
    BY <2>2, <2>3 DEF r
<1> HIDE DEF w4
<1>8. CASE k = 4
  <2>1. /\ w4 < Power(b, 4)
        /\ Divided(w4, b, 1) = w4 /\ Divided(w4, b, 2) = w4 \div b
        /\ Divided(w4, b, 3) = (w4 \div b) \div b
        /\ Divided(w4, b, 4) = ((w4 \div b) \div b) \div b
    BY <1>7, <1>8 DEF Power, Divided
  <2>2. \A i \in 1 .. 4 : i = 1 \/ i = 2 \/ i = 3 \/ i = 4
    OBVIOUS
  <2> QED
    BY <1>1, <1>3, <1>5, <1>7, <1>8, <2>1, <2>2
<1> QED
  BY <1>2, <1>4, <1>6, <1>8

(* A sweep: an alphabet and the width of its suffixes. *)
IsSweep(s) == s.alphabet \in Seq(Nat) /\ s.width \in 1 .. 4

(* No suffix is skipped: each is written for a counter below the total. *)
LEMMA SuffixReached ==
  ASSUME NEW s, IsSweep(s),
         NEW f \in [1 .. s.width -> { s.alphabet[i] : i \in DOMAIN s.alphabet }]
  PROVE  \E v \in Nat : v < Total(s) /\ Odometer(s, v) = f
<1> DEFINE A == s.alphabet
           b == Len(A)
           k == s.width
           d == [ i \in 1 .. k |-> (CHOOSE j \in 1 .. b : A[j] = f[i]) - 1 ]
<1>1. b \in Nat /\ DOMAIN A = 1 .. b /\ k \in 1 .. 4
  BY DEF IsSweep
<1>2. \A i \in 1 .. k : \E j \in 1 .. b : A[j] = f[i]
  BY <1>1
<1>3. \A i \in 1 .. k : d[i] \in 0 .. b - 1 /\ A[d[i] + 1] = f[i]
  <2> SUFFICES ASSUME NEW i \in 1 .. k
               PROVE  d[i] \in 0 .. b - 1 /\ A[d[i] + 1] = f[i]
    OBVIOUS
  <2> DEFINE j == CHOOSE j \in 1 .. b : A[j] = f[i]
  <2>1. j \in 1 .. b /\ A[j] = f[i]
    BY <1>2
  <2>2. d[i] = j - 1
    OBVIOUS
  <2> HIDE DEF j, d
  <2>3. d[i] + 1 = j /\ d[i] \in 0 .. b - 1
    BY <2>1, <2>2, <1>1
  <2> QED
    BY <2>1, <2>3
<1>5. d \in [1 .. k -> 0 .. b - 1]
  BY <1>3
<1> HIDE DEF d
<1>4. b # 0
  <2>1. 1 \in 1 .. k
    BY <1>1
  <2>2. d[1] \in 0 .. b - 1
    BY <2>1, <1>3
  <2> QED
    BY <2>2, <1>1
<1>6. PICK v \in Nat : /\ v < Power(b, k)
                      /\ \A i \in 1 .. k : Divided(v, b, i) % b = d[i]
  BY <1>1, <1>4, <1>5, DigitsReached
<1>7. \A i \in 1 .. k : Odometer(s, v)[i] = f[i]
  BY <1>3, <1>6 DEF Odometer
<1>8. DOMAIN Odometer(s, v) = 1 .. k /\ Odometer(s, v) = [i \in 1 .. k |-> Odometer(s, v)[i]]
  BY DEF Odometer
<1>9. Odometer(s, v) = f
  BY <1>7, <1>8
<1> QED
  BY <1>6, <1>9 DEF Total

LEMMA SweepTypes ==
  /\ Len(Sweeps) = 4
  /\ \A k \in 1 .. 4 : IsSweep(Sweeps[k]) /\ Total(Sweeps[k]) \in Nat
<1>1. ByteValues \in Seq(Nat)
  <2>1. ByteValues \in [1 .. ByteCount -> Nat] /\ ByteCount \in Nat
    BY FuzzAssumption DEF ByteValues
  <2> QED
    BY <2>1, SeqDef
<1>2. Len(Sweeps) = 4
  BY DEF Sweeps
<1>3. \A k \in 1 .. 4 : IsSweep(Sweeps[k])
  BY <1>1, FuzzAssumption DEF Sweeps, IsSweep
<1>4. \A k \in 1 .. 4 : Total(Sweeps[k]) \in Nat
  <2> SUFFICES ASSUME NEW k \in 1 .. 4 PROVE Total(Sweeps[k]) \in Nat
    OBVIOUS
  <2> DEFINE b == Len(Sweeps[k].alphabet)
             w == Sweeps[k].width
  <2>1. b \in Nat /\ w \in 1 .. 4
    BY <1>3 DEF IsSweep
  <2> HIDE DEF b, w
  <2>2. /\ b * b \in Nat /\ b * b * b \in Nat /\ b * b * b * b \in Nat
    BY <2>1
  <2>3. Power(b, w) \in Nat
    BY <2>1, <2>2 DEF Power
  <2> QED
    BY <2>3 DEF Total, b, w
<1> QED
  BY <1>2, <1>3, <1>4

-----------------------------------------------------------------------------
(***************************************************************************)
(* What is inductive about the loops: each has called check with both      *)
(* values of merge_slashes for every target before the current one, and    *)
(* the loops before it for all of theirs, unless one of the calls failed.  *)
(***************************************************************************)
Compared(t) == << t, TRUE >> \in agreed /\ << t, FALSE >> \in agreed

Target(s, v) == << 47 >> \o Odometer(s, v)

CorpusCompared(k) == \A i \in 1 .. k : Compared(Corpus[i])
SweepCompared(s, k) == \A v \in 0 .. k - 1 : Compared(Target(s, v))

(* The first of the two calls for the current target is done. *)
HalfCompared(t) == merge = FALSE => << t, TRUE >> \in agreed

InCorpus ==
  /\ n \in 0 .. Len(Corpus) /\ CorpusCompared(n)
  /\ merge = FALSE => n < Len(Corpus)
  /\ HalfCompared(Corpus[n + 1])

InSuffixes ==
  /\ CorpusCompared(Len(Corpus))
  /\ \A s \in 1 .. sweep - 1 : SweepCompared(Sweeps[s], Total(Sweeps[s]))
  /\ n \in 0 .. total /\ SweepCompared(Sweeps[sweep], n)
  /\ merge = FALSE => n < total
  /\ HalfCompared(Target(Sweeps[sweep], n))

AfterSweeps ==
  /\ CorpusCompared(Len(Corpus))
  /\ \A s \in 1 .. 4 : SweepCompared(Sweeps[s], Total(Sweeps[s]))

LoopInv ==
  /\ sweep \in 1 .. 4 /\ merge \in BOOLEAN
  /\ exit \in {None, "SUCCESS", "FAILURE"}
  /\ exit = "SUCCESS" => phase = "random"
  /\ phase \in {"escape_set", "corpus"} => sweep = 1
  /\ exit # "FAILURE" =>
       /\ phase = "corpus" => InCorpus
       /\ phase = "suffixes" => InSuffixes
       /\ phase = "random" => AfterSweeps

LEMMA LoopInit == Init => LoopInv
BY FuzzAssumption DEF Init, LoopInv

(* What has been compared stays so. *)
LEMMA ComparedStays ==
  ASSUME agreed \subseteq agreed'
  PROVE  /\ \A t : Compared(t) => Compared(t)'
         /\ \A k : CorpusCompared(k) => CorpusCompared(k)'
         /\ \A s, k : SweepCompared(s, k) => SweepCompared(s, k)'
BY DEF Compared, CorpusCompared, SweepCompared

(* A call of check for the current target, and the loop's counters.        *)
LEMMA TargetChecked ==
  ASSUME NEW t, CheckTarget(t), merge \in BOOLEAN, HalfCompared(t), n \in Nat,
         exit = None
  PROVE  /\ agreed \subseteq agreed' /\ merge' \in BOOLEAN
         /\ exit' \in {None, "FAILURE"}
         /\ UNCHANGED << phase, sweep >>
         /\ exit' # "FAILURE" =>
              \/ merge' = FALSE /\ n' = n /\ << t, TRUE >> \in agreed'
              \/ merge' = TRUE /\ n' = n + 1 /\ Compared(t)'
<1>1. CASE Agrees(t, merge)
  BY <1>1, FuzzAssumption DEF Agrees, CheckTarget, HalfCompared, Compared
<1>2. CASE Diverges(t, merge)
  BY <1>2, FuzzAssumption DEF Diverges, CheckTarget
<1> QED
  BY <1>1, <1>2 DEF CheckTarget

LEMMA CorpusStep ==
  ASSUME LoopInv, CheckCorpus
  PROVE  LoopInv'
<1>0. PICK t : t = Corpus[n + 1]
  OBVIOUS
<1>1. /\ phase = "corpus" /\ exit = None /\ n < Len(Corpus) /\ CheckTarget(t)
      /\ InCorpus /\ sweep = 1
  BY <1>0, FuzzAssumption DEF CheckCorpus, In, LoopInv
<1>2. n \in Nat /\ HalfCompared(t) /\ CorpusCompared(n) /\ Len(Corpus) \in Nat
  BY <1>0, <1>1, FuzzAssumption DEF InCorpus
<1>3. /\ agreed \subseteq agreed' /\ merge' \in BOOLEAN /\ exit' \in {None, "FAILURE"}
      /\ UNCHANGED << phase, sweep >>
      /\ exit' # "FAILURE" =>
           \/ merge' = FALSE /\ n' = n /\ << t, TRUE >> \in agreed'
           \/ merge' = TRUE /\ n' = n + 1 /\ Compared(t)'
  BY <1>1, <1>2, TargetChecked DEF LoopInv
<1>4. CorpusCompared(n)'  \/ n' # n
  BY <1>2, <1>3, ComparedStays
<1>5. ASSUME exit' # "FAILURE" PROVE InCorpus'
  <2>1. CASE merge' = FALSE /\ n' = n /\ << t, TRUE >> \in agreed'
    BY <1>0, <1>1, <1>2, <1>4, <2>1 DEF InCorpus, HalfCompared
  <2>2. CASE merge' = TRUE /\ n' = n + 1 /\ Compared(t)'
    <3>1. \A i \in 1 .. n : Compared(Corpus[i])'
      BY <1>2, <1>3, ComparedStays DEF CorpusCompared
    <3>2. \A i \in 1 .. n + 1 : i \in 1 .. n \/ i = n + 1
      BY <1>2
    <3>3. CorpusCompared(n)'
      BY <1>0, <2>2, <3>1, <3>2 DEF CorpusCompared
    <3> QED
      BY <1>1, <1>2, <2>2, <3>3 DEF InCorpus, HalfCompared
  <2> QED
    BY <1>3, <1>5, <2>1, <2>2
<1> QED
  BY <1>1, <1>3, <1>5, FuzzAssumption DEF LoopInv

LEMMA SuffixStep ==
  ASSUME LoopInv, CheckSuffix
  PROVE  LoopInv'
<1>0. PICK s, t : s = Sweeps[sweep] /\ t = Target(s, n)
  OBVIOUS
<1>1. /\ phase = "suffixes" /\ exit = None /\ n < total /\ CheckTarget(t)
      /\ InSuffixes /\ sweep \in 1 .. 4
  BY <1>0, FuzzAssumption DEF CheckSuffix, In, LoopInv, Suffix, Target
<1>2. n \in Nat /\ HalfCompared(t) /\ SweepCompared(s, n) /\ total \in Nat
  BY <1>0, <1>1, SweepTypes DEF InSuffixes, total
<1>3. /\ agreed \subseteq agreed' /\ merge' \in BOOLEAN /\ exit' \in {None, "FAILURE"}
      /\ UNCHANGED << phase, sweep >>
      /\ exit' # "FAILURE" =>
           \/ merge' = FALSE /\ n' = n /\ << t, TRUE >> \in agreed'
           \/ merge' = TRUE /\ n' = n + 1 /\ Compared(t)'
  BY <1>1, <1>2, TargetChecked DEF LoopInv
<1>4. /\ CorpusCompared(Len(Corpus))' /\ total' = total
      /\ \A k \in 1 .. sweep - 1 : SweepCompared(Sweeps[k], Total(Sweeps[k]))'
  BY <1>1, <1>3, ComparedStays DEF InSuffixes, total
<1>5. ASSUME exit' # "FAILURE" PROVE InSuffixes'
  <2>1. CASE merge' = FALSE /\ n' = n /\ << t, TRUE >> \in agreed'
    <3>1. SweepCompared(s, n)'
      BY <1>2, <1>3, <2>1, ComparedStays DEF SweepCompared
    <3> QED
      BY <1>0, <1>1, <1>2, <1>3, <1>4, <2>1, <3>1 DEF InSuffixes, HalfCompared
  <2>2. CASE merge' = TRUE /\ n' = n + 1 /\ Compared(t)'
    <3>1. \A v \in 0 .. n - 1 : Compared(Target(s, v))'
      BY <1>2, <1>3, ComparedStays DEF SweepCompared
    <3>2. \A v \in 0 .. n' - 1 : v \in 0 .. n - 1 \/ v = n
      BY <1>2, <2>2
    <3>3. SweepCompared(s, n)'
      BY <1>0, <1>3, <2>2, <3>1, <3>2 DEF SweepCompared
    <3> QED
      BY <1>0, <1>1, <1>2, <1>3, <1>4, <2>2, <3>3 DEF InSuffixes, HalfCompared
  <2> QED
    BY <1>3, <1>5, <2>1, <2>2
<1> QED
  BY <1>1, <1>3, <1>5, FuzzAssumption DEF LoopInv

(* A part of main ends and the next one begins, at its first target. *)
LEMMA PartEnds ==
  ASSUME LoopInv, EscapesChecked \/ CorpusChecked \/ SuffixesChecked
  PROVE  LoopInv'
<1>1. CASE EscapesChecked
  <2>1. phase = "escape_set" /\ exit = None /\ sweep' = sweep /\ sweep = 1
    BY <1>1 DEF EscapesChecked, In, LoopInv
  <2>2. CASE Enter("corpus")
    <3>1. Len(Corpus) \in Nat
      BY FuzzAssumption
    <3>2. n' = 0 /\ merge' = TRUE /\ phase' = "corpus" /\ exit' = exit
      BY <2>2 DEF Enter
    <3>3. InCorpus'
      BY <3>1, <3>2 DEF InCorpus, CorpusCompared, HalfCompared
    <3> QED
      BY <2>1, <3>2, <3>3, FuzzAssumption DEF LoopInv
  <2>3. CASE exit' = "FAILURE" /\ UNCHANGED << phase, merge >>
    BY <2>1, <2>3 DEF LoopInv
  <2> QED
    BY <1>1, <2>2, <2>3 DEF EscapesChecked
<1>2. CASE CorpusChecked
  <2>1. /\ phase = "corpus" /\ exit = None /\ n = Len(Corpus) /\ sweep' = 1
        /\ Enter("suffixes")
    BY <1>2 DEF CorpusChecked, In, LoopInv
  <2>2. /\ n' = 0 /\ merge' = TRUE /\ phase' = "suffixes"
        /\ UNCHANGED << exit, agreed >>
    BY <2>1 DEF Enter
  <2>3. CorpusCompared(Len(Corpus))'
    <3>1. CorpusCompared(Len(Corpus))
      BY <2>1, FuzzAssumption DEF LoopInv, InCorpus
    <3> QED
      BY <3>1, <2>2, ComparedStays
  <2>4. total' \in Nat
    BY <2>1, SweepTypes DEF total
  <2>5. InSuffixes'
    <3>1. 1 .. sweep' - 1 = {}
      BY <2>1
    <3>2. SweepCompared(Sweeps[sweep], n)'
      BY <2>2 DEF SweepCompared
    <3> QED
      BY <2>2, <2>3, <2>4, <3>1, <3>2 DEF InSuffixes, HalfCompared
  <2> QED
    BY <2>1, <2>2, <2>5, FuzzAssumption DEF LoopInv
<1>3. CASE SuffixesChecked
  <2>1. /\ phase = "suffixes" /\ exit = None /\ n = total /\ InSuffixes
        /\ sweep \in 1 .. 4
    BY <1>3, FuzzAssumption DEF SuffixesChecked, In, LoopInv
  <2>2. \A k \in 1 .. sweep : SweepCompared(Sweeps[k], Total(Sweeps[k]))
    <3>1. SweepCompared(Sweeps[sweep], Total(Sweeps[sweep]))
      BY <2>1 DEF InSuffixes, total
    <3>2. \A k \in 1 .. sweep : k \in 1 .. sweep - 1 \/ k = sweep
      BY <2>1
    <3> QED
      BY <2>1, <3>1, <3>2 DEF InSuffixes
  <2>3. CASE sweep < 4 /\ Enter("suffixes") /\ sweep' = sweep + 1
    <3>1. /\ n' = 0 /\ merge' = TRUE /\ phase' = "suffixes"
          /\ UNCHANGED << exit, agreed >> /\ sweep' \in 1 .. 4
          /\ sweep' - 1 = sweep
      BY <2>1, <2>3 DEF Enter
    <3>2. /\ CorpusCompared(Len(Corpus))'
          /\ \A k \in 1 .. sweep : SweepCompared(Sweeps[k], Total(Sweeps[k]))'
      BY <2>1, <2>2, <3>1, ComparedStays DEF InSuffixes
    <3>3. total' \in Nat
      BY <3>1, SweepTypes DEF total
    <3>4. SweepCompared(Sweeps[sweep], n)'
      BY <3>1 DEF SweepCompared
    <3>5. InSuffixes'
      <4>1. \A k \in 1 .. sweep' - 1 : k \in 1 .. sweep
        BY <3>1
      <4>2. \A k \in 1 .. sweep' - 1 : SweepCompared(Sweeps[k], Total(Sweeps[k]))'
        BY <3>2, <4>1
      <4>3. n' \in 0 .. total'
        BY <3>1, <3>3
      <4> QED
        BY <3>1, <3>2, <3>4, <4>2, <4>3 DEF InSuffixes, HalfCompared
    <3> QED
      BY <2>1, <3>1, <3>5, FuzzAssumption DEF LoopInv
  <2>4. CASE sweep >= 4 /\ Enter("random") /\ UNCHANGED sweep
    <3>1. /\ merge' = TRUE /\ phase' = "random" /\ sweep = 4
          /\ UNCHANGED << exit, agreed >>
      BY <2>1, <2>4 DEF Enter
    <3>2. AfterSweeps'
      BY <2>1, <2>2, <3>1, ComparedStays DEF InSuffixes, AfterSweeps
    <3> QED
      BY <2>1, <2>4, <3>1, <3>2, FuzzAssumption DEF LoopInv
  <2> QED
    BY <1>3, <2>1, <2>3, <2>4, SweepTypes DEF SuffixesChecked
<1> QED
  BY <1>1, <1>2, <1>3

(* The random phase only adds to what has been compared. *)
LEMMA RandomStep ==
  ASSUME LoopInv, BeginInput \/ PushByte \/ CheckRandom \/ AllPassed
  PROVE  LoopInv'
<1>1. /\ phase = "random" /\ exit = None /\ phase' = "random"
      /\ UNCHANGED << sweep, merge >>
  BY DEF BeginInput, PushByte, CheckRandom, AllPassed, In
<1>2. /\ agreed \subseteq agreed' \/ exit' = "FAILURE"
      /\ exit' \in {None, "SUCCESS", "FAILURE"}
  <2>1. CASE CheckRandom
    BY <2>1, <1>1 DEF CheckRandom, Agrees, Diverges
  <2>2. CASE BeginInput \/ PushByte \/ AllPassed
    BY <2>2, <1>1 DEF BeginInput, PushByte, AllPassed, random
  <2> QED
    BY <2>1, <2>2
<1>3. AfterSweeps
  BY <1>1, FuzzAssumption DEF LoopInv
<1>4. exit' # "FAILURE" => AfterSweeps'
  BY <1>2, <1>3, ComparedStays DEF AfterSweeps
<1> QED
  BY <1>1, <1>2, <1>4 DEF LoopInv

LEMMA LoopNext == LoopInv /\ [Next]_vars => LoopInv'
<1> SUFFICES ASSUME LoopInv, [Next]_vars PROVE LoopInv'
  OBVIOUS
<1>1. CASE CheckEscapes \/ UNCHANGED vars
  <2>1. UNCHANGED << phase, exit, n, sweep, merge, agreed >>
    BY <1>1 DEF CheckEscapes, vars
  <2>2. /\ InCorpus => InCorpus'
        /\ InSuffixes => InSuffixes'
        /\ AfterSweeps => AfterSweeps'
    BY <2>1 DEF InCorpus, InSuffixes, AfterSweeps, HalfCompared, CorpusCompared,
                SweepCompared, Compared, total
  <2> QED
    BY <2>1, <2>2 DEF LoopInv
<1>2. CASE CheckCorpus
  BY <1>2, CorpusStep
<1>3. CASE CheckSuffix
  BY <1>3, SuffixStep
<1>4. CASE EscapesChecked \/ CorpusChecked \/ SuffixesChecked
  BY <1>4, PartEnds
<1>5. CASE BeginInput \/ PushByte \/ CheckRandom \/ AllPassed
  BY <1>5, RandomStep
<1> QED
  BY <1>1, <1>2, <1>3, <1>4, <1>5 DEF Next

(***************************************************************************)
(* ALL PASSED is earned: whatever the corpus, the number of byte values    *)
(* and the printable ones, the exit code is 0 only if every target that    *)
(* the comments of main promise has been compared with merge_slashes on    *)
(* and off.                                                                *)
(***************************************************************************)
THEOREM SuccessIsEarned == Spec => []SuccessIsExhaustive
<1>1. ASSUME LoopInv, exit = "SUCCESS", NEW t, t \in Promised
      PROVE  Compared(t)
  <2>1. AfterSweeps
    BY <1>1 DEF LoopInv
  <2>2. ASSUME NEW i \in DOMAIN Corpus PROVE Compared(Corpus[i])
    <3>1. i \in 1 .. Len(Corpus)
      BY <2>2, FuzzAssumption
    <3> QED
      BY <2>1, <3>1 DEF AfterSweeps, CorpusCompared
  <2>3. ASSUME NEW k \in 1 .. 4,
               NEW f \in [1 .. Sweeps[k].width ->
                            { Sweeps[k].alphabet[i] : i \in DOMAIN Sweeps[k].alphabet }]
        PROVE  Compared(<< 47 >> \o f)
    <3>1. PICK v \in Nat : v < Total(Sweeps[k]) /\ Odometer(Sweeps[k], v) = f
      BY <2>3, SweepTypes, SuffixReached
    <3>2. v \in 0 .. Total(Sweeps[k]) - 1
      BY <3>1, SweepTypes
    <3> QED
      BY <2>1, <3>1, <3>2 DEF AfterSweeps, SweepCompared, Target
  <2>4. ASSUME NEW k \in 1 .. 3, NEW f \in [1 .. k -> 0 .. ByteCount - 1]
        PROVE  Compared(<< 47 >> \o f)
    <3>1. /\ k \in 1 .. 4 /\ Sweeps[k].width = k /\ Sweeps[k].alphabet = ByteValues
      BY DEF Sweeps
    <3>2. \A x \in 0 .. ByteCount - 1 : x + 1 \in DOMAIN ByteValues /\ ByteValues[x + 1] = x
      BY FuzzAssumption DEF ByteValues
    <3>3. 0 .. ByteCount - 1 \subseteq { ByteValues[i] : i \in DOMAIN ByteValues }
      BY <3>2
    <3>4. f \in [1 .. k -> { ByteValues[i] : i \in DOMAIN ByteValues }]
      BY <3>3
    <3> QED
      BY <3>1, <3>4, <2>3
  <2>5. ASSUME NEW f \in [1 .. 4 -> { Printable[i] : i \in DOMAIN Printable }]
        PROVE  Compared(<< 47 >> \o f)
    <3>1. Sweeps[4].width = 4 /\ Sweeps[4].alphabet = Printable
      BY DEF Sweeps
    <3>2. f \in [1 .. Sweeps[4].width ->
                    { Sweeps[4].alphabet[i] : i \in DOMAIN Sweeps[4].alphabet }]
      BY <3>1
    <3> QED
      BY <3>2, <2>3, 4 \in 1 .. 4
  <2>6. CASE t \in { Corpus[i] : i \in DOMAIN Corpus }
    BY <2>2, <2>6
  <2>7. CASE t \in UNION { AllSuffixes(0 .. ByteCount - 1, k) : k \in 1 .. 3 }
    <3>1. PICK k \in 1 .. 3 : t \in AllSuffixes(0 .. ByteCount - 1, k)
      BY <2>7
    <3>2. PICK f \in [1 .. k -> 0 .. ByteCount - 1] : t = << 47 >> \o f
      BY <3>1 DEF AllSuffixes
    <3> QED
      BY <3>2, <2>4
  <2>8. CASE t \in AllSuffixes({ Printable[i] : i \in DOMAIN Printable }, 4)
    <3>1. PICK f \in [1 .. 4 -> { Printable[i] : i \in DOMAIN Printable }] :
                 t = << 47 >> \o f
      BY <2>8 DEF AllSuffixes
    <3> QED
      BY <3>1, <2>5
  <2>9. \/ t \in { Corpus[i] : i \in DOMAIN Corpus }
        \/ t \in UNION { AllSuffixes(0 .. ByteCount - 1, k) : k \in 1 .. 3 }
        \/ t \in AllSuffixes({ Printable[i] : i \in DOMAIN Printable }, 4)
    BY <1>1 DEF Promised
  <2> QED
    BY <2>6, <2>7, <2>8, <2>9
<1>2. ASSUME LoopInv, exit = "SUCCESS", NEW t \in Promised, NEW m \in BOOLEAN
      PROVE  << t, m >> \in agreed
  <2>1. Compared(t)
    BY <1>1, <1>2
  <2>2. m = TRUE \/ m = FALSE
    OBVIOUS
  <2> QED
    BY <2>1, <2>2 DEF Compared
<1>3. LoopInv => SuccessIsExhaustive
  BY <1>2 DEF SuccessIsExhaustive
<1> QED
  BY <1>3, LoopInit, LoopNext, PTL DEF Spec
=============================================================================

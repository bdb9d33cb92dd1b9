-------------------------------- MODULE Rng --------------------------------
(***************************************************************************)
(* The generator of the fuzzer (struct Rng of src/fuzz/src/main.rs),       *)
(* xorshift64*.  A u64 is the set of the positions of its 1 bits: TLC's    *)
(* integers are too small for it.                                          *)
(***************************************************************************)
EXTENDS Integers, FiniteSets, SequencesExt

Bit  == 0 .. 63
u64  == SUBSET Bit
Zero == {}

(* The u64 with the given 16-bit quarters. *)
U64(a, b, c, d) ==
  { i \in Bit : (<< d, c, b, a >>[i \div 16 + 1] \div 2^(i % 16)) % 2 = 1 }

xor(x, y) == (x \ y) \cup (y \ x)
shr(x, k) == { i \in Bit : i + k \in x }
shl(x, k) == { i \in Bit : i - k \in x }

(***************************************************************************)
(* next_u64, the new state: x ^= x >> 12, x ^= x << 25, x ^= x >> 27.      *)
(***************************************************************************)
next_u64_NoXor(x) ==
  LET a == shr(x, 12)
      b == xor(a, shl(a, 25))
  IN  xor(b, shr(b, 27))

next_u64(x) ==
  LET a == xor(x, shr(x, 12))
      b == xor(a, shl(a, 25))
  IN  xor(b, shr(b, 27))

(***************************************************************************)
(* below(n), where next_u64 has left the state x: the remainder by n of x  *)
(* times a constant modulo 2^64, bit by bit from the lowest, with the      *)
(* carry of the product.                                                   *)
(***************************************************************************)
Multiplier == U64(\h2545, \hF491, \h4F6C, \hDD1D)

below(x, n) ==
  LET column(k) == Cardinality({ i \in x : k - i \in Multiplier })
      add(acc, k) ==
        LET sum == acc.carry + column(k)
        IN  [ carry |-> sum \div 2,
              power |-> (2 * acc.power) % n,
              rest  |-> (acc.rest + (sum % 2) * acc.power) % n ]
  IN  FoldLeft(add, [carry |-> 0, power |-> 1 % n, rest |-> 0],
               [ k \in 1 .. 64 |-> k - 1 ]).rest
=============================================================================

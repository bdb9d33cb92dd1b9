------------------------------- MODULE Bytes -------------------------------
(***************************************************************************)
(* Bytes of a request target, as the numbers 0..255, and the byte tests    *)
(* that both stages of the parser in src/src/lib.rs are written with.      *)
(***************************************************************************)
EXTENDS Integers

Byte == 0 .. 255

(* The bytes the two match statements name. *)
LF       == 10      \* the sentinel after the target
QUOTE    == 34      \* "
HASH     == 35      \* #
PERCENT  == 37      \* %
PLUS     == 43      \* +
DOT      == 46      \* .
SLASH    == 47      \* /
QUESTION == 63      \* ?
DEL      == 127

(***************************************************************************)
(* A 32-bit word of the table, given by its two halves, is the set of the  *)
(* positions of its 1 bits (TLC's integers hold no word above 2^31 - 1).   *)
(***************************************************************************)
Word(high, low) ==
  { i \in 0 .. 31 :
      ((IF i < 16 THEN low ELSE high) \div 2^(i % 16)) % 2 = 1 }

(* nginx's bitmap of the bytes that need no special handling. *)
USUAL ==
  << Word(0, 0), Word(\h7fff, \h37d6),
     Word(\hffff, \hffff), Word(\h7fff, \hffff),
     Word(\hffff, \hffff), Word(\hffff, \hffff),
     Word(\hffff, \hffff), Word(\hffff, \hffff) >>

usual(c) == (c % 32) \in USUAL[(c \div 32) + 1]

(* The bytes that have an arm of their own in the match statements. *)
Named == {DOT, PERCENT, SLASH, QUESTION, HASH, PLUS}

(* The bytes stage 1 refuses where it looks at a byte that is not usual. *)
Refused(c) == c <= 32 \/ c = DEL

IsDigit(c) == c \in 48 .. 57

(* c | 0x20, which maps the upper-case letters onto the lower-case ones. *)
OrCaseBit(c) == IF (c \div 32) % 2 = 0 THEN c + 32 ELSE c
IsHexLetter_G(c) == OrCaseBit(c) \in 97 .. 103
IsHexLetter(c) == OrCaseBit(c) \in 97 .. 102

IsHexDigit(c) == IsDigit(c) \/ IsHexLetter(c)

(* The value of one hexadecimal digit. *)
HexValue_OffByOne(c) == IF IsDigit(c) THEN c - 48 ELSE OrCaseBit(c) - 97 + 9
HexValue(c) == IF IsDigit(c) THEN c - 48 ELSE OrCaseBit(c) - 97 + 10
=============================================================================

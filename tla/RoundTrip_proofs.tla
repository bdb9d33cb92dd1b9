-------------------------- MODULE RoundTrip_proofs ---------------------------
(***************************************************************************)
(* The path that a call returns survives: encoded with PATH_ESCAPE_SET and *)
(* read by a second call, it comes back byte for byte.  Proved for every   *)
(* set of targets.                                                         *)
(***************************************************************************)
EXTENDS RoundTrip, OriginForm_proofs

(***************************************************************************)
(* FlattenSeq puts the pieces of E one after another: f[k] is the sequence *)
(* made of the first k pieces.                                             *)
(***************************************************************************)

(* f collects the first pieces of E, one more at each position. *)
Collects(f, E, n) ==
  /\ f = [ i \in 1 .. n |-> f[i] ]
  /\ \A i \in 1 .. n : f[i] = IF i = 1 THEN E[i] ELSE f[i - 1] \o E[i]

LEMMA Collector ==
  ASSUME NEW E, NEW N \in Nat
  PROVE  \E f : Collects(f, E, N)
<1> DEFINE Bad == { n \in Nat : ~ \E f : Collects(f, E, n) }
<1> SUFFICES ASSUME N \in Bad PROVE FALSE
  OBVIOUS
<1>1. PICK n \in Bad : \A m \in Bad : n <= m
  <2>1. Bad \subseteq Nat /\ Bad # {} OBVIOUS
  <2> HIDE DEF Bad
  <2> QED BY <2>1, Least
<1>2. n # 0
  <2>1. Collects([ i \in 1 .. 0 |-> 0 ], E, 0) BY DEF Collects
  <2> QED BY <2>1
<1>3. n - 1 \in Nat /\ n - 1 \notin Bad /\ n \in Nat
  BY <1>1, <1>2
<1>4. PICK f : Collects(f, E, n - 1)
  BY <1>3
<1> DEFINE last == IF n = 1 THEN E[n] ELSE f[n - 1] \o E[n]
           g == [ i \in 1 .. n |-> IF i = n THEN last ELSE f[i] ]
<1>5. ASSUME NEW i \in 1 .. n
      PROVE  g[i] = IF i = 1 THEN E[i] ELSE g[i - 1] \o E[i]
  <2>1. CASE i = n
    BY <1>3, <2>1
  <2>2. CASE i # n
    <3>1. i \in 1 .. n - 1 BY <1>3, <2>2
    <3>2. g[i] = f[i] BY <2>2
    <3>3. f[i] = IF i = 1 THEN E[i] ELSE f[i - 1] \o E[i]
      BY <1>4, <3>1 DEF Collects
    <3>4. i # 1 => g[i - 1] = f[i - 1] BY <1>3, <3>1
    <3> QED BY <3>2, <3>3, <3>4
  <2> QED BY <2>1, <2>2
<1>6. Collects(g, E, n)
  BY <1>5 DEF Collects
<1> QED BY <1>1, <1>6

LEMMA FlattenCollects ==
  ASSUME NEW E, Len(E) \in Nat, Len(E) # 0
  PROVE  \E f : Collects(f, E, Len(E)) /\ FlattenSeq(E) = f[Len(E)]
<1> DEFINE N == Len(E)
           body(f) == [ i \in 1 .. N |-> IF i = 1 THEN E[i] ELSE f[i - 1] \o E[i] ]
           flatten == CHOOSE f : f = body(f)
<1>1. PICK f : Collects(f, E, N) BY Collector
<1>2. f = body(f)
  BY <1>1 DEF Collects
<1>3. flatten = body(flatten)
  BY <1>2
<1>4. FlattenSeq(E) = flatten[N]
  BY DEF FlattenSeq
<1>5. Collects(flatten, E, N)
  <2> HIDE DEF flatten
  <2> QED BY <1>3 DEF Collects
<1> QED BY <1>4, <1>5

(* Where the first k pieces end. *)
End(f, k) == IF k = 0 THEN 0 ELSE Len(f[k])

(* Piece i lies in t between the ends of the first i - 1 and i pieces. *)
HasPiece(t, f, E, i) ==
  /\ End(f, i - 1) \in Nat /\ End(f, i) = End(f, i - 1) + Len(E[i])
  /\ End(f, i) <= Len(t)
  /\ \A j \in 1 .. Len(E[i]) : t[End(f, i - 1) + j] = E[i][j]

Covered(f, k) ==
  \A x \in 1 .. End(f, k) : \E i \in 1 .. k : End(f, i - 1) < x /\ x <= End(f, i)

LEMMA Concatenated ==
  ASSUME NEW S, NEW a \in Seq(S), NEW b \in Seq(S)
  PROVE  /\ a \o b \in Seq(S) /\ Len(a \o b) = Len(a) + Len(b)
         /\ Len(a) \in Nat /\ Len(b) \in Nat
         /\ \A i \in 1 .. Len(a) : (a \o b)[i] = a[i]
         /\ \A j \in 1 .. Len(b) : (a \o b)[Len(a) + j] = b[j]
OBVIOUS

LEMMA Within ==
  ASSUME NEW x \in Nat, NEW m \in Nat, NEW y, NEW z \in Nat, y = x + m, y <= z,
         NEW l \in 1 .. m
  PROVE  x + l \in 1 .. z
OBVIOUS

LEMMA Pieces ==
  ASSUME NEW S, NEW n \in Nat \ {0}, NEW E \in [1 .. n -> Seq(S)],
         NEW f, Collects(f, E, n)
  PROVE  \A k \in 1 .. n :
           /\ f[k] \in Seq(S) /\ Covered(f, k)
           /\ \A i \in 1 .. k : HasPiece(f[k], f, E, i)
<1> DEFINE Claim(k) == /\ f[k] \in Seq(S) /\ Covered(f, k)
                       /\ \A i \in 1 .. k : HasPiece(f[k], f, E, i)
           Bad == { k \in 1 .. n : ~Claim(k) }
<1> SUFFICES ASSUME Bad # {} PROVE FALSE
  OBVIOUS
<1>1. PICK k \in Bad : \A m \in Bad : k <= m
  <2>1. Bad \subseteq Nat OBVIOUS
  <2> HIDE DEF Bad
  <2> QED BY <2>1, Least
<1>2. k \in 1 .. n /\ ~Claim(k) /\ E[k] \in Seq(S) /\ Len(E[k]) \in Nat
  BY <1>1
<1>3. f[k] = IF k = 1 THEN E[k] ELSE f[k - 1] \o E[k]
  BY <1>2 DEF Collects
<1>4. CASE k = 1
  <2>1. f[1] = E[1] /\ f[1] \in Seq(S) /\ End(f, 0) = 0 /\ End(f, 1) = Len(E[1])
    BY <1>2, <1>3, <1>4 DEF End
  <2>2. HasPiece(f[1], f, E, 1)
    BY <1>2, <1>4, <2>1 DEF HasPiece
  <2>3. Covered(f, 1)
    BY <2>1 DEF Covered
  <2> QED BY <1>2, <1>4, <2>1, <2>2, <2>3
<1>5. CASE k # 1
  <2> DEFINE j == k - 1
  <2>1. j \in 1 .. n /\ j \notin Bad /\ k = j + 1
    BY <1>1, <1>2, <1>5
  <2>2. Claim(j)
    BY <2>1
  <2>3. f[k] = f[j] \o E[k] /\ f[j] \in Seq(S)
    BY <1>3, <1>5, <2>2
  <2>4. /\ f[k] \in Seq(S) /\ Len(f[k]) = Len(f[j]) + Len(E[k]) /\ Len(f[j]) \in Nat
        /\ \A i \in 1 .. Len(f[j]) : f[k][i] = f[j][i]
        /\ \A i \in 1 .. Len(E[k]) : f[k][Len(f[j]) + i] = E[k][i]
    BY <1>2, <2>3, Concatenated
  <2>5. End(f, k) = Len(f[k]) /\ End(f, j) = Len(f[j])
    BY <1>2, <2>1 DEF End
  <2>6. HasPiece(f[k], f, E, k)
    <3>1. End(f, k - 1) = Len(f[j]) /\ End(f, k) = Len(f[k])
      BY <2>1, <2>5
    <3>2. \A l \in 1 .. Len(E[k]) : f[k][End(f, k - 1) + l] = E[k][l]
      BY <2>4, <3>1
    <3> QED BY <2>4, <3>1, <3>2 DEF HasPiece
  <2>7. ASSUME NEW i \in 1 .. j PROVE HasPiece(f[k], f, E, i)
    <3>1. HasPiece(f[j], f, E, i) BY <2>2
    <3>2. Len(E[i]) \in Nat /\ Len(f[j]) \in Nat
      <4>1. i \in 1 .. n BY <2>1
      <4> QED BY <2>4, <4>1
    <3>4. /\ End(f, i - 1) \in Nat /\ End(f, i) = End(f, i - 1) + Len(E[i])
          /\ End(f, i) <= Len(f[j])
      BY <3>1 DEF HasPiece
    <3>3. ASSUME NEW l \in 1 .. Len(E[i])
          PROVE  f[k][End(f, i - 1) + l] = E[i][l]
      <4>1. End(f, i - 1) + l \in 1 .. Len(f[j])
        BY <3>2, <3>4, Within
      <4> QED BY <2>4, <3>1, <4>1 DEF HasPiece
    <3>5. Len(E[k]) \in Nat /\ Len(f[k]) = Len(f[j]) + Len(E[k])
      BY <1>2, <2>4
    <3>6. End(f, i) <= Len(f[k])
      BY <3>2, <3>4, <3>5
    <3> QED BY <3>3, <3>4, <3>6 DEF HasPiece
  <2>8. Covered(f, k)
    <3> SUFFICES ASSUME NEW x \in 1 .. End(f, k)
                 PROVE  \E i \in 1 .. k : End(f, i - 1) < x /\ x <= End(f, i)
      BY DEF Covered
    <3>1. CASE x <= End(f, j)
      <4>1. x \in 1 .. End(f, j) BY <2>4, <2>5, <3>1
      <4>2. PICK i \in 1 .. j : End(f, i - 1) < x /\ x <= End(f, i)
        BY <2>2, <4>1 DEF Covered
      <4> QED BY <2>1, <4>2
    <3>2. CASE x > End(f, j)
      BY <1>2, <2>1, <2>4, <2>5, <3>2
    <3> QED BY <2>4, <2>5, <3>1, <3>2
  <2>9. \A i \in 1 .. k : i \in 1 .. j \/ i = k
    BY <2>1
  <2> QED BY <1>2, <2>4, <2>6, <2>7, <2>8, <2>9
<1> QED BY <1>4, <1>5

-----------------------------------------------------------------------------
(***************************************************************************)
(* The bytes of an escape, and the ones that are sent as they are.         *)
(***************************************************************************)

(* A hexadecimal digit is read as the value it was written for. *)
LEMMA HexDigit ==
  ASSUME NEW d \in 0 .. 15
  PROVE  /\ hex(d) \in Byte /\ ~Refused(hex(d)) /\ hex(d) \notin {HASH, QUESTION}
         /\ IsHexDigit(hex(d)) /\ HexValue(hex(d)) = d
         /\ IsDigit(hex(d)) <=> d < 10
<1>1. CASE d < 10
  <2>1. hex(d) = 48 + d /\ 48 + d \in 48 .. 57
    BY <1>1 DEF hex
  <2> QED
    BY <1>1, <2>1
    DEF Byte, Refused, DEL, HASH, QUESTION, IsHexDigit, IsDigit, HexValue
<1>2. CASE d >= 10
  <2>1. hex(d) = 55 + d /\ 55 + d \in 65 .. 70 /\ (55 + d) \div 32 = 2
    BY <1>2 DEF hex
  <2>2. OrCaseBit(hex(d)) = 87 + d
    BY <2>1 DEF OrCaseBit
  <2>3. ~IsDigit(hex(d)) /\ IsHexLetter(hex(d)) /\ HexValue(hex(d)) = d
    BY <1>2, <2>1, <2>2 DEF IsDigit, IsHexLetter, HexValue
  <2> QED
    BY <1>2, <2>1, <2>3 DEF Byte, Refused, DEL, HASH, QUESTION, IsHexDigit
<1> QED BY <1>1, <1>2

LEMMA Halves ==
  ASSUME NEW b \in Byte
  PROVE  /\ b \div 16 \in 0 .. 15 /\ b % 16 \in 0 .. 15
         /\ 16 * (b \div 16) + (b % 16) = b
BY DEF Byte

(* What need not be escaped is not refused, and opens neither an escape    *)
(* nor a query nor a fragment.                                             *)
LEMMA SentAsIs ==
  ASSUME NEW b \in Byte, ~should_percent_encode(b)
  PROVE  ~Refused(b) /\ b \notin {PERCENT, HASH, QUESTION}
BY DEF should_percent_encode, PATH_ESCAPE_SET, CONTROLS, Refused, Byte, PERCENT, HASH,
       QUESTION, DEL, QUOTE

LEMMA ShapeIsKept ==
  ~should_percent_encode(SLASH) /\ ~should_percent_encode(DOT)
BY DEF should_percent_encode, PATH_ESCAPE_SET, CONTROLS, SLASH, DOT, PERCENT, HASH,
       QUESTION, DEL, QUOTE

LEMMA PercentPasses == ~Refused(PERCENT) /\ PERCENT \notin {HASH, QUESTION}
BY DEF Refused, PERCENT, DEL, HASH, QUESTION

-----------------------------------------------------------------------------
(***************************************************************************)
(* The path that was sent, as a 0-based array, and where the bytes that    *)
(* stand for each of its bytes are in the target.                          *)
(***************************************************************************)
SentLen == Len(first)
Sent(k) == first[k + 1]

Encoding(off) ==
  /\ off \in [0 .. SentLen -> Nat] /\ off[0] = 0 /\ off[SentLen] = uri_end
  /\ \A k \in 0 .. SentLen - 1 :
       /\ off[k + 1] <= uri_end
       /\ IF should_percent_encode(Sent(k))
          THEN /\ off[k + 1] = off[k] + 3
               /\ At(off[k]) = PERCENT
               /\ At(off[k] + 1) = hex(Sent(k) \div 16)
               /\ At(off[k] + 2) = hex(Sent(k) % 16)
          ELSE off[k + 1] = off[k] + 1 /\ At(off[k]) = Sent(k)
  /\ \A i \in 0 .. uri_end - 1 :
       \E k \in 0 .. SentLen - 1 : off[k] <= i /\ i < off[k + 1]

(* A piece of the target, by position in the target and in the path.       *)
Piece(b) == IF should_percent_encode(b) THEN Escaped(b) ELSE << b >>

LEMMA PieceType ==
  ASSUME NEW b \in Byte
  PROVE  /\ Piece(b) \in Seq(Byte)
         /\ IF should_percent_encode(b)
            THEN /\ Len(Piece(b)) = 3 /\ Piece(b)[1] = PERCENT
                 /\ Piece(b)[2] = hex(b \div 16) /\ Piece(b)[3] = hex(b % 16)
            ELSE Len(Piece(b)) = 1 /\ Piece(b)[1] = b
<1>1. hex(b \div 16) \in Byte /\ hex(b % 16) \in Byte
  BY Halves, HexDigit
<1>2. PERCENT \in Byte
  BY DEF PERCENT, Byte
<1>3. CASE should_percent_encode(b)
  BY <1>1, <1>2, <1>3 DEF Piece, Escaped
<1>4. CASE ~should_percent_encode(b)
  BY <1>4 DEF Piece
<1> QED BY <1>3, <1>4

LEMMA TargetEncodes ==
  ASSUME first \in Seq(Byte), SentLen # 0, target = percent_encode(first)
  PROVE  target \in Seq(Byte) /\ \E off : Encoding(off)
<1> DEFINE n == SentLen
           E == [ i \in DOMAIN first |-> Piece(first[i]) ]
<1>1. n \in Nat \ {0} /\ DOMAIN first = 1 .. n
  BY DEF SentLen
<1>2. E \in [1 .. n -> Seq(Byte)]
  BY <1>1, PieceType
<1>3. Len(E) = n
  BY <1>1
<1>4. target = FlattenSeq(E)
  BY DEF percent_encode, Piece
<1> HIDE DEF E
<1>5. PICK f : Collects(f, E, n) /\ target = f[n]
  <2>1. \E f : Collects(f, E, Len(E)) /\ FlattenSeq(E) = f[Len(E)]
    BY <1>1, <1>3, FlattenCollects
  <2> QED BY <1>3, <1>4, <2>1
<1>6. /\ target \in Seq(Byte) /\ Covered(f, n)
      /\ \A i \in 1 .. n : HasPiece(target, f, E, i)
  <2>1. n \in 1 .. n BY <1>1
  <2>2. /\ f[n] \in Seq(Byte) /\ Covered(f, n)
        /\ \A i \in 1 .. n : HasPiece(f[n], f, E, i)
    <3> HIDE DEF n
    <3> QED BY <1>1, <1>2, <1>5, <2>1, Pieces
  <2> QED BY <1>5, <2>2
<1> DEFINE off == [ k \in 0 .. n |-> End(f, k) ]
<1>7. uri_end \in Nat /\ uri_end = Len(target) /\ n \in 0 .. n /\ 0 \in 0 .. n
  BY <1>1, <1>6 DEF uri_end
<1>8. End(f, 0) = 0 /\ End(f, n) = uri_end
  BY <1>1, <1>5, <1>7 DEF End
<1>9. off[0] = 0 /\ off[n] = uri_end
  BY <1>7, <1>8
<1>10. ASSUME NEW k \in 0 .. n - 1
       PROVE  /\ off[k] \in Nat /\ off[k + 1] \in Nat
              /\ off[k + 1] <= uri_end
              /\ IF should_percent_encode(Sent(k))
                 THEN /\ off[k + 1] = off[k] + 3
                      /\ At(off[k]) = PERCENT
                      /\ At(off[k] + 1) = hex(Sent(k) \div 16)
                      /\ At(off[k] + 2) = hex(Sent(k) % 16)
                 ELSE off[k + 1] = off[k] + 1 /\ At(off[k]) = Sent(k)
  <2>1. k + 1 \in 1 .. n /\ k \in 0 .. n /\ k + 1 \in 0 .. n /\ (k + 1) - 1 = k
    BY <1>1
  <2>2. HasPiece(target, f, E, k + 1)
    BY <1>6, <2>1
  <2>3. Sent(k) \in Byte /\ E[k + 1] = Piece(Sent(k))
    BY <1>1, <2>1 DEF Sent, E
  <2>4. off[k] = End(f, k) /\ off[k + 1] = End(f, k + 1)
    BY <2>1
  <2> HIDE DEF off
  <2>5. /\ off[k] \in Nat /\ off[k + 1] = off[k] + Len(Piece(Sent(k)))
        /\ off[k + 1] <= uri_end
        /\ \A j \in 1 .. Len(Piece(Sent(k))) :
             target[off[k] + j] = Piece(Sent(k))[j]
    BY <1>7, <2>1, <2>2, <2>3, <2>4 DEF HasPiece
  <2>6. CASE should_percent_encode(Sent(k))
    <3>1. /\ Len(Piece(Sent(k))) = 3 /\ Piece(Sent(k))[1] = PERCENT
          /\ Piece(Sent(k))[2] = hex(Sent(k) \div 16)
          /\ Piece(Sent(k))[3] = hex(Sent(k) % 16)
      BY <2>3, <2>6, PieceType
    <3>2. /\ target[off[k] + 1] = PERCENT
          /\ target[off[k] + 2] = hex(Sent(k) \div 16)
          /\ target[off[k] + 3] = hex(Sent(k) % 16)
      BY <2>5, <3>1
    <3>3. (off[k] + 1) + 1 = off[k] + 2 /\ (off[k] + 2) + 1 = off[k] + 3
      BY <2>5
    <3> QED BY <2>5, <2>6, <3>1, <3>2, <3>3 DEF At
  <2>7. CASE ~should_percent_encode(Sent(k))
    <3>1. Len(Piece(Sent(k))) = 1 /\ Piece(Sent(k))[1] = Sent(k)
      BY <2>3, <2>7, PieceType
    <3> QED BY <2>5, <2>7, <3>1 DEF At
  <2> QED BY <2>6, <2>7
<1>11. off \in [0 .. n -> Nat]
  <2>1. ASSUME NEW k \in 0 .. n PROVE off[k] \in Nat
    <3>1. k \in 0 .. n - 1 \/ k = n BY <1>1
    <3> QED BY <1>7, <1>9, <1>10, <3>1
  <2> QED BY <2>1
<1>12. ASSUME NEW i \in 0 .. uri_end - 1
       PROVE  \E k \in 0 .. n - 1 : off[k] <= i /\ i < off[k + 1]
  <2>1. i + 1 \in 1 .. End(f, n)
    BY <1>7, <1>8
  <2>2. PICK j \in 1 .. n : End(f, j - 1) < i + 1 /\ i + 1 <= End(f, j)
    BY <1>6, <2>1 DEF Covered
  <2>3. j - 1 \in 0 .. n - 1 /\ (j - 1) + 1 = j /\ j - 1 \in 0 .. n /\ j \in 0 .. n
    BY <1>1
  <2>4. off[j - 1] = End(f, j - 1) /\ off[j] = End(f, j)
    BY <2>3
  <2>5. off[j - 1] \in Nat /\ off[j] \in Nat
    BY <1>11, <2>3
  <2> HIDE DEF off
  <2>6. off[j - 1] <= i /\ i < off[(j - 1) + 1]
    BY <1>7, <2>2, <2>3, <2>4, <2>5
  <2> QED BY <2>3, <2>6
<1> HIDE DEF off
<1>13. Encoding(off)
  BY <1>9, <1>10, <1>11, <1>12 DEF Encoding
<1> QED BY <1>6, <1>13

-----------------------------------------------------------------------------
(***************************************************************************)
(* The path that was sent is one that a call returned.                     *)
(***************************************************************************)
SentNormal ==
  /\ first \in Seq(Byte) /\ SentLen > 0 /\ Sent(0) = SLASH
  /\ \A k \in 0 .. SentLen - 1 : Sent(k) # 0
  /\ \A k \in 0 .. SentLen - 2 :
       Sent(k) = SLASH /\ Sent(k + 1) = DOT => k + 2 < SentLen /\ Sent(k + 2) # SLASH
  /\ \A k \in 0 .. SentLen - 3 :
       Sent(k) = SLASH /\ Sent(k + 1) = DOT /\ Sent(k + 2) = DOT
         => k + 3 < SentLen /\ Sent(k + 3) # SLASH
  /\ merge_slashes =>
       \A k \in 0 .. SentLen - 2 : ~(Sent(k) = SLASH /\ Sent(k + 1) = SLASH)

(***************************************************************************)
(* The second call.  Stage 1 has found no query, and skips stage 2 only if *)
(* no byte was escaped.                                                    *)
(***************************************************************************)
StageOneRun ==
  /\ args_start = None
  /\ state = "Uri" => NeedsNormalization
  /\ ~NeedsNormalization => \A i \in 0 .. p - 1 : At(i) # PERCENT

(***************************************************************************)
(* Stage 2 has written the first u bytes of the path that was sent.  In an *)
(* unquoted state it holds the first byte that stands for byte u, or byte  *)
(* u itself, decoded.                                                      *)
(***************************************************************************)
Fetched(off) == p = off[u] + 1 /\ ch = ReadWithLf(off[u])
Unescaped(off) ==
  /\ u < SentLen /\ p = off[u + 1] /\ ch = Sent(u)
  /\ ch \notin {PERCENT, HASH, QUESTION}

StageTwoRun(off) ==
  /\ args_start = None
  /\ u \in 0 .. SentLen /\ \A i \in 0 .. u - 1 : out[i] = Sent(i)
  /\ state \in Unquoted => Fetched(off) \/ Unescaped(off)
  /\ state \in {"Quoted", "QuotedSecond"} =>
       u < SentLen /\ should_percent_encode(Sent(u))
  /\ state = "Quoted" => p = off[u] + 2 /\ ch = hex(Sent(u) \div 16)
  /\ state = "QuotedSecond" =>
       p = off[u] + 3 /\ ch = hex(Sent(u) % 16) /\ decoded = Sent(u) \div 16

Run(off) ==
  /\ pc # "err"
  /\ pc # "ok" => args.data = 0
  /\ pc = "uri" => StageOneRun
  /\ pc = "complex" => StageTwoRun(off)
  /\ pc = "normalized" => /\ args_start = None /\ uri_len = SentLen
                          /\ \A i \in 0 .. SentLen - 1 : out[i] = Sent(i)
  /\ pc = "ok" => /\ result.args = None /\ result.len = SentLen
                  /\ \A i \in 0 .. SentLen - 1 :
                       Sent(i) = IF result.owned THEN out[i] ELSE At(i)

OwnedOut == pc = "ok" /\ result.owned => out \in [0 .. uri_end -> Byte]

TripInv ==
  /\ PathInv /\ OwnedOut
  /\ first # None => SentNormal /\ \E off : Encoding(off) /\ Run(off)

-----------------------------------------------------------------------------
(* What the encoding says of the bytes of the target. *)
LEMMA SentTypes ==
  ASSUME SentNormal
  PROVE  SentLen \in Nat \ {0} /\ \A k \in 0 .. SentLen - 1 : Sent(k) \in Byte
BY DEF SentNormal, SentLen, Sent

LEMMA Offsets ==
  ASSUME SentNormal, NEW off, Encoding(off), uri_end \in Nat
  PROVE  /\ \A k \in 0 .. SentLen : off[k] \in Nat
         /\ \A k \in 0 .. SentLen - 1 : off[k] < off[k + 1] /\ off[k + 1] <= uri_end
         /\ off[0] = 0 /\ off[SentLen] = uri_end
<1>1. \A k \in 0 .. SentLen : off[k] \in Nat
  BY DEF Encoding
<1>2. off[0] = 0 /\ off[SentLen] = uri_end
  BY DEF Encoding
<1>3. ASSUME NEW k \in 0 .. SentLen - 1
      PROVE  off[k] < off[k + 1] /\ off[k + 1] <= uri_end
  <2>1. k \in 0 .. SentLen /\ SentLen \in Nat
    BY SentTypes
  <2>2. off[k] \in Nat
    BY <1>1, <2>1
  <2>3. /\ off[k + 1] <= uri_end
        /\ off[k + 1] = off[k] + 3 \/ off[k + 1] = off[k] + 1
    BY DEF Encoding
  <2> QED BY <2>2, <2>3
<1> QED BY <1>1, <1>2, <1>3

(* No byte of the target is refused, or ends its path. *)
LEMMA Accepted ==
  ASSUME SentNormal, NEW off, Encoding(off), uri_end \in Nat,
         NEW i \in 0 .. uri_end - 1
  PROVE  ~Refused(At(i)) /\ At(i) \notin {HASH, QUESTION}
<1>1. PICK k \in 0 .. SentLen - 1 : off[k] <= i /\ i < off[k + 1]
  BY DEF Encoding
<1>2. Sent(k) \in Byte /\ off[k] \in Nat
  <2>1. k \in 0 .. SentLen BY SentTypes
  <2> QED BY <2>1, SentTypes, Offsets
<1>3. CASE should_percent_encode(Sent(k))
  <2>1. /\ off[k + 1] = off[k] + 3
        /\ At(off[k]) = PERCENT
        /\ At(off[k] + 1) = hex(Sent(k) \div 16)
        /\ At(off[k] + 2) = hex(Sent(k) % 16)
    BY <1>3 DEF Encoding
  <2>2. i = off[k] \/ i = off[k] + 1 \/ i = off[k] + 2
    BY <1>1, <1>2, <2>1
  <2>3. Sent(k) \div 16 \in 0 .. 15 /\ Sent(k) % 16 \in 0 .. 15
    BY <1>2, Halves
  <2> QED BY <2>1, <2>2, <2>3, HexDigit, PercentPasses
<1>4. CASE ~should_percent_encode(Sent(k))
  <2>1. off[k + 1] = off[k] + 1 /\ At(off[k]) = Sent(k)
    BY <1>4 DEF Encoding
  <2>2. i = off[k]
    BY <1>1, <1>2, <2>1
  <2> QED BY <1>2, <1>4, <2>1, <2>2, SentAsIs
<1> QED BY <1>3, <1>4

LEMMA StartsWithSlash ==
  ASSUME SentNormal, NEW off, Encoding(off), uri_end \in Nat
  PROVE  uri_end > 0 /\ At(0) = SLASH
<1>1. 0 \in 0 .. SentLen - 1 /\ 0 \in 0 .. SentLen /\ Sent(0) = SLASH
  BY SentTypes DEF SentNormal
<1>2. off[0] = 0 /\ off[0] < off[0 + 1] /\ off[0 + 1] <= uri_end
  BY <1>1, Offsets
<1>3. At(off[0]) = SLASH
  BY <1>1, ShapeIsKept DEF Encoding
<1>4. off[0 + 1] \in Nat
  <2>1. 0 + 1 \in 0 .. SentLen BY SentTypes
  <2> QED BY <2>1, Offsets
<1> QED BY <1>2, <1>3, <1>4

(* A target without an escape is the path that was sent. *)
LEMMA NothingEscaped ==
  ASSUME SentNormal, NEW off, Encoding(off), uri_end \in Nat,
         \A i \in 0 .. uri_end - 1 : At(i) # PERCENT
  PROVE  uri_end = SentLen /\ \A k \in 0 .. SentLen - 1 : At(k) = Sent(k)
<1>1. ASSUME NEW k \in 0 .. SentLen - 1
      PROVE  off[k + 1] = off[k] + 1 /\ At(off[k]) = Sent(k)
  <2>1. k \in 0 .. SentLen /\ k + 1 \in 0 .. SentLen BY SentTypes
  <2>2. off[k] \in 0 .. uri_end - 1
    BY <2>1, Offsets
  <2>3. At(off[k]) # PERCENT
    BY <2>2
  <2> QED BY <2>3 DEF Encoding
<1> DEFINE Moved == { k \in 0 .. SentLen : off[k] # k }
<1>2. Moved = {}
  <2> SUFFICES ASSUME Moved # {} PROVE FALSE
    OBVIOUS
  <2>1. PICK k \in Moved : \A m \in Moved : k <= m
    <3>1. Moved \subseteq Nat
      OBVIOUS
    <3> HIDE DEF Moved
    <3> QED BY <3>1, Least
  <2>2. k \in 0 .. SentLen /\ off[k] # k /\ k # 0 /\ SentLen \in Nat
    BY <2>1, Offsets, SentTypes
  <2>3. k - 1 \in 0 .. SentLen - 1 /\ k - 1 \in 0 .. SentLen /\ (k - 1) + 1 = k
    BY <2>2
  <2>4. off[k - 1] = k - 1
    BY <2>1, <2>2, <2>3
  <2>5. off[(k - 1) + 1] = off[k - 1] + 1
    BY <1>1, <2>3
  <2> QED BY <2>2, <2>3, <2>4, <2>5
<1>3. \A k \in 0 .. SentLen : off[k] = k
  BY <1>2
<1>4. uri_end = SentLen
  <2>1. SentLen \in 0 .. SentLen BY SentTypes
  <2> QED BY <1>3, <2>1, Offsets
<1>5. ASSUME NEW k \in 0 .. SentLen - 1
      PROVE  At(k) = Sent(k)
  <2>1. k \in 0 .. SentLen BY SentTypes
  <2>2. off[k] = k BY <1>3, <2>1
  <2> QED BY <1>1, <2>2
<1> QED BY <1>4, <1>5

-----------------------------------------------------------------------------
(***************************************************************************)
(* The steps of the second call.                                           *)
(***************************************************************************)
LEMMA SameEncoding ==
  ASSUME UNCHANGED input, UNCHANGED first
  PROVE  /\ uri_end' = uri_end /\ \A i : At(i)' = At(i)
         /\ SentLen' = SentLen /\ \A k : Sent(k)' = Sent(k)
         /\ SentNormal' = SentNormal
         /\ \A off : Encoding(off)' = Encoding(off)
<1>1. uri_end' = uri_end /\ \A i : At(i)' = At(i)
  BY ReadStable
<1>2. SentLen' = SentLen /\ \A k : Sent(k)' = Sent(k)
  BY DEF SentLen, Sent
<1>3. SentNormal' = SentNormal
  BY <1>2 DEF SentNormal, input
<1>4. \A off : Encoding(off)' = Encoding(off)
  BY <1>1, <1>2 DEF Encoding
<1> QED BY <1>1, <1>2, <1>3, <1>4

LEMMA StageOneRuns ==
  ASSUME PathInv, SentNormal, NEW off, Encoding(off), Run(off),
         ParseUriStep, UNCHANGED << input, first >>
  PROVE  Run(off)'
<1>0. /\ uri_end \in Nat /\ p \in 0 .. uri_end /\ pc = "uri"
      /\ \A i : At(i)' = At(i)
      /\ state \in UriStates /\ StageOneRun /\ args.data = 0 /\ Seen = At(p)
      /\ state = "Start" <=> p = 0
  BY ReadType, ReadStable
  DEF PathInv, ScanInv, TypeInv, TypeOK, Cursor, ParseUriStep, InitialSlash,
      MarkComplex, MarkQuoted, MarkArgs, MarkPlus, SegmentByte, NextSegment,
      MarkExtension, UsualRun, OpaqueByte, RefuseByte, Scanning, Run, Seen
<1>1. Scanning => ~Refused(Seen) /\ Seen \notin {HASH, QUESTION}
  BY <1>0, Accepted DEF Scanning
<1>2. ~RefuseByte
  BY <1>0, <1>1, StartsWithSlash DEF RefuseByte
<1>3. ~MarkArgs
  BY <1>1 DEF MarkArgs, Sees
<1>4. ASSUME pc' = "uri", args_start' = args_start, args' = args,
             (state = "Uri" => NeedsNormalization)' ,
             (~NeedsNormalization => \A i \in 0 .. p - 1 : At(i) # PERCENT)'
      PROVE  Run(off)'
  BY <1>0, <1>4 DEF Run, StageOneRun
<1>5. ASSUME At(p) # PERCENT, p' = p + 1, NeedsNormalization' = NeedsNormalization
      PROVE  (~NeedsNormalization => \A i \in 0 .. p - 1 : At(i) # PERCENT)'
  BY <1>0, <1>5 DEF StageOneRun
<1> USE DEF Scan, fields, flags, marks, NeedsNormalization, UriStates
<1>6. CASE InitialSlash
  <2>1. At(p) # PERCENT BY <1>6 DEF InitialSlash, Seen, SLASH, PERCENT
  <2> QED BY <1>0, <1>4, <1>5, <1>6, <2>1 DEF InitialSlash, StageOneRun
<1>7. CASE MarkComplex
  BY <1>0, <1>4, <1>7 DEF MarkComplex
<1>8. CASE MarkQuoted
  BY <1>0, <1>4, <1>8 DEF MarkQuoted
<1>9. CASE MarkPlus
  <2>1. At(p) # PERCENT BY <1>0, <1>9 DEF MarkPlus, Sees, PLUS, PERCENT
  <2> QED BY <1>0, <1>4, <1>5, <1>9, <2>1 DEF MarkPlus, StageOneRun
<1>10. CASE SegmentByte
  <2>1. At(p) # PERCENT
    BY <1>0, <1>10, NotUsual DEF SegmentByte, Ordinary, Named
  <2> QED BY <1>0, <1>4, <1>5, <1>10, <2>1 DEF SegmentByte
<1>11. CASE NextSegment
  <2>1. At(p) # PERCENT BY <1>0, <1>11 DEF NextSegment, Sees, SLASH, PERCENT
  <2> QED BY <1>0, <1>4, <1>5, <1>11, <2>1 DEF NextSegment
<1>12. CASE MarkExtension
  <2>1. At(p) # PERCENT BY <1>0, <1>12 DEF MarkExtension, Sees, DOT, PERCENT
  <2> QED BY <1>0, <1>4, <1>5, <1>12, <2>1 DEF MarkExtension
<1>13. CASE UsualRun
  <2> PICK q \in p + 1 .. uri_end :
             /\ \A i \in p + 1 .. q - 1 : usual(At(i))
             /\ p' = q
    BY <1>13 DEF UsualRun
  <2>1. \A i \in p .. q - 1 : At(i) # PERCENT
    <3>1. At(p) # PERCENT
      BY <1>0, <1>13, NotUsual DEF UsualRun, Ordinary, Named
    <3> QED BY <1>0, <3>1, NotUsual DEF Named
  <2>2. (~NeedsNormalization => \A i \in 0 .. p - 1 : At(i) # PERCENT)'
    BY <1>0, <1>13, <2>1 DEF UsualRun, StageOneRun
  <2> QED BY <1>0, <1>4, <1>13, <2>2 DEF UsualRun, StageOneRun
<1>14. CASE OpaqueByte
  BY <1>0, <1>4, <1>14 DEF OpaqueByte, StageOneRun
<1> QED BY <1>2, <1>3, <1>6, <1>7, <1>8, <1>9, <1>10, <1>11, <1>12, <1>13, <1>14
        DEF ParseUriStep

(* The call, and its two ways to return. *)
LEMMA CallRuns ==
  ASSUME PathInv, SentNormal, NEW off, Encoding(off), Run(off),
         UNCHANGED << input, first >>,
         \/ RejectEmpty \/ CallParseUri \/ CallParseComplexUri
         \/ ReturnBorrowed \/ ReturnOwned
  PROVE  Run(off)'
<1>0. /\ uri_end \in Nat /\ uri_end > 0 /\ At(0) = SLASH
      /\ \A i : At(i)' = At(i)
      /\ SentLen' = SentLen /\ \A k : Sent(k)' = Sent(k)
      /\ SentLen \in Nat \ {0}
  BY ReadType, SameEncoding, StartsWithSlash, SentTypes
  DEF PathInv, TypeInv, TypeOK
<1>1. ~RejectEmpty
  BY <1>0 DEF RejectEmpty
<1>2. CASE CallParseUri
  <2>1. /\ pc' = "uri" /\ p' = 0 /\ state' = "Start" /\ args_start' = None
        /\ args' = args /\ args.data = 0
    BY <1>2 DEF CallParseUri, PathInv, TypeInv, Cursor, marks, fields, Run
  <2> QED BY <2>1 DEF Run, StageOneRun
<1>3. CASE CallParseComplexUri
  <2>1. /\ pc' = "complex" /\ p' = 1 /\ u' = 0 /\ state' = "Usual"
        /\ ch' = ReadWithLf(0) /\ args_start' = None /\ args' = args /\ args.data = 0
    BY <1>3 DEF CallParseComplexUri, Scanned, Run, fields
  <2>2. off[0] = 0
    BY DEF Encoding
  <2>3. ReadWithLf(0)' = ReadWithLf(0)
    BY <1>0, ReadStable DEF ReadWithLf
  <2>4. Fetched(off)'
    BY <2>1, <2>2, <2>3 DEF Fetched
  <2>5. StageTwoRun(off)'
    BY <1>0, <2>1, <2>4 DEF StageTwoRun
  <2> QED BY <2>1, <2>5 DEF Run
<1>4. CASE ReturnBorrowed
  <2>1. /\ pc = "uri" /\ p = uri_end /\ ~NeedsNormalization /\ pc' = "ok"
        /\ StageOneRun /\ args.data = 0
        /\ result' = [owned |-> FALSE,
                      len |-> IF args_start = None THEN uri_end ELSE args_start - 1,
                      args |-> parsed_args]
    BY <1>4 DEF ReturnBorrowed, Return, Scanned, Run
  <2>2. args_start = None /\ parsed_args = None
    BY <2>1 DEF StageOneRun, parsed_args
  <2>3. uri_end = SentLen /\ \A k \in 0 .. SentLen - 1 : At(k) = Sent(k)
    BY <1>0, <2>1, NothingEscaped DEF StageOneRun
  <2> QED BY <1>0, <2>1, <2>2, <2>3 DEF Run
<1>5. CASE ReturnOwned
  <2>1. /\ pc = "normalized" /\ pc' = "ok" /\ out' = out
        /\ args.data = 0 /\ args_start = None /\ uri_len = SentLen
        /\ \A i \in 0 .. SentLen - 1 : out[i] = Sent(i)
        /\ result' = [owned |-> TRUE, len |-> uri_len, args |-> parsed_args]
    BY <1>5 DEF ReturnOwned, Return, Run, locals
  <2>2. parsed_args = None
    BY <2>1 DEF parsed_args
  <2> QED BY <1>0, <2>1, <2>2 DEF Run
<1> QED BY <1>1, <1>2, <1>3, <1>4, <1>5

-----------------------------------------------------------------------------
(* Where stage 2 is in the path that was sent, whatever its state. *)
LEMMA InStageTwo ==
  ASSUME PathInv, SentNormal, NEW off, Encoding(off), Run(off), pc = "complex"
  PROVE  /\ uri_end \in Nat /\ SentLen \in Nat \ {0} /\ StageTwoRun(off)
         /\ u \in 0 .. SentLen /\ off[u] \in Nat /\ u \in Nat
         /\ u < SentLen => /\ u \in 0 .. SentLen - 1 /\ Sent(u) \in Byte
                           /\ off[u + 1] \in Nat /\ off[u] < off[u + 1]
                           /\ off[u + 1] <= uri_end
         /\ u = SentLen => off[u] = uri_end
         /\ args.data = 0
<1>1. uri_end \in Nat /\ SentLen \in Nat \ {0}
  BY ReadType, SentTypes DEF PathInv, TypeInv, TypeOK
<1>2. StageTwoRun(off) /\ u \in 0 .. SentLen /\ args.data = 0
  BY DEF Run, StageTwoRun
<1>3. off[u] \in Nat /\ (u = SentLen => off[u] = uri_end)
  BY <1>1, <1>2, Offsets
<1>4. CASE u < SentLen
  <2>1. u \in 0 .. SentLen - 1 /\ u + 1 \in 0 .. SentLen
    BY <1>1, <1>2, <1>4
  <2>2. off[u + 1] \in Nat /\ off[u] < off[u + 1] /\ off[u + 1] <= uri_end
    BY <1>1, <2>1, Offsets
  <2> QED BY <1>1, <1>2, <1>3, <2>1, <2>2, SentTypes
<1>5. CASE ~(u < SentLen)
  BY <1>1, <1>2, <1>3, <1>5
<1> QED BY <1>4, <1>5

(* The byte at hand in an unquoted state opens the escape of byte u, or is *)
(* byte u; nothing is left to read only at the end of the path.            *)
LEMMA AtHand ==
  ASSUME PathInv, SentNormal, NEW off, Encoding(off), Run(off), pc = "complex",
         state \in Unquoted
  PROVE  /\ ~Reading => u = SentLen
         /\ Reading =>
              /\ u < SentLen
              /\ \/ /\ ch = PERCENT /\ should_percent_encode(Sent(u))
                    /\ p = off[u] + 1
                 \/ /\ ch = Sent(u) /\ ch \notin {PERCENT, HASH, QUESTION}
                    /\ p = off[u + 1]
<1>1. /\ uri_end \in Nat /\ u \in 0 .. SentLen /\ off[u] \in Nat
      /\ SentLen \in Nat \ {0}
      /\ u < SentLen => /\ u \in 0 .. SentLen - 1 /\ Sent(u) \in Byte
                        /\ off[u + 1] \in Nat /\ off[u] < off[u + 1]
                        /\ off[u + 1] <= uri_end
      /\ u = SentLen => off[u] = uri_end
      /\ Fetched(off) \/ Unescaped(off)
  BY InStageTwo DEF StageTwoRun
<1>2. CASE Unescaped(off)
  BY <1>1, <1>2 DEF Unescaped, Reading
<1>3. CASE Fetched(off)
  <2>1. p = off[u] + 1 /\ ch = ReadWithLf(off[u])
    BY <1>3 DEF Fetched
  <2>2. CASE ~Reading
    BY <1>1, <2>1, <2>2 DEF Reading
  <2>3. CASE Reading
    <3>1. off[u] < uri_end /\ u < SentLen
      BY <1>1, <2>1, <2>3 DEF Reading
    <3>2. ch = At(off[u]) /\ u \in 0 .. SentLen - 1 /\ Sent(u) \in Byte
      BY <1>1, <2>1, <3>1 DEF ReadWithLf
    <3>3. CASE should_percent_encode(Sent(u))
      <4>1. At(off[u]) = PERCENT BY <3>2, <3>3 DEF Encoding
      <4> QED BY <2>1, <2>3, <3>1, <3>2, <3>3, <4>1
    <3>4. CASE ~should_percent_encode(Sent(u))
      <4>1. off[u + 1] = off[u] + 1 /\ At(off[u]) = Sent(u)
        BY <3>2, <3>4 DEF Encoding
      <4> QED BY <2>1, <2>3, <3>1, <3>2, <3>4, <4>1, SentAsIs
    <3> QED BY <3>3, <3>4
  <2> QED BY <2>2, <2>3
<1> QED BY <1>1, <1>2, <1>3

(* The escape of byte u, while stage 2 is inside of it. *)
LEMMA InEscape ==
  ASSUME PathInv, SentNormal, NEW off, Encoding(off), Run(off), pc = "complex",
         state \in {"Quoted", "QuotedSecond"}
  PROVE  /\ Reading /\ u < SentLen
         /\ off[u + 1] = off[u] + 3
         /\ At(off[u] + 1) = hex(Sent(u) \div 16)
         /\ At(off[u] + 2) = hex(Sent(u) % 16)
         /\ Sent(u) \div 16 \in 0 .. 15 /\ Sent(u) % 16 \in 0 .. 15
         /\ IsHexDigit(ch)
         /\ state = "QuotedSecond" => Value = Sent(u) /\ p = off[u + 1]
<1>1. /\ uri_end \in Nat /\ off[u] \in Nat /\ StageTwoRun(off)
      /\ u < SentLen => /\ u \in 0 .. SentLen - 1 /\ Sent(u) \in Byte
                        /\ off[u + 1] <= uri_end
  BY InStageTwo
<1>2. u < SentLen /\ should_percent_encode(Sent(u))
  BY <1>1 DEF StageTwoRun
<1>3. /\ off[u + 1] = off[u] + 3
      /\ At(off[u] + 1) = hex(Sent(u) \div 16)
      /\ At(off[u] + 2) = hex(Sent(u) % 16)
  BY <1>1, <1>2 DEF Encoding
<1>4. /\ Sent(u) \div 16 \in 0 .. 15 /\ Sent(u) % 16 \in 0 .. 15
      /\ 16 * (Sent(u) \div 16) + (Sent(u) % 16) = Sent(u)
  BY <1>1, <1>2, Halves
<1>5. p <= uri_end
  BY <1>1, <1>2, <1>3 DEF StageTwoRun
<1>6. CASE state = "Quoted"
  <2>1. ch = hex(Sent(u) \div 16)
    BY <1>1, <1>6 DEF StageTwoRun
  <2>2. IsHexDigit(ch)
    BY <1>4, <2>1, HexDigit
  <2> QED BY <1>2, <1>3, <1>4, <1>5, <1>6, <2>2 DEF Reading
<1>7. CASE state = "QuotedSecond"
  <2>1. p = off[u] + 3 /\ ch = hex(Sent(u) % 16) /\ decoded = Sent(u) \div 16
    BY <1>1, <1>7 DEF StageTwoRun
  <2>2. IsHexDigit(ch) /\ HexValue(ch) = Sent(u) % 16
    BY <1>4, <2>1, HexDigit
  <2>3. Value = Sent(u)
    BY <1>4, <2>1, <2>2 DEF Value
  <2> QED BY <1>2, <1>3, <1>4, <1>5, <1>7, <2>1, <2>2, <2>3 DEF Reading
<1> QED BY <1>6, <1>7

(* One more byte of the path is written, and the next one is fetched. *)
LEMMA WritesByte ==
  ASSUME PathInv, SentNormal, NEW off, Encoding(off), Run(off), pc = "complex",
         UNCHANGED << input, first, pc, args_start, args >>,
         u < SentLen, p = off[u + 1], Advance,
         out' = [out EXCEPT ![u] = Sent(u)], u' = u + 1, state' \in Unquoted
  PROVE  Run(off)'
<1>1. /\ uri_end \in Nat /\ u \in 0 .. SentLen - 1 /\ StageTwoRun(off)
      /\ SentLen \in Nat \ {0} /\ off[u] \in Nat /\ off[u + 1] \in Nat
      /\ off[u] < off[u + 1] /\ off[u + 1] <= uri_end /\ args.data = 0
      /\ Sent(u) \in Byte /\ u \in Nat
  BY InStageTwo
<1>2. SentLen' = SentLen /\ \A k : Sent(k)' = Sent(k)
  BY SameEncoding
<1>3. target' = target
  BY DEF input
<1>4. out \in [0 .. uri_end -> Byte] /\ u < p /\ p \in Nat
  <2>1. out \in [0 .. uri_end -> Byte] /\ u \in Nat /\ p \in Nat
    BY DEF PathInv, TypeInv, TypeOK
  <2>2. u + Lag < p
    BY DEF PathInv, TypeInv, Cursor
  <2> QED BY <2>1, <2>2 DEF Lag
<1>5. u \in 0 .. uri_end
  BY <1>1, <1>4
<1>6. \A i \in 0 .. u : out'[i] = Sent(i)
  BY <1>1, <1>4, <1>5 DEF StageTwoRun
<1>7. Fetched(off)'
  BY <1>3 DEF Fetched, Advance, ReadWithLf, At, uri_end
<1>8. state' \notin {"Quoted", "QuotedSecond"}
  BY DEF Unquoted
<1>9. StageTwoRun(off)'
  <2>1. u' \in 0 .. SentLen /\ \A i \in 0 .. u' - 1 : i \in 0 .. u
    BY <1>1
  <2>2. args_start' = None
    BY <1>1 DEF StageTwoRun
  <2> QED BY <1>2, <1>6, <1>7, <1>8, <2>1, <2>2 DEF StageTwoRun
<1> QED BY <1>1, <1>9 DEF Run

(* The dot states and the slash, by the path that was sent. *)
LEMMA StateTellsSent ==
  ASSUME PathInv, SentNormal, NEW off, Encoding(off), Run(off), pc = "complex",
         state \in Unquoted
  PROVE  /\ state = "Slash" => u > 0 /\ Sent(u - 1) = SLASH
         /\ state = "Dot" => u > 1 /\ Sent(u - 2) = SLASH /\ Sent(u - 1) = DOT
         /\ state = "DotDot" => /\ u > 2 /\ Sent(u - 3) = SLASH
                                /\ Sent(u - 2) = DOT /\ Sent(u - 1) = DOT
<1>1. u \in Nat /\ \A i \in 0 .. u - 1 : out[i] = Sent(i)
  BY InStageTwo DEF StageTwoRun
<1>2. Resume = state
  BY DEF Resume
<1>3. CASE state = "Slash"
  <2>1. u > 0 /\ out[u - 1] = SLASH /\ u - 1 \in 0 .. u - 1
    BY <1>1, <1>2, <1>3 DEF PathInv, OutputInv
  <2> QED BY <1>1, <1>3, <2>1
<1>4. CASE state = "Dot"
  <2>1. /\ u > 1 /\ out[u - 2] = SLASH /\ out[u - 1] = DOT
        /\ u - 1 \in 0 .. u - 1 /\ u - 2 \in 0 .. u - 1
    BY <1>1, <1>2, <1>4 DEF PathInv, OutputInv
  <2> QED BY <1>1, <1>4, <2>1
<1>5. CASE state = "DotDot"
  <2>1. /\ u > 2 /\ out[u - 3] = SLASH /\ out[u - 2] = DOT /\ out[u - 1] = DOT
        /\ u - 1 \in 0 .. u - 1 /\ u - 2 \in 0 .. u - 1 /\ u - 3 \in 0 .. u - 1
    BY <1>1, <1>2, <1>5 DEF PathInv, OutputInv
  <2> QED BY <1>1, <1>5, <2>1
<1> QED BY <1>3, <1>4, <1>5

(* No segment of dots ends in the path that was sent, and no slash is      *)
(* dropped from it.                                                        *)
LEMMA NothingToResolve ==
  ASSUME PathInv, SentNormal, NEW off, Encoding(off), Run(off), pc = "complex",
         state \in Unquoted
  PROVE  /\ state \in {"Dot", "DotDot"} => u < SentLen /\ Sent(u) # SLASH
         /\ state = "Slash" /\ merge_slashes => u = SentLen \/ Sent(u) # SLASH
<1>1. u \in 0 .. SentLen /\ SentLen \in Nat
  BY InStageTwo
<1>2. CASE state = "Dot"
  <2>1. /\ u > 1 /\ Sent(u - 2) = SLASH /\ Sent(u - 1) = DOT
        /\ u - 2 \in 0 .. SentLen - 2 /\ (u - 2) + 1 = u - 1 /\ (u - 2) + 2 = u
    BY <1>1, <1>2, StateTellsSent
  <2>2. (u - 2) + 2 < SentLen /\ Sent((u - 2) + 2) # SLASH
    BY <2>1 DEF SentNormal
  <2> QED BY <1>2, <2>1, <2>2
<1>3. CASE state = "DotDot"
  <2>1. /\ u > 2 /\ Sent(u - 3) = SLASH /\ Sent(u - 2) = DOT /\ Sent(u - 1) = DOT
        /\ u - 3 \in 0 .. SentLen - 3
        /\ (u - 3) + 1 = u - 2 /\ (u - 3) + 2 = u - 1 /\ (u - 3) + 3 = u
    BY <1>1, <1>3, StateTellsSent
  <2>2. (u - 3) + 3 < SentLen /\ Sent((u - 3) + 3) # SLASH
    BY <2>1 DEF SentNormal
  <2> QED BY <1>3, <2>1, <2>2
<1>4. CASE state = "Slash" /\ merge_slashes /\ u # SentLen
  <2>1. /\ u > 0 /\ Sent(u - 1) = SLASH
        /\ u - 1 \in 0 .. SentLen - 2 /\ (u - 1) + 1 = u
    BY <1>1, <1>4, StateTellsSent
  <2>2. ~(Sent(u - 1) = SLASH /\ Sent((u - 1) + 1) = SLASH)
    BY <1>4, <2>1 DEF SentNormal
  <2> QED BY <1>4, <2>1, <2>2
<1> QED BY <1>2, <1>3, <1>4

(* The steps in an unquoted state. *)
LEMMA UnquotedRuns ==
  ASSUME PathInv, SentNormal, NEW off, Encoding(off), Run(off), pc = "complex",
         state \in Unquoted, UNCHANGED << input, first >>,
         \/ Percent \/ OpenSegment \/ RepeatSlash \/ ExtensionDot \/ LeadingDot
         \/ PlainByte \/ CloseDotSegment \/ EscapeRoot
         \/ QuestionMark \/ HashMark \/ EndOfPath
  PROVE  Run(off)'
<1>0. /\ ~Reading => u = SentLen
      /\ Reading =>
           /\ u < SentLen
           /\ \/ /\ ch = PERCENT /\ should_percent_encode(Sent(u))
                 /\ p = off[u] + 1
              \/ /\ ch = Sent(u) /\ ch \notin {PERCENT, HASH, QUESTION}
                 /\ p = off[u + 1]
  BY AtHand
<1>1. /\ state \in {"Dot", "DotDot"} => u < SentLen /\ Sent(u) # SLASH
      /\ state = "Slash" /\ merge_slashes => u = SentLen \/ Sent(u) # SLASH
  BY NothingToResolve
<1>2. /\ uri_end \in Nat /\ SentLen \in Nat \ {0} /\ StageTwoRun(off)
      /\ u \in 0 .. SentLen /\ off[u] \in Nat /\ args.data = 0 /\ p \in Nat
      /\ u < SentLen => /\ Sent(u) \in Byte
                        /\ off[u + 1] \in Nat /\ off[u + 1] <= uri_end
  BY InStageTwo DEF PathInv, TypeInv, TypeOK
<1>3. PERCENT \notin {SLASH, DOT, PLUS, QUESTION, HASH}
  BY DEF PERCENT, SLASH, DOT, PLUS, QUESTION, HASH
<1>4. CASE Percent
  <2>1. /\ Reading /\ ch = PERCENT /\ u < SentLen
        /\ should_percent_encode(Sent(u)) /\ p = off[u] + 1
    BY <1>0, <1>4 DEF Percent, Is
  <2>2. /\ state' = "Quoted" /\ p' = p + 1 /\ ch' = ReadWithLf(p) /\ u' = u /\ out' = out
        /\ pc' = pc /\ args_start' = args_start /\ args' = args
    BY <1>4 DEF Percent, Advance, Stay, fields
  <2>3. off[u + 1] = off[u] + 3 /\ At(off[u] + 1) = hex(Sent(u) \div 16)
    <3>1. u \in 0 .. SentLen - 1 BY <1>2, <2>1
    <3> QED BY <2>1, <3>1 DEF Encoding
  <2>4. ch' = hex(Sent(u) \div 16)
    <3>1. p < uri_end BY <1>2, <2>1, <2>3
    <3> QED BY <2>1, <2>2, <2>3, <3>1 DEF ReadWithLf
  <2>5. SentLen' = SentLen /\ \A k : Sent(k)' = Sent(k)
    BY SameEncoding
  <2>6. StageTwoRun(off)'
    BY <1>2, <2>1, <2>2, <2>4, <2>5 DEF StageTwoRun, Unquoted
  <2> QED BY <1>2, <2>2, <2>6 DEF Run
<1>5. CASE OpenSegment \/ ExtensionDot \/ LeadingDot \/ PlainByte
  <2>1. Reading /\ ch # PERCENT
    BY <1>3, <1>5, NotUsual
    DEF OpenSegment, ExtensionDot, LeadingDot, PlainByte, Is, Arms, Named
  <2>2. u < SentLen /\ ch = Sent(u) /\ p = off[u + 1]
    BY <1>0, <2>1
  <2>3. /\ Advance /\ out' = [out EXCEPT ![u] = ch] /\ u' = u + 1
        /\ pc' = pc /\ args_start' = args_start /\ args' = args
        /\ state' \in Unquoted
    BY <1>5
    DEF OpenSegment, ExtensionDot, LeadingDot, PlainByte, Emit, Stay, fields, Unquoted
  <2> QED BY <2>2, <2>3, WritesByte
<1>6. CASE RepeatSlash
  <2>1. Reading /\ ch = SLASH /\ state = "Slash"
    BY <1>6 DEF RepeatSlash, Is
  <2>2. u < SentLen /\ ch = Sent(u) /\ p = off[u + 1] /\ ~merge_slashes
    BY <1>0, <1>1, <1>2, <1>3, <2>1
  <2>3. /\ Advance /\ out' = [out EXCEPT ![u] = ch] /\ u' = u + 1
        /\ pc' = pc /\ args_start' = args_start /\ args' = args
        /\ state' \in Unquoted
    BY <1>6, <2>2 DEF RepeatSlash, Emit, Stay, fields, Unquoted
  <2> QED BY <2>2, <2>3, WritesByte
<1>7. ~CloseDotSegment
  BY <1>0, <1>1, <1>3 DEF CloseDotSegment, Is
<1>8. ~QuestionMark /\ ~HashMark
  BY <1>0, <1>3 DEF QuestionMark, HashMark, Is
<1>9. ~EscapeRoot
  <2> SUFFICES ASSUME EscapeRoot PROVE FALSE
    OBVIOUS
  <2>1. /\ state = "DotDot"
        /\ p <= uri_end => \E b \in {SLASH, QUESTION, HASH} : Is(b)
    BY DEF EscapeRoot
  <2>2. u < SentLen /\ Sent(u) # SLASH
    BY <1>1, <2>1
  <2>3. Reading /\ p <= uri_end
    BY <1>0, <1>2, <2>2 DEF Reading
  <2> QED BY <1>0, <1>3, <2>1, <2>2, <2>3 DEF Is
<1>10. CASE EndOfPath
  <2>1. ~Reading /\ u = SentLen
    BY <1>0, <1>10 DEF EndOfPath
  <2>2. state \in {"Usual", "Slash"}
    BY <1>1, <1>2, <2>1 DEF Unquoted
  <2>3. PICK m \in PathEnds : FinishDone(m)
    BY <1>10 DEF EndOfPath
  <2>4. m = u
    BY <2>2, <2>3 DEF PathEnds
  <2>5. /\ uri_len' = SentLen /\ out' = out /\ pc' = "normalized"
        /\ args_start' = args_start /\ args' = args
    BY <1>10, <2>1, <2>3, <2>4 DEF EndOfPath, FinishDone
  <2>6. SentLen' = SentLen /\ \A k : Sent(k)' = Sent(k)
    BY SameEncoding
  <2> QED BY <1>2, <2>1, <2>5, <2>6 DEF Run, StageTwoRun
<1> QED BY <1>4, <1>5, <1>6, <1>7, <1>8, <1>9, <1>10

(* The steps inside an escape. *)
LEMMA EscapeRuns ==
  ASSUME PathInv, SentNormal, NEW off, Encoding(off), Run(off), pc = "complex",
         UNCHANGED << input, first >>,
         QuotedFirst \/ LiteralEscape \/ DecodedByte \/ RejectEscape
  PROVE  Run(off)'
<1>0. /\ uri_end \in Nat /\ SentLen \in Nat \ {0} /\ StageTwoRun(off)
      /\ u \in 0 .. SentLen /\ off[u] \in Nat /\ args.data = 0 /\ p \in Nat
      /\ u < SentLen => /\ u \in 0 .. SentLen - 1 /\ Sent(u) \in Byte
                        /\ off[u + 1] \in Nat /\ off[u + 1] <= uri_end
      /\ state \in States
  BY InStageTwo DEF PathInv, TypeInv, TypeOK
<1>1. SentLen' = SentLen /\ \A k : Sent(k)' = Sent(k)
  BY SameEncoding
<1>2. CASE state \in {"Quoted", "QuotedSecond"}
  <2>1. /\ Reading /\ u < SentLen
        /\ off[u + 1] = off[u] + 3
        /\ At(off[u] + 2) = hex(Sent(u) % 16)
        /\ Sent(u) \div 16 \in 0 .. 15 /\ Sent(u) % 16 \in 0 .. 15
        /\ IsHexDigit(ch)
        /\ state = "QuotedSecond" => Value = Sent(u) /\ p = off[u + 1]
    BY <1>2, InEscape
  <2>2. Sent(u) # 0
    BY <1>0, <2>1 DEF SentNormal
  <2>3. CASE QuotedFirst
    <3>1. ch = hex(Sent(u) \div 16) /\ p = off[u] + 2 /\ should_percent_encode(Sent(u))
      BY <1>0, <2>3 DEF QuotedFirst, StageTwoRun
    <3>2. /\ state' = "QuotedSecond" /\ p' = p + 1 /\ ch' = ReadWithLf(p)
          /\ u' = u /\ out' = out /\ decoded' = HexValue(ch)
          /\ pc' = pc /\ args_start' = args_start /\ args' = args
      BY <2>3 DEF QuotedFirst, Advance, Stay, fields
    <3>3. decoded' = Sent(u) \div 16
      BY <2>1, <3>1, <3>2, HexDigit
    <3>4. ch' = hex(Sent(u) % 16) /\ p' = off[u] + 3
      <4>1. p < uri_end BY <1>0, <2>1, <3>1
      <4> QED BY <1>0, <2>1, <3>1, <3>2, <4>1 DEF ReadWithLf
    <3>5. StageTwoRun(off)'
      BY <1>0, <1>1, <2>1, <3>1, <3>2, <3>3, <3>4 DEF StageTwoRun, Unquoted
    <3> QED BY <1>0, <3>2, <3>5 DEF Run
  <2>4. CASE LiteralEscape
    <3>1. /\ Advance /\ out' = [out EXCEPT ![u] = Sent(u)] /\ u' = u + 1
          /\ pc' = pc /\ args_start' = args_start /\ args' = args
          /\ state' \in Unquoted /\ p = off[u + 1]
      BY <2>1, <2>4 DEF LiteralEscape, Stay, fields, Unquoted
    <3> QED BY <2>1, <3>1, WritesByte
  <2>5. CASE DecodedByte
    <3>1. /\ ch' = Sent(u) /\ p' = p /\ u' = u /\ out' = out /\ state' = quoted_state
          /\ pc' = pc /\ args_start' = args_start /\ args' = args
          /\ p = off[u + 1] /\ Sent(u) \notin Literals
          /\ ch = hex(Sent(u) % 16)
      BY <1>0, <2>1, <2>5 DEF DecodedByte, Stay, fields, StageTwoRun
    <3>2. Sent(u) \notin {PERCENT, HASH, QUESTION}
      <4>1. IsDigit(ch) <=> Sent(u) % 16 < 10
        BY <2>1, <3>1, HexDigit
      <4>2. PERCENT % 16 = 5 /\ HASH % 16 = 3 /\ QUESTION % 16 = 15
        BY DEF PERCENT, HASH, QUESTION
      <4>3. Sent(u) \in {PERCENT, HASH} => IsDigit(ch)
        BY <4>1, <4>2
      <4>4. Sent(u) = QUESTION => ~IsDigit(ch)
        BY <4>1, <4>2
      <4> QED BY <3>1, <4>3, <4>4 DEF Literals
    <3>3. quoted_state \in Unquoted
      BY DEF PathInv, TypeInv, TypeOK
    <3>4. Unescaped(off)'
      BY <1>1, <2>1, <3>1, <3>2 DEF Unescaped
    <3>5. state' \in Unquoted /\ state' \notin {"Quoted", "QuotedSecond"}
      BY <3>1, <3>3 DEF Unquoted
    <3>6. StageTwoRun(off)'
      BY <1>0, <1>1, <3>1, <3>4, <3>5 DEF StageTwoRun
    <3> QED BY <1>0, <3>1, <3>6 DEF Run
  <2>6. ~RejectEscape
    BY <2>1, <2>2 DEF RejectEscape
  <2> QED BY <2>3, <2>4, <2>5, <2>6
<1>3. CASE state \in Unquoted
  BY <1>3 DEF QuotedFirst, LiteralEscape, DecodedByte, RejectEscape, Unquoted
<1> QED BY <1>0, <1>2, <1>3 DEF States, Unquoted

LEMMA StepRuns ==
  ASSUME PathInv, SentNormal, NEW off, Encoding(off), Run(off), Next, UNCHANGED first
  PROVE  Run(off)'
<1>1. UNCHANGED << input, first >>
  BY NextKeepsInput
<1>2. CASE ParseComplexUriStep
  <2>1. pc = "complex"
    BY <1>2
    DEF ParseComplexUriStep, Percent, OpenSegment, RepeatSlash, ExtensionDot,
        LeadingDot, PlainByte, CloseDotSegment, EscapeRoot, QuestionMark, HashMark,
        EndOfPath, QuotedFirst, LiteralEscape, DecodedByte, RejectEscape, Reading
  <2>2. CASE \/ Percent \/ OpenSegment \/ RepeatSlash \/ ExtensionDot \/ LeadingDot
             \/ PlainByte \/ CloseDotSegment \/ EscapeRoot
             \/ QuestionMark \/ HashMark \/ EndOfPath
    <3>1. state \in Unquoted
      BY <2>2
      DEF Percent, OpenSegment, RepeatSlash, ExtensionDot, LeadingDot, PlainByte,
          CloseDotSegment, EscapeRoot, QuestionMark, HashMark, EndOfPath, Unquoted
    <3> QED BY <1>1, <2>1, <2>2, <3>1, UnquotedRuns
  <2>3. CASE QuotedFirst \/ LiteralEscape \/ DecodedByte \/ RejectEscape
    BY <1>1, <2>1, <2>3, EscapeRuns
  <2> QED BY <1>2, <2>2, <2>3 DEF ParseComplexUriStep
<1>3. CASE ParseUriStep
  BY <1>1, <1>3, StageOneRuns
<1>4. CASE \/ RejectEmpty \/ CallParseUri \/ CallParseComplexUri
           \/ ReturnBorrowed \/ ReturnOwned
  BY <1>1, <1>4, CallRuns
<1> QED BY <1>2, <1>3, <1>4 DEF Next

-----------------------------------------------------------------------------
(* A path that is returned is a sequence of bytes, and normal. *)
LEMMA PathIsBytes ==
  ASSUME PathInv, OwnedOut, pc = "ok"
  PROVE  PathLen \in Nat /\ \A i \in 0 .. PathLen - 1 : Path[i] \in Byte
<1>1. /\ PathLen = result.len /\ result.len \in Nat /\ result.len <= uri_end
      /\ result.owned \in BOOLEAN /\ uri_end \in Nat
      /\ \A i \in 0 .. uri_end - 1 : At(i) \in Byte
  BY ReadType DEF PathInv, TypeInv, TypeOK, Cursor, Outcome, PathLen
<1>2. ASSUME NEW i \in 0 .. PathLen - 1
      PROVE  Path[i] \in Byte
  <2>1. Path[i] = IF result.owned THEN out[i] ELSE At(i)
    BY DEF Path
  <2>2. i \in 0 .. uri_end - 1 /\ i \in 0 .. uri_end
    BY <1>1
  <2>3. CASE result.owned
    BY <2>1, <2>2, <2>3 DEF OwnedOut
  <2>4. CASE ~result.owned
    BY <1>1, <2>1, <2>2, <2>4
  <2> QED BY <2>3, <2>4
<1> QED BY <1>1, <1>2

(* The call that Forward makes. *)
LEMMA ForwardSent ==
  ASSUME PathInv, OwnedOut, Forward
  PROVE  SentNormal'
<1> DEFINE n == PathLen
           s == [ i \in 1 .. n |-> Path[i - 1] ]
<1>1. /\ PathIsNormal /\ pc = "ok" /\ first' = s
      /\ merge_slashes' = merge_slashes
  BY ReturnsNormal DEF Forward
<1>2. n \in Nat /\ \A i \in 0 .. n - 1 : Path[i] \in Byte
  BY <1>1, PathIsBytes
<1>3. s \in Seq(Byte) /\ Len(s) = n
  <2>1. \A i \in 1 .. n : i - 1 \in 0 .. n - 1
    BY <1>2
  <2>2. \A i \in 1 .. n : Path[i - 1] \in Byte
    BY <1>2, <2>1
  <2> HIDE DEF n
  <2> QED BY <1>2, <2>2
<1>4. ASSUME NEW k \in 0 .. n - 1
      PROVE  s[k + 1] = Path[k]
  <2>1. k + 1 \in 1 .. n /\ (k + 1) - 1 = k
    BY <1>2
  <2> QED BY <2>1
<1> HIDE DEF s
<1>5. SentLen' = n
  BY <1>1, <1>3 DEF SentLen
<1>6. \A k \in 0 .. n - 1 : Sent(k)' = Path[k]
  BY <1>1, <1>4 DEF Sent
<1>7. /\ n > 0 /\ Path[0] = SLASH
      /\ \A i \in 0 .. n - 1 : Path[i] # 0
      /\ \A i \in 0 .. n - 1 : \A k \in 1 .. 2 : ~DotsAfter(Path, n, i, k)
      /\ \A i \in 0 .. n - 1 :
           (merge_slashes /\ i > 0) => ~(Path[i - 1] = SLASH /\ Path[i] = SLASH)
  BY <1>1 DEF PathIsNormal
<1>8. ASSUME NEW k \in 0 .. n - 2, Path[k] = SLASH, Path[k + 1] = DOT
      PROVE  k + 2 < n /\ Path[k + 2] # SLASH
  <2>1. ~DotsAfter(Path, n, k, 1)
    <3>1. k \in 0 .. n - 1 /\ 1 \in 1 .. 2 BY <1>2
    <3> QED BY <1>7, <3>1
  <2>2. k + 1 < n /\ \A j \in k + 1 .. k + 1 : Path[j] = DOT
    BY <1>2, <1>8
  <2>3. ~((k + 1 + 1 = n) \/ Path[k + 1 + 1] = SLASH)
    BY <1>8, <2>1, <2>2 DEF DotsAfter
  <2>4. k + 1 + 1 = k + 2
    BY <1>2
  <2> QED BY <1>2, <2>2, <2>3, <2>4
<1>9. ASSUME NEW k \in 0 .. n - 3, Path[k] = SLASH, Path[k + 1] = DOT, Path[k + 2] = DOT
      PROVE  k + 3 < n /\ Path[k + 3] # SLASH
  <2>1. ~DotsAfter(Path, n, k, 2)
    <3>1. k \in 0 .. n - 1 /\ 2 \in 1 .. 2 BY <1>2
    <3> QED BY <1>7, <3>1
  <2>2. k + 2 < n /\ \A j \in k + 1 .. k + 2 : Path[j] = DOT
    BY <1>2, <1>9
  <2>3. ~((k + 2 + 1 = n) \/ Path[k + 2 + 1] = SLASH)
    BY <1>9, <2>1, <2>2 DEF DotsAfter
  <2>4. k + 2 + 1 = k + 3
    BY <1>2
  <2> QED BY <1>2, <2>2, <2>3, <2>4
<1>10. ASSUME NEW k \in 0 .. n - 2, merge_slashes
       PROVE  ~(Path[k] = SLASH /\ Path[k + 1] = SLASH)
  <2>1. k + 1 \in 0 .. n - 1 /\ k + 1 > 0 /\ (k + 1) - 1 = k
    BY <1>2
  <2> QED BY <1>7, <1>10, <2>1
<1>11. first' \in Seq(Byte) /\ n \in Nat
  BY <1>1, <1>2, <1>3
<1> HIDE DEF n
<1>12. \A k \in 0 .. n - 2 : k \in 0 .. n - 1 /\ k + 1 \in 0 .. n - 1
  BY <1>11
<1>13. \A k \in 0 .. n - 3 : /\ k \in 0 .. n - 1 /\ k + 1 \in 0 .. n - 1
                             /\ k + 2 \in 0 .. n - 1
  BY <1>11
<1>14. (Sent(0) = SLASH)'
  BY <1>6, <1>7, <1>11
<1>15. \A k \in 0 .. n - 2 :
         Sent(k)' = SLASH /\ Sent(k + 1)' = DOT => k + 2 < n /\ Sent(k + 2)' # SLASH
  BY <1>6, <1>8, <1>11, <1>12
<1>16. \A k \in 0 .. n - 3 :
         Sent(k)' = SLASH /\ Sent(k + 1)' = DOT /\ Sent(k + 2)' = DOT
           => k + 3 < n /\ Sent(k + 3)' # SLASH
  BY <1>6, <1>9, <1>11, <1>13
<1>17. merge_slashes' =>
         \A k \in 0 .. n - 2 : ~(Sent(k)' = SLASH /\ Sent(k + 1)' = SLASH)
  BY <1>1, <1>6, <1>10, <1>12
<1> QED BY <1>5, <1>6, <1>7, <1>11, <1>14, <1>15, <1>16, <1>17 DEF SentNormal

LEMMA TargetEncodesNext ==
  (first \in Seq(Byte) /\ SentLen # 0 /\ target = percent_encode(first))'
    => (target \in Seq(Byte) /\ \E off : Encoding(off))'
<1>1. first \in Seq(Byte) /\ SentLen # 0 /\ target = percent_encode(first)
      => target \in Seq(Byte) /\ \E off : Encoding(off)
  BY TargetEncodes
<1> QED BY <1>1, PTL

LEMMA ForwardTripInv == TripInv /\ Forward => TripInv'
<1> SUFFICES ASSUME TripInv, Forward PROVE TripInv'
  OBVIOUS
<1>1. SentNormal'
  BY ForwardSent DEF TripInv
<1>2. first' \in Seq(Byte) /\ Len(first') # 0
  <2>1. first' \in Seq(Byte) /\ SentLen' > 0
    BY <1>1 DEF SentNormal
  <2>2. Len(first') \in Nat
    BY <2>1
  <2> QED BY <2>1, <2>2 DEF SentLen
<1>3. target' = percent_encode(first') /\ 2 * Len(target') + 2 < UsizeSize
  BY DEF Forward
<1>4. target' \in Seq(Byte) /\ \E off : Encoding(off)'
  BY <1>2, <1>3, TargetEncodesNext DEF SentLen
<1>5. /\ pc' = "call" /\ state' = "Start" /\ p' = 0
      /\ args_start' = None /\ uri_ext' = None
      /\ args' = [len |-> 0, data |-> 0] /\ exten' = [len |-> 0, data |-> 0]
      /\ complex_uri' = FALSE /\ quoted_uri' = FALSE /\ plus_in_uri' = FALSE
      /\ uri_len' = 0 /\ ch' = 0 /\ decoded' = 0 /\ quoted_state' = "Usual"
      /\ u' = 0 /\ out' = None /\ result' = None /\ merge_slashes' = merge_slashes
  BY DEF Forward
<1>6. TypeOK'
  <2>1. merge_slashes' \in BOOLEAN /\ TargetOK'
    BY <1>4, <1>5 DEF TripInv, PathInv, TypeInv, TypeOK, TargetOK
  <2>2. args' \in Slice /\ exten' \in Slice
    BY <1>5 DEF Slice
  <2>3. /\ args_start' \in Option(Nat \ {0}) /\ uri_ext' \in Option(Nat)
        /\ (out \in Option([0 .. uri_end -> Byte]))' /\ result' \in Option(Outcome)
    BY <1>5 DEF Option
  <2>4. ch' \in Byte /\ decoded' \in 0 .. 15 /\ quoted_state' \in Unquoted
    BY <1>5 DEF Byte, Unquoted
  <2>5. state' \in UriStates
    BY <1>5 DEF UriStates
  <2> QED BY <1>5, <2>1, <2>2, <2>3, <2>4, <2>5 DEF TypeOK
<1>7. Cursor' /\ Fits'
  BY <1>3, <1>5 DEF Cursor, Fits, uri_end
<1>8. PathInv'
  BY <1>5, <1>6, <1>7 DEF PathInv, TypeInv, ScanInv, OutputInv, ReturnInv
<1>9. OwnedOut' /\ \A off : Run(off)'
  BY <1>5 DEF OwnedOut, Run
<1> QED BY <1>1, <1>4, <1>8, <1>9 DEF TripInv

LEMMA ParseTripInv == TripInv /\ ParseStep => TripInv'
<1> SUFFICES ASSUME TripInv, Next, UNCHANGED first PROVE TripInv'
  BY DEF ParseStep
<1>1. PathInv' /\ UNCHANGED input
  BY NextPathInv, NextKeepsInput DEF TripInv
<1>2. OwnedOut'
  <2> SUFFICES ASSUME pc' = "ok", result'.owned PROVE out' \in [0 .. uri_end' -> Byte]
    BY DEF OwnedOut
  <2>1. uri_end' = uri_end
    BY <1>1, ReadStable
  <2>2. ReturnBorrowed \/ ReturnOwned
    <3>1. ~ParseUriStep
      BY DEF ParseUriStep, InitialSlash, MarkComplex, MarkQuoted, MarkArgs, MarkPlus,
             SegmentByte, NextSegment, MarkExtension, UsualRun, OpaqueByte, RefuseByte,
             Scanning, Scan, Fail
    <3>2. ~ParseComplexUriStep
      BY DEF ParseComplexUriStep, Percent, OpenSegment, RepeatSlash, ExtensionDot,
             LeadingDot, PlainByte, CloseDotSegment, EscapeRoot, QuestionMark, HashMark,
             EndOfPath, QuotedFirst, LiteralEscape, DecodedByte, RejectEscape, Reading,
             Stay, Fail, FinishArgs, FinishDone
    <3>3. ~RejectEmpty /\ ~CallParseUri /\ ~CallParseComplexUri
      BY DEF RejectEmpty, CallParseUri, CallParseComplexUri, Fail
    <3> QED BY <3>1, <3>2, <3>3 DEF Next
  <2>3. ReturnOwned
    BY <2>2 DEF ReturnBorrowed, Return
  <2>4. pc = "normalized" /\ out' = out
    BY <2>3 DEF ReturnOwned, Return, locals
  <2> QED BY <2>1, <2>4 DEF TripInv, PathInv, TypeInv, TypeOK
<1>3. ASSUME first # None
      PROVE  SentNormal' /\ \E off : Encoding(off)' /\ Run(off)'
  <2>1. SentNormal
    BY <1>3 DEF TripInv
  <2>2. PICK off : Encoding(off) /\ Run(off)
    BY <1>3 DEF TripInv
  <2>3. Run(off)'
    BY <2>1, <2>2, StepRuns DEF TripInv
  <2>4. SentNormal' /\ Encoding(off)'
    BY <1>1, <2>1, <2>2, SameEncoding
  <2> QED BY <2>3, <2>4
<1> QED BY <1>1, <1>2, <1>3 DEF TripInv

LEMMA StutterTripInv == TripInv /\ UNCHANGED trip_vars => TripInv'
<1> SUFFICES ASSUME TripInv, UNCHANGED trip_vars PROVE TripInv'
  OBVIOUS
<1>1. UNCHANGED << vars, input, first >>
  BY DEF trip_vars, vars
<1>2. PathInv'
  BY <1>1, NextPathInv DEF TripInv
<1>3. /\ uri_end' = uri_end /\ \A i : At(i)' = At(i)
      /\ SentLen' = SentLen /\ \A k : Sent(k)' = Sent(k)
      /\ SentNormal' = SentNormal
      /\ \A off : Encoding(off)' = Encoding(off)
  BY <1>1, SameEncoding
<1>4. /\ pc' = pc /\ state' = state /\ p' = p /\ u' = u /\ out' = out /\ ch' = ch
      /\ args_start' = args_start /\ args' = args /\ result' = result
      /\ uri_len' = uri_len /\ decoded' = decoded /\ target' = target
      /\ complex_uri' = complex_uri /\ quoted_uri' = quoted_uri
  BY <1>1 DEF vars, input, flags, marks, fields, locals
<1>5. OwnedOut'
  BY <1>3, <1>4 DEF TripInv, OwnedOut
<1>6. ASSUME NEW off, Run(off)
      PROVE  Run(off)'
  <2>1. StageOneRun' = StageOneRun
    BY <1>3, <1>4 DEF StageOneRun, NeedsNormalization
  <2>2. StageTwoRun(off)' = StageTwoRun(off)
    <3>1. Fetched(off)' = Fetched(off)
      BY <1>4 DEF Fetched, ReadWithLf, At, uri_end
    <3>2. Unescaped(off)' = Unescaped(off)
      BY <1>3, <1>4 DEF Unescaped, Sent
    <3> QED BY <1>1, <1>4, <3>1, <3>2 DEF StageTwoRun, Sent, SentLen
  <2> QED BY <1>3, <1>4, <1>6, <2>1, <2>2 DEF Run
<1> QED BY <1>1, <1>2, <1>3, <1>5, <1>6 DEF TripInv

LEMMA InitTripInv == TripInit => TripInv
BY InitPathInv DEF TripInit, Init, TripInv, OwnedOut

LEMMA SurvivesFromInv == TripInv => PathSurvives
<1> SUFFICES ASSUME TripInv, first # None, Returned
             PROVE  /\ pc = "ok" /\ result.args = None
                    /\ first = [ i \in 1 .. PathLen |-> Path[i - 1] ]
  BY DEF PathSurvives
<1>1. PICK off : Run(off)
  BY DEF TripInv
<1>2. pc = "ok"
  BY <1>1 DEF Run, Returned
<1>3. /\ result.args = None /\ PathLen = SentLen
      /\ \A i \in 0 .. SentLen - 1 :
           Sent(i) = IF result.owned THEN out[i] ELSE At(i)
  BY <1>1, <1>2 DEF Run, PathLen
<1>4. SentLen \in Nat /\ first = [ i \in 1 .. SentLen |-> first[i] ]
  BY DEF TripInv, SentNormal, SentLen
<1>5. ASSUME NEW i \in 1 .. SentLen
      PROVE  Path[i - 1] = first[i]
  <2>1. i - 1 \in 0 .. SentLen - 1 /\ (i - 1) + 1 = i
    BY <1>4
  <2>2. Path[i - 1] = Sent(i - 1)
    BY <1>3, <2>1 DEF Path
  <2> QED BY <2>1, <2>2 DEF Sent
<1> QED BY <1>2, <1>3, <1>4, <1>5

(* A path that a call returned, borrowed or owned, and that is sent on     *)
(* encoded with PATH_ESCAPE_SET, is accepted and comes back unchanged and  *)
(* without a query: whatever its bytes are, and with or without merging.   *)
THEOREM PathsSurvive == TripSpec => []PathSurvives
<1>1. TripInv /\ [TripNext]_trip_vars => TripInv'
  BY ForwardTripInv, ParseTripInv, StutterTripInv DEF TripNext
<1> QED BY <1>1, InitTripInv, SurvivesFromInv, PTL DEF TripSpec
=============================================================================

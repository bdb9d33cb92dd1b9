------------------------ MODULE StackMapping_proofs ------------------------
(***************************************************************************)
(* Proof that stage 2 implements the stack of segments: every step of a    *)
(* call is a step of SegmentStack or leaves the stack alone.               *)
(***************************************************************************)
EXTENDS StackMapping, OriginForm_proofs, FiniteSetTheorems, SequenceTheorems

-----------------------------------------------------------------------------
(***************************************************************************)
(* The slashes of a buffer and their ranks.                                *)
(***************************************************************************)
LEMMA SlashesFinite ==
  ASSUME NEW b, NEW n \in Nat
  PROVE  /\ IsFiniteSet(Slashes(b, n)) /\ Count(b, n) \in Nat
         /\ Slashes(b, n) \subseteq 0 .. n - 1
<1>1. IsFiniteSet(0 .. n - 1)
  BY FS_Interval
<1>2. Slashes(b, n) \subseteq 0 .. n - 1
  BY DEF Slashes
<1> QED
  BY <1>1, <1>2, FS_Subset, FS_CardinalityType DEF Count

(* One more byte. *)
LEMMA CountNext ==
  ASSUME NEW b, NEW n \in Nat
  PROVE  /\ b[n] = SLASH => /\ Slashes(b, n + 1) = Slashes(b, n) \cup {n}
                            /\ Count(b, n + 1) = Count(b, n) + 1
         /\ b[n] # SLASH => Slashes(b, n + 1) = Slashes(b, n)
<1>1. \A i \in 0 .. n : i \in 0 .. n - 1 \/ i = n
  OBVIOUS
<1>2. CASE b[n] = SLASH
  <2>1. Slashes(b, n + 1) = Slashes(b, n) \cup {n}
    BY <1>1, <1>2 DEF Slashes
  <2>2. n \notin Slashes(b, n)
    BY DEF Slashes
  <2>3. IsFiniteSet(Slashes(b, n))
    BY SlashesFinite
  <2>4. Cardinality(Slashes(b, n) \cup {n}) = Cardinality(Slashes(b, n)) + 1
    BY <2>2, <2>3, FS_AddElement
  <2> QED
    BY <1>2, <2>1, <2>4 DEF Count
<1>3. CASE b[n] # SLASH
  BY <1>1, <1>3 DEF Slashes
<1> QED
  BY <1>2, <1>3

(* A slash has a higher rank than those before it. *)
LEMMA RanksDiffer ==
  ASSUME NEW b, NEW n \in Nat, NEW i \in Slashes(b, n), NEW j \in Slashes(b, n), i < j
  PROVE  Count(b, i) < Count(b, j)
<1>1. i \in Nat /\ j \in Nat /\ b[i] = SLASH
  BY DEF Slashes
<1>2. Slashes(b, i + 1) \subseteq Slashes(b, j)
  BY <1>1 DEF Slashes
<1>3. Count(b, i + 1) <= Count(b, j)
  BY <1>1, <1>2, SlashesFinite, FS_Subset DEF Count
<1>4. Count(b, i + 1) = Count(b, i) + 1 /\ Count(b, i) \in Nat /\ Count(b, j) \in Nat
  BY <1>1, CountNext, SlashesFinite
<1> QED
  BY <1>3, <1>4

(* Every rank below the count is that of a slash. *)
LEMMA RankTaken ==
  ASSUME NEW b, NEW n \in Nat, NEW k \in 1 .. Count(b, n)
  PROVE  \E i \in Slashes(b, n) : Count(b, i) = k - 1
<1> DEFINE Above == { m \in Nat : k <= Count(b, m) }
<1>1. k \in Nat /\ k > 0 /\ n \in Above
  BY SlashesFinite
<1>2. PICK m \in Above : \A l \in Above : m <= l
  <2>1. Above \subseteq Nat /\ Above # {}
    BY <1>1
  <2> HIDE DEF Above
  <2> QED
    BY <2>1, Least
<1>3. Count(b, 0) = 0
  <2>1. Slashes(b, 0) = {}
    BY DEF Slashes
  <2> QED
    BY <2>1, FS_EmptySet DEF Count
<1>4. m # 0
  BY <1>1, <1>2, <1>3
<1>5. m - 1 \in Nat /\ m - 1 \notin Above /\ (m - 1) + 1 = m /\ m \in Nat
  BY <1>2, <1>4
<1>6. Count(b, m - 1) < k /\ k <= Count(b, m)
  BY <1>1, <1>2, <1>5, SlashesFinite
<1>7. b[m - 1] = SLASH
  <2> SUFFICES ASSUME b[m - 1] # SLASH PROVE FALSE
    OBVIOUS
  <2>1. Slashes(b, m) = Slashes(b, m - 1)
    BY <1>5, CountNext
  <2> QED
    BY <2>1, <1>1, <1>5, <1>6, SlashesFinite DEF Count
<1>8. Count(b, m - 1) = k - 1
  <2>1. Count(b, m) = Count(b, m - 1) + 1
    BY <1>5, <1>7, CountNext
  <2> QED
    BY <2>1, <1>1, <1>5, <1>6, SlashesFinite
<1>9. m - 1 \in Slashes(b, n)
  BY <1>1, <1>2, <1>5, <1>7 DEF Slashes
<1> QED
  BY <1>8, <1>9

LEMMA SlashAtRank ==
  ASSUME NEW b, NEW n \in Nat, NEW k \in 1 .. Count(b, n)
  PROVE  SlashAt(b, n, k) \in Slashes(b, n) /\ Count(b, SlashAt(b, n, k)) = k - 1
BY RankTaken DEF SlashAt

LEMMA SlashAtUnique ==
  ASSUME NEW b, NEW n \in Nat, NEW k \in 1 .. Count(b, n),
         NEW i \in Slashes(b, n), Count(b, i) = k - 1
  PROVE  SlashAt(b, n, k) = i
<1> DEFINE j == SlashAt(b, n, k)
<1>1. j \in Slashes(b, n) /\ Count(b, j) = k - 1
  BY SlashAtRank
<1>2. i \in Nat /\ j \in Nat
  BY <1>1 DEF Slashes
<1>3. Count(b, i) \in Nat /\ Count(b, j) \in Nat
  BY <1>2, SlashesFinite
<1> HIDE DEF j
<1>4. ~(i < j) /\ ~(j < i)
  BY <1>1, <1>3, RanksDiffer
<1>5. i = j
  BY <1>2, <1>4
<1> QED
  BY <1>5 DEF j

-----------------------------------------------------------------------------
(***************************************************************************)
(* The segments of a buffer c that begins with the n bytes of b.           *)
(***************************************************************************)
Begins(c, b, n) == \A i \in 0 .. n - 1 : c[i] = b[i]

LEMMA CountBegins ==
  ASSUME NEW b, NEW c, NEW n \in Nat, Begins(c, b, n), NEW i \in 0 .. n
  PROVE  Slashes(c, i) = Slashes(b, i) /\ Count(c, i) = Count(b, i)
<1>1. Slashes(c, i) = Slashes(b, i)
  BY DEF Slashes, Begins
<1> QED
  BY <1>1 DEF Count

LEMMA FirstInside ==
  ASSUME NEW b, NEW n \in Nat, NEW k \in 1 .. Count(b, n) + 1
  PROVE  First(b, n, k) \in 0 .. n
<1>1. CASE k = 1
  BY <1>1 DEF First
<1>2. CASE k # 1
  <2>1. Count(b, n) \in Nat /\ k - 1 \in 1 .. Count(b, n)
    BY <1>2, SlashesFinite
  <2>2. SlashAt(b, n, k - 1) \in 0 .. n - 1
    BY <2>1, SlashAtRank, SlashesFinite
  <2> QED
    BY <1>2, <2>2 DEF First
<1> QED
  BY <1>1, <1>2

(* The slashes of the n bytes keep their ranks, so the segments between    *)
(* them are the same.                                                      *)
LEMMA SegmentsKept ==
  ASSUME NEW b, NEW c, NEW n \in Nat, NEW m \in Nat, n <= m, Begins(c, b, n)
  PROVE  /\ Count(b, n) <= Count(c, m)
         /\ \A k \in 1 .. Count(b, n) : SlashAt(c, m, k) = SlashAt(b, n, k)
         /\ \A k \in 1 .. Count(b, n) + 1 : First(c, m, k) = First(b, n, k)
         /\ \A k \in 1 .. Count(b, n) :
              Between(c, First(c, m, k), SlashAt(c, m, k))
                = Between(b, First(b, n, k), SlashAt(b, n, k))
<1>1. Slashes(b, n) \subseteq Slashes(c, m)
  BY DEF Slashes, Begins
<1>2. Count(b, n) \in Nat /\ Count(c, m) \in Nat /\ Count(b, n) <= Count(c, m)
  BY <1>1, SlashesFinite, FS_Subset DEF Count
<1>3. \A k \in 1 .. Count(b, n) : SlashAt(c, m, k) = SlashAt(b, n, k)
  <2> SUFFICES ASSUME NEW k \in 1 .. Count(b, n)
               PROVE  SlashAt(c, m, k) = SlashAt(b, n, k)
    OBVIOUS
  <2> DEFINE i == SlashAt(b, n, k)
  <2>1. i \in Slashes(b, n) /\ Count(b, i) = k - 1
    BY SlashAtRank
  <2>2. i \in 0 .. n /\ i \in Slashes(c, m)
    BY <1>1, <2>1 DEF Slashes
  <2> HIDE DEF i
  <2>3. Count(c, i) = k - 1
    BY <2>1, <2>2, CountBegins
  <2>4. k \in 1 .. Count(c, m)
    BY <1>2
  <2>5. SlashAt(c, m, k) = i
    BY <2>2, <2>3, <2>4, SlashAtUnique
  <2> QED
    BY <2>5 DEF i
<1>4. \A k \in 1 .. Count(b, n) + 1 : First(c, m, k) = First(b, n, k)
  <2> SUFFICES ASSUME NEW k \in 1 .. Count(b, n) + 1
               PROVE  First(c, m, k) = First(b, n, k)
    OBVIOUS
  <2>1. k = 1 \/ k - 1 \in 1 .. Count(b, n)
    BY <1>2
  <2> QED
    BY <1>3, <2>1 DEF First
<1>5. ASSUME NEW k \in 1 .. Count(b, n)
      PROVE  Between(c, First(c, m, k), SlashAt(c, m, k))
               = Between(b, First(b, n, k), SlashAt(b, n, k))
  <2> DEFINE f == First(b, n, k)
             t == SlashAt(b, n, k)
  <2>1. k \in 1 .. Count(b, n) + 1
    BY <1>2
  <2>2. f \in 0 .. n /\ t \in 0 .. n - 1
    BY <2>1, FirstInside, SlashAtRank, SlashesFinite
  <2>3. First(c, m, k) = f /\ SlashAt(c, m, k) = t
    BY <1>3, <1>4, <2>1
  <2> HIDE DEF f, t
  <2>4. \A i \in 1 .. t - f : c[f + i - 1] = b[f + i - 1]
    BY <2>2 DEF Begins
  <2>5. Between(c, f, t) = Between(b, f, t)
    BY <2>4 DEF Between
  <2> QED
    BY <2>3, <2>5 DEF f, t
<1> QED
  BY <1>2, <1>3, <1>4, <1>5

(* Bytes that are not slashes close no segment. *)
LEMMA ClosedKept ==
  ASSUME NEW b, NEW c, NEW n \in Nat, NEW m \in Nat, n <= m, Begins(c, b, n),
         \A i \in n .. m - 1 : c[i] # SLASH
  PROVE  /\ Count(c, m) = Count(b, n)
         /\ ClosedSegments(c, m) = ClosedSegments(b, n)
<1>1. Slashes(c, m) = Slashes(b, n)
  BY DEF Slashes, Begins
<1>2. Count(c, m) = Count(b, n)
  BY <1>1 DEF Count
<1> QED
  BY <1>2, SegmentsKept DEF ClosedSegments

LEMMA AppendIs ==
  ASSUME NEW S, NEW n \in Nat, NEW f \in [1 .. n -> S], NEW g \in [1 .. n + 1 -> S],
         \A k \in 1 .. n : g[k] = f[k]
  PROVE  g = Append(f, g[n + 1])
<1>1. f \in Seq(S) /\ Len(f) = n /\ g \in Seq(S)
  BY SeqDef
<1>2. Len(g) = n + 1 /\ g[n + 1] \in S
  OBVIOUS
<1> DEFINE h == Append(f, g[n + 1])
<1>3. /\ h \in Seq(S) /\ Len(h) = n + 1 /\ h[n + 1] = g[n + 1]
      /\ \A k \in 1 .. n : h[k] = f[k]
  BY <1>1, <1>2, AppendProperties
<1> HIDE DEF h
<1>4. \A k \in 1 .. n + 1 : k \in 1 .. n \/ k = n + 1
  OBVIOUS
<1>5. g = h
  BY <1>1, <1>2, <1>3, <1>4, SeqEqual
<1> QED
  BY <1>5 DEF h

(* A byte that is no slash extends the open segment. *)
LEMMA PutByte ==
  ASSUME NEW b, NEW c, NEW n \in Nat, Begins(c, b, n), c[n] # SLASH
  PROVE  /\ Count(c, n + 1) = Count(b, n)
         /\ ClosedSegments(c, n + 1) = ClosedSegments(b, n)
         /\ OpenSegmentOf(c, n + 1) = Append(OpenSegmentOf(b, n), c[n])
<1> DEFINE k == Count(b, n) + 1
           f == First(b, n, k)
           old == Between(b, f, n)
           new == Between(c, f, n + 1)
           S   == { c[i] : i \in 0 .. n }
<1>1. \A i \in n .. (n + 1) - 1 : c[i] # SLASH
  <2>1. \A i \in n .. (n + 1) - 1 : i = n
    OBVIOUS
  <2> QED
    BY <2>1
<1>2. /\ Count(c, n + 1) = Count(b, n)
      /\ ClosedSegments(c, n + 1) = ClosedSegments(b, n)
  BY <1>1, ClosedKept
<1>3. Count(b, n) \in Nat /\ k \in 1 .. k
  BY SlashesFinite
<1>4. f \in 0 .. n
  BY <1>3, FirstInside
<1>5. OpenSegmentOf(c, n + 1) = new /\ OpenSegmentOf(b, n) = old
  <2>1. First(c, n + 1, k) = f
    BY <1>3, SegmentsKept
  <2> QED
    BY <1>2, <2>1 DEF OpenSegmentOf
<1> HIDE DEF f, k
<1>6. new = Append(old, c[n])
  <2>1. /\ old \in [1 .. n - f -> S] /\ new \in [1 .. (n - f) + 1 -> S]
        /\ \A i \in 1 .. n - f : new[i] = old[i]
        /\ new[(n - f) + 1] = c[n] /\ n - f \in Nat
    <3>1. \A i \in 1 .. n - f : b[f + i - 1] = c[f + i - 1] /\ f + i - 1 \in 0 .. n
      BY <1>4 DEF Begins
    <3>2. \A i \in 1 .. (n - f) + 1 : f + i - 1 \in 0 .. n
      BY <1>4
    <3>3. (n + 1) - f = (n - f) + 1 /\ f + ((n - f) + 1) - 1 = n
      BY <1>4
    <3>4. n - f \in Nat /\ (n - f) + 1 \in 1 .. (n - f) + 1
      BY <1>4
    <3>5. old \in [1 .. n - f -> S]
      BY <3>1 DEF Between
    <3>6. new = [ i \in 1 .. (n - f) + 1 |-> c[f + i - 1] ]
      BY <3>3 DEF Between
    <3>7. new \in [1 .. (n - f) + 1 -> S]
      BY <3>2, <3>6
    <3>8. \A i \in 1 .. n - f : old[i] = b[f + i - 1] /\ new[i] = c[f + i - 1]
      <4>1. old = [ i \in 1 .. n - f |-> b[f + i - 1] ]
        BY DEF Between
      <4>2. \A i \in 1 .. n - f : i \in 1 .. (n - f) + 1
        BY <3>4
      <4> HIDE DEF old, new
      <4> QED
        BY <3>6, <4>1, <4>2
    <3>9. new[(n - f) + 1] = c[n]
      BY <3>3, <3>4, <3>6
    <3> QED
      BY <3>1, <3>4, <3>5, <3>7, <3>8, <3>9
  <2> HIDE DEF old, new, S
  <2> QED
    BY <2>1, AppendIs
<1> QED
  BY <1>2, <1>5, <1>6

LEMMA NothingOpen ==
  ASSUME NEW b, NEW n \in Nat
  PROVE  Between(b, n, n) = << >>
<1>1. 1 .. n - n = {}
  OBVIOUS
<1> QED
  BY <1>1 DEF Between

(* A slash closes the open segment. *)
LEMMA PutSlash ==
  ASSUME NEW b, NEW c, NEW n \in Nat, Begins(c, b, n), c[n] = SLASH
  PROVE  /\ Count(c, n + 1) = Count(b, n) + 1
         /\ ClosedSegments(c, n + 1) = Append(ClosedSegments(b, n), OpenSegmentOf(b, n))
         /\ OpenSegmentOf(c, n + 1) = << >>
<1> DEFINE k   == Count(b, n)
           old == ClosedSegments(b, n)
           new == ClosedSegments(c, n + 1)
           S   == { new[i] : i \in 1 .. k + 1 }
<1>1. k \in Nat /\ n + 1 \in Nat /\ n <= n + 1
  BY SlashesFinite
<1>2. Count(c, n + 1) = k + 1 /\ n \in Slashes(c, n + 1)
  <2>1. Count(c, n) = k
    BY CountBegins
  <2> QED
    BY <2>1, CountNext
<1>3. SlashAt(c, n + 1, k + 1) = n
  <2>1. Count(c, n) = (k + 1) - 1
    BY <1>1, CountBegins
  <2>2. k + 1 \in 1 .. Count(c, n + 1)
    BY <1>1, <1>2
  <2> QED
    BY <1>1, <1>2, <2>1, <2>2, SlashAtUnique
<1>4. First(c, n + 1, k + 1) = First(b, n, k + 1)
  <2>1. k + 1 \in 1 .. Count(b, n) + 1
    BY <1>1
  <2> QED
    BY <1>1, <2>1, SegmentsKept
<1>5. \A i \in 1 .. k : new[i] = old[i]
  <2>1. \A i \in 1 .. k : i \in 1 .. Count(c, n + 1)
    BY <1>1, <1>2
  <2> QED
    BY <1>1, <2>1, SegmentsKept DEF ClosedSegments
<1>6. new[k + 1] = OpenSegmentOf(b, n)
  <2> DEFINE f == First(b, n, k + 1)
  <2>1. f \in 0 .. n
    <3>1. k + 1 \in 1 .. Count(b, n) + 1
      BY <1>1
    <3> QED
      BY <3>1, FirstInside
  <2>2. new[k + 1] = Between(c, f, n)
    <3>1. k + 1 \in 1 .. Count(c, n + 1)
      BY <1>1, <1>2
    <3> QED
      BY <3>1, <1>3, <1>4 DEF ClosedSegments
  <2>3. OpenSegmentOf(b, n) = Between(b, f, n)
    BY DEF OpenSegmentOf
  <2> HIDE DEF f, new
  <2>4. \A i \in 1 .. n - f : c[f + i - 1] = b[f + i - 1]
    BY <2>1 DEF Begins
  <2> QED
    BY <2>2, <2>3, <2>4 DEF Between
<1>7. old \in [1 .. k -> S] /\ new \in [1 .. k + 1 -> S]
  <2>1. new = [ i \in 1 .. k + 1 |-> new[i] ]
    BY <1>2 DEF ClosedSegments
  <2>2. old = [ i \in 1 .. k |-> old[i] ]
    BY DEF ClosedSegments
  <2> HIDE DEF old, new, k
  <2>3. \A i \in 1 .. k + 1 : new[i] \in S
    OBVIOUS
  <2>4. \A i \in 1 .. k : i \in 1 .. k + 1
    BY <1>1
  <2>5. \A i \in 1 .. k : old[i] \in S
    BY <1>5, <2>3, <2>4
  <2> HIDE DEF S
  <2> QED
    BY <2>1, <2>2, <2>3, <2>5
<1>8. OpenSegmentOf(c, n + 1) = << >>
  <2>1. (k + 1) + 1 # 1 /\ ((k + 1) + 1) - 1 = k + 1
    BY <1>1
  <2>2. First(c, n + 1, (k + 1) + 1) = n + 1
    BY <1>3, <2>1 DEF First
  <2> QED
    BY <1>1, <1>2, <2>2, NothingOpen DEF OpenSegmentOf
<1> HIDE DEF k, old, new, S
<1>9. new = Append(old, new[k + 1])
  BY <1>1, <1>5, <1>7, AppendIs
<1> QED
  BY <1>2, <1>6, <1>8, <1>9 DEF k, old, new

-----------------------------------------------------------------------------
(***************************************************************************)
(* What the end of a buffer tells of its open segment, and where a step    *)
(* back leaves the stack.                                                  *)
(***************************************************************************)
LEMMA AfterSlash ==
  ASSUME NEW b, NEW m \in Nat, b[m] = SLASH
  PROVE  /\ Count(b, m + 1) = Count(b, m) + 1 /\ Count(b, m) \in Nat
         /\ ClosedSegments(b, m + 1) = Append(ClosedSegments(b, m), OpenSegmentOf(b, m))
         /\ OpenSegmentOf(b, m + 1) = << >>
BY PutSlash, SlashesFinite DEF Begins

LEMMA AppendOne ==
  ASSUME NEW x, NEW y
  PROVE  Append(<< >>, x) = << x >> /\ Append(<< x >>, y) = << x, y >>
<1> DEFINE S == {x, y}
<1>1. << >> \in [1 .. 0 -> S] /\ << x >> \in [1 .. 0 + 1 -> S]
  OBVIOUS
<1>2. << x >> \in [1 .. 1 -> S] /\ << x, y >> \in [1 .. 1 + 1 -> S]
  OBVIOUS
<1>3. << x >> = Append(<< >>, << x >>[0 + 1]) /\ << x >>[0 + 1] = x
  BY <1>1, AppendIs
<1>4. << x, y >> = Append(<< x >>, << x, y >>[1 + 1]) /\ << x, y >>[1 + 1] = y
  BY <1>2, AppendIs
<1>5. Append(<< >>, x) = << x >>
  BY <1>3, Zenon
<1>6. Append(<< x >>, y) = << x, y >>
  BY <1>4, Zenon
<1> QED
  BY <1>5, <1>6

LEMMA AfterDot ==
  ASSUME NEW b, NEW m \in Nat, b[m] = SLASH, b[m + 1] = DOT
  PROVE  /\ Count(b, m + 2) = Count(b, m + 1)
         /\ ClosedSegments(b, m + 2) = ClosedSegments(b, m + 1)
         /\ OpenSegmentOf(b, m + 2) = << DOT >>
<1> DEFINE n == m + 1
<1>1. Begins(b, b, n) /\ b[n] # SLASH /\ n + 1 = m + 2 /\ n \in Nat
  BY DEF Begins, DOT, SLASH
<1>2. /\ Count(b, n + 1) = Count(b, n)
      /\ ClosedSegments(b, n + 1) = ClosedSegments(b, n)
      /\ OpenSegmentOf(b, n + 1) = Append(OpenSegmentOf(b, n), b[n])
  <2> HIDE DEF n
  <2> QED
    BY <1>1, PutByte
<1>3. OpenSegmentOf(b, n) = << >> /\ b[n] = DOT
  BY AfterSlash
<1> HIDE DEF n
<1>4. OpenSegmentOf(b, n + 1) = << DOT >>
  BY <1>2, <1>3, AppendOne
<1> QED
  BY <1>1, <1>2, <1>4 DEF n

LEMMA AfterDotDot ==
  ASSUME NEW b, NEW m \in Nat, b[m] = SLASH, b[m + 1] = DOT, b[m + 2] = DOT
  PROVE  /\ Count(b, m + 3) = Count(b, m + 1)
         /\ ClosedSegments(b, m + 3) = ClosedSegments(b, m + 1)
         /\ OpenSegmentOf(b, m + 3) = << DOT, DOT >>
<1> DEFINE n == m + 2
<1>1. Begins(b, b, n) /\ b[n] # SLASH /\ n + 1 = m + 3 /\ n \in Nat
  BY DEF Begins, DOT, SLASH
<1>2. /\ Count(b, n + 1) = Count(b, n)
      /\ ClosedSegments(b, n + 1) = ClosedSegments(b, n)
      /\ OpenSegmentOf(b, n + 1) = Append(OpenSegmentOf(b, n), b[n])
  <2> HIDE DEF n
  <2> QED
    BY <1>1, PutByte
<1>3. /\ Count(b, n) = Count(b, m + 1)
      /\ ClosedSegments(b, n) = ClosedSegments(b, m + 1)
      /\ OpenSegmentOf(b, n) = << DOT >> /\ b[n] = DOT
  BY AfterDot
<1> HIDE DEF n
<1>4. OpenSegmentOf(b, n + 1) = << DOT, DOT >>
  BY <1>2, <1>3, AppendOne
<1> QED
  BY <1>1, <1>2, <1>3, <1>4 DEF n

(* A segment that opens after a slash or at the start. *)
LEMMA OpensAfterSlash ==
  ASSUME NEW b, NEW n \in Nat
  PROVE  \E f \in 0 .. n : /\ OpenSegmentOf(b, n) = Between(b, f, n)
                           /\ f # 0 => b[f - 1] = SLASH
<1> DEFINE k == Count(b, n) + 1
           f == First(b, n, k)
<1>1. Count(b, n) \in Nat /\ k \in 1 .. Count(b, n) + 1
  BY SlashesFinite
<1>2. f \in 0 .. n
  BY <1>1, FirstInside
<1>3. f # 0 => b[f - 1] = SLASH
  <2>1. CASE k = 1
    BY <2>1 DEF First
  <2>2. CASE k # 1
    <3>1. k - 1 \in 1 .. Count(b, n)
      BY <1>1, <2>2
    <3>2. SlashAt(b, n, k - 1) \in Slashes(b, n)
      BY <3>1, SlashAtRank
    <3>3. f = SlashAt(b, n, k - 1) + 1
      BY <2>2 DEF First
    <3> HIDE DEF f, k
    <3> QED
      BY <3>2, <3>3 DEF Slashes
  <2> QED
    BY <2>1, <2>2
<1> QED
  BY <1>2, <1>3 DEF OpenSegmentOf

(* An open name is none of the segments that are dropped. *)
LEMMA NameIsKept ==
  ASSUME u \in Nat, u > 0, out[0] = SLASH, NameOpen(u)
  PROVE  OpenSegmentOf(out, u) \notin {<< >>, << DOT >>, << DOT, DOT >>}
<1>1. PICK f \in 0 .. u : /\ OpenSegmentOf(out, u) = Between(out, f, u)
                          /\ f # 0 => out[f - 1] = SLASH
  BY OpensAfterSlash
<1>2. f > 0 => out[f - 1] = SLASH
  <2> SUFFICES ASSUME f > 0 PROVE out[f - 1] = SLASH
    OBVIOUS
  <2>1. f # 0
    OBVIOUS
  <2> QED
    BY <1>1, <2>1
<1>9. f > 0 \/ out[f] = SLASH
  OBVIOUS
<1>3. /\ out[u - 1] # SLASH
      /\ u > 1 => ~(out[u - 2] = SLASH /\ out[u - 1] = DOT)
      /\ u > 2 => ~(out[u - 3] = SLASH /\ out[u - 2] = DOT /\ out[u - 1] = DOT)
  BY DEF NameOpen
<1>4. DOT # SLASH
  BY DEF DOT, SLASH
<1> DEFINE s == Between(out, f, u)
<1>5. s = [ i \in 1 .. u - f |-> out[f + i - 1] ]
  BY DEF Between
<1> HIDE DEF s
<1>6. s # << >>
  <2>1. f # u
    <3> SUFFICES ASSUME f = u PROVE FALSE
      OBVIOUS
    <3>1. out[u - 1] = SLASH
      BY <1>2
    <3> QED
      BY <1>3, <3>1
  <2>2. 1 \in 1 .. u - f
    BY <2>1
  <2>3. 1 \in DOMAIN s /\ 1 \notin DOMAIN << >>
    BY <1>5, <2>2
  <2> QED
    BY <2>3
<1>7. s # << DOT >>
  <2> SUFFICES ASSUME s = << DOT >> PROVE FALSE
    OBVIOUS
  <2>1. DOMAIN s = 1 .. 1 /\ s[1] = DOT
    OBVIOUS
  <2>2. u - f = 1 /\ f \in Nat
    <3>1. 1 .. u - f = 1 .. 1
      BY <1>5, <2>1
    <3> QED
      BY <3>1
  <2>3. out[f] = DOT
    <3>1. s[1] = out[f + 1 - 1]
      BY <1>5, <2>2
    <3> QED
      BY <2>1, <2>2, <3>1
  <2>4. f > 0 /\ u > 1 /\ u - 2 = f - 1 /\ u - 1 = f
    BY <1>4, <1>9, <2>2, <2>3
  <2>5. out[f - 1] = SLASH
    BY <1>2, <2>4
  <2> QED
    BY <1>3, <2>3, <2>4, <2>5
<1>8. s # << DOT, DOT >>
  <2> SUFFICES ASSUME s = << DOT, DOT >> PROVE FALSE
    OBVIOUS
  <2>1. DOMAIN s = 1 .. 2 /\ s[1] = DOT /\ s[2] = DOT
    OBVIOUS
  <2>2. u - f = 2 /\ f \in Nat
    <3>1. 1 .. u - f = 1 .. 2
      BY <1>5, <2>1
    <3>2. 2 \in 1 .. u - f /\ 3 \notin 1 .. u - f
      BY <3>1
    <3> QED
      BY <3>2
  <2>3. out[f] = DOT /\ out[f + 1] = DOT
    <3>1. s[1] = out[f + 1 - 1] /\ s[2] = out[f + 2 - 1]
      BY <1>5, <2>2
    <3> QED
      BY <2>1, <2>2, <3>1
  <2>4. f > 0 /\ u > 2 /\ u - 3 = f - 1 /\ u - 2 = f /\ u - 1 = f + 1
    BY <1>4, <1>9, <2>2, <2>3
  <2>5. out[f - 1] = SLASH
    BY <1>2, <2>4
  <2> QED
    BY <1>3, <2>3, <2>4, <2>5
<1>10. OpenSegmentOf(out, u) = s
  BY <1>1 DEF s
<1> QED
  BY <1>6, <1>7, <1>8, <1>10

-----------------------------------------------------------------------------
(***************************************************************************)
(* The segments as sequences.                                              *)
(***************************************************************************)
LEMMA ClosedIsSeq ==
  ASSUME NEW b, NEW n \in Nat
  PROVE  \E S : ClosedSegments(b, n) \in Seq(S) /\ Len(ClosedSegments(b, n)) = Count(b, n)
<1> DEFINE s == ClosedSegments(b, n)
           k == Count(b, n)
           S == { s[i] : i \in 1 .. k }
<1>1. k \in Nat
  BY SlashesFinite
<1>2. s = [ i \in 1 .. k |-> s[i] ]
  BY DEF ClosedSegments
<1> HIDE DEF s, k
<1>3. s \in [1 .. k -> S]
  BY <1>2
<1> HIDE DEF S
<1>4. s \in Seq(S) /\ Len(s) = k
  BY <1>1, <1>3, SeqDef
<1> QED
  BY <1>4 DEF s, k

LEMMA FrontOfAppend ==
  ASSUME NEW S, NEW s \in Seq(S), NEW e, NEW t, t = Append(s, e)
  PROVE  Stack!Front(t) = s /\ Len(t) = Len(s) + 1
<1> DEFINE T == S \cup {e}
<1>1. s \in Seq(T) /\ e \in T
  BY SeqDef
<1> HIDE DEF T
<1>2. t \in Seq(T) /\ Len(t) = Len(s) + 1 /\ \A i \in 1 .. Len(s) : t[i] = s[i]
  BY <1>1, AppendProperties
<1>3. Len(s) \in Nat
  BY <1>1
<1> DEFINE f == SubSeq(t, 1, Len(s))
<1>4. f \in Seq(T) /\ Len(f) = Len(s) /\ \A i \in 1 .. Len(s) : f[i] = t[i]
  BY <1>2, <1>3, SubSeqProperties
<1>5. f = s
  <2> HIDE DEF f
  <2> QED
    BY <1>1, <1>2, <1>4, SeqEqual
<1>6. Stack!Front(t) = SubSeq(t, 1, Len(t) - 1)
  BY DEF Stack!Front
<1>7. Len(t) - 1 = Len(s)
  BY <1>2, <1>3
<1> QED
  BY <1>2, <1>5, <1>6, <1>7

LEMMA EmptyBuffer ==
  ASSUME NEW b
  PROVE  Count(b, 0) = 0 /\ ClosedSegments(b, 0) = << >> /\ OpenSegmentOf(b, 0) = << >>
<1>1. Slashes(b, 0) = {}
  BY DEF Slashes
<1>2. Count(b, 0) = 0
  BY <1>1, FS_EmptySet DEF Count
<1>3. ClosedSegments(b, 0) = << >>
  <2>1. 1 .. 0 = {}
    OBVIOUS
  <2> QED
    BY <1>2, <2>1 DEF ClosedSegments
<1>4. First(b, 0, Count(b, 0) + 1) = 0
  BY <1>2 DEF First
<1> QED
  BY <1>2, <1>3, <1>4, NothingOpen DEF OpenSegmentOf

(* The bytes and their tests are the same in both modules. *)
LEMMA SameBytes ==
  /\ Stack!SLASH = SLASH /\ Stack!DOT = DOT /\ Stack!HASH = HASH
  /\ Stack!PERCENT = PERCENT /\ Stack!QUESTION = QUESTION /\ Stack!LF = LF
BY DEF Stack!SLASH, SLASH, Stack!DOT, DOT, Stack!HASH, HASH, Stack!PERCENT, PERCENT,
       Stack!QUESTION, QUESTION, Stack!LF, LF

LEMMA SameTests ==
  ASSUME NEW c
  PROVE  /\ Stack!IsHexDigit(c) <=> IsHexDigit(c)
         /\ Stack!HexValue(c) = HexValue(c)
BY DEF Stack!IsHexDigit, IsHexDigit, Stack!HexValue, HexValue, Stack!IsDigit, IsDigit,
       Stack!IsHexLetter, IsHexLetter, Stack!OrCaseBit, OrCaseBit

-----------------------------------------------------------------------------
(***************************************************************************)
(* The inductive invariant: the buffer does not exist before stage 2 is    *)
(* called, and the first digit of an escape is not set without it.         *)
(***************************************************************************)
StackInv ==
  /\ PathInv /\ target \in Targets
  /\ pc \in {"call", "uri"} => out = None
  /\ out = None => decoded = 0

LEMMA BufferExists ==
  ASSUME PathInv, target \in Targets, pc = "complex" \/ pc = "normalized"
  PROVE  out # None /\ out \in [0 .. uri_end -> Byte]
<1>1. target \in Targets /\ out \in [0 .. uri_end -> Byte]
  BY DEF PathInv, TypeInv, TypeOK
<1> QED
  BY <1>1, BufferAssumption DEF uri_end

LEMMA Exists == StackInv /\ pc \in {"complex", "normalized"} => out # None
BY BufferExists DEF StackInv

LEMMA ExistsNext == (StackInv /\ pc \in {"complex", "normalized"})' => (out # None)'
BY Exists, PTL

(* The stack while stage 2 runs and while it does not. *)
LEMMA View ==
  /\ out # None =>
       /\ Phase = IF pc = "complex" THEN "running"
                  ELSE IF pc = "err" THEN "refused" ELSE "ended"
       /\ EscapeBytes = Lag
       /\ stack_p = p /\ stack_ch = ch
       /\ stack_closed = ClosedSegments(out, u) /\ stack_open = OpenSegmentOf(out, u)
  /\ out = None =>
       /\ Phase = "idle" /\ EscapeBytes = 0 /\ stack_p = 0 /\ stack_ch = 0
       /\ stack_closed = << >> /\ stack_open = << >>
BY DEF Phase, EscapeBytes, Lag, stack_p, stack_ch, stack_closed, stack_open, InStage2

LEMMA ViewNext ==
  /\ out' # None =>
       /\ Phase' = IF pc' = "complex" THEN "running"
                   ELSE IF pc' = "err" THEN "refused" ELSE "ended"
       /\ EscapeBytes' = Lag'
       /\ stack_p' = p' /\ stack_ch' = ch'
       /\ stack_closed' = ClosedSegments(out', u') /\ stack_open' = OpenSegmentOf(out', u')
  /\ out' = None =>
       /\ Phase' = "idle" /\ EscapeBytes' = 0 /\ stack_p' = 0 /\ stack_ch' = 0
       /\ stack_closed' = << >> /\ stack_open' = << >>
BY DEF Phase, EscapeBytes, Lag, stack_p, stack_ch, stack_closed, stack_open, InStage2

(* A step that leaves the buffer, its cursors and the phase alone.         *)
LEMMA StackAlone ==
  ASSUME UNCHANGED << input, out, decoded >>,
         \/ out = None
         \/ Phase' = Phase /\ UNCHANGED << state, p, ch, u >>
  PROVE  UNCHANGED Stack!stack_vars
<1>1. target' = target /\ merge_slashes' = merge_slashes
  BY DEF input
<1>2. CASE out = None
  BY <1>1, <1>2, View, ViewNext DEF Stack!stack_vars
<1>3. CASE out # None
  BY <1>1, <1>3, View, ViewNext DEF Stack!stack_vars, Lag
<1> QED
  BY <1>2, <1>3

(***************************************************************************)
(* What holds at a step of stage 2 that stays in the loop or leaves it.    *)
(***************************************************************************)
LEMMA Running ==
  ASSUME StackInv, pc = "complex"
  PROVE  /\ uri_end = Len(target) /\ uri_end \in Nat
         /\ p \in Nat /\ u \in Nat /\ ch \in Byte /\ decoded \in 0 .. 15
         /\ merge_slashes \in BOOLEAN /\ quoted_state \in Unquoted
         /\ Reading => u \in 0 .. uri_end /\ stack_p <= Len(target)
         /\ Phase = "running" /\ stack_p = p /\ stack_ch = ch
         /\ EscapeBytes = Lag
         /\ state \in Unquoted => Lag = 0
         /\ stack_closed = ClosedSegments(out, u) /\ stack_open = OpenSegmentOf(out, u)
         /\ out # None /\ out \in [0 .. uri_end -> Byte]
<1>1. PathInv /\ TypeInv /\ TypeOK /\ TargetOK
  BY DEF StackInv, PathInv, TypeInv, TypeOK
<1>2. out # None /\ out \in [0 .. uri_end -> Byte]
  BY <1>1, BufferExists DEF StackInv
<1>3. /\ p \in Nat /\ u \in Nat /\ ch \in Byte /\ decoded \in 0 .. 15
      /\ merge_slashes \in BOOLEAN /\ quoted_state \in Unquoted
  BY <1>1 DEF TypeOK
<1>4. uri_end = Len(target) /\ uri_end \in Nat
  BY <1>1, ReadType DEF uri_end
<1>5. state \in Unquoted => Lag = 0
  BY DEF Unquoted, Lag
<1>6. Reading => u \in 0 .. uri_end /\ p <= uri_end
  BY <1>1, <1>3, <1>4 DEF TypeInv, Cursor, Reading, Lag
<1> QED
  BY <1>2, <1>3, <1>4, <1>5, <1>6, View

(* What a step that reads a byte and stays in the loop does to the stack.  *)
LEMMA Continues ==
  ASSUME StackInv, StackInv', Reading, UNCHANGED input, Advance, pc' = pc
  PROVE  /\ Stack!Read /\ Stack!More /\ Phase = "running" /\ Phase' = "running"
         /\ EscapeBytes' = Lag'
         /\ stack_closed' = ClosedSegments(out', u') /\ stack_open' = OpenSegmentOf(out', u')
         /\ target' = target /\ merge_slashes' = merge_slashes
<1>1. pc = "complex" /\ p <= uri_end
  BY DEF Reading
<1>2. uri_end = Len(target) /\ stack_p = p /\ stack_ch = ch /\ Phase = "running"
  BY <1>1, Running
<1>3. out' # None
  BY <1>1, ExistsNext
<1>4. /\ Phase' = "running" /\ stack_p' = p' /\ stack_ch' = ch' /\ EscapeBytes' = Lag'
      /\ stack_closed' = ClosedSegments(out', u') /\ stack_open' = OpenSegmentOf(out', u')
  BY <1>1, <1>3, ViewNext
<1>5. Stack!Read
  BY <1>2, <1>4, SameBytes DEF Stack!Read, Advance, ReadWithLf, At
<1>6. Stack!More
  BY <1>1, <1>2 DEF Stack!More
<1> QED
  BY <1>2, <1>4, <1>5, <1>6 DEF input

(* A byte that is written after the others. *)
LEMMA Written ==
  ASSUME StackInv, Reading, NEW b, out' = [out EXCEPT ![u] = b], u' = u + 1
  PROVE  Begins(out', out, u) /\ out'[u] = b
<1>1. u \in 0 .. uri_end /\ out \in [0 .. uri_end -> Byte]
  BY Running DEF Reading
<1> QED
  BY <1>1 DEF Begins

LEMMA PutSteps ==
  ASSUME StackInv, StackInv', Reading, UNCHANGED << input, pc, decoded >>, Advance,
         NEW b, b # SLASH, out' = [out EXCEPT ![u] = b], u' = u + 1
  PROVE  Stack!Put(b)
<1>1. u \in Nat /\ stack_closed = ClosedSegments(out, u) /\ stack_open = OpenSegmentOf(out, u)
  BY Running DEF Reading
<1>2. Begins(out', out, u) /\ out'[u] = b
  BY Written
<1>3. /\ ClosedSegments(out', u + 1) = ClosedSegments(out, u)
      /\ OpenSegmentOf(out', u + 1) = Append(OpenSegmentOf(out, u), b)
  BY <1>1, <1>2, PutByte
<1>4. /\ Stack!Read /\ Phase = "running" /\ Phase' = "running"
      /\ stack_closed' = ClosedSegments(out', u') /\ stack_open' = OpenSegmentOf(out', u')
      /\ target' = target /\ merge_slashes' = merge_slashes
  BY Continues
<1> QED
  BY <1>1, <1>3, <1>4 DEF Stack!Put

(* A slash that is written closes the open segment. *)
LEMMA SlashSteps ==
  ASSUME StackInv, StackInv', Reading, UNCHANGED input, Advance, pc' = pc,
         ch = SLASH, Emit
  PROVE  stack_closed' = Append(stack_closed, stack_open) /\ stack_open' = << >>
<1>1. u \in Nat /\ stack_closed = ClosedSegments(out, u) /\ stack_open = OpenSegmentOf(out, u)
  BY Running DEF Reading
<1>2. Begins(out', out, u) /\ out'[u] = SLASH /\ u' = u + 1
  BY Written DEF Emit
<1>3. /\ ClosedSegments(out', u + 1) = Append(ClosedSegments(out, u), OpenSegmentOf(out, u))
      /\ OpenSegmentOf(out', u + 1) = << >>
  BY <1>1, <1>2, PutSlash
<1> QED
  BY <1>1, <1>2, <1>3, Continues

(***************************************************************************)
(* The open segment in each of the states.                                 *)
(***************************************************************************)
LEMMA OpenInState ==
  ASSUME StackInv, pc = "complex", state \in Unquoted
  PROVE  /\ state = "Usual" =>
              stack_open \notin {<< DOT >>, << DOT, DOT >>}
              /\ (stack_open = << >> => stack_closed = << >>)
         /\ state = "Slash" =>
              stack_open = << >> /\ stack_closed # << >>
         /\ state = "Dot" => stack_open = << DOT >>
         /\ state = "DotDot" => stack_open = << DOT, DOT >>
<1>1. u \in Nat /\ stack_closed = ClosedSegments(out, u) /\ stack_open = OpenSegmentOf(out, u)
  BY Running
<1>2. OutputInv /\ Resume = state /\ Rooted(u)
  BY DEF StackInv, PathInv, Resume, OutputInv, Closed
<1>3. CASE state = "Usual" /\ u = 0
  BY <1>1, <1>3, EmptyBuffer
<1>4. CASE state = "Usual" /\ u > 0
  <2>1. out[0] = SLASH /\ NameOpen(u)
    BY <1>2, <1>4 DEF OutputInv, Rooted
  <2> QED
    BY <1>1, <1>4, <2>1, NameIsKept
<1>5. CASE state = "Slash"
  <2> DEFINE m == u - 1
  <2>1. m \in Nat /\ out[m] = SLASH /\ u = m + 1
    BY <1>1, <1>2, <1>5 DEF OutputInv
  <2> HIDE DEF m
  <2>2. /\ OpenSegmentOf(out, u) = << >>
        /\ ClosedSegments(out, u) = Append(ClosedSegments(out, m), OpenSegmentOf(out, m))
    BY <2>1, AfterSlash
  <2>3. ClosedSegments(out, u) # << >>
    <3>1. PICK S : ClosedSegments(out, m) \in Seq(S)
      BY <2>1, ClosedIsSeq
    <3>2. Len(ClosedSegments(out, u)) = Len(ClosedSegments(out, m)) + 1
      BY <2>2, <3>1, FrontOfAppend
    <3>3. Len(ClosedSegments(out, m)) \in Nat
      BY <3>1
    <3> QED
      BY <3>2, <3>3
  <2> QED
    BY <1>1, <1>5, <2>2, <2>3
<1>6. CASE state = "Dot"
  <2> DEFINE m == u - 2
  <2>1. m \in Nat /\ out[m] = SLASH /\ out[m + 1] = DOT /\ u = m + 2
    BY <1>1, <1>2, <1>6 DEF OutputInv
  <2> HIDE DEF m
  <2> QED
    BY <1>1, <1>6, <2>1, AfterDot
<1>7. CASE state = "DotDot"
  <2> DEFINE m == u - 3
  <2>1. /\ m \in Nat /\ out[m] = SLASH /\ out[m + 1] = DOT /\ out[m + 2] = DOT
        /\ u = m + 3
    BY <1>1, <1>2, <1>7 DEF OutputInv
  <2> HIDE DEF m
  <2> QED
    BY <1>1, <1>7, <2>1, AfterDotDot
<1> QED
  BY <1>1, <1>3, <1>4, <1>5, <1>6, <1>7 DEF Unquoted

(***************************************************************************)
(* Where a segment of dots ends the path: "." is dropped, ".." with the    *)
(* segment before it, if there is one.                                     *)
(***************************************************************************)
LEMMA DotDropped ==
  ASSUME StackInv, pc = "complex", state = "Dot", NEW n \in PathEnds
  PROVE  ClosedSegments(out, n) = stack_closed /\ OpenSegmentOf(out, n) = << >>
<1> DEFINE m == u - 2
<1>1. u \in Nat /\ stack_closed = ClosedSegments(out, u)
  BY Running
<1>2. m \in Nat /\ out[m] = SLASH /\ out[m + 1] = DOT /\ u = m + 2
  BY <1>1 DEF StackInv, PathInv, Resume, OutputInv, Unquoted
<1>3. n = m + 1
  BY <1>1 DEF PathEnds
<1> HIDE DEF m
<1> QED
  BY <1>1, <1>2, <1>3, AfterSlash, AfterDot

LEMMA ParentDropped ==
  ASSUME StackInv, pc = "complex", state = "DotDot", NEW n \in PathEnds
  PROVE  /\ ClosedSegments(out, n) = Stack!Front(stack_closed)
         /\ OpenSegmentOf(out, n) = << >>
         /\ Len(stack_closed) > 1
<1> DEFINE m == u - 3
           k == n - 1
<1>1. u \in Nat /\ stack_closed = ClosedSegments(out, u)
  BY Running
<1>2. m \in Nat /\ out[m] = SLASH /\ out[m + 1] = DOT /\ out[m + 2] = DOT /\ u = m + 3
  BY <1>1 DEF StackInv, PathInv, Resume, OutputInv, Unquoted
<1>3. /\ n \in 0 .. u /\ k \in 0 .. u - 4 /\ out[k] = SLASH
      /\ \A i \in n .. u - 4 : out[i] # SLASH
  BY DEF PathEnds
<1>4. k \in Nat /\ n = k + 1 /\ n \in Nat /\ n <= m /\ \A i \in n .. m - 1 : out[i] # SLASH
  BY <1>1, <1>3
<1> HIDE DEF m, k
<1>5. ClosedSegments(out, m) = ClosedSegments(out, n)
  BY <1>2, <1>4, ClosedKept DEF Begins
<1>6. stack_closed = Append(ClosedSegments(out, m), OpenSegmentOf(out, m))
  <2>1. ClosedSegments(out, u) = ClosedSegments(out, m + 1)
    BY <1>2, AfterDotDot
  <2> QED
    BY <1>1, <1>2, <2>1, AfterSlash
<1>7. /\ ClosedSegments(out, n) = Append(ClosedSegments(out, k), OpenSegmentOf(out, k))
      /\ OpenSegmentOf(out, n) = << >>
  BY <1>3, <1>4, AfterSlash
<1>8. PICK S : ClosedSegments(out, n) \in Seq(S)
  BY <1>4, ClosedIsSeq
<1>9. PICK T : ClosedSegments(out, k) \in Seq(T)
  BY <1>4, ClosedIsSeq
<1>10. /\ Stack!Front(stack_closed) = ClosedSegments(out, n)
       /\ Len(stack_closed) = Len(ClosedSegments(out, n)) + 1
  BY <1>5, <1>6, <1>8, FrontOfAppend
<1>11. /\ Len(ClosedSegments(out, n)) = Len(ClosedSegments(out, k)) + 1
       /\ Len(ClosedSegments(out, k)) \in Nat
  BY <1>7, <1>9, FrontOfAppend
<1> QED
  BY <1>7, <1>10, <1>11

(* Where the scan backwards finds no slash there is no segment to drop.    *)
LEMMA NoParent ==
  ASSUME StackInv, pc = "complex", state = "DotDot", PathEnds = {}
  PROVE  Len(stack_closed) = 1
<1> DEFINE m == u - 3
<1>1. u \in Nat /\ stack_closed = ClosedSegments(out, u)
  BY Running
<1>2. m \in Nat /\ out[m] = SLASH /\ out[m + 1] = DOT /\ out[m + 2] = DOT /\ u = m + 3
  BY <1>1 DEF StackInv, PathInv, Resume, OutputInv, Unquoted
<1>3. Slashes(out, m) = {}
  <2> SUFFICES ASSUME Slashes(out, m) # {} PROVE FALSE
    OBVIOUS
  <2> DEFINE D == { m - i : i \in Slashes(out, m) }
  <2>1. \A i \in Slashes(out, m) : i \in 0 .. m - 1 /\ out[i] = SLASH
    BY DEF Slashes
  <2>2. D \subseteq Nat /\ D # {}
    BY <1>2, <2>1
  <2>3. PICK d \in D : \A e \in D : d <= e
    <3> HIDE DEF D
    <3> QED
      BY <2>2, Least
  <2>4. PICK i \in Slashes(out, m) : d = m - i
    BY <2>3
  <2>5. \A j \in Slashes(out, m) : m - i <= m - j
    BY <2>3, <2>4
  <2>6. i \in 0 .. m - 1 /\ out[i] = SLASH
    BY <2>1
  <2>7. \A j \in i + 1 .. m - 1 : out[j] # SLASH
    <3> SUFFICES ASSUME NEW j \in i + 1 .. m - 1, out[j] = SLASH PROVE FALSE
      OBVIOUS
    <3>1. j \in Slashes(out, m)
      BY <1>2, <2>6 DEF Slashes
    <3>2. m - i <= m - j
      BY <2>5, <3>1
    <3> QED
      BY <1>2, <2>6, <3>2
  <2> HIDE DEF D
  <2>8. m - 1 = u - 4 /\ (i + 1) - 1 = i /\ i + 1 \in 0 .. u
    BY <1>2, <2>6
  <2>9. i + 1 \in PathEnds
    BY <2>6, <2>7, <2>8 DEF PathEnds
  <2> QED
    BY <2>9
<1> HIDE DEF m
<1>4. Count(out, m) = 0
  BY <1>3, FS_EmptySet DEF Count
<1>5. Count(out, u) = 1
  <2>1. Count(out, m + 3) = Count(out, m + 1)
    BY <1>2, AfterDotDot
  <2> QED
    BY <1>2, <1>4, <2>1, AfterSlash
<1> QED
  BY <1>1, <1>5, ClosedIsSeq

(* A segment of dots at a slash or at the end of the path.                 *)
LEMMA DropSteps ==
  ASSUME StackInv, pc = "complex", state \in {"Dot", "DotDot"}, NEW n \in PathEnds,
         stack_closed' = ClosedSegments(out, n), stack_open' = OpenSegmentOf(out, n)
  PROVE  Stack!Drop
<1>1. CASE state = "Dot"
  <2>1. stack_open = << DOT >>
    BY <1>1, OpenInState DEF Unquoted
  <2>2. << DOT >> # << DOT, DOT >>
    OBVIOUS
  <2> QED
    BY <1>1, <2>1, <2>2, DotDropped, SameBytes DEF Stack!Drop, Stack!Parent, Stack!DotSegments
<1>2. CASE state = "DotDot"
  <2>1. stack_open = << DOT, DOT >>
    BY <1>2, OpenInState DEF Unquoted
  <2> QED
    BY <1>2, <2>1, ParentDropped, SameBytes
    DEF Stack!Drop, Stack!Parent, Stack!HasParent, Stack!DotSegments
<1> QED
  BY <1>1, <1>2
-----------------------------------------------------------------------------
(***************************************************************************)
(* The steps of stage 2, in turn.                                          *)
(***************************************************************************)
LEMMA BeginSteps ==
  ASSUME StackInv, StackInv', CallParseComplexUri
  PROVE  Stack!Begin
<1>1. out = None /\ decoded = 0
  BY DEF StackInv, CallParseComplexUri, Scanned
<1>2. out' # None
  BY ExistsNext DEF CallParseComplexUri
<1>3. /\ Phase = "idle" /\ EscapeBytes = 0 /\ stack_p = 0
      /\ stack_closed = << >> /\ stack_open = << >>
  BY <1>1, View
<1>4. pc' = "complex" /\ u' = 0 /\ p' = 1 /\ ch' = ReadWithLf(0) /\ Lag' = 0 /\ decoded' = 0
  BY DEF CallParseComplexUri, Lag
<1>5. /\ Phase' = "running" /\ EscapeBytes' = 0 /\ stack_p' = 1 /\ stack_ch' = ReadWithLf(0)
      /\ stack_closed' = << >> /\ stack_open' = << >>
  BY <1>2, <1>4, ViewNext, EmptyBuffer
<1>6. Stack!Read
  BY <1>3, <1>5, SameBytes DEF Stack!Read, ReadWithLf, At, uri_end
<1>7. target' = target /\ merge_slashes' = merge_slashes
  BY DEF CallParseComplexUri, input
<1> QED
  BY <1>1, <1>3, <1>4, <1>5, <1>6, <1>7 DEF Stack!Begin

LEMMA PercentSteps ==
  ASSUME StackInv, StackInv', Percent
  PROVE  Stack!BeginEscape
<1>1. /\ Reading /\ state \in Unquoted /\ ch = PERCENT /\ Advance /\ UNCHANGED input
      /\ pc' = pc /\ Lag' = 1 /\ out' = out /\ u' = u /\ decoded' = decoded
  BY DEF Percent, Is, Stay, Lag
<1>2. Stack!AtByte /\ stack_ch = Stack!PERCENT
  BY <1>1, Running, Continues, SameBytes DEF Reading, Stack!AtByte
<1> QED
  BY <1>1, <1>2, Running, Continues DEF Reading, Stack!BeginEscape

LEMMA ContentSteps ==
  ASSUME StackInv, StackInv', ExtensionDot \/ LeadingDot \/ PlainByte
  PROVE  Stack!Content
<1>1. /\ Reading /\ state \in Unquoted /\ Emit /\ Advance
      /\ UNCHANGED << input, pc, decoded >>
      /\ state' \in Unquoted
  BY DEF ExtensionDot, LeadingDot, PlainByte, Stay, Unquoted
<1>2. ch \notin {PERCENT, SLASH, QUESTION, HASH}
  <2>1. CASE ExtensionDot \/ LeadingDot
    BY <2>1 DEF ExtensionDot, LeadingDot, Is, DOT, PERCENT, SLASH, QUESTION, HASH
  <2>2. CASE PlainByte
    <3>1. {PERCENT, SLASH, QUESTION, HASH} \subseteq Arms
      BY DEF Arms, Named, DOT, PLUS, PERCENT, SLASH, QUESTION, HASH
    <3>2. \A b \in {PERCENT, SLASH, QUESTION, HASH} : ~usual(b) /\ ~Is(b)
      BY <2>2, <3>1, NotUsual DEF PlainByte, Named
    <3> QED
      BY <3>2 DEF Is
  <2> QED
    BY <2>1, <2>2
<1>3. Stack!Put(ch)
  BY <1>1, <1>2, PutSteps DEF Emit
<1>4. /\ Lag = 0 /\ Lag' = 0 /\ stack_ch = ch /\ Phase = "running" /\ EscapeBytes = 0
      /\ stack_p <= Len(target)
  BY <1>1, Running DEF Reading, Unquoted, Lag
<1>5. EscapeBytes' = 0
  BY <1>1, <1>4, Continues
<1> QED
  BY <1>2, <1>3, <1>4, <1>5, SameBytes DEF Stack!Content, Stack!AtByte, Stack!More

LEMMA CloseSteps ==
  ASSUME StackInv, StackInv', OpenSegment \/ RepeatSlash \/ CloseDotSegment
  PROVE  Stack!Close
<1>1. /\ Reading /\ state \in Unquoted /\ Advance /\ UNCHANGED << input, pc, decoded >>
      /\ ch = SLASH /\ Lag' = 0
  BY DEF OpenSegment, RepeatSlash, CloseDotSegment, Is, Stay, Unquoted, Lag
<1>2. /\ Stack!AtByte /\ stack_ch = Stack!SLASH /\ Stack!Read
      /\ Phase = "running" /\ Phase' = "running" /\ EscapeBytes = 0 /\ EscapeBytes' = 0
      /\ target' = target /\ merge_slashes' = merge_slashes /\ decoded' = decoded
      /\ stack_closed' = ClosedSegments(out', u') /\ stack_open' = OpenSegmentOf(out', u')
  BY <1>1, Running, Continues, SameBytes DEF Reading, Stack!AtByte
<1>3. \/ Stack!Drop
      \/ Stack!Merges /\ UNCHANGED << stack_closed, stack_open >>
      \/ /\ stack_open \notin Stack!DotSegments /\ ~Stack!Merges
         /\ stack_closed' = Append(stack_closed, stack_open) /\ stack_open' = << >>
  <2>1. CASE OpenSegment
    <3>1. Emit /\ state = "Usual"
      BY <2>1 DEF OpenSegment
    <3>2. stack_closed' = Append(stack_closed, stack_open) /\ stack_open' = << >>
      BY <1>1, <3>1, SlashSteps
    <3>3. /\ stack_open \notin {<< DOT >>, << DOT, DOT >>}
          /\ stack_open = << >> => stack_closed = << >>
      BY <1>1, <3>1, OpenInState DEF Reading
    <3> QED
      BY <3>2, <3>3, SameBytes DEF Stack!DotSegments, Stack!Merges
  <2>2. CASE RepeatSlash
    <3>1. stack_open = << >> /\ stack_closed # << >>
      BY <1>1, <2>2, OpenInState DEF Reading, RepeatSlash
    <3>2. stack_open \notin Stack!DotSegments
      BY <3>1, SameBytes DEF Stack!DotSegments
    <3>3. CASE merge_slashes
      <4>1. u' = u /\ out' = out
        BY <2>2, <3>3 DEF RepeatSlash
      <4> QED
        BY <1>1, <1>2, <3>1, <3>3, <4>1, Running DEF Reading, Stack!Merges
    <3>4. CASE ~merge_slashes
      <4>1. Emit
        BY <2>2, <3>4 DEF RepeatSlash
      <4>2. stack_closed' = Append(stack_closed, stack_open) /\ stack_open' = << >>
        BY <1>1, <4>1, SlashSteps
      <4> QED
        BY <3>2, <3>4, <4>2 DEF Stack!Merges
    <3> QED
      BY <3>3, <3>4
  <2>3. CASE CloseDotSegment
    <3>1. u' \in PathEnds /\ out' = out /\ state \in {"Dot", "DotDot"}
      BY <2>3 DEF CloseDotSegment
    <3> QED
      BY <1>1, <1>2, <3>1, DropSteps DEF Reading
  <2> QED
    BY <2>1, <2>2, <2>3
<1> QED
  BY <1>2, <1>3 DEF Stack!Close

LEMMA EndSteps ==
  ASSUME StackInv, StackInv', QuestionMark \/ HashMark \/ EndOfPath, UNCHANGED input
  PROVE  Stack!End
<1>1. /\ pc = "complex" /\ state \in Unquoted
      /\ p <= uri_end => ch \in {QUESTION, HASH}
      /\ \E n \in PathEnds : FinishDone(n)
  BY DEF QuestionMark, HashMark, EndOfPath, FinishArgs, Reading, Is
<1>2. PICK n \in PathEnds : FinishDone(n)
  BY <1>1
<1>3. /\ pc' = "normalized" /\ u' = n
      /\ UNCHANGED << state, p, ch, decoded, out >>
  BY <1>2 DEF FinishDone
<1>4. out' # None
  BY <1>3, ExistsNext
<1>5. /\ Phase' = "ended" /\ EscapeBytes' = Lag /\ stack_p' = p /\ stack_ch' = ch
      /\ stack_closed' = ClosedSegments(out, n) /\ stack_open' = OpenSegmentOf(out, n)
  BY <1>3, <1>4, ViewNext DEF Lag
<1>6. Stack!AtEnd
  BY <1>1, Running, SameBytes DEF Stack!AtEnd, Stack!More
<1>7. \/ Stack!Drop
      \/ stack_open \notin Stack!DotSegments /\ UNCHANGED << stack_closed, stack_open >>
  <2>1. CASE state \in {"Dot", "DotDot"}
    BY <1>1, <1>5, <2>1, DropSteps
  <2>2. CASE state \in {"Usual", "Slash"}
    <3>1. n = u
      BY <2>2 DEF PathEnds
    <3>2. stack_open \notin Stack!DotSegments
      BY <1>1, <2>2, OpenInState, SameBytes DEF Stack!DotSegments
    <3> QED
      BY <1>1, <1>5, <3>1, <3>2, Running
  <2> QED
    BY <1>1, <2>1, <2>2 DEF Unquoted
<1> QED
  BY <1>1, <1>3, <1>5, <1>6, <1>7, Running DEF Stack!End, input

LEMMA RefuseSteps ==
  ASSUME StackInv, pc = "complex", Fail
  PROVE  Stack!Refuse
<1>1. out # None /\ out' = out /\ pc' = "err"
  BY Running DEF Fail, locals
<1>2. UNCHANGED << target, merge_slashes, p, ch, u, state, decoded >>
  BY DEF Fail, locals, input
<1> QED
  BY <1>1, <1>2, View, ViewNext DEF Stack!Refuse, Lag

LEMMA AboveRootSteps ==
  ASSUME StackInv, EscapeRoot
  PROVE  Stack!AboveRoot
<1>1. /\ pc = "complex" /\ state = "DotDot" /\ PathEnds = {} /\ Fail
      /\ p <= uri_end => ch \in {SLASH, QUESTION, HASH}
  BY DEF EscapeRoot, Is
<1>2. Stack!Refuse
  BY <1>1, RefuseSteps
<1>3. stack_open = << DOT, DOT >> /\ Len(stack_closed) = 1
  BY <1>1, OpenInState, NoParent DEF Unquoted
<1>4. Stack!AtEnd \/ (Stack!AtByte /\ stack_ch = Stack!SLASH)
  BY <1>1, Running, SameBytes DEF Stack!AtEnd, Stack!AtByte, Stack!More, Unquoted
<1> QED
  BY <1>2, <1>3, <1>4, SameBytes DEF Stack!AboveRoot, Stack!Parent, Stack!HasParent

LEMMA FirstDigitSteps ==
  ASSUME StackInv, StackInv', QuotedFirst
  PROVE  Stack!FirstDigit
<1>1. /\ Reading /\ state = "Quoted" /\ IsHexDigit(ch) /\ Advance /\ UNCHANGED input
      /\ pc' = pc /\ Lag = 1 /\ Lag' = 2 /\ decoded' = HexValue(ch)
      /\ out' = out /\ u' = u
  BY DEF QuotedFirst, Stay, Lag
<1>2. /\ stack_ch = ch /\ Phase = "running" /\ EscapeBytes = 1
      /\ stack_closed = ClosedSegments(out, u) /\ stack_open = OpenSegmentOf(out, u)
  BY <1>1, Running DEF Reading
<1>3. Stack!AtDigit(1)
  BY <1>1, <1>2, Continues, SameTests DEF Stack!AtDigit
<1> QED
  BY <1>1, <1>2, <1>3, Continues, SameTests DEF Stack!FirstDigit

(* The values an escape is content for, in either branch of its digit.     *)
LEMMA LiteralValues ==
  ASSUME StackInv, pc = "complex", IsHexDigit(ch)
  PROVE  Value \in Literals <=> Value \in {PERCENT, HASH, QUESTION}
<1>1. ch \in Byte /\ decoded \in 0 .. 15
  BY Running
<1>2. CASE IsDigit(ch)
  <2>1. HexValue(ch) \in 0 .. 9
    BY <1>2 DEF HexValue, IsDigit
  <2>2. Value # QUESTION
    BY <1>1, <2>1 DEF Value, QUESTION
  <2> QED
    BY <1>2, <2>2 DEF Literals
<1>3. CASE ~IsDigit(ch)
  <2>1. HexValue(ch) \in 10 .. 15
    BY <1>1, <1>3 DEF HexValue, IsHexDigit, IsHexLetter, OrCaseBit, Byte
  <2>2. Value # PERCENT /\ Value # HASH
    BY <1>1, <2>1 DEF Value, PERCENT, HASH
  <2> QED
    BY <1>3, <2>2 DEF Literals
<1> QED
  BY <1>2, <1>3

LEMMA SecondDigit ==
  ASSUME StackInv, Reading, state = "QuotedSecond", IsHexDigit(ch)
  PROVE  Stack!AtDigit(2) /\ Stack!Value = Value /\ EscapeBytes = 2
<1>1. EscapeBytes = 2
  BY Running DEF Reading, Lag
<1> QED
  BY <1>1, Running, SameTests DEF Reading, Stack!AtDigit, Stack!More, Stack!Value, Value

LEMMA EscapedContentSteps ==
  ASSUME StackInv, StackInv', LiteralEscape
  PROVE  Stack!EscapedContent
<1>1. /\ Reading /\ state = "QuotedSecond" /\ IsHexDigit(ch) /\ Value \in Literals
      /\ out' = [out EXCEPT ![u] = Value] /\ u' = u + 1
      /\ Advance /\ UNCHANGED << input, pc, decoded >> /\ Lag' = 0
  BY DEF LiteralEscape, Stay, Lag
<1>2. Value \in {PERCENT, HASH, QUESTION}
  BY <1>1, LiteralValues DEF Reading
<1>3. Value # SLASH
  BY <1>2 DEF PERCENT, HASH, QUESTION, SLASH
<1>4. Stack!Put(Value)
  <2> DEFINE b == Value
  <2> HIDE DEF b
  <2>1. b = Value
    BY DEF b
  <2>2. b # SLASH /\ out' = [out EXCEPT ![u] = b]
    BY <1>1, <1>3, <2>1
  <2>3. Stack!Put(b)
    BY <1>1, <2>2, PutSteps
  <2> QED
    BY <2>1, <2>3
<1>5. Stack!AtDigit(2) /\ Stack!Value = Value
  BY <1>1, SecondDigit
<1>6. EscapeBytes' = 0
  BY <1>1, Continues
<1> QED
  BY <1>2, <1>4, <1>5, <1>6, SameBytes DEF Stack!EscapedContent

LEMMA DecodeSteps ==
  ASSUME StackInv, StackInv', DecodedByte
  PROVE  Stack!Decode
<1>1. /\ Reading /\ state = "QuotedSecond" /\ IsHexDigit(ch)
      /\ Value \notin Literals \cup {0} /\ ch' = Value /\ state' = quoted_state
      /\ UNCHANGED << input, pc, p, decoded, u, out >>
  BY DEF DecodedByte, Stay
<1>2. Value \notin {0, PERCENT, HASH, QUESTION}
  BY <1>1, LiteralValues DEF Reading
<1>3. Stack!AtDigit(2) /\ Stack!Value = Value
  BY <1>1, SecondDigit
<1>4. out # None /\ Lag' = 0
  BY <1>1, Running DEF Reading, Unquoted, Lag
<1>5. /\ Phase' = Phase /\ EscapeBytes' = 0 /\ stack_p' = stack_p /\ stack_ch' = ch'
      /\ stack_closed' = stack_closed /\ stack_open' = stack_open
  BY <1>1, <1>4, View, ViewNext
<1> QED
  BY <1>1, <1>2, <1>3, <1>5, SameBytes DEF Stack!Decode, input

LEMMA BadEscapeSteps ==
  ASSUME StackInv, RejectEscape
  PROVE  Stack!BadEscape
<1>1. pc = "complex" /\ Fail
  BY DEF RejectEscape
<1>2. Stack!Refuse
  BY <1>1, RefuseSteps
<1>3. Phase = "running" /\ EscapeBytes > 0
  BY <1>1, Running DEF RejectEscape, Lag
<1>4. ASSUME Stack!More, Stack!IsHexDigit(stack_ch)
      PROVE  EscapeBytes = 2 /\ Stack!Value = 0
  <2>1. Reading /\ IsHexDigit(ch)
    BY <1>1, <1>4, Running, SameTests DEF Reading, Stack!More
  <2>2. state = "QuotedSecond" /\ Value = 0
    BY <2>1 DEF RejectEscape
  <2> QED
    BY <2>1, <2>2, SecondDigit
<1> QED
  BY <1>2, <1>3, <1>4 DEF Stack!BadEscape

-----------------------------------------------------------------------------
LEMMA InitStackInv == Init => StackInv /\ Stack!StackInit
<1> SUFFICES ASSUME Init PROVE StackInv /\ Stack!StackInit
  OBVIOUS
<1>1. PathInv
  BY InitPathInv
<1>2. out = None /\ decoded = 0 /\ target \in Targets
  BY DEF Init
<1> QED
  BY <1>1, <1>2, View DEF StackInv, Stack!StackInit

LEMMA StageOneLeaves ==
  ASSUME ParseUriStep
  PROVE  pc = "uri" /\ UNCHANGED << out, decoded >>
BY DEF ParseUriStep, InitialSlash, MarkComplex, MarkQuoted, MarkArgs, MarkPlus,
       SegmentByte, NextSegment, MarkExtension, UsualRun, OpaqueByte, RefuseByte,
       Scanning, Scan, Fail, locals

LEMMA CallLeaves ==
  ASSUME RejectEmpty \/ CallParseUri \/ ReturnBorrowed
  PROVE  pc \in {"call", "uri"} /\ UNCHANGED << out, decoded >>
BY DEF RejectEmpty, CallParseUri, ReturnBorrowed, Return, Scanned, Fail, locals

LEMMA StageTwoPc ==
  ASSUME ParseComplexUriStep
  PROVE  /\ pc = "complex"
         /\ pc' \in {"complex", "normalized"} \/ (pc' = "err" /\ out' = out)
BY DEF ParseComplexUriStep, Percent, OpenSegment, RepeatSlash, ExtensionDot,
       LeadingDot, PlainByte, CloseDotSegment, EscapeRoot, QuestionMark, HashMark,
       EndOfPath, QuotedFirst, LiteralEscape, DecodedByte, RejectEscape, Reading,
       Stay, Fail, FinishArgs, FinishDone, locals

LEMMA BufferExistsNext ==
  (PathInv /\ target \in Targets /\ (pc = "complex" \/ pc = "normalized"))'
    => (out # None)'
<1>1. PathInv /\ target \in Targets /\ (pc = "complex" \/ pc = "normalized")
      => out # None
  BY BufferExists
<1> QED
  BY <1>1, PTL

LEMMA NextStackInv == StackInv /\ [Next]_vars => StackInv'
<1> SUFFICES ASSUME StackInv, [Next]_vars PROVE StackInv'
  OBVIOUS
<1>1. PathInv' /\ (target \in Targets)'
  BY NextPathInv, NextKeepsInput DEF StackInv, vars, input
<1>2. CASE ParseUriStep \/ RejectEmpty \/ CallParseUri \/ ReturnBorrowed
  BY <1>1, <1>2, StageOneLeaves, CallLeaves DEF StackInv
<1>3. CASE CallParseComplexUri
  <2>1. pc' = "complex"
    BY <1>3 DEF CallParseComplexUri
  <2> QED
    BY <1>1, <2>1, BufferExistsNext DEF StackInv
<1>4. CASE ParseComplexUriStep
  <2>1. pc = "complex" /\ (pc' \in {"complex", "normalized"} \/ (pc' = "err" /\ out' = out))
    BY <1>4, StageTwoPc
  <2>2. out' # None
    BY <1>1, <2>1, BufferExists, BufferExistsNext DEF StackInv
  <2> QED
    BY <1>1, <2>1, <2>2 DEF StackInv
<1>5. CASE ReturnOwned
  <2>1. pc' = "ok" /\ out' = out /\ decoded' = decoded
    BY <1>5 DEF ReturnOwned, Return, locals
  <2> QED
    BY <1>1, <2>1 DEF StackInv
<1>6. CASE UNCHANGED vars
  BY <1>1, <1>6 DEF StackInv, vars, locals
<1> QED
  BY <1>2, <1>3, <1>4, <1>5, <1>6 DEF Next

LEMMA StackSteps ==
  StackInv /\ StackInv' /\ [Next]_vars => [Stack!StackNext]_Stack!stack_vars
<1> SUFFICES ASSUME StackInv, StackInv', [Next]_vars
             PROVE  Stack!StackNext \/ UNCHANGED Stack!stack_vars
  OBVIOUS
<1>1. CASE /\ ParseUriStep \/ RejectEmpty \/ CallParseUri \/ ReturnBorrowed
           /\ UNCHANGED input
  <2>1. out = None /\ UNCHANGED << out, decoded >>
    BY <1>1, StageOneLeaves, CallLeaves DEF StackInv
  <2> QED
    BY <1>1, <2>1, StackAlone
<1>2. CASE CallParseComplexUri
  BY <1>2, BeginSteps DEF Stack!StackNext
<1>3. CASE ParseComplexUriStep /\ UNCHANGED input
  BY <1>3, PercentSteps, ContentSteps, CloseSteps, EndSteps, AboveRootSteps,
     FirstDigitSteps, EscapedContentSteps, DecodeSteps, BadEscapeSteps
  DEF Stack!StackNext, ParseComplexUriStep
<1>4. CASE ReturnOwned /\ UNCHANGED input
  <2>1. /\ pc = "normalized" /\ pc' = "ok" /\ UNCHANGED << out, decoded, state, p, ch, u >>
    BY <1>4 DEF ReturnOwned, Return, locals
  <2>2. Phase' = Phase
    BY <2>1 DEF Phase, InStage2
  <2> QED
    BY <1>4, <2>1, <2>2, StackAlone
<1>5. CASE UNCHANGED vars
  <2>1. UNCHANGED << input, out, decoded, state, p, ch, u, pc >>
    BY <1>5 DEF vars, locals
  <2>2. Phase' = Phase
    BY <2>1 DEF Phase, InStage2
  <2> QED
    BY <2>1, <2>2, StackAlone
<1> QED
  BY <1>1, <1>2, <1>3, <1>4, <1>5, NextKeepsInput DEF Next

(* Stage 2 implements the stack of segments: for every target the buffer,  *)
(* its cursor, the dot states and the state saved at a "%" amount to the   *)
(* segments read so far, and every step is one of the stack's or leaves it *)
(* alone.                                                                  *)
THEOREM BufferIsStack == Spec => StackSpec
<1>1. Spec => []StackInv
  BY InitStackInv, NextStackInv, PTL DEF Spec
<1> QED
  BY <1>1, InitStackInv, StackSteps, PTL DEF Spec, StackSpec, Stack!StackSpec
=============================================================================

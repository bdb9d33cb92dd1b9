--------------------------- MODULE Normalization ---------------------------
(***************************************************************************)
(* What a request target means, said without a state machine: the path as  *)
(* the list of its segments, and the query as a slice.  The documentation  *)
(* of Parsed and the README of the repository describe the result in these *)
(* terms.  It shares no definition with the model of the parser.           *)
(***************************************************************************)
EXTENDS Integers, Sequences, SequencesExt, FiniteSetsExt

(* The positions of s, in order, where Test holds. *)
Where(s, Test(_)) == SelectSeq([i \in DOMAIN s |-> i], Test)

(* The first position of t whose byte is in B, or the one past its end. *)
FirstOf(t, B) == Min({ i \in DOMAIN t : t[i] \in B } \cup {Len(t) + 1})
-----------------------------------------------------------------------------
(* Escapes.  A "%" is no hexadecimal digit, so in a path without a         *)
(* malformed escape every "%" begins one.                                  *)
Digit(c) == IF c \in 48 .. 57 THEN c - 48       \* 0-9
            ELSE IF c \in 65 .. 70 THEN c - 55  \* A-F
            ELSE IF c \in 97 .. 102 THEN c - 87 \* a-f
            ELSE -1

Escape(s, i)   == 16 * Digit(s[i + 1]) + Digit(s[i + 2])
Inside(s, i)   == \E j \in {i - 2, i - 1} : j > 0 /\ s[j] = 37
WellFormed(s)  == \A i \in DOMAIN s :
                     s[i] = 37 => /\ i + 2 <= Len(s)
                                  /\ Digit(s[i + 1]) >= 0 /\ Digit(s[i + 2]) >= 0
                                  /\ Escape(s, i) # 0

Decode(s) ==
  LET kept == Where(s, LAMBDA i : ~Inside(s, i))
  IN  [ k \in DOMAIN kept |-> IF s[kept[k]] = 37 THEN Escape(s, kept[k])
                                                 ELSE s[kept[k]] ]
-----------------------------------------------------------------------------
(* Segments, by the decoded byte "/" = 47. *)
Dot    == << 46 >>
DotDot == << 46, 46 >>

SplitPath(d) ==
  LET cuts == Append(Where(d, LAMBDA i : d[i] = 47), Len(d) + 1)
  IN  [ k \in 1 .. Len(cuts) - 1 |-> SubSeq(d, cuts[k] + 1, cuts[k + 1] - 1) ]

(* One more segment on a stack of those before it. *)
Resolve(acc, segment, merge) ==
  CASE segment = Dot                -> acc
    [] segment = DotDot             -> [ ok    |-> acc.ok /\ acc.stack # << >>,
                                         stack |-> IF acc.stack = << >> THEN << >>
                                                   ELSE Front(acc.stack) ]
    [] segment = << >> /\ merge     -> acc
    [] OTHER                        -> [acc EXCEPT !.stack = Append(@, segment)]

Invalid == [ok |-> FALSE, path |-> << >>, query |-> << >>]

NormalPath(d, merge) ==
  LET segments  == SplitPath(d)
      directory == Last(segments) \in { << >>, Dot, DotDot }
      resolved  == FoldLeft(LAMBDA acc, s : Resolve(acc, s, merge),
                            [ok |-> TRUE, stack |-> << >>],
                            IF Last(segments) = << >> THEN Front(segments) ELSE segments)
      joined    == FlattenSeq([ k \in DOMAIN resolved.stack |-> <<47>> \o resolved.stack[k] ])
  IN  [ ok   |-> resolved.ok,
        path |-> IF directory THEN joined \o <<47>> ELSE joined ]

(* The query: none, or a sequence of bytes in a 1-tuple. *)
Query(t) ==
  LET cut == FirstOf(t, {63, 35})
      rest == SubSeq(t, cut + 1, Len(t))
  IN  IF cut <= Len(t) /\ t[cut] = 63 /\ rest # << >>
      THEN << SubSeq(rest, 1, FirstOf(rest, {35}) - 1) >>
      ELSE << >>

Normalized(t, merge) ==
  LET raw  == SubSeq(t, 1, FirstOf(t, {63, 35}) - 1)
      norm == NormalPath(Decode(raw), merge)
  IN  IF \/ t = << >> \/ t[1] # 47
         \/ \E i \in DOMAIN t : t[i] <= 32 \/ t[i] = 127
         \/ ~WellFormed(raw) \/ ~norm.ok
      THEN Invalid
      ELSE [ok |-> TRUE, path |-> norm.path, query |-> Query(t)]
=============================================================================

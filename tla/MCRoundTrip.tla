---------------------------- MODULE MCRoundTrip ----------------------------
(***************************************************************************)
(* Instances of RoundTrip for TLC: escapes of the bytes that must be       *)
(* escaped again and of those that must not, and every byte in a segment.  *)
(***************************************************************************)
EXTENDS RoundTrip

Pct(high, low) == << PERCENT, high, low >>
Tokens == { <<SLASH>>, <<DOT>>, <<97>>, <<PLUS>>, <<QUESTION>>,
            Pct(50, 102), Pct(50, 69), Pct(50, 53), Pct(51, 70),
            Pct(50, 51), Pct(70, 70) }

TripTargets ==
  { <<SLASH>> \o FlattenSeq(s) : s \in BoundedSeq(Tokens, 3) }
    \cup { << SLASH, 97, b >> : b \in Byte }
    \cup { << SLASH, PERCENT, hex(b \div 16), hex(b % 16) >> : b \in Byte }
=============================================================================

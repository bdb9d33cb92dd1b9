----------------------------- MODULE MCNginxUri -----------------------------
(***************************************************************************)
(* Instances of NginxUri for TLC, for callers that keep to the wrapper's   *)
(* contract and for callers that give it too little room.                  *)
(***************************************************************************)
EXTENDS NginxUri, SequencesExt

a == 97
Escape(c) == IF c = DOT THEN << PERCENT, 50, 101 >> ELSE << PERCENT, 50, 70 >>
Tokens == { <<SLASH>>, <<DOT>>, <<a>>, <<QUESTION>>, <<HASH>>, <<PLUS>>,
            <<PERCENT>>, Escape(DOT), Escape(SLASH), <<PERCENT, 48, 48>>, <<32>> }

WrapperInputs ==
  { << >>, << a >> }
    \cup { <<SLASH>> \o FlattenSeq(s) : s \in BoundedSeq(Tokens, 3) }
    \cup { <<SLASH>> \o FlattenSeq(s) :
             s \in BoundedSeq({ <<SLASH>>, <<DOT>>, <<a>> }, 6) }

Around(n) == { n - 1, n, n + 1 } \cap Nat

(***************************************************************************)
(* The comment on the wrapper, nginx_url.c:809 of the repository: -1 is    *)
(* "nginx rejected the request target".  Here: a target that is returned   *)
(* with -1 has been refused by stage 1, by stage 2 or for being empty.     *)
(***************************************************************************)
MinusOneIsARejection ==
  (pc = "returned" /\ rc = -1) => (in_len = 0 \/ p > 0 \/ inbuf(0) # SLASH)
=============================================================================

----------------------------- MODULE PathEscape -----------------------------
(***************************************************************************)
(* Percent-encoding of a path, the inverse of what the parser does: by the *)
(* crate percent-encoding with PATH_ESCAPE_SET of src/src/lib.rs, and by   *)
(* ngx_escape_uri of the reference, src/nginx-reference/nginx_url.c.       *)
(***************************************************************************)
EXTENDS Bytes, Sequences, SequencesExt

(* A digit of the upper-case hexadecimal alphabet. *)
hex(d) == IF d < 10 THEN 48 + d ELSE 65 + d - 10
Escaped(b) == << PERCENT, hex(b \div 16), hex(b % 16) >>
-----------------------------------------------------------------------------
(* The crate: CONTROLS is U+0000 to U+001F and U+007F, and a byte is       *)
(* encoded if it is in the set or is not ASCII.                            *)
CONTROLS == 0 .. 31 \cup {DEL}

PATH_ESCAPE_SET_NoPercent ==
  CONTROLS \cup { 32, QUOTE, HASH, 60, 62, QUESTION, 92, 94, 96, 123, 124, 125 }

PATH_ESCAPE_SET ==
  CONTROLS \cup { 32, QUOTE, HASH, PERCENT, 60, 62, QUESTION,    \*  "#%<>?
                  92, 94, 96, 123, 124, 125 }                    \* \^`{|}

should_percent_encode(b) == b >= 128 \/ b \in PATH_ESCAPE_SET

percent_encode(s) ==
  FlattenSeq([ i \in DOMAIN s |->
                 IF should_percent_encode(s[i]) THEN Escaped(s[i]) ELSE << s[i] >> ])
-----------------------------------------------------------------------------
(* The reference: the bitmap for the type NGX_ESCAPE_URI, and the bytes    *)
(* written where dst is not NULL (no caller in the repository counts).     *)
uri ==
  << Word(\hffff, \hffff), Word(\hd000, \h002d),
     Word(\h5000, \h0000), Word(\hb800, \h0001),
     Word(\hffff, \hffff), Word(\hffff, \hffff),
     Word(\hffff, \hffff), Word(\hffff, \hffff) >>

MustEscape(c) == (c % 32) \in uri[(c \div 32) + 1]

ngx_escape_uri(src) ==
  FoldLeft(LAMBDA dst, c : dst \o (IF MustEscape(c) THEN Escaped(c) ELSE << c >>),
           << >>, src)
=============================================================================

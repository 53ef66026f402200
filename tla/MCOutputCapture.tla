--------------------------- MODULE MCOutputCapture ---------------------------
(* OutputCapture over the shapes of output the guests of this project print. *)
EXTENDS OutputCapture

d == Token("diag")
w == Token("wd")
n == Token("nl")
b == Token("byte")
t == Token("trail")
h == Token("halted")
e == Token("sentinel")

(* Framed guests: a compile with diagnostics, watchdog lines and a map; a   *)
(* clean one, that ends with a blank line; an empty one; one that gave up;  *)
(* one whose header is garbage; one that stopped short of what it announced. *)
Framing ==
  { <<d, w, d, Size(2), n, b, b, t>>,
    <<Size(3), n, b, b, b, n>>,
    <<d, Size(0), n>>,
    <<d, h, d>>,
    <<Size(Unparsable), n, b>>,
    <<d, Size(2), n, b>> }

(* Streaming guests: plain text; text that was cut short by the guest; text *)
(* that quotes the framing of the other mode, before its end or behind it.  *)
Streaming == { <<b, n, b, b, n, e>>, <<d, b, n, b>>, <<e>>,
               <<b, b, n, b, n, b, n, b, e, n>>,
               <<b, Size(1), n, b, b, n, e>>, <<b, Size(Unparsable), n, b, e>>,
               <<d, h, n, b, e, Size(1), n>> }
=============================================================================

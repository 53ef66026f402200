--------------------------- MODULE MCRingTransport ---------------------------
(* RingTransport on instances small enough for TLC.                          *)
EXTENDS RingTransport
=============================================================================

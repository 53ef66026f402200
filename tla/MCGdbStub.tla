----------------------------- MODULE MCGdbStub -----------------------------
(* GdbStub over a bounded number of packets.                                 *)
EXTENDS GdbStub
=============================================================================

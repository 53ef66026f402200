--------------------------- MODULE MCGuestSession ---------------------------
(* GuestSession with two drivers on a host with few ports.                   *)
EXTENDS GuestSession
=============================================================================

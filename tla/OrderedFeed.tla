---------------------------- MODULE OrderedFeed ----------------------------
(***************************************************************************)
(* What feeding a source blob to a guest promises, whatever carries it: the *)
(* guest receives the blob's bytes in order and none twice, it never gets   *)
(* a byte that has not been published, at most Window bytes are published   *)
(* and unread at a time, and the feeder lets the guest go only once nothing *)
(* it still needs depends on the feeder.                                    *)
(*                                                                          *)
(* A byte is named by its position in the blob, 0 .. BlobLen - 1.           *)
(***************************************************************************)
EXTENDS Integers, Sequences

CONSTANTS
  BlobLen,    \* bytes in the blob
  Window      \* bytes that may be published and unread

VARIABLES
  taken,      \* the positions the guest has received, in order
  published,  \* how many bytes have been made visible to the guest
  status      \* "feeding", "released" (the guest is on its own), "aborted"

feedVars == <<taken, published, status>>

Init ==
  /\ taken = <<>>
  /\ published = 0
  /\ status = "feeding"

Publish ==
  /\ status = "feeding"
  /\ \E n \in published + 1 .. BlobLen :
        /\ n - Len(taken) <= Window
        /\ published' = n
  /\ UNCHANGED <<taken, status>>

Take ==
  /\ status # "aborted"
  /\ Len(taken) < published
  /\ taken' = Append(taken, Len(taken))
  /\ UNCHANGED <<published, status>>

(* A blob that fits the window needs no feeder once it is published; a      *)
(* longer one needs it until the guest has consumed the last byte.          *)
Release ==
  /\ status = "feeding"
  /\ published = BlobLen
  /\ BlobLen <= Window \/ Len(taken) = BlobLen
  /\ status' = "released"
  /\ UNCHANGED <<taken, published>>

Abort ==
  /\ status = "feeding"
  /\ status' = "aborted"
  /\ UNCHANGED <<taken, published>>

Next == Publish \/ Take \/ Release \/ Abort

FeedSpec == Init /\ [][Next]_feedVars
=============================================================================

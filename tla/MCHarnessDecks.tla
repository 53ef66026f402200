--------------------------- MODULE MCHarnessDecks ---------------------------
(* HarnessDecks with reservations that two definitions may or may not fill,  *)
(* the prologue's and emission's among them, and declarations whose          *)
(* parameters hold commas and arrows of their own.                           *)
EXTENDS HarnessDecks

Heights == [r \in Reservations |-> IF r = "emit" THEN 2 ELSE 3]

Kinds == {[lift |-> FALSE, passes |-> FALSE], [lift |-> TRUE, passes |-> TRUE]}

Types == {<<"name">>, <<"open", "name", "comma", "name", "close">>, <<"open", "name", "arrow", "name", "close">>}
Declared ==
  [params : UNION {[1 .. n -> Types] : n \in 1 .. 3},
   result : {<<"name">>, <<"open", "name", "comma", "name", "close">>, <<"open", "name", "arrow", "name", "close">>}]
=============================================================================

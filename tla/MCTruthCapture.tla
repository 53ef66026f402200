--------------------------- MODULE MCTruthCapture ---------------------------
(* TruthCapture over a silent program, a short one, a long one that outlives *)
(* the deadline, and two that fault.                                         *)
EXTENDS TruthCapture

Outputs ==
  { <<>>,
    <<"line", "line">>,
    <<"line", "line", "line", "line", "line", "line">>,
    <<"exc", "reg", "reg">>,
    <<"line", "line", "exc", "reg", "reg">> }
=============================================================================

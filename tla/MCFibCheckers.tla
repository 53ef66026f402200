--------------------------- MODULE MCFibCheckers ---------------------------
(* FibCheckers over what sandboxes are cut for: everything, fib alone, and a *)
(* WGSL regeneration, whose sandbox has a PROVENANCE and no tools.           *)
EXTENDS FibCheckers

Everything == {"ringplug", "fib", "zigemit", "codexir", "x86emit"}
FullBoxes == {Everything}
AllKinds == {Everything, {"ringplug", "fib"}, {}}
=============================================================================

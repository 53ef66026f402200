--------------------------- MODULE MCSandboxBuild ---------------------------
(* SandboxBuild over two commits, c1 and c2, that share a plug bundle, and an *)
(* edit of c1 that changes its plug.                                         *)
EXTENDS SandboxBuild, TLC

CONSTANTS t1, t1e, t2

CleanTrees == {t1, t2}
AllTrees == {t1, t1e, t2}
Commits == (t1 :> "c1") @@ (t1e :> "c1") @@ (t2 :> "c2")
Bundles == (t1 :> "b1") @@ (t1e :> "b2") @@ (t2 :> "b1")
=============================================================================

\* A plug compile is killed before its fingerprint is written, under an edit
\* that is then taken back.
SPECIFICATION Spec
CONSTANTS
  t1 = t1
  t1e = t1e
  t2 = t2
  Trees <- AllTrees
  Sha <- Commits
  Bundle <- Bundles
  Wants = {"fib", "x86emit", "all"}
  Faults = {"kill"}
  MaxRuns = 3
  MaxMoves = 0
PROPERTIES
  MatchMeansCompiled

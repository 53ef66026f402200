\* Steps fail, commands are killed, the disk fills up, and the checkout is
\* edited or changes commit, between two commands or once under one.
SPECIFICATION Spec
CONSTANTS
  t1 = t1
  t1e = t1e
  t2 = t2
  Trees <- AllTrees
  Sha <- Commits
  Bundle <- Bundles
  Wants = {"fib", "x86emit", "all"}
  Faults = {"kill", "disk"}
  MaxRuns = 3
  MaxMoves = 1
INVARIANTS
  TypeOK
  OneSandboxOneCommit
  DoneMeansBuilt
  ResultNamesItsTree
PROPERTIES
  NoStalePlug

\* Both framings, cut into chunks anywhere.
SPECIFICATION FairSpec
CONSTANTS
  Framed <- Framing
  Streamed <- Streaming
INVARIANTS
  TypeOK
  TrueMeansWhole
  FailureIsTheGuests
  NoDiagnosticLost
  EvidenceFresh
PROPERTIES
  CaptureEnds

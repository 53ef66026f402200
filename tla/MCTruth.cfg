\* Programs whose silences are shorter than the idle timeout; QEMU may die.
SPECIFICATION FairSpec
CONSTANTS
  Programs <- Outputs
  MaxGap = 3
  IdleTimeout = 4
  FaultIdle = 1
  Overall = 9
INVARIANTS
  TypeOK
  TruthIsWhole
PROPERTIES
  RunEnds

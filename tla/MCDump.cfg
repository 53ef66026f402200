\* Dumps whole and cut anywhere, given to either reader.
SPECIFICATION Spec
CONSTANTS
  Emissions <- Every
  LineBytes = 2
INVARIANTS
  TypeOK
  CarvedAsEmitted
  CleanIsAccepted
  CalledIsWhole

\* One feed through a stub that may be slow, refuse, or die.
SPECIFICATION FairSpec
CONSTANTS
  MaxSent = 16
INVARIANTS
  TypeOK
  GoesByItsOwn
PROPERTIES
  AccessHalted
  CallsEnd

\* The verdict on a stall, read while the answer to a read_pc may be overdue.
SPECIFICATION Spec
CONSTANTS
  MaxSent = 16
INVARIANTS
  SeesTheCells

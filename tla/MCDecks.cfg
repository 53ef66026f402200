\* Two subjects of two definitions through both pipelines.
SPECIFICATION Spec
CONSTANTS
  Units <- Kinds
  Height <- Heights
  Defs = 2
  MaxSize = 2
  Subjects = 2
  Passed = 2
  Signatures <- Declared
INVARIANTS
  TypeOK
  NothingOverwritten
  AlarmIsReal
  StartsAfresh

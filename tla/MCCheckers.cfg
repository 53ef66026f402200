\* Every route, verified again and again in two sandboxes that are cut for
\* this or that, while f3_run.zig is edited.
SPECIFICATION Spec
CONSTANTS
  Routes = {"zig", "qemu", "x86", "boot"}
  Kinds <- AllKinds
  MaxBoxes = 2
  MaxEdits = 2
INVARIANTS
  TypeOK
  PassIsEarned

\* The bare-metal route goes on with what an earlier verification left.
SPECIFICATION Spec
CONSTANTS
  Routes = {"zig", "qemu", "x86", "boot"}
  Kinds <- AllKinds
  MaxBoxes = 2
  MaxEdits = 2
INVARIANTS
  BareMetalPassIsEarned

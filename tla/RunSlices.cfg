SPECIFICATION JointSpec
CONSTANTS
  Wrap = 32
  Slice = 7
  MaxInsn = 17
  NmiAt = 10
  Cores = 1
  Over = 1
  BlockMax = 2
  FallbackMax = 4
  ThrashRunMax = 3
  Levels = 2
  IrqRetires = FALSE
  Yields = TRUE
INVARIANTS CapKept SliceSound
PROPERTIES SliceReturns Spec

SPECIFICATION Spec
CONSTANTS
  LBase = 20
  VBase = 30
  TBase = 40
  SBase = 50
  LCount = 1
  VCount = 2
  TCount = 3
  Ccc <- MCCcc
  Decomposition <- MCDecomposition
  CompatOnly <- MCCompatOnly
  Composition <- MCComposition
  Inputs <- MCInputs
INVARIANT TrueIfNormal
CHECK_DEADLOCK FALSE

SPECIFICATION Spec
CONSTANTS
  a = a
  b = b
  Ops <- MCOps
  Names <- MCNames
  Adopted <- MCAdopted
  MaxIterations = 2
  MaxAsks = 1
  MaxOutside = 1
INVARIANTS SuccessIsSound NoTwoWriters
PROPERTIES RunEnds
CHECK_DEADLOCK FALSE

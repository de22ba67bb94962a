\* The snapshot is one run of a program that ends: a state in which it has
\* returned or exited has no successor.
CONSTANTS
  p1 = p1
  p2 = p2
  p3 = p3
  p4 = p4
  A = A
  B = B
  C = C
  Positions <- MCPositions
  Pools <- MCPools
  PoolOf <- MCPoolOf
  LowerOf <- MCLowerOf
  UpperOf <- MCUpperOf
  FinalTick <- MCFinalTick
  Liqs = {0, 5, 100}
  Q96 = 1024
  FracBits = 14
  OutShift = 4
  Ratio0 = 14894
  OddFactor = 15621
  Nil = Nil
  Null = Null
SPECIFICATION Spec
INVARIANT TypeOK StoredExact
CHECK_DEADLOCK FALSE

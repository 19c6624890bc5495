INIT Init
NEXT Next
CONSTANTS
  NodeImpls = {1, 2, 3}
  MaxConnects = 4
  Programs <- MCPrograms
  IntMax = 3
  DoubleArithmetic <- MCDoubleArithmetic
  DoubleCompare <- MCDoubleCompare
  toInt <- MCtoInt
  toDouble <- MCtoDouble
  MaxDepth = 4
  None = None
INVARIANTS
  EdgesAreMutual
  TypedProgramsRun
  ScopesAreLexical
CHECK_DEADLOCK FALSE

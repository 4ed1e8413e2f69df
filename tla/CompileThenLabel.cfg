CONSTANTS
  MAXREGS = 24
  MAXINDEXRK = 2
  MAXARG_Bx = 3
  MAXARG_C = 2
  LFIELDS_PER_FLUSH = 2
  StackSize = 60
  MaxSteps = 300
  MaxStatements = 60
SPECIFICATION SpecThenLabel
PROPERTY CompiledRight
CHECK_DEADLOCK FALSE

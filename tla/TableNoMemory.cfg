SPECIFICATION NoMemorySpec
CONSTANTS
  Thread = {main, co}
  mainthread = main
  Handler = {"h"}
  NoHandler = "no"
  MAXCCALLS = 4
  ERRCCALLS = 6
  MAXSTACK = 3
  ERRSTACK = 5
  MaxDepth = 7
  MaxObjects = 2
  MaxNesting = 7
  UIntMax = 7
  Str = {s1}
  Udata = {u1, u2}
  SweepMax = 1
  NULL = NULL
  Ints = {1, 2, 3}
  Half = {4}
  Object = {object, name}
  Event = {name}
  Value = {"v"}
  Nil = Nil
  Hash <- Position
  MAXABITS = 4
  MAXHBITS = 3
  MAX_INT = 4
  ArraySizes = {1}
INVARIANT ListedHasValue
CHECK_DEADLOCK FALSE

SPECIFICATION FairSceneSpec
CONSTANTS
  Scenes = {"finalizers"}
  Table = {t1}
  Func = {}
  Thread = {main}
  Str = {}
  Udata = {u1}
  Main = main
  Node = {n1}
  NField = 1
  NSlot = 2
  Modes = {"strong"}
  Nil = Nil
  NumKey = NumKey
  DeadKey = DeadKey
  ResetAllWeakMeta = FALSE
INVARIANTS Owned
PROPERTIES FinalizesOnlyGarbage ImplementsLife Reclaimed CycleEnds

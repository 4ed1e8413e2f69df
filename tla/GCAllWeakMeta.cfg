SPECIFICATION WeakMetaSpec
CONSTANTS
  Scenes = {"metatables"}
  Table = {t1, t2}
  Func = {}
  Thread = {main}
  Str = {}
  Udata = {}
  Main = main
  Node = {n1}
  NField = 1
  NSlot = 1
  Modes = {"strong", "k", "kv"}
  Nil = Nil
  NumKey = NumKey
  DeadKey = DeadKey
  ResetAllWeakMeta = TRUE
SYMMETRY Perms
INVARIANTS GrayVisited

SPECIFICATION SceneSpec
CONSTANTS
  Scenes = {"weak", "resurrect values", "resurrect keys"}
  Table = {t1}
  Func = {f1}
  Thread = {main}
  Str = {s1}
  Udata = {u1}
  Main = main
  Node = {n1}
  NField = 1
  NSlot = 1
  Modes = {"strong", "k", "v", "kv"}
  Nil = Nil
  NumKey = NumKey
  DeadKey = DeadKey
  ResetAllWeakMeta = FALSE
SYMMETRY Perms
PROPERTIES CondemnsOnlyGarbage DropsOnlyGarbage

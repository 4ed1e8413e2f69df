SPECIFICATION SceneSpec
CONSTANTS
  Scenes = {"strong", "coroutines", "interning", "whole"}
  Table = {t1}
  Func = {f1}
  Thread = {main, co}
  Str = {s1}
  Udata = {}
  Main = main
  Node = {n1}
  NField = 1
  NSlot = 2
  Modes = {"strong", "kv"}
  Nil = Nil
  NumKey = NumKey
  DeadKey = DeadKey
  ResetAllWeakMeta = FALSE
SYMMETRY Perms
INVARIANTS TypeOK TriColor GrayVisited NoDangling

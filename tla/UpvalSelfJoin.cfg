SPECIFICATION TwoSpec
CONSTANTS
  Thread = {main}
  mainthread = main
  co = co
  Closure = {c1, c2}
  MaxLevel = 2
  NUp = 2
  SelfJoin = TRUE
  Nil = nil
  Value = {nil}
  x = x
  Junk = junk
  NULL = null
  Own = own
  Free = free
  UpVal = {u1, u2, u3}
  Block = {b1}
  SharedUpVal = {w1, w2}
  SharedBlock = {d1, d2}
SYMMETRY Perms
INVARIANT RefCounted
CHECK_DEADLOCK FALSE

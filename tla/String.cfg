SPECIFICATION SceneSpec
CONSTANTS
  CacheContent = {0, 1, 6}
  CacheMax = 3
  Addr = {m, a1, a2, a3, a4}
  memerrmsg = m
  Content = {0, 1, 3, 5, 6, 9}
  NoMemory = 0
  Long = {6}
  Hash <- HashItself
  MINSTRTABSIZE = 8
  MAX_INT = 15
  STRCACHE_N = 2
  STRCACHE_M = 2
SYMMETRY Perms
INVARIANTS TableSound HeldLive

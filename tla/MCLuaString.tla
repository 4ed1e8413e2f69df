---------------------------- MODULE MCLuaString ----------------------------
(***************************************************************************)
(* Instances of LuaString for TLC: the table with many strings and without *)
(* the cache in one scene, the cache with few strings in the other.        *)
(***************************************************************************)
EXTENDS LuaString, TLC

CONSTANT CacheContent, CacheMax
VARIABLE scene

Perms == Permutations(Addr \ {memerrmsg})

\* Contents are numbers here, and hash to themselves: 1 and 5 collide in a table with
\* four chains but not in one with eight, 1 and 9 in both.
HashItself == [c \in Content |-> c]

TableOps ==
  \/ \E c \in Content \ Long : NewLStr(c)
  \/ Search \/ Grow \/ (\E a \in Addr : Create(a) \/ Drop(a)) \/ MemoryError
CacheOps ==
  /\ Program
  /\ arg' \in CacheContent /\ Cardinality(Allocated') <= CacheMax

SceneNext ==
  /\ \/ Collector
     \/ scene = "table" /\ TableOps
     \/ scene = "cache" /\ CacheOps
  /\ UNCHANGED scene
SceneInit == Init /\ scene \in {"table", "cache"}
SceneSpec == SceneInit /\ [][SceneNext]_<<vars, scene>>
=============================================================================

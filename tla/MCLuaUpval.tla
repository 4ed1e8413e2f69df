---------------------------- MODULE MCLuaUpval ----------------------------
(***************************************************************************)
(* Instances of LuaUpval for TLC.  In scene "two" closures have two        *)
(* upvalues over two locals of one thread; in the others, which have a     *)
(* state of their own, they have one, over a local of each of two threads, *)
(* or over two locals of one.                                              *)
(***************************************************************************)
EXTENDS LuaUpval, TLC

CONSTANTS co, x, SharedUpVal, SharedBlock    \* for the other scenes
VARIABLES scene, mem2, stack2, top2, openupval2, v2, value2, refcount2, upvals2, cache2, proto2,
          marked2, gcphase2, sweeps2, pc2, ncl2, th2, encup2, level2, pp2
vars2 == <<mem2, stack2, top2, openupval2, v2, value2, refcount2, upvals2, cache2, proto2,
           marked2, gcphase2, sweeps2, pc2, ncl2, th2, encup2, level2, pp2>>

Perms == Permutations(Closure) \cup Permutations(UpVal) \cup Permutations(Block)
         \cup Permutations(SharedUpVal) \cup Permutations(SharedBlock)

Threads == INSTANCE LuaUpval WITH
  Thread <- {mainthread, co}, MaxLevel <- 1, NUp <- 1, Value <- {Nil, x}, SelfJoin <- FALSE,
  UpVal <- SharedUpVal, Block <- SharedBlock,
  mem <- mem2, stack <- stack2, top <- top2, openupval <- openupval2, v <- v2, value <- value2,
  refcount <- refcount2, upvals <- upvals2, cache <- cache2, proto <- proto2, marked <- marked2,
  gcphase <- gcphase2, sweeps <- sweeps2, pc <- pc2, ncl <- ncl2, th <- th2, encup <- encup2,
  level <- level2, pp <- pp2
Levels == INSTANCE LuaUpval WITH
  Thread <- {mainthread}, MaxLevel <- 2, NUp <- 1, Value <- {Nil, x}, SelfJoin <- FALSE,
  UpVal <- SharedUpVal, Block <- SharedBlock,
  mem <- mem2, stack <- stack2, top <- top2, openupval <- openupval2, v <- v2, value <- value2,
  refcount <- refcount2, upvals <- upvals2, cache <- cache2, proto <- proto2, marked <- marked2,
  gcphase <- gcphase2, sweeps <- sweeps2, pc <- pc2, ncl <- ncl2, th <- th2, encup <- encup2,
  level <- level2, pp <- pp2

\* What LuaUpval asks of its constants.
ASSUME ScenesAssumption ==
  /\ UpvalAssumption /\ Threads!UpvalAssumption /\ Levels!UpvalAssumption
  /\ PlaceAssumption /\ Threads!PlaceAssumption /\ Levels!PlaceAssumption

\* For the variables it does not matter what the collector has marked early, nor why
\* it runs.
SceneNext ==
  /\ \/ scene = "two" /\ Next /\ UNCHANGED vars2
     \/ scene = "threads" /\ (Threads!Program \/ Threads!LateCollector) /\ UNCHANGED vars
     \/ scene = "levels" /\ (Levels!Program \/ Levels!LateCollector) /\ UNCHANGED vars
  /\ UNCHANGED scene
SceneInit ==
  /\ Init
  /\ \/ scene \in {"two", "levels"} /\ Levels!Init
     \/ scene = "threads" /\ Threads!Init
SceneSpec == SceneInit /\ [][SceneNext]_<<scene, vars, vars2>>
\* For an upvalue that is joined to itself (lua_upvaluejoin).
TwoSpec == SceneInit /\ scene = "two" /\ [][SceneNext]_<<scene, vars, vars2>>

\* Closures and threads behave as if variables were boxes of their own: capturing,
\* closing, moving the stack and collecting change no value and no sharing.
BehavesAsVariables ==
  /\ scene = "threads" => Threads!Variables!Init
  /\ scene = "levels" => Levels!Variables!Init
  /\ [][\/ UNCHANGED <<mem2, stack2, top2, v2, value2, upvals2, marked2>>
        \/ scene = "threads" /\ Threads!Variables!Next
        \/ scene = "levels" /\ Levels!Variables!Next]_vars2
=============================================================================

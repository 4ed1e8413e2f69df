------------------------------ MODULE MCLuaGC ------------------------------
(***************************************************************************)
(* Instances of LuaGC for TLC.  The whole program on a few addresses has   *)
(* too many states, so a run is made of scenes: in each one the program    *)
(* uses only some kinds of objects and a part of its operations, and TLC   *)
(* explores all of that.  The collector is never cut.                      *)
(***************************************************************************)
EXTENDS LuaGC, TLC

CONSTANT Scenes
VARIABLE scene

Perms == Permutations(Table) \cup Permutations(Thread \ {Main}) \cup Permutations(Str)
         \cup Permutations(Udata) \cup Permutations(Func) \cup Permutations(Node)

\* The program has built a table that is its own metatable, with some __mode, and
\* keeps it in a global root; then it only works with the entries of that table.
WeakInit(W) ==
  \E t \in Table, w \in W :
    /\ marked = [o \in Obj |-> IF o \in {Main, t} THEN "white0" ELSE "free"]
    /\ currentwhite = "white0" /\ gcstate = "GCSpause"
    /\ allgc = {t} /\ finobj = {} /\ tobefnz = {} /\ sweep = {}
    /\ gray = {} /\ grayagain = {} /\ weak = {} /\ allweak = {} /\ ephemeron = {}
    /\ apc = "idle" /\ todo = {} /\ changed = FALSE
    /\ origagain = {} /\ origweak = {} /\ origall = {}
    /\ full = "none" /\ emergency = FALSE /\ infin = FALSE
    /\ ref = [o \in Obj |-> [i \in Slot |-> IF o = t /\ i = 1 THEN t ELSE Nil]]
    /\ top = [th \in Thread |-> 0]
    /\ keys = [u \in Table |-> [n \in Node |-> Nil]]
    /\ vals = [u \in Table |-> [n \in Node |-> Nil]]
    /\ mode = [u \in Table |-> IF u = t THEN w ELSE "strong"]
    /\ groot = t /\ cur = Main /\ resumer = [th \in Thread |-> Nil]
\* The program of a scene keeps to the addresses S, and to n slots of a stack.
Uses(S, n) ==
  /\ \A o \in Obj : marked'[o] # "free" => o \in S \cup {Main}
  /\ \A th \in Thread : top'[th] <= n

StrongOps == (StackOps \/ TableOps \/ FieldOps) /\ Uses(Table \cup Func, NSlot)
CoroutineOps == (StackOps \/ ThreadOps) /\ Uses(Func \cup Thread, NSlot)
InternOps == (StackOps \/ StringOps \/ RootOps \/ ThreadOps) /\ Uses(Str \cup Thread, 1)
WholeOps == Program /\ Uses(Table, 1)

WeakOps == (StackOps \/ TableOps \/ RehashOps) /\ Uses(Table \cup Func \cup Str, 1)
UdataMeta == \E u \in Udata, t \in Table : SetMeta(u, t, TRUE)
ResurrectOps(S) ==
  /\ StackOps \/ TableOps \/ UdataMeta \/ SetGlobalRoot(Nil) \/ FinalizerOps
  /\ Uses(Table \cup Udata \cup S, 1)
FinalizationOps == StackOps \/ MetaOps \/ FinalizerOps \/ FullOps

SceneInit ==
  /\ scene \in Scenes
  /\ CASE scene = "weak"             -> WeakInit({"k", "v", "kv"})
       [] scene = "resurrect values" -> WeakInit({"v"})
       [] scene = "resurrect keys"   -> WeakInit({"k", "kv"})
       [] OTHER                      -> Init
SceneNext ==
  /\ \/ Collector
     \/ scene = "strong" /\ StrongOps
     \/ scene = "coroutines" /\ CoroutineOps
     \/ scene = "interning" /\ InternOps
     \/ scene = "whole" /\ WholeOps
     \/ scene = "weak" /\ WeakOps
     \/ scene = "resurrect values" /\ ResurrectOps(Func)
     \/ scene = "resurrect keys" /\ ResurrectOps({})
     \/ scene = "finalizers" /\ FinalizationOps
  /\ UNCHANGED scene
SceneSpec == SceneInit /\ [][SceneNext]_<<vars, scene>>
FairSceneSpec == SceneSpec /\ WF_vars(Collector)

\* Tables that are weak in both and change their metatable during the cycle.
WeakMetaSpec == WeakInit({"k", "kv"}) /\ scene = "metatables"
                /\ [][(Collector \/ StackOps \/ MetaOps) /\ UNCHANGED scene]_<<vars, scene>>
=============================================================================

---------------------------- MODULE LuaGCControl ----------------------------
(***************************************************************************)
(* What drives the collector: luaC_step, luaC_fullgc and lua_gc, and the   *)
(* finalizers that they call (lgc.c, lapi.c, lmem.c).  A finalizer is a    *)
(* Lua function: it may use collectgarbage, allocate, run out of memory    *)
(* and raise errors while the function that called it is half way, so the  *)
(* state is the C stack of these functions and the fields of global_State  *)
(* that they save, restore and test.                                       *)
(***************************************************************************)
EXTENDS Naturals, Sequences

CONSTANTS
  MaxObjects,     \* bound: objects with a finalizer at a time
  MaxNesting,       \* bound: functions of the collector active at a time
  UIntMax         \* the largest unsigned int, for gcfinnum

ControlAssumption ==
  /\ MaxObjects \in Nat /\ MaxNesting \in Nat /\ UIntMax \in Nat \ {0}

VARIABLES
  stack,      \* the functions that are running, the innermost last
  gcphase,    \* GCSpropagate stands for the marking states, GCSsweep for the sweeps
  gckind, gcrunning, gcfinnum,
  finobj,     \* how many objects are in list finobj
  tobefnz,    \* and in tobefnz
  stopped,    \* history: was "stop" called after the last "restart"?
  disturbed,  \* history: has a finalizer failed, or called "stop" or "restart", since the
              \* main program last did?
  exhausted   \* history: has memory run out since the main program last began a full
              \* collection?
history == <<stopped, disturbed, exhausted>>
controlvars == <<stack, gcphase, gckind, gcrunning, gcfinnum, finobj, tobefnz, history>>
fields == <<gcphase, gckind, gcrunning, gcfinnum, finobj, tobefnz>>

Frame ==
  [fn : {"luaC_step"}, auto : BOOLEAN, at : {"step", "check", "end"}]
  \cup [fn : {"luaC_fullgc"}, at : {"finish", "start", "sweep", "callfin"}]
  \cup [fn : {"runafewfinalizers"}, i : 0..UIntMax]
  \cup [fn : {"GCTM"}, running : BOOLEAN]
  \cup [fn : {"LUA_GCSTEP"}, oldrunning : BOOLEAN]
GCPhase == {"GCSpause", "GCSpropagate", "GCSsweep", "GCScallfin"}

ControlTypes ==
  /\ stack \in Seq(Frame) /\ Len(stack) <= MaxNesting
  /\ gcphase \in GCPhase /\ gckind \in {"KGC_NORMAL", "KGC_EMERGENCY"}
  /\ gcrunning \in BOOLEAN /\ gcfinnum \in 0..UIntMax
  /\ finobj \in 0..MaxObjects /\ tobefnz \in 0..MaxObjects
  /\ stopped \in BOOLEAN /\ disturbed \in BOOLEAN /\ exhausted \in BOOLEAN

TopFrame == stack[Len(stack)]
Below == SubSeq(stack, 1, Len(stack) - 1)
In(fn) == stack # <<>> /\ TopFrame.fn = fn
\* Room for n functions more.
Room(n) == Len(stack) + n <= MaxNesting
Goto(label) == stack' = Append(Below, [TopFrame EXCEPT !.at = label])

\* Lua code runs as the main program or as a finalizer.
InLua == stack = <<>> \/ In("GCTM")

-----------------------------------------------------------------------------
(* The program *)

\* luaC_checkfinalizer
MarkObject ==
  /\ InLua /\ finobj + tobefnz < MaxObjects
  /\ finobj' = finobj + 1
  /\ UNCHANGED <<stack, gcphase, gckind, gcrunning, gcfinnum, tobefnz, history>>

\* lua_gc(LUA_GCSTOP) and lua_gc(LUA_GCRESTART)
SetRunning(b) ==
  /\ InLua
  /\ gcrunning' = b /\ stopped' = ~b /\ disturbed' = (stack # <<>>)
  /\ UNCHANGED <<stack, gcphase, gckind, gcfinnum, finobj, tobefnz, exhausted>>

\* luaC_checkGC: an allocation brought the debt above zero.  With the collector
\* not running luaC_step only sets the debt.
AutoStep ==
  /\ InLua /\ Room(3) /\ gcrunning
  /\ stack' = Append(stack, [fn |-> "luaC_step", auto |-> TRUE, at |-> "step"])
  /\ UNCHANGED <<fields, history>>

\* lua_gc(LUA_GCSTEP), which lets the collector run and restores gcrunning later.
GCStep ==
  /\ InLua /\ Room(4)
  /\ stack' = stack \o <<[fn |-> "LUA_GCSTEP", oldrunning |-> gcrunning],
                         [fn |-> "luaC_step", auto |-> FALSE, at |-> "step"]>>
  /\ gcrunning' = TRUE
  /\ UNCHANGED <<gcphase, gckind, gcfinnum, finobj, tobefnz, history>>
GCStepEnd ==
  /\ In("LUA_GCSTEP")
  /\ gcrunning' = TopFrame.oldrunning
  /\ stack' = Below
  /\ UNCHANGED <<gcphase, gckind, gcfinnum, finobj, tobefnz, history>>

\* luaC_fullgc from lua_gc(LUA_GCCOLLECT), or from luaM_realloc_ in an emergency.
\* Black objects are swept back to white first.
luaC_fullgc(isemergency) ==
  /\ InLua /\ Room(3)
  /\ stack' = Append(stack, [fn |-> "luaC_fullgc", at |-> "finish"])
  /\ gckind' = IF isemergency THEN "KGC_EMERGENCY" ELSE gckind
  /\ gcphase' = IF gcphase = "GCSpropagate" THEN "GCSsweep" ELSE gcphase
  /\ exhausted' = (isemergency \/ (stack # <<>> /\ exhausted))
  /\ UNCHANGED <<gcrunning, gcfinnum, finobj, tobefnz, stopped, disturbed>>

-----------------------------------------------------------------------------
(* singlestep *)

\* The states before GCScallfin.  The atomic step finds n objects to finalize.
MarkAndSweep ==
  \/ /\ gcphase = "GCSpause" /\ gcphase' = "GCSpropagate"
     /\ UNCHANGED <<gcfinnum, finobj, tobefnz>>
  \/ /\ gcphase = "GCSpropagate"
     /\ \/ UNCHANGED <<gcphase, gcfinnum, finobj, tobefnz>>
        \/ /\ gcphase' = "GCSsweep"
           /\ gcfinnum' = 1
           /\ \E n \in 0..finobj : finobj' = finobj - n /\ tobefnz' = tobefnz + n
  \/ /\ gcphase = "GCSsweep" /\ gcphase' \in {"GCSsweep", "GCScallfin"}
     /\ UNCHANGED <<gcfinnum, finobj, tobefnz>>

\* State GCScallfin, with objects to finalize or without.
SomeToCall == tobefnz > 0 /\ gckind # "KGC_EMERGENCY"
CallFin(frames) ==
  /\ gcphase = "GCScallfin" /\ SomeToCall
  /\ stack' = Append(frames, [fn |-> "runafewfinalizers", i |-> 0])
  /\ UNCHANGED fields
NoneToCall ==
  /\ gcphase = "GCScallfin" /\ ~SomeToCall
  /\ gcphase' = "GCSpause"
  /\ UNCHANGED <<gckind, gcrunning, gcfinnum, finobj, tobefnz>>

SingleStep(frames) ==
  \/ MarkAndSweep /\ stack' = frames /\ UNCHANGED <<gckind, gcrunning>>
  \/ CallFin(frames)
  \/ NoneToCall /\ stack' = frames

-----------------------------------------------------------------------------
(* luaC_step and luaC_fullgc *)

\* The body of the loop of luaC_step.
StepBody ==
  /\ In("luaC_step") /\ TopFrame.at = "step"
  /\ SingleStep(Append(Below, [TopFrame EXCEPT !.at = "check"]))
  /\ UNCHANGED history
\* Its condition, and what follows it: the loop goes on until the cycle has ended or
\* the debt is paid, and in the second case a few finalizers are called.
StepCheck ==
  /\ In("luaC_step") /\ TopFrame.at = "check"
  /\ \/ gcphase = "GCSpause" /\ stack' = Below
     \/ gcphase # "GCSpause" /\ Goto("step")
     \/ /\ gcphase # "GCSpause"
        /\ stack' = Below \o <<[TopFrame EXCEPT !.at = "end"], [fn |-> "runafewfinalizers", i |-> 0]>>
  /\ UNCHANGED <<fields, history>>
StepEnd == In("luaC_step") /\ TopFrame.at = "end" /\ stack' = Below /\ UNCHANGED <<fields, history>>

\* One luaC_runtilstate of luaC_fullgc after the other: "here" is the states it stops
\* at, "next" what comes then.
RunTilState(label, here, next) ==
  /\ In("luaC_fullgc") /\ TopFrame.at = label
  /\ IF gcphase \in here THEN Goto(next) /\ UNCHANGED fields ELSE SingleStep(stack)
  /\ UNCHANGED history
\* Mutant: the full collection ends at GCScallfin.
FullGCEndEarly ==
  /\ In("luaC_fullgc") /\ TopFrame.at = "callfin"
  /\ gckind' = "KGC_NORMAL"
  /\ stack' = Below
  /\ UNCHANGED <<gcphase, gcrunning, gcfinnum, finobj, tobefnz, history>>
FullGCEnd ==
  /\ In("luaC_fullgc") /\ TopFrame.at = "callfin" /\ gcphase = "GCSpause"
  /\ gckind' = "KGC_NORMAL"
  /\ stack' = Below
  /\ UNCHANGED <<gcphase, gcrunning, gcfinnum, finobj, tobefnz, history>>
FullGCStep ==
  \/ RunTilState("finish", {"GCSpause"}, "start")
  \/ RunTilState("start", GCPhase \ {"GCSpause"}, "sweep")
  \/ RunTilState("sweep", {"GCScallfin"}, "callfin")
  \/ In("luaC_fullgc") /\ TopFrame.at = "callfin" /\ gcphase # "GCSpause"
     /\ SingleStep(stack) /\ UNCHANGED history
  \/ FullGCEnd

-----------------------------------------------------------------------------
(* Finalizers *)

\* The condition of the loop of runafewfinalizers.
MoreToCall == tobefnz > 0 /\ TopFrame.i < gcfinnum
Counted == Append(Below, [TopFrame EXCEPT !.i = @ + 1])
\* runafewfinalizers: GCTM takes the first object of tobefnz; its metamethod is
\* called with the collector stopped, if it is a function.
CallFinalizer ==
  /\ In("runafewfinalizers") /\ MoreToCall
  /\ tobefnz' = tobefnz - 1
  /\ \/ /\ stack' = Append(Counted, [fn |-> "GCTM", running |-> gcrunning])
        /\ gcrunning' = FALSE
     \/ stack' = Counted /\ UNCHANGED gcrunning
  /\ UNCHANGED <<gcphase, gckind, gcfinnum, finobj, history>>

\* The end of runafewfinalizers: the next call may call twice as many.
FewFinalizersEnd ==
  /\ In("runafewfinalizers") /\ ~MoreToCall
  /\ gcfinnum' = IF tobefnz = 0 THEN 0 ELSE (gcfinnum * 2) % (UIntMax + 1)
  /\ stack' = Below
  /\ UNCHANGED <<gcphase, gckind, gcrunning, finobj, tobefnz, history>>

\* Mutant: GCTM leaves the collector stopped.
FinalizerReturnStopped ==
  /\ In("GCTM")
  /\ stack' = Below
  /\ UNCHANGED <<fields, history>>
\* The finalizer returns, and GCTM restores gcrunning.
FinalizerReturn ==
  /\ In("GCTM")
  /\ gcrunning' = TopFrame.running
  /\ stack' = Below
  /\ UNCHANGED <<gcphase, gckind, gcfinnum, finobj, tobefnz, history>>

\* The Lua code that was running when the collector was called: of a finalizer, the
\* n-th function, or of the main program.
Catcher(n) ==
  /\ n > 0 => stack[n].fn = "GCTM"
  /\ \A i \in (n + 1)..(Len(stack) - 1) : stack[i].fn # "GCTM"
\* An error in the finalizer: GCTM restores gcrunning and throws it again through
\* the functions below, which do not restore anything, into Lua code that may
\* catch it with pcall.
FinalizerError ==
  /\ In("GCTM")
  /\ gcrunning' = TopFrame.running
  /\ \E n \in 0..(Len(stack) - 1) : Catcher(n) /\ stack' = SubSeq(stack, 1, n)
  /\ disturbed' = TRUE
  /\ UNCHANGED <<gcphase, gckind, gcfinnum, finobj, tobefnz, stopped, exhausted>>

-----------------------------------------------------------------------------
(* The specification *)

ControlInit ==
  /\ stack = <<>>
  /\ gcphase = "GCSpause" /\ gckind = "KGC_NORMAL" /\ gcrunning = TRUE
  /\ gcfinnum = 0 /\ finobj = 0 /\ tobefnz = 0
  /\ stopped = FALSE /\ disturbed = FALSE /\ exhausted = FALSE

Lua ==
  \/ MarkObject \/ (\E b \in BOOLEAN : SetRunning(b)) \/ AutoStep \/ GCStep \/ luaC_fullgc(FALSE)
  \/ FinalizerReturn \/ FinalizerError
Collecting ==
  \/ StepBody \/ StepCheck \/ StepEnd \/ FullGCStep
  \/ CallFinalizer \/ FewFinalizersEnd \/ GCStepEnd
ControlNext == Lua \/ luaC_fullgc(TRUE) \/ Collecting
ControlSpec == ControlInit /\ [][ControlNext]_controlvars

-----------------------------------------------------------------------------
(* Properties *)

\* No Lua code runs inside an emergency collection (comment at luaC_fullgc), so
\* luaC_fullgc is never entered again while gckind is not KGC_NORMAL, which it
\* asserts, whatever allocation fails in whatever finalizer.
EmergencyQuiet == gckind = "KGC_EMERGENCY" => In("luaC_fullgc")

\* The assertion of runafewfinalizers, !g->tobefnz || g->gcfinnum > 0, without
\* which GCScallfin would never end; gcfinnum is set, doubled and zeroed by calls
\* that finalizers nest in each other, and left as it is by their errors.
FinNumPositive == tobefnz > 0 => gcfinnum > 0

\* "the collector will run only when explicitly invoked, until a call to restart it"
\* (manual, collectgarbage): between two operations of the main program the collector is
\* running exactly when the program has not stopped it, unless a finalizer interfered.
StopKept == stack = <<>> /\ ~disturbed => gcrunning = ~stopped

\* GCTM sets gcrunning to 0 to "avoid GC steps" in a finalizer: none is taken there but
\* those that the finalizer asks for, unless one that interferes lets the collector run.
FinalizerQuiet ==
  ~disturbed => \A i \in 1..Len(stack) : stack[i].fn = "luaC_step" /\ stack[i].auto => i = 1

\* The flags of a collection come out right, however finalizers collect, step, stop the
\* collector, run out of memory and fail in each other.
ControlSound == ControlTypes /\ EmergencyQuiet /\ FinNumPositive /\ StopKept /\ FinalizerQuiet

\* A full collection that returns has called every finalizer that was due, although
\* finalizers collect and step on their own (luaC_fullgc, luaC_runtilstate), unless memory
\* ran out: an emergency collection in a finalizer ends the cycle without calling any.
Completes ==
  ~exhausted /\ In("luaC_fullgc") /\ Len(stack') < Len(stack) => tobefnz' = 0
CollectCompletes == [][Completes]_controlvars
=============================================================================

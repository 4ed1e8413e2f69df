---------------------------- MODULE MCLuaRuntime ----------------------------
(***************************************************************************)
(* Instances for TLC of four parts of the runtime that keep to themselves: *)
(* the control of the collector, its lists of objects, tables, and calls   *)
(* with coroutines.  A behaviour is one of one part; what belongs to the   *)
(* others stays as it is initially.                                        *)
(***************************************************************************)
EXTENDS LuaCall, LuaTable, LuaGCLists, LuaGCControl

VARIABLE part
allvars == <<part, controlvars, vars, tvars, cavars>>

\* Both objects collide in every table.
Position ==
  [k \in [tt : {"flt"}, v : Half] \cup [tt : {"obj"}, v : Object] |->
     IF k.tt = "flt" THEN k.v ELSE 1]

\* What the theorems about the parts assume of the constants.
ASSUME RuntimeAssumption ==
  ControlAssumption /\ ListsAssumption /\ TableAssumption /\ CallAssumption

RuntimeInit ==
  /\ ControlInit /\ ListsInit /\ TableInit /\ Init
  /\ part \in {"control", "lists", "tables", "traversals", "calls"}

Lists(A) == part = "lists" /\ A /\ UNCHANGED <<part, controlvars, tvars, cavars>>
\* What has begun: a cycle, luaC_checkfinalizer, luaC_freeallobjects.
Loops == CheckFinalizerLoops \/ CloseSeparated
ListsClosed == closing = "closed" /\ UNCHANGED vars
Tables(A) == A /\ UNCHANGED <<part, controlvars, vars, cavars>>
\* Tables under a program that assigns and traverses.  What else a program does with a table
\* ends a traversal or has nothing to do with it, and is in part "tables".
Traversals ==
  \/ \E k \in AnyKey, v \in Value \cup {Nil} : FastSet(k, v) \/ FinishSet(k, v)
  \/ luaH_resize /\ ~Strands
  \/ Traverse
  \/ \E o \in Object : Collect(o) \/ NewObject(o)
RuntimeNext ==
  \/ part = "control" /\ ControlNext /\ UNCHANGED <<part, vars, tvars, cavars>>
  \/ Lists(Collector) \/ Lists(Loops)
  \/ Lists(Program \/ FullGC(TRUE) \/ Close \/ FreeAll \/ ListsClosed)
  \* Memory for the nodes runs out only where no entry is stranded: NoMemorySpec is for that.
  \/ part = "tables" /\ Tables(MemoryNext /\ ~trav'.on)
  \/ part = "traversals" /\ Tables(Traversals)
  \/ part = "calls" /\ Next /\ UNCHANGED <<part, controlvars, vars, tvars>>
\* A collector that is never stopped goes on, and so does a loop that has begun.
RuntimeSpec == /\ RuntimeInit /\ [][RuntimeNext]_allvars
               /\ WF_allvars(Lists(Collector)) /\ WF_allvars(Lists(Loops))

NoMemorySpec ==
  RuntimeInit /\ part = "tables" /\ [][Tables(TableNext)]_allvars

(***************************************************************************)
(* The properties of the parts hold initially, and hence in the behaviours *)
(* of the other parts.  This one needs the fairness stated here.           *)
(***************************************************************************)
\* A sweep that has begun ends, although the program goes on creating objects and moving
\* them between the lists (sweepstep), unless the state is closed before.
SweepEnds ==
  part = "lists" /\ gcstate = "GCSswpallgc" ~> gcstate = "GCScallfin" \/ closing = "closed"
=============================================================================

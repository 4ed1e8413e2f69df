----------------------------- MODULE LuaGCSound -----------------------------
(***************************************************************************)
(* Proofs about LuaGC for any sets of objects, tables and nodes.           *)
(*                                                                         *)
(* First, that it is type-correct, that every object is in exactly one of  *)
(* the lists that own objects, and that the collector implements LuaLife.  *)
(* The invariant LInv says, besides Owned, that nothing is dead except the *)
(* objects of allgc still to be swept: so the lists finobj and tobefnz are *)
(* never freed from.                                                       *)
(*                                                                         *)
(* Second, that no reference dangles, for any program that does not        *)
(* replace the metatable of a table in allweak while the collector marks   *)
(* (ResetAllWeakMeta).  The invariant SInv says, for each phase of a       *)
(* cycle, what is already marked: it is the argument for the incremental   *)
(* collector, from the barriers to the flip of the white.  The steps of    *)
(* the program come first, then those of the collector: marking keeps what *)
(* the invariant says of the colours, the flip of the white condemns only  *)
(* objects that nothing alive refers to, and the sweep frees only those.   *)
(*                                                                         *)
(* Third, that only garbage is treated as garbage: what is condemned,      *)
(* finalized or dropped from a weak table cannot be reached by the         *)
(* program.  When the ephemeron tables have converged, the marked objects  *)
(* and the strings are closed under what each object keeps alive, in the   *)
(* sense of its weak mode: so they have all that can be reached.           *)
(***************************************************************************)
EXTENDS LuaGC, TLAPS

-----------------------------------------------------------------------------
(* Types *)

Colour == White \cup {"free", "gray", "black"}

\* Marking gives an object one of the colours.
LEMMA PaintType ==
  ASSUME NEW M, NEW base \in [Obj -> Colour]
  PROVE  Paint(M, base) \in [Obj -> Colour]
  BY DEF Paint, MarkedColor, Colour

\* Only objects are marked.
LEMMA ReachedType == ASSUME NEW S PROVE Reached(S) \subseteq Obj
  BY DEF Reached

\* What a traversal of o does to the colours and to the gray list.
LEMMA TraversedType ==
  ASSUME TypeOK, NEW o \in Obj, NEW S, NEW c \in Colour, Traversed(o, S, c)
  PROVE  marked' \in [Obj -> Colour] /\ gray' \subseteq Obj
  BY PaintType, ReachedType DEF Traversed, TypeOK, Colour, NewGray

\* Dead keys are keys (removeentry).
LEMMA RemoveEntriesType ==
  ASSUME TypeOK, NEW t \in Table
  PROVE  RemoveEntries(t) \in [Node -> Key]
  BY DEF RemoveEntries, TypeOK, Key

\* The initial state is well typed.
THEOREM InitType == Init => TypeOK
<1> SUFFICES ASSUME Init PROVE TypeOK
  OBVIOUS
<1>1. marked \in [Obj -> Colour] /\ currentwhite \in White /\ gcstate \in GCState
  BY DEF Init, Colour, White, GCState
<1>2. /\ ref \in [Obj -> [Slot -> Val]] /\ groot \in Val
      /\ keys \in [Table -> [Node -> Key]] /\ vals \in [Table -> [Node -> Val]]
  BY DEF Init, Val, Key
<1>3. top \in [Thread -> 0..NSlot] /\ cur \in Thread /\ resumer \in [Thread -> Thread \cup {Nil}]
  BY KindsAssumption DEF Init
<1>4. mode \in [Table -> Modes]
  BY KindsAssumption DEF Init
<1> QED
  BY <1>1, <1>2, <1>3, <1>4 DEF Init, TypeOK, Colour
\* Pushing a value on a stack that has room.
LEMMA PushOnType ==
  ASSUME TypeOK, NEW th \in Thread, NEW x \in Val, PushOn(th, x)
  PROVE  ref' \in [Obj -> [Slot -> Val]] /\ top' \in [Thread -> 0..NSlot]
<1>1. top[th] \in 0..NSlot /\ top[th] < NSlot /\ NSlot \in Nat
  BY KindsAssumption DEF TypeOK, PushOn
<1>2. top[th] + 1 \in Slot
  BY <1>1 DEF Slot
<1>3. ref' = [ref EXCEPT ![th][top[th] + 1] = x] /\ top' = [top EXCEPT ![th] = @ + 1]
  BY DEF PushOn
<1>4. ref' \in [Obj -> [Slot -> Val]]
  BY <1>2, <1>3 DEF TypeOK
<1>5. top' \in [Thread -> 0..NSlot]
  BY <1>1, <1>3 DEF TypeOK
<1> QED
  BY <1>4, <1>5

\* What the program can name is an object.
LEMMA AvailType == ASSUME TypeOK PROVE Avail \subseteq Obj
<1>1. Main \in Obj /\ cur \in Obj /\ Slot = 1..NSlot /\ NSlot \in Nat
  BY KindsAssumption DEF TypeOK, Obj, Slot
<1>2. \A i \in 1..top[cur] : ref[cur][i] \in Val
  BY <1>1 DEF TypeOK, Obj
<1> DEFINE held == ({ref[cur][i] : i \in 1..top[cur]} \cup {groot, cur, Main}) \ {Nil}
<1>3. held \subseteq Obj
  BY <1>1, <1>2 DEF TypeOK, Val
<1>4. \A o \in Obj : Slots(o) \subseteq Slot
  BY <1>1, KindsAssumption DEF TypeOK, Slots, Field, Slot
<1>5. \A o \in Obj : Refs(o) \subseteq Obj
  BY <1>4 DEF TypeOK, Refs, Val
<1>6. \A o \in Obj : Readable(o) \subseteq Obj
  BY <1>5 DEF TypeOK, Readable, Full, Val
<1> QED
  BY <1>3, <1>6 DEF Avail

\* Creating an object (luaC_newobj).
LEMMA NewObjType ==
  ASSUME TypeOK, NEW o \in Obj, NewObj(o)
  PROVE  TypeOK'
<1>1. ref' \in [Obj -> [Slot -> Val]] /\ top' \in [Thread -> 0..NSlot]
  BY PushOnType DEF NewObj, TypeOK, Val
<1>2. marked' \in [Obj -> Colour] /\ allgc' \subseteq Obj /\ sweep' \subseteq Obj
  BY DEF NewObj, LinkAhead, TypeOK, Colour
<1> QED
  BY <1>1, <1>2 DEF NewObj, TypeOK, Colour, gcvars, grays, atomvars, fullvars, tables

\* Returning an interned string, perhaps a dead one (internshrstr).
LEMMA InternFoundType ==
  ASSUME TypeOK, NEW s \in Str, InternFound(s)
  PROVE  TypeOK'
<1>1. ref' \in [Obj -> [Slot -> Val]] /\ top' \in [Thread -> 0..NSlot]
  BY PushOnType DEF InternFound, TypeOK, Val, Obj
<1>2. marked' \in [Obj -> Colour]
  BY DEF InternFound, TypeOK, Colour
<1> QED
  BY <1>1, <1>2 DEF InternFound, TypeOK, Colour, grays, atomvars, fullvars, tables

\* Pushing a value that the program can name (lua_pushvalue).
LEMMA PushType ==
  ASSUME TypeOK, NEW x \in Avail, Push(x)
  PROVE  TypeOK'
<1>1. ref' \in [Obj -> [Slot -> Val]] /\ top' \in [Thread -> 0..NSlot]
  BY PushOnType, AvailType DEF Push, TypeOK, Val
<1> QED
  BY <1>1 DEF Push, TypeOK, gcvars, grays, atomvars, fullvars, tables

\* Lowering the top (lua_settop).
LEMMA PopType ==
  ASSUME TypeOK, Pop
  PROVE  TypeOK'
  BY KindsAssumption DEF Pop, TypeOK, Colour, gcvars, grays, atomvars, fullvars, tables, threads

\* Raising the top over stale slots (luaD_precall).
LEMMA ExposeType ==
  ASSUME TypeOK, Expose
  PROVE  TypeOK'
  BY KindsAssumption DEF Expose, TypeOK, Colour, gcvars, grays, atomvars, fullvars, tables, threads

\* Assigning to an entry of a table, with the back barrier (lua_rawset).
LEMMA SetEntryType ==
  ASSUME TypeOK, NEW t \in Table, NEW n \in Node, NEW v \in Val, SetEntry(t, n, v)
  PROVE  TypeOK'
<1>1. vals' \in [Table -> [Node -> Val]]
  BY DEF SetEntry, TypeOK
<1>2. marked' \in [Obj -> Colour] /\ grayagain' \subseteq Obj
  BY DEF SetEntry, BarrierBack, TypeOK, Colour, Obj
<1> QED
  BY <1>1, <1>2 DEF SetEntry, TypeOK, Colour, atomvars, fullvars, threads

\* Filling an empty entry of a table (luaV_finishset).
LEMMA NewKeyType ==
  ASSUME TypeOK, NEW t \in Table, NEW n \in Node, NEW k \in Obj \cup {NumKey}, NEW v \in Obj,
         NewKey(t, n, k, v)
  PROVE  TypeOK'
<1>1. keys' \in [Table -> [Node -> Key]] /\ vals' \in [Table -> [Node -> Val]]
  BY DEF NewKey, TypeOK, Key, Val
<1>2. marked' \in [Obj -> Colour] /\ grayagain' \subseteq Obj
  BY DEF NewKey, BarrierBack, TypeOK, Colour, Obj
<1> QED
  BY <1>1, <1>2 DEF NewKey, TypeOK, Colour, atomvars, fullvars, threads

\* Forgetting the empty entries of a table (luaH_resize).
LEMMA RehashType ==
  ASSUME TypeOK, NEW t \in Table, Rehash(t)
  PROVE  TypeOK'
<1>1. keys' = [keys EXCEPT ![t] = [n \in Node |-> IF n \in Full(t) THEN keys[t][n] ELSE Nil]]
  BY DEF Rehash, TypeOK
<1>2. keys' \in [Table -> [Node -> Key]]
  BY <1>1 DEF TypeOK, Key
<1> QED
  BY <1>2 DEF Rehash, TypeOK, gcvars, grays, atomvars, fullvars, threads

\* Changing a field __mode (lua_rawset).
LEMMA SetModeType ==
  ASSUME TypeOK, NEW t \in Table, NEW w \in Modes, SetMode(t, w)
  PROVE  TypeOK'
  BY KindsAssumption DEF SetMode, TypeOK, Colour, gcvars, grays, atomvars, fullvars, tables, threads

\* The colours and the gray list after a forward barrier.
LEMMA ForwardType ==
  ASSUME TypeOK, NEW o \in Obj, NEW v
  PROVE  /\ ForwardPaint(o, v) \in [Obj -> Colour]
         /\ gray \cup NewGray(ForwardMark(o, v)) \subseteq Obj
<1>1. [marked EXCEPT ![o] = currentwhite] \in [Obj -> Colour] /\ marked \in [Obj -> Colour]
  BY DEF TypeOK, Colour
<1>2. ForwardMark(o, v) \subseteq Obj
  BY ReachedType DEF ForwardMark
<1> QED
  BY <1>1, <1>2, PaintType DEF ForwardPaint, NewGray, TypeOK

\* Assigning to an upvalue or a user value, with the forward barrier.
LEMMA SetFieldType ==
  ASSUME TypeOK, NEW o \in Func \cup Udata, NEW i \in Field, NEW v \in Val, SetField(o, i, v)
  PROVE  TypeOK'
<1>1. o \in Obj /\ i \in Slot
  BY KindsAssumption DEF Obj, Field, Slot
<1>2. ref' \in [Obj -> [Slot -> Val]]
  BY <1>1 DEF SetField, TypeOK
<1>3. marked' \in [Obj -> Colour] /\ gray' \subseteq Obj
  BY <1>1, ForwardType DEF SetField
<1> QED
  BY <1>2, <1>3 DEF SetField, TypeOK, Colour, atomvars, fullvars, tables, threads

\* Setting a metatable, which may mark the object for finalization (lua_setmetatable).
LEMMA SetMetaType ==
  ASSUME TypeOK, NEW o \in Table \cup Udata, NEW m \in Table \cup {Nil}, NEW hasgc \in BOOLEAN,
         SetMeta(o, m, hasgc)
  PROVE  TypeOK'
<1>1. o \in Obj /\ m \in Val /\ 1 \in Slot
  BY KindsAssumption DEF Obj, Slot, Val
<1>2. ref' \in [Obj -> [Slot -> Val]]
  BY <1>1 DEF SetMeta, TypeOK
<1>3. ForwardPaint(o, m) \in [Obj -> Colour] /\ gray' \subseteq Obj
  BY <1>1, ForwardType DEF SetMeta
<1>4. CASE CheckFinalizer(o, ForwardPaint(o, m))
  <2>1. marked' \in [Obj -> Colour]
    BY <1>3, <1>4 DEF CheckFinalizer, TypeOK, Colour
  <2>2. /\ allgc' \subseteq Obj /\ finobj' \subseteq Table \cup Udata /\ sweep' \subseteq Obj
        /\ apc' \in {"idle", "pre", "prop", "again", "conv", "fin", "conv2", "entersweep", "tolive"}
    BY <1>1, <1>4 DEF CheckFinalizer, TypeOK
  <2> QED
    BY <1>2, <1>3, <2>1, <2>2 DEF SetMeta, TypeOK, Colour, fullvars, tables, threads
<1>5. CASE marked' = ForwardPaint(o, m) /\ UNCHANGED <<allgc, finobj, sweep, apc>>
  BY <1>2, <1>3, <1>5 DEF SetMeta, TypeOK, Colour, fullvars, tables, threads
<1> QED
  BY <1>4, <1>5 DEF SetMeta

\* Changing a root without a barrier (lua_copy).
LEMMA SetGlobalRootType ==
  ASSUME TypeOK, NEW x \in Val, SetGlobalRoot(x)
  PROVE  TypeOK'
  BY KindsAssumption DEF SetGlobalRoot, TypeOK, gcvars, grays, atomvars, fullvars, tables, threads

\* Resuming a coroutine (lua_resume).
LEMMA ResumeType ==
  ASSUME TypeOK, NEW th \in Thread, Resume(th)
  PROVE  TypeOK'
  BY KindsAssumption DEF Resume, TypeOK, gcvars, grays, atomvars, fullvars, tables, threads

\* Yielding (lua_yieldk).
LEMMA LeaveType ==
  ASSUME TypeOK, Leave
  PROVE  TypeOK'
  BY KindsAssumption DEF Leave, TypeOK, gcvars, grays, atomvars, fullvars, tables, threads

\* Moving a value to another stack (lua_xmove).
LEMMA XMoveType ==
  ASSUME TypeOK, NEW th \in Thread, XMove(th)
  PROVE  TypeOK'
<1>1. top[cur] \in Slot /\ top[th] + 1 \in Slot /\ cur \in Thread /\ th # cur
  BY KindsAssumption DEF XMove, TypeOK, Slot
<1>2. ref[cur][top[cur]] \in Val /\ th \in Obj
  BY <1>1 DEF TypeOK, Obj
<1>3. ref' \in [Obj -> [Slot -> Val]]
  BY <1>1, <1>2 DEF XMove, TypeOK
<1>4. top[th] + 1 \in 0..NSlot /\ top[cur] - 1 \in 0..NSlot
  BY <1>1, KindsAssumption DEF Slot
<1>5. top' \in [Thread -> 0..NSlot]
  BY <1>1, <1>4 DEF XMove, TypeOK
<1> QED
  BY <1>3, <1>5 DEF XMove, TypeOK, gcvars, grays, atomvars, fullvars, tables

\* Taking an object out of tobefnz for its finalizer (GCTM, udata2finalize).
LEMMA FinalizeType ==
  ASSUME TypeOK, NEW o \in tobefnz, NEW keep \in BOOLEAN, Finalize(o, keep)
  PROVE  TypeOK'
<1>1. o \in Obj /\ o \in Val /\ cur \in Thread
  BY DEF TypeOK, Obj, Val
<1>2. ref' \in [Obj -> [Slot -> Val]] /\ top' \in [Thread -> 0..NSlot]
  BY <1>1, PushOnType DEF Finalize, TypeOK
<1>3. /\ marked' \in [Obj -> Colour] /\ sweep' \subseteq Obj /\ allgc' \subseteq Obj
      /\ infin' \in BOOLEAN
  BY <1>1 DEF Finalize, LinkAhead, TypeOK, Colour
<1> QED
  BY <1>2, <1>3 DEF Finalize, TypeOK, Colour, grays, atomvars, tables

\* Entering a full collection (luaC_fullgc).
LEMMA FullGCType ==
  ASSUME TypeOK, NEW e \in BOOLEAN, FullGC(e)
  PROVE  TypeOK'
  BY KindsAssumption DEF FullGC, GCState, TypeOK, gcvars, grays, atomvars, fullvars, tables, threads

\* The return of a finalizer (GCTM).
LEMMA FinalizerEndType ==
  ASSUME TypeOK, FinalizerEnd
  PROVE  TypeOK'
  BY KindsAssumption DEF FinalizerEnd, TypeOK, gcvars, grays, atomvars, fullvars, tables, threads

\* The traversals of propagatemark.
LEMMA PropagateMarkType ==
  ASSUME TypeOK, PropagateMark
  PROVE  /\ marked' \in [Obj -> Colour] /\ gray' \subseteq Obj /\ grayagain' \subseteq Obj
         /\ weak' \subseteq Table /\ allweak' \subseteq Table /\ ephemeron' \subseteq Table
         /\ ref' \in [Obj -> [Slot -> Val]] /\ keys' \in [Table -> [Node -> Key]]
<1>1. PICK o \in gray :
        \/ TraverseThread(o) \/ TraverseFunc(o) \/ TraverseStrong(o)
        \/ TraverseWeakValue(o) \/ TraverseEphemeron(o) \/ TraverseAllWeak(o)
  BY DEF PropagateMark
<1>2. o \in Obj /\ "gray" \in Colour /\ "black" \in Colour
  BY DEF TypeOK, Colour
<1>3. CASE TraverseThread(o)
  <2>1. marked' \in [Obj -> Colour] /\ gray' \subseteq Obj
    BY <1>2, <1>3, TraversedType DEF TraverseThread
  <2>2. [i \in Slot |-> IF i <= top[o] THEN ref[o][i] ELSE Nil] \in [Slot -> Val]
    BY <1>2 DEF TypeOK, Val
  <2>3. ref' \in [Obj -> [Slot -> Val]]
    BY <1>3, <2>2 DEF TraverseThread, TypeOK
  <2> QED
    BY <1>2, <1>3, <2>1, <2>3 DEF TraverseThread, TypeOK
<1>4. CASE TraverseFunc(o)
  BY <1>2, <1>4, TraversedType DEF TraverseFunc, TypeOK
<1>5. CASE TraverseStrong(o)
  <2>1. marked' \in [Obj -> Colour] /\ gray' \subseteq Obj
    BY <1>2, <1>5, TraversedType DEF TraverseStrong
  <2>2. keys' \in [Table -> [Node -> Key]]
    BY <1>5, RemoveEntriesType DEF TraverseStrong, TypeOK
  <2> QED
    BY <1>5, <2>1, <2>2 DEF TraverseStrong, TypeOK
<1>6. CASE TraverseWeakValue(o)
  <2>1. marked' \in [Obj -> Colour] /\ gray' \subseteq Obj
    BY <1>2, <1>6, TraversedType DEF TraverseWeakValue
  <2>2. keys' \in [Table -> [Node -> Key]]
    BY <1>6, RemoveEntriesType DEF TraverseWeakValue, TypeOK
  <2>3. grayagain' \subseteq Obj /\ weak' \subseteq Table
    BY <1>2, <1>6 DEF TraverseWeakValue, TypeOK
  <2> QED
    BY <1>6, <2>1, <2>2, <2>3 DEF TraverseWeakValue, TypeOK
<1>7. CASE TraverseEphemeron(o)
  <2>1. marked' \in [Obj -> Colour] /\ gray' \subseteq Obj
    BY <1>2, <1>7, TraversedType DEF TraverseEphemeron
  <2>2. keys' \in [Table -> [Node -> Key]]
    BY <1>7, RemoveEntriesType DEF TraverseEphemeron, TypeOK
  <2>3. grayagain' \subseteq Obj /\ ephemeron' \subseteq Table /\ allweak' \subseteq Table
    BY <1>2, <1>7 DEF TraverseEphemeron, EphemeronLink, TypeOK
  <2> QED
    BY <1>7, <2>1, <2>2, <2>3 DEF TraverseEphemeron, TypeOK
<1>8. CASE TraverseAllWeak(o)
  BY <1>2, <1>8, TraversedType DEF TraverseAllWeak, TypeOK
<1> QED
  BY <1>1, <1>3, <1>4, <1>5, <1>6, <1>7, <1>8

\* One traversal while the program runs (singlestep).
LEMMA PropagateStepType == ASSUME TypeOK, PropagateStep PROVE TypeOK'
  BY PropagateMarkType DEF PropagateStep, PropagateMark, TypeOK, Colour, GCState, fullvars, threads

\* One traversal in the atomic phase (propagateall).
LEMMA AtomicPropagateType == ASSUME TypeOK, AtomicPropagate PROVE TypeOK'
  BY PropagateMarkType DEF AtomicPropagate, PropagateMark, TypeOK, Colour, fullvars, threads

\* Marking a set of roots.
LEMMA MarkType ==
  ASSUME TypeOK, NEW S
  PROVE  Paint(Reached(S), marked) \in [Obj -> Colour] /\ NewGray(Reached(S)) \subseteq Obj
  BY PaintType, ReachedType DEF TypeOK, Colour, NewGray

\* The start of a cycle marks the roots (restartcollection).
LEMMA RestartCollectionType == ASSUME TypeOK, RestartCollection PROVE TypeOK'
<1>1. marked' \in [Obj -> Colour] /\ gray' \subseteq Obj
  BY MarkType DEF RestartCollection
<1>2. gcstate' \in GCState /\ full' \in {"none", "finish", "cycle"}
  BY DEF RestartCollection, GCState, TypeOK
<1> QED
  BY <1>1, <1>2 DEF RestartCollection, TypeOK, Colour, atomvars, tables, threads

\* The start of the atomic phase (singlestep).
LEMMA AtomicStartType == ASSUME TypeOK, AtomicStart PROVE TypeOK'
  BY DEF AtomicStart, TypeOK, gcvars, grays, fullvars, tables, threads

\* The atomic phase marks the roots again (atomic).
LEMMA AtomicMarkRootsType == ASSUME TypeOK, AtomicMarkRoots PROVE TypeOK'
<1>1. marked' \in [Obj -> Colour] /\ gray' \subseteq Obj
  BY MarkType DEF AtomicMarkRoots
<1> QED
  BY <1>1 DEF AtomicMarkRoots, TypeOK, Colour, GCState, fullvars, tables, threads

\* The list grayagain becomes the gray list (atomic).
LEMMA AtomicGrayAgainType == ASSUME TypeOK, AtomicGrayAgain PROVE TypeOK'
  BY DEF AtomicGrayAgain, TypeOK, gcvars, fullvars, tables, threads

\* A round over the ephemeron tables (convergeephemerons).
LEMMA ConvergeRoundType == ASSUME TypeOK, ConvergeRound PROVE TypeOK'
  BY DEF ConvergeRound, ConvergeEnter, TypeOK, gcvars, fullvars, tables, threads

\* One ephemeron table of a round (convergeephemerons).
LEMMA ConvergeTableType ==
  ASSUME TypeOK, NEW w \in todo, ConvergeTable(w)
  PROVE  TypeOK'
<1>1. w \in Table /\ w \in Obj /\ "gray" \in Colour
  BY DEF TypeOK, Obj, Colour
<1>2. marked' \in [Obj -> Colour] /\ gray' \subseteq Obj
  BY <1>1, TraversedType DEF ConvergeTable
<1>3. keys' \in [Table -> [Node -> Key]]
  BY <1>1, RemoveEntriesType DEF ConvergeTable, TypeOK
<1>4. /\ grayagain' \subseteq Obj /\ ephemeron' \subseteq Table /\ allweak' \subseteq Table
      /\ todo' \subseteq Table /\ changed' \in BOOLEAN
  BY <1>1 DEF ConvergeTable, EphemeronLink, TypeOK
<1> QED
  BY <1>2, <1>3, <1>4 DEF ConvergeTable, TypeOK, Colour, fullvars, threads

\* Clearing weak entries leaves keys, values and colours (clearkeys, clearvalues).
LEMMA ClearType ==
  ASSUME TypeOK, NEW KT, NEW VT, NEW S, Clear(KT, VT, S)
  PROVE  /\ marked' \in [Obj -> Colour] /\ gray' \subseteq Obj
         /\ keys' \in [Table -> [Node -> Key]] /\ vals' \in [Table -> [Node -> Val]]
<1>1. marked' \in [Obj -> Colour] /\ gray' \subseteq Obj
  BY MarkType DEF Clear
<1>2. vals' \in [Table -> [Node -> Val]]
  BY DEF Clear, TypeOK, Val
<1>3. keys' \in [Table -> [Node -> Key]]
  BY DEF Clear, TypeOK, Key
<1> QED
  BY <1>1, <1>2, <1>3

\* Separating what is to be finalized (separatetobefnz).
LEMMA AtomicSeparateType == ASSUME TypeOK, AtomicSeparate PROVE TypeOK'
<1>1. /\ marked' \in [Obj -> Colour] /\ gray' \subseteq Obj
      /\ keys' \in [Table -> [Node -> Key]] /\ vals' \in [Table -> [Node -> Val]]
  BY ClearType DEF AtomicSeparate
<1>2. Separated \subseteq Table \cup Udata
  BY DEF Separated, TypeOK
<1> QED
  BY <1>1, <1>2 DEF AtomicSeparate, TypeOK, Colour, fullvars, threads

\* The end of the atomic phase flips the white (atomic).
LEMMA AtomicFinishType == ASSUME TypeOK, AtomicFinish PROVE TypeOK'
<1>1. /\ marked' \in [Obj -> Colour] /\ gray' \subseteq Obj
      /\ keys' \in [Table -> [Node -> Key]] /\ vals' \in [Table -> [Node -> Val]]
  BY ClearType DEF AtomicFinish
<1>2. currentwhite' \in White /\ gcstate' \in GCState
  BY DEF AtomicFinish, OtherWhite, White, GCState
<1> QED
  BY <1>1, <1>2 DEF AtomicFinish, TypeOK, Colour, fullvars, threads

\* Sweeping any part of a list.
LEMMA SweepBatchType ==
  ASSUME TypeOK, NEW S \in SUBSET Obj, SweepBatch(S), sweep' \subseteq Obj, gcstate' \in GCState,
         full' = full,
         apc' \in {"idle", "pre", "prop", "again", "conv", "fin", "conv2", "entersweep", "tolive"}
  PROVE  TypeOK'
<1>1. marked' \in [Obj -> Colour]
  BY DEF SweepBatch, TypeOK, Colour
<1>2. ref' \in [Obj -> [Slot -> Val]]
  BY DEF SweepBatch, TypeOK, Val
<1>3. top' \in [Thread -> 0..NSlot] /\ resumer' \in [Thread -> Thread \cup {Nil}]
  BY KindsAssumption DEF SweepBatch, TypeOK
<1>4. keys' \in [Table -> [Node -> Key]] /\ vals' \in [Table -> [Node -> Val]]
  BY DEF SweepBatch, TypeOK, Key, Val
<1>5. mode' \in [Table -> Modes]
  BY KindsAssumption DEF SweepBatch, TypeOK
<1>6. allgc' \subseteq Obj /\ finobj' \subseteq Table \cup Udata /\ tobefnz' \subseteq Table \cup Udata
  BY DEF SweepBatch, TypeOK
<1> QED
  BY <1>1, <1>2, <1>3, <1>4, <1>5, <1>6 DEF SweepBatch, TypeOK, Colour, grays

\* The first object of the sweep (entersweep).
LEMMA EnterSweepType == ASSUME TypeOK, EnterSweep PROVE TypeOK'
<1>1. PICK S \in SUBSET allgc : SweepBatch(S) /\ sweep' = allgc \ S
  BY DEF EnterSweep
<1> QED
  BY <1>1, SweepBatchType DEF EnterSweep, TypeOK

\* Sweeping up to a live object (sweeptolive).
LEMMA SweepToLiveType == ASSUME TypeOK, SweepToLive PROVE TypeOK'
<1>1. PICK S \in SUBSET sweep : SweepBatch(S) /\ sweep' = sweep \ S
  BY DEF SweepToLive
<1> QED
  BY <1>1, SweepBatchType DEF SweepToLive, TypeOK

\* A step of the sweep (sweepstep).
LEMMA SweepStepType == ASSUME TypeOK, SweepStep PROVE TypeOK'
<1>1. PICK S \in SUBSET sweep :
        /\ SweepBatch(S)
        /\ IF S # sweep THEN sweep' = sweep \ S /\ UNCHANGED gcstate
           ELSE IF gcstate = "GCSswpallgc" THEN sweep' = finobj /\ gcstate' = "GCSswpfinobj"
           ELSE sweep' = {} /\ gcstate' = "GCSswptobefnz"
  BY DEF SweepStep
<1>2. sweep' \subseteq Obj /\ gcstate' \in GCState
  BY <1>1 DEF TypeOK, GCState, Obj
<1> QED
  BY <1>1, <1>2, SweepBatchType DEF SweepStep, TypeOK

\* The sweep of tobefnz (sweepstep).
LEMMA SweepToBeFnzType == ASSUME TypeOK, SweepToBeFnz PROVE TypeOK'
<1>1. tobefnz \in SUBSET Obj /\ SweepBatch(tobefnz)
  BY DEF SweepToBeFnz, TypeOK, Obj
<1>2. sweep' \subseteq Obj /\ gcstate' \in GCState
  BY DEF SweepToBeFnz, TypeOK, GCState
<1> QED
  BY <1>1, <1>2, SweepBatchType DEF SweepToBeFnz, TypeOK

\* The main thread becomes white (singlestep).
LEMMA SweepEndType == ASSUME TypeOK, SweepEnd PROVE TypeOK'
  BY DEF SweepEnd, TypeOK, GCState, grays, atomvars, fullvars, tables, threads

\* The end of a cycle (singlestep).
LEMMA CallFinEndType == ASSUME TypeOK, CallFinEnd PROVE TypeOK'
  BY DEF CallFinEnd, TypeOK, GCState, grays, atomvars, tables, threads

\* Every step of the collector keeps the types.
LEMMA CollectorType == ASSUME TypeOK, Collector PROVE TypeOK'
  BY RestartCollectionType, PropagateStepType, AtomicStartType, AtomicPropagateType,
     AtomicMarkRootsType, AtomicGrayAgainType, ConvergeRoundType, ConvergeTableType,
     AtomicSeparateType, AtomicFinishType, EnterSweepType, SweepToLiveType, SweepStepType,
     SweepToBeFnzType, SweepEndType, CallFinEndType, FinalizeType, FinalizerEndType
  DEF Collector

\* Every step of the program keeps the types.
LEMMA ProgramType == ASSUME TypeOK, Program PROVE TypeOK'
  BY NewObjType, PushType, PopType, SetEntryType, NewKeyType, RehashType, SetFieldType,
     SetMetaType, SetModeType, SetGlobalRootType, InternFoundType, ResumeType, XMoveType,
     LeaveType, ExposeType, FinalizeType, FullGCType
  DEF Program, StackOps, TableOps, RehashOps, FieldOps, MetaOps, ModeOps, RootOps, StringOps,
      ThreadOps, FinalizerOps, FullOps

\* Type correctness, in every reachable state: every list of the collector holds
\* objects of the right kind, the stacks stay within their size, and each reference
\* is nil or an object, for any number of objects, slots and nodes (lgc.c, lapi.c).
THEOREM TypeCorrect == Spec => []TypeOK
<1>1. TypeOK /\ UNCHANGED vars => TypeOK'
  BY DEF TypeOK, vars, gcvars, grays, atomvars, fullvars, tables, threads
<1>2. TypeOK /\ [Next]_vars => TypeOK'
  BY <1>1, CollectorType, ProgramType DEF Next
<1> QED
  BY InitType, <1>2, PTL DEF Spec

-----------------------------------------------------------------------------
(* The inductive invariant *)

Inside == {"prop", "again", "conv", "fin", "conv2"}
\* The steps of the atomic phase and of the sweep go with the states of the collector.
Phases ==
  /\ apc = "pre" => gcstate = "GCSatomic"
  /\ apc \in Inside <=> gcstate = "GCSinsideatomic"
  /\ apc \in {"entersweep", "tolive"} => gcstate = "GCSswpallgc"
  /\ apc = "entersweep" => sweep = allgc
MainMarked == marked[Main] # "free" /\ (Marking => ~IsWhite(Main))
\* What a traversal may still visit is allocated.
GrayAllocated ==
  /\ Marking => gray \cup grayagain \cup ephemeron \subseteq Allocated
  /\ apc \in {"conv", "conv2"} => todo \subseteq Allocated
  /\ apc = "prop" => origagain \subseteq Allocated
\* Only objects of allgc die, and they are ahead of the sweep.
DeadSwept == \A o \in Obj : IsDead(o) => gcstate = "GCSswpallgc" /\ o \in sweep
\* Once they have been separated, the objects with a finalizer are marked.
FinalizableMarked ==
  apc \in {"fin", "conv2"} => \A o \in finobj \cup tobefnz : ~IsWhite(o)

LInv == TypeOK /\ Owned /\ Phases /\ MainMarked /\ GrayAllocated /\ DeadSwept /\ FinalizableMarked

\* The invariant holds in the initial state.
LEMMA InitLInv == Init => LInv
<1> SUFFICES ASSUME Init PROVE LInv
  OBVIOUS
<1>1. TypeOK
  BY InitType
<1>2. Main \in Obj /\ Allocated = {Main}
  BY KindsAssumption DEF Init, Obj, Allocated
<1>3. Owned /\ Phases
  BY <1>2 DEF Init, Owned, Phases, Inside
<1>4. MainMarked /\ GrayAllocated
  BY <1>2 DEF Init, MainMarked, GrayAllocated, Marking
<1>5. DeadSwept /\ FinalizableMarked
  BY <1>2 DEF Init, DeadSwept, FinalizableMarked, IsDead, OtherWhite
<1> QED
  BY <1>1, <1>3, <1>4, <1>5 DEF LInv

-----------------------------------------------------------------------------
(* Marking *)

Darkened(o) == marked'[o] \in {"gray", "black"} /\ marked[o] # "free"
\* What most steps do to a colour: nothing, mark, or (not while marking) whiten.
Recoloured(o) ==
  \/ marked'[o] = marked[o]
  \/ Darkened(o)
  \/ ~Marking /\ marked[o] # "free" /\ marked'[o] = currentwhite

\* The main thread is an object, and no table, userdata, function or string.
LEMMA MainObject == Main \in Obj /\ Main \notin Table \cup Udata \cup Func \cup Str
  BY KindsAssumption DEF Obj

\* Only white objects are reached, and every white object of S is.
LEMMA ReachedWhite ==
  ASSUME NEW S
  PROVE  /\ \A o \in Reached(S) : o \in Obj /\ IsWhite(o)
         /\ \A o \in S : IsWhite(o) => o \in Reached(S)
  BY DEF Reached, IsWhite

\* Recolouring allocates and frees nothing, and kills nothing.
LEMMA Recolouring ==
  ASSUME TypeOK, TypeOK', UNCHANGED currentwhite, \A o \in Obj : Recoloured(o)
  PROVE  /\ Allocated' = Allocated
         /\ \A o \in Obj : (IsDead(o))' => IsDead(o)
         /\ Marking => \A o \in Obj : (IsWhite(o))' => IsWhite(o)
<1>1. \A o \in Obj : marked'[o] = "free" <=> marked[o] = "free"
  BY DEF Recoloured, Darkened, TypeOK, White
<1>2. \A o \in Obj : (IsDead(o))' => IsDead(o)
  BY DEF Recoloured, Darkened, IsDead, OtherWhite, TypeOK, White
<1>3. Marking => \A o \in Obj : (IsWhite(o))' => IsWhite(o)
  BY DEF Recoloured, Darkened, IsWhite, White
<1> QED
  BY <1>1, <1>2, <1>3 DEF Allocated

\* A step that only recolours, while the lists and the state stay as they are.
LEMMA QuietStep ==
  ASSUME LInv, TypeOK',
         UNCHANGED <<currentwhite, gcstate, allgc, finobj, tobefnz, sweep, apc, todo, origagain>>,
         \A o \in Obj : Recoloured(o),
         Marking => gray' \cup grayagain' \cup ephemeron' \subseteq Allocated
  PROVE  LInv'
<1> USE DEF LInv
<1>1. Allocated' = Allocated /\ (\A o \in Obj : (IsDead(o))' => IsDead(o))
  BY Recolouring
<1>2. Marking => \A o \in Obj : (IsWhite(o))' => IsWhite(o)
  BY Recolouring
<1>3. Owned' /\ Phases'
  BY <1>1 DEF Owned, Phases
<1>4. MainMarked' /\ GrayAllocated' /\ DeadSwept'
  BY <1>1, <1>2, MainObject DEF MainMarked, GrayAllocated, DeadSwept, Marking, Allocated
<1>5. FinalizableMarked'
  <2>1. apc' \in {"fin", "conv2"} => Marking
    BY DEF Phases, Inside, Marking
  <2> QED
    BY <1>2, <2>1 DEF FinalizableMarked, TypeOK, Obj
<1> QED
  BY <1>3, <1>4, <1>5

\* A step that marks and may move on to another marking state.
LEMMA MarkStep ==
  ASSUME LInv, TypeOK', Marking, Marking',
         UNCHANGED <<currentwhite, allgc, finobj, tobefnz, sweep>>,
         \A o \in Obj : Recoloured(o)
  PROVE  /\ Allocated' = Allocated /\ Owned' /\ MainMarked' /\ DeadSwept'
         /\ \A o \in Obj : (IsWhite(o))' => IsWhite(o)
<1> USE DEF LInv
<1>1. Allocated' = Allocated /\ (\A o \in Obj : (IsDead(o))' => IsDead(o))
  BY Recolouring
<1>2. \A o \in Obj : (IsWhite(o))' => IsWhite(o)
  BY Recolouring
<1>3. Owned'
  BY <1>1 DEF Owned, Marking
<1>4. MainMarked' /\ DeadSwept'
  BY <1>1, <1>2, MainObject DEF MainMarked, DeadSwept, Marking, Allocated
<1> QED
  BY <1>1, <1>2, <1>3, <1>4

-----------------------------------------------------------------------------
(* The steps of the program *)

\* The steps that leave the collector alone (stacks, modes, roots, coroutines).
LEMMA PlainStep ==
  ASSUME LInv, TypeOK', UNCHANGED <<gcvars, grays, atomvars>>
  PROVE  LInv'
  BY QuietStep DEF gcvars, grays, atomvars, Recoloured, LInv, GrayAllocated

\* A full collection is asked for (luaC_fullgc).
LEMMA FullGCOwned == ASSUME LInv, NEW e \in BOOLEAN, FullGC(e) PROVE LInv'
<1> USE DEF LInv
<1>1. TypeOK'
  BY FullGCType
<1>2. CASE KeepInvariant
  <2>1. \A o \in Obj : ~IsDead(o)
    BY <1>2 DEF DeadSwept, KeepInvariant
  <2>2. Owned' /\ Phases'
    BY <1>2 DEF FullGC, Running, KeepInvariant, Owned, Phases, Inside, Allocated
  <2>3. MainMarked' /\ GrayAllocated' /\ FinalizableMarked'
    BY <1>2 DEF FullGC, MainMarked, Marking, GrayAllocated, FinalizableMarked
  <2>4. DeadSwept'
    BY <2>1 DEF FullGC, DeadSwept, IsDead, OtherWhite
  <2> QED
    BY <1>1, <2>2, <2>3, <2>4
<1>3. CASE ~KeepInvariant
  BY <1>1, <1>3, QuietStep DEF FullGC, grays, Recoloured, GrayAllocated
<1> QED
  BY <1>2, <1>3

\* Creating an object (luaC_newobj).
LEMMA NewObjOwned == ASSUME LInv, NEW o \in Obj, NewObj(o) PROVE LInv'
<1> USE DEF LInv
<1>1. TypeOK'
  BY NewObjType
<1>2. /\ marked' = [marked EXCEPT ![o] = currentwhite] /\ marked[o] = "free"
      /\ UNCHANGED <<currentwhite, gcstate, finobj, tobefnz, gray, grayagain, ephemeron, apc, todo,
                     origagain>>
      /\ allgc' = allgc \cup {o} /\ apc = "idle"
      /\ sweep' = IF gcstate = "GCSswpallgc" /\ sweep = allgc THEN sweep \cup {o} ELSE sweep
  BY DEF NewObj, LinkAhead, grays, atomvars, Running
<1>3. o # Main /\ o \notin allgc \cup finobj \cup tobefnz /\ Allocated' = Allocated \cup {o}
  BY <1>2 DEF MainMarked, Owned, Allocated, TypeOK, White
<1>4. Owned' /\ Phases'
  BY <1>2, <1>3 DEF Owned, Phases, Inside
<1>5. MainMarked' /\ GrayAllocated' /\ FinalizableMarked'
  BY <1>2, <1>3, MainObject DEF MainMarked, Marking, GrayAllocated, FinalizableMarked, IsWhite, TypeOK
<1>6. DeadSwept'
  <2>1. ASSUME NEW x \in Obj, (IsDead(x))' PROVE x # o /\ IsDead(x)
    BY <1>2, <2>1 DEF IsDead, OtherWhite, TypeOK, White
  <2> QED
    BY <1>2, <2>1 DEF DeadSwept
<1> QED
  BY <1>1, <1>4, <1>5, <1>6

\* Taking a dead string back (internshrstr).
LEMMA InternFoundOwned == ASSUME LInv, NEW s \in Str, InternFound(s) PROVE LInv'
<1> USE DEF LInv
<1>1. TypeOK'
  BY InternFoundType
<1>2. \A o \in Obj : Recoloured(o)
  <2>1. ASSUME IsDead(s) PROVE ~Marking
    BY <2>1 DEF DeadSwept, Marking, Obj
  <2> QED
    BY <2>1 DEF InternFound, Recoloured, TypeOK
<1> QED
  BY <1>1, <1>2, QuietStep DEF InternFound, grays, atomvars, GrayAllocated

\* The back barrier recolours, and links only what is allocated (luaC_barrierback).
LEMMA BarrierBackOwned ==
  ASSUME LInv, NEW t \in Table, NEW S, BarrierBack(t, S)
  PROVE  (\A o \in Obj : Recoloured(o)) /\ (Marking => grayagain' \subseteq Allocated)
<1>1. t \in Obj
  BY DEF Obj
<1> QED
  BY <1>1 DEF BarrierBack, Recoloured, Darkened, GrayAllocated, Allocated, LInv, TypeOK

\* Assigning to an entry of a table (lua_rawset).
LEMMA SetEntryOwned ==
  ASSUME LInv, NEW t \in Table, NEW n \in Node, NEW v \in Val, SetEntry(t, n, v)
  PROVE  LInv'
<1>1. TypeOK'
  BY SetEntryType DEF LInv
<1> QED
  BY <1>1, BarrierBackOwned, QuietStep DEF SetEntry, atomvars, GrayAllocated, LInv

\* Filling an empty entry of a table (luaV_finishset).
LEMMA NewKeyOwned ==
  ASSUME LInv, NEW t \in Table, NEW n \in Node, NEW k \in Obj \cup {NumKey}, NEW v \in Obj,
         NewKey(t, n, k, v)
  PROVE  LInv'
<1>1. TypeOK'
  BY NewKeyType DEF LInv
<1> QED
  BY <1>1, BarrierBackOwned, QuietStep DEF NewKey, atomvars, GrayAllocated, LInv

\* Marking recolours white objects, and the gray ones among them are allocated.
LEMMA PaintOwned ==
  ASSUME TypeOK, NEW S
  PROVE  /\ \A o \in Obj : Paint(Reached(S), marked)[o] # marked[o]
              => Paint(Reached(S), marked)[o] \in {"gray", "black"} /\ marked[o] \in White
         /\ NewGray(Reached(S)) \subseteq Allocated
         /\ \A o \in S \cap Obj : Paint(Reached(S), marked)[o] \notin White
<1>1. \A o \in Reached(S) : o \in Obj /\ marked[o] \in White
  BY ReachedWhite DEF IsWhite
<1>2. \A o \in S \cap Obj : marked[o] \in White => o \in Reached(S)
  BY ReachedWhite DEF IsWhite
<1> QED
  BY <1>1, <1>2 DEF Paint, MarkedColor, NewGray, Allocated, White

\* So does the forward barrier, which may also whiten an object when the collector is
\* not marking (luaC_barrier).
LEMMA ForwardOwned ==
  ASSUME LInv, NEW o \in Obj, NEW v, apc = "idle"
  PROVE  /\ \A x \in Obj : \/ ForwardPaint(o, v)[x] = marked[x]
                           \/ ForwardPaint(o, v)[x] \in {"gray", "black"} /\ marked[x] # "free"
                           \/ /\ ~Marking /\ marked[x] # "free"
                              /\ ForwardPaint(o, v)[x] = currentwhite
         /\ NewGray(ForwardMark(o, v)) \subseteq Allocated
<1>1. ForwardSweep(o, v) => ~Marking /\ marked[o] = "black"
  BY DEF ForwardSweep, KeepInvariant, Marking, LInv, Phases, Inside
<1>2. \A x \in ForwardMark(o, v) : x \in Obj /\ marked[x] \in White
  BY ReachedWhite DEF ForwardMark, IsWhite
<1> QED
  BY <1>1, <1>2 DEF ForwardPaint, Paint, MarkedColor, NewGray, Allocated, White, LInv, TypeOK

\* Assigning to an upvalue or a user value (lua_setupvalue, lua_setuservalue).
LEMMA SetFieldOwned ==
  ASSUME LInv, NEW o \in Func \cup Udata, NEW i \in Field, NEW v \in Val, SetField(o, i, v)
  PROVE  LInv'
<1>1. TypeOK' /\ o \in Obj /\ apc = "idle"
  BY SetFieldType DEF LInv, Obj, SetField, Running
<1>2. (\A x \in Obj : Recoloured(x)) /\ NewGray(ForwardMark(o, v)) \subseteq Allocated
  BY <1>1, ForwardOwned DEF SetField, Recoloured, Darkened
<1> QED
  BY <1>1, <1>2, QuietStep DEF SetField, atomvars, GrayAllocated, LInv

\* Marking an object for finalization moves it to finobj (luaC_checkfinalizer).
LEMMA CheckFinalizerOwned ==
  ASSUME LInv, TypeOK', NEW o \in Table \cup Udata, NEW v, apc = "idle",
         CheckFinalizer(o, ForwardPaint(o, v)), gray' = gray \cup NewGray(ForwardMark(o, v)),
         UNCHANGED <<currentwhite, gcstate, tobefnz, grayagain, ephemeron, todo, origagain>>
  PROVE  LInv'
<1> USE DEF LInv
<1>1. o \in Obj /\ o # Main /\ marked[o] # "free" /\ o \notin finobj \cup tobefnz
  BY DEF CheckFinalizer, Owned, Allocated, Obj
<1>2. (\A x \in Obj : Recoloured(x)) /\ NewGray(ForwardMark(o, v)) \subseteq Allocated
  <2>1. IsSweepPhase => ~Marking
    BY DEF IsSweepPhase, Marking
  <2> QED
    BY <1>1, <2>1, ForwardOwned DEF CheckFinalizer, Recoloured, Darkened, TypeOK
<1>3. /\ Allocated' = Allocated /\ (\A x \in Obj : (IsDead(x))' => IsDead(x))
      /\ Marking => \A x \in Obj : (IsWhite(x))' => IsWhite(x)
  BY <1>2, Recolouring
<1>4. Owned'
  BY <1>1, <1>3 DEF CheckFinalizer, Owned
<1>5. Phases' /\ FinalizableMarked'
  BY DEF CheckFinalizer, Phases, Inside, FinalizableMarked
<1>6. MainMarked' /\ GrayAllocated'
  BY <1>2, <1>3, <1>5, MainObject DEF CheckFinalizer, MainMarked, GrayAllocated, Marking, Allocated
<1>7. DeadSwept'
  <2>1. IsSweepPhase => ~(IsDead(o))'
    BY <1>1 DEF CheckFinalizer, IsDead, OtherWhite, TypeOK, White
  <2>2. gcstate = "GCSswpallgc" => IsSweepPhase /\ sweep' = sweep \ {o}
    BY DEF CheckFinalizer, IsSweepPhase
  <2> QED
    BY <1>3, <2>1, <2>2 DEF DeadSwept
<1> QED
  BY <1>4, <1>5, <1>6, <1>7

\* Setting a metatable (lua_setmetatable).
LEMMA SetMetaOwned ==
  ASSUME LInv, NEW o \in Table \cup Udata, NEW m \in Table \cup {Nil}, NEW hasgc \in BOOLEAN,
         SetMeta(o, m, hasgc)
  PROVE  LInv'
<1>1. TypeOK' /\ o \in Obj /\ apc = "idle"
  BY SetMetaType DEF LInv, Obj, SetMeta, Running
<1>2. CASE CheckFinalizer(o, ForwardPaint(o, m))
  BY <1>1, <1>2, CheckFinalizerOwned DEF SetMeta
<1>3. CASE marked' = ForwardPaint(o, m) /\ UNCHANGED <<allgc, finobj, sweep, apc>>
  <2>1. (\A x \in Obj : Recoloured(x)) /\ NewGray(ForwardMark(o, m)) \subseteq Allocated
    BY <1>1, <1>3, ForwardOwned DEF Recoloured, Darkened
  <2> QED
    BY <1>1, <1>3, <2>1, QuietStep DEF SetMeta, GrayAllocated, LInv
<1> QED
  BY <1>2, <1>3 DEF SetMeta

\* Taking an object out of tobefnz for its finalizer (GCTM, udata2finalize).
LEMMA FinalizeOwned ==
  ASSUME LInv, NEW o \in tobefnz, NEW keep \in BOOLEAN, Finalize(o, keep)
  PROVE  LInv'
<1> USE DEF LInv
<1>0. TypeOK'
  BY FinalizeType
<1>1. o \in Obj /\ marked[o] # "free" /\ o # Main /\ o \notin allgc \cup finobj
  BY DEF Owned, Allocated
<1>2. /\ apc = "idle" /\ tobefnz' = tobefnz \ {o} /\ allgc' = allgc \cup {o}
      /\ sweep' = IF gcstate = "GCSswpallgc" /\ sweep = allgc THEN sweep \cup {o} ELSE sweep
      /\ marked' = IF IsSweepPhase THEN [marked EXCEPT ![o] = currentwhite] ELSE marked
      /\ UNCHANGED <<currentwhite, gcstate, finobj, gray, grayagain, ephemeron, apc, todo,
                     origagain>>
  BY DEF Finalize, CallsFinalizers, LinkAhead, grays, atomvars
<1>3. \A x \in Obj : Recoloured(x)
  BY <1>1, <1>2 DEF Recoloured, IsSweepPhase, Marking, TypeOK
<1>4. /\ Allocated' = Allocated /\ (\A x \in Obj : (IsDead(x))' => IsDead(x))
      /\ Marking => \A x \in Obj : (IsWhite(x))' => IsWhite(x)
  BY <1>0, <1>2, <1>3, Recolouring
<1>5. Owned' /\ Phases' /\ FinalizableMarked'
  BY <1>1, <1>2, <1>4 DEF Owned, Phases, Inside, FinalizableMarked
<1>6. MainMarked' /\ GrayAllocated' /\ DeadSwept'
  BY <1>2, <1>4, MainObject DEF MainMarked, GrayAllocated, DeadSwept, Marking, Allocated
<1> QED
  BY <1>0, <1>5, <1>6

\* Every step of the program keeps the invariant.
LEMMA ProgramOwned == ASSUME LInv, Program PROVE LInv'
<1> USE DEF LInv
<1>1. ASSUME StackOps PROVE LInv'
  <2>1. ASSUME NEW x \in Avail, Push(x) PROVE LInv'
    BY <2>1, PlainStep, PushType DEF Push, grays, atomvars, gcvars
  <2>2. ASSUME Pop PROVE LInv'
    BY <2>2, PlainStep, PopType DEF Pop, grays, atomvars, gcvars
  <2> QED
    BY <1>1, <2>1, <2>2, NewObjOwned DEF StackOps
<1>2. ASSUME NEW t \in Table, Rehash(t) PROVE LInv'
  BY <1>2, PlainStep, RehashType DEF Rehash
<1>3. ASSUME NEW t \in Table, NEW w \in Modes, SetMode(t, w) PROVE LInv'
  BY <1>3, PlainStep, SetModeType DEF SetMode
<1>4. ASSUME NEW x \in Val, SetGlobalRoot(x) PROVE LInv'
  BY <1>4, PlainStep, SetGlobalRootType DEF SetGlobalRoot
<1>5. ASSUME ThreadOps PROVE LInv'
  <2>1. ASSUME NEW th \in Thread, Resume(th) PROVE LInv'
    BY <2>1, PlainStep, ResumeType DEF Resume
  <2>2. ASSUME NEW th \in Thread, XMove(th) PROVE LInv'
    BY <2>2, PlainStep, XMoveType DEF XMove
  <2>3. ASSUME Leave PROVE LInv'
    BY <2>3, PlainStep, LeaveType DEF Leave
  <2>4. ASSUME Expose PROVE LInv'
    BY <2>4, PlainStep, ExposeType DEF Expose
  <2> QED
    BY <1>5, <2>1, <2>2, <2>3, <2>4 DEF ThreadOps
<1> QED
  BY <1>1, <1>2, <1>3, <1>4, <1>5, SetEntryOwned, NewKeyOwned, SetFieldOwned, SetMetaOwned,
     InternFoundOwned, FinalizeOwned, FullGCOwned
  DEF Program, TableOps, RehashOps, FieldOps, MetaOps, ModeOps, RootOps, StringOps, FinalizerOps,
      FullOps

-----------------------------------------------------------------------------
(* The steps of the collector *)

\* A traversal of an allocated object recolours, and links only what is allocated.
LEMMA TraversedOwned ==
  ASSUME TypeOK, NEW o \in Allocated, NEW S, NEW c \in {"gray", "black"}, Traversed(o, S, c),
         gray \subseteq Allocated
  PROVE  (\A x \in Obj : Recoloured(x)) /\ gray' \subseteq Allocated
<1>1. \A x \in Reached(S) : x \in Obj /\ marked[x] \in White
  BY ReachedWhite DEF IsWhite
<1> QED
  BY <1>1 DEF Traversed, Paint, MarkedColor, NewGray, Recoloured, Darkened, Allocated, White, TypeOK

\* The traversals of propagatemark.
LEMMA PropagateMarkOwned ==
  ASSUME LInv, Marking, PropagateMark
  PROVE  /\ \A x \in Obj : Recoloured(x)
         /\ gray' \cup grayagain' \cup ephemeron' \subseteq Allocated
<1> USE DEF LInv
<1>1. PICK o \in gray :
        \/ TraverseThread(o) \/ TraverseFunc(o) \/ TraverseStrong(o)
        \/ TraverseWeakValue(o) \/ TraverseEphemeron(o) \/ TraverseAllWeak(o)
  BY DEF PropagateMark
<1>2. o \in Allocated /\ gray \cup grayagain \cup ephemeron \subseteq Allocated
  BY DEF GrayAllocated
<1>3. grayagain' \subseteq grayagain \cup {o} /\ ephemeron' \subseteq ephemeron \cup {o}
  BY <1>1 DEF TraverseThread, TraverseFunc, TraverseStrong, TraverseWeakValue, TraverseEphemeron,
              EphemeronLink, TraverseAllWeak
<1>4. PICK c \in {"gray", "black"} : \E S : Traversed(o, S, c)
  <2>1. CASE TraverseFunc(o) \/ TraverseStrong(o)
    BY <2>1 DEF TraverseFunc, TraverseStrong
  <2>2. CASE TraverseWeakValue(o)
    BY <2>2 DEF TraverseWeakValue
  <2>3. CASE TraverseThread(o) \/ TraverseEphemeron(o) \/ TraverseAllWeak(o)
    BY <2>3 DEF TraverseThread, TraverseEphemeron, TraverseAllWeak
  <2> QED
    BY <1>1, <2>1, <2>2, <2>3
<1>5. PICK S : Traversed(o, S, c)
  BY <1>4
<1> QED
  BY <1>2, <1>3, <1>5, TraversedOwned

\* The start of a cycle (restartcollection).
LEMMA RestartCollectionOwned == ASSUME LInv, RestartCollection PROVE LInv'
<1> USE DEF LInv
<1>0. TypeOK'
  BY RestartCollectionType
<1>1. /\ \A o \in Obj : Recoloured(o) /\ (marked'[o] = marked[o] \/ Darkened(o))
      /\ gray' \subseteq Allocated /\ ~(IsWhite(Main))'
  <2>1. Main \in RestartRoots \cap Obj
    BY MainObject, KindsAssumption DEF RestartRoots
  <2> QED
    BY <2>1, PaintOwned DEF RestartCollection, Recoloured, Darkened, IsWhite, White
<1>2. /\ Allocated' = Allocated /\ (\A o \in Obj : (IsDead(o))' => IsDead(o))
  BY <1>0, <1>1, Recolouring DEF RestartCollection
<1>3. Owned' /\ Phases' /\ FinalizableMarked'
  BY <1>2 DEF RestartCollection, atomvars, Owned, Phases, Inside, FinalizableMarked
<1>4. MainMarked' /\ GrayAllocated' /\ DeadSwept'
  BY <1>1, <1>2, MainObject DEF RestartCollection, atomvars, MainMarked, GrayAllocated, DeadSwept, Allocated
<1> QED
  BY <1>0, <1>3, <1>4

\* One traversal while the program runs (singlestep).
LEMMA PropagateStepOwned == ASSUME LInv, PropagateStep PROVE LInv'
<1> USE DEF LInv
<1>0. TypeOK' /\ Marking /\ Marking'
  BY PropagateStepType DEF PropagateStep, Marking
<1>1. /\ \A x \in Obj : Recoloured(x)
      /\ gray' \cup grayagain' \cup ephemeron' \subseteq Allocated
  BY <1>0, PropagateMarkOwned DEF PropagateStep
<1>2. Allocated' = Allocated /\ Owned' /\ MainMarked' /\ DeadSwept'
  BY <1>0, <1>1, MarkStep DEF PropagateStep, PropagateMark
<1>3. Phases' /\ FinalizableMarked' /\ GrayAllocated'
  BY <1>1, <1>2 DEF PropagateStep, Phases, Inside, FinalizableMarked, GrayAllocated
<1> QED
  BY <1>0, <1>2, <1>3

\* The start of the atomic phase (singlestep).
LEMMA AtomicStartOwned == ASSUME LInv, AtomicStart PROVE LInv'
<1>1. TypeOK' /\ Marking /\ Marking'
  BY AtomicStartType DEF AtomicStart, Marking, gcvars, LInv
<1>2. \A o \in Obj : Recoloured(o)
  BY DEF AtomicStart, gcvars, Recoloured
<1>3. Allocated' = Allocated /\ Owned' /\ MainMarked' /\ DeadSwept'
  BY <1>1, <1>2, MarkStep DEF AtomicStart, gcvars
<1>4. Phases' /\ FinalizableMarked' /\ GrayAllocated'
  BY <1>1, <1>3 DEF AtomicStart, gcvars, grays, Phases, Inside, FinalizableMarked, GrayAllocated, LInv
<1> QED
  BY <1>1, <1>3, <1>4 DEF LInv

\* One traversal in the atomic phase (propagateall).
LEMMA AtomicPropagateOwned == ASSUME LInv, AtomicPropagate PROVE LInv'
<1>1. TypeOK' /\ Marking
  BY AtomicPropagateType DEF AtomicPropagate, Phases, Inside, Marking, LInv
<1>2. /\ \A x \in Obj : Recoloured(x)
      /\ gray' \cup grayagain' \cup ephemeron' \subseteq Allocated
  BY <1>1, PropagateMarkOwned DEF AtomicPropagate
<1> QED
  BY <1>1, <1>2, QuietStep DEF AtomicPropagate, PropagateMark

\* The atomic phase marks the roots again (atomic).
LEMMA AtomicMarkRootsOwned == ASSUME LInv, AtomicMarkRoots PROVE LInv'
<1> USE DEF LInv
<1>1. TypeOK' /\ Marking /\ Marking'
  BY AtomicMarkRootsType DEF AtomicMarkRoots, Phases, Marking
<1>2. (\A o \in Obj : Recoloured(o)) /\ gray' \subseteq Allocated
  BY PaintOwned DEF AtomicMarkRoots, Recoloured, Darkened, White
<1>3. Allocated' = Allocated /\ Owned' /\ MainMarked' /\ DeadSwept'
  BY <1>1, <1>2, MarkStep DEF AtomicMarkRoots
<1>4. Phases' /\ FinalizableMarked' /\ GrayAllocated'
  BY <1>1, <1>2, <1>3 DEF AtomicMarkRoots, Phases, Inside, FinalizableMarked, GrayAllocated
<1> QED
  BY <1>1, <1>3, <1>4

\* The list grayagain becomes the gray list (atomic).
LEMMA AtomicGrayAgainOwned == ASSUME LInv, AtomicGrayAgain PROVE LInv'
<1> USE DEF LInv
<1>1. TypeOK' /\ Marking /\ Marking'
  BY AtomicGrayAgainType DEF AtomicGrayAgain, gcvars, Phases, Inside, Marking
<1>2. \A o \in Obj : Recoloured(o)
  BY DEF AtomicGrayAgain, gcvars, Recoloured
<1>3. Allocated' = Allocated /\ Owned' /\ MainMarked' /\ DeadSwept'
  BY <1>1, <1>2, MarkStep DEF AtomicGrayAgain, gcvars
<1>4. Phases' /\ FinalizableMarked' /\ GrayAllocated'
  BY <1>1, <1>3 DEF AtomicGrayAgain, gcvars, Phases, Inside, FinalizableMarked, GrayAllocated
<1> QED
  BY <1>1, <1>3, <1>4

\* A round over the ephemeron tables (convergeephemerons).
LEMMA ConvergeRoundOwned == ASSUME LInv, ConvergeRound PROVE LInv'
<1> USE DEF LInv
<1>1. TypeOK' /\ Marking /\ Marking'
  BY ConvergeRoundType DEF ConvergeRound, ConvergeEnter, gcvars, Phases, Inside, Marking
<1>2. \A o \in Obj : Recoloured(o)
  BY DEF ConvergeRound, gcvars, Recoloured
<1>3. Allocated' = Allocated /\ Owned' /\ MainMarked' /\ DeadSwept'
  BY <1>1, <1>2, MarkStep DEF ConvergeRound, gcvars
<1>4. Phases'
  BY DEF ConvergeRound, ConvergeEnter, gcvars, Phases, Inside
<1>5. FinalizableMarked' /\ GrayAllocated'
  BY <1>1, <1>3 DEF ConvergeRound, ConvergeEnter, gcvars, FinalizableMarked, GrayAllocated, IsWhite
<1> QED
  BY <1>1, <1>3, <1>4, <1>5

\* One ephemeron table of a round (convergeephemerons).
LEMMA ConvergeTableOwned == ASSUME LInv, NEW w \in todo, ConvergeTable(w) PROVE LInv'
<1> USE DEF LInv
<1>1. TypeOK' /\ Marking /\ Marking'
  BY ConvergeTableType DEF ConvergeTable, Phases, Inside, Marking
<1>2. w \in Allocated /\ todo \cup gray \cup grayagain \cup ephemeron \subseteq Allocated
  BY <1>1 DEF ConvergeTable, GrayAllocated
<1>3. (\A o \in Obj : Recoloured(o)) /\ gray' \subseteq Allocated
  BY <1>2, TraversedOwned DEF ConvergeTable
<1>4. /\ Allocated' = Allocated /\ Owned' /\ MainMarked' /\ DeadSwept'
      /\ \A o \in Obj : (IsWhite(o))' => IsWhite(o)
  BY <1>1, <1>3, MarkStep DEF ConvergeTable
<1>5. Phases' /\ FinalizableMarked'
  BY <1>4 DEF ConvergeTable, Phases, Inside, FinalizableMarked, Owned, TypeOK, Obj
<1>6. GrayAllocated'
  BY <1>2, <1>3, <1>4 DEF ConvergeTable, EphemeronLink, GrayAllocated
<1> QED
  BY <1>1, <1>4, <1>5, <1>6

\* Clearing entries marks strings and what will be finalized (clearkeys, clearvalues).
LEMMA ClearOwned ==
  ASSUME TypeOK, NEW KT, NEW VT, NEW F, Clear(KT, VT, F)
  PROVE  /\ \A o \in Obj : Recoloured(o) /\ (marked'[o] = marked[o] \/ Darkened(o))
         /\ gray' \subseteq Allocated
         /\ \A o \in F \cap Obj : ~(IsWhite(o))'
<1>1. PICK S : F \subseteq S /\ marked' = Paint(Reached(S), marked) /\ gray' = NewGray(Reached(S))
  BY DEF Clear
<1> QED
  BY <1>1, PaintOwned DEF Recoloured, Darkened, IsWhite, White

\* Separating what is to be finalized (separatetobefnz, markbeingfnz).
LEMMA AtomicSeparateOwned == ASSUME LInv, AtomicSeparate PROVE LInv'
<1> USE DEF LInv
<1>1. TypeOK' /\ Marking /\ Marking'
  BY AtomicSeparateType DEF AtomicSeparate, Phases, Inside, Marking
<1>2. /\ \A o \in Obj : Recoloured(o)
      /\ gray' \subseteq Allocated
      /\ \A o \in (tobefnz \cup Separated) \cap Obj : ~(IsWhite(o))'
  BY ClearOwned DEF AtomicSeparate
<1>3. /\ Allocated' = Allocated /\ (\A o \in Obj : (IsDead(o))' => IsDead(o))
      /\ \A o \in Obj : (IsWhite(o))' => IsWhite(o)
  BY <1>1, <1>2, Recolouring DEF AtomicSeparate
<1>4. Owned'
  BY <1>1, <1>3 DEF AtomicSeparate, Owned, Separated, Marking
<1>5. MainMarked' /\ DeadSwept'
  BY <1>1, <1>3, MainObject DEF AtomicSeparate, MainMarked, DeadSwept, Marking, Allocated
<1>6. Phases' /\ GrayAllocated'
  BY <1>1, <1>2, <1>3 DEF AtomicSeparate, Phases, Inside, GrayAllocated
<1>7. FinalizableMarked'
  BY <1>2, <1>3 DEF AtomicSeparate, FinalizableMarked, Separated, TypeOK, Obj
<1> QED
  BY <1>1, <1>4, <1>5, <1>6, <1>7

\* The end of the atomic phase flips the white: the objects that die are in allgc,
\* since those with a finalizer are marked, and so is the main thread (atomic).
LEMMA AtomicFinishOwned == ASSUME LInv, AtomicFinish PROVE LInv'
<1> USE DEF LInv
<1>0. TypeOK'
  BY AtomicFinishType
<1>1. gcstate = "GCSinsideatomic" /\ Marking
  BY DEF AtomicFinish, Phases, Inside, Marking
<1>2. \A o \in Obj : marked'[o] = marked[o] \/ Darkened(o)
  BY ClearOwned DEF AtomicFinish
<1>3. Allocated' = Allocated
  BY <1>2 DEF Allocated, Darkened
<1>4. Owned' /\ Phases' /\ FinalizableMarked' /\ GrayAllocated'
  BY <1>3 DEF AtomicFinish, Owned, Phases, Inside, FinalizableMarked, GrayAllocated, Marking
<1>5. MainMarked'
  BY <1>3, MainObject DEF AtomicFinish, MainMarked, Marking, Allocated
<1>6. DeadSwept'
  <2>1. ASSUME NEW o \in Obj, (IsDead(o))' PROVE o \in allgc
    <3>1. IsWhite(o)
      BY <1>2, <2>1 DEF AtomicFinish, IsDead, OtherWhite, IsWhite, Darkened, White
    <3>2. o # Main /\ o \notin finobj \cup tobefnz /\ o \in Allocated
      BY <1>1, <3>1 DEF AtomicFinish, MainMarked, FinalizableMarked, Allocated, IsWhite, White
    <3> QED
      BY <3>2 DEF Owned
  <2> QED
    BY <2>1 DEF AtomicFinish, DeadSwept
<1> QED
  BY <1>0, <1>4, <1>5, <1>6

\* Every dead object is in allgc.
LEMMA DeadInAllgc == ASSUME LInv, NEW o \in Obj, IsDead(o) PROVE o \in allgc /\ o # Main
  BY DEF LInv, DeadSwept, Owned

\* Sweeping objects of the lists frees the dead ones, which are in allgc.
LEMMA SweepBatchOwned ==
  ASSUME LInv, TypeOK', NEW S \in SUBSET (Obj \ {Main}), SweepBatch(S), S \subseteq Allocated,
         gcstate \notin {"GCSpropagate", "GCSatomic", "GCSinsideatomic"},
         gcstate' \in {"GCSswpallgc", "GCSswpfinobj", "GCSswptobefnz", "GCSswpend"},
         sweep' \subseteq IF gcstate' = "GCSswpallgc" THEN allgc \ S
                          ELSE IF gcstate' = "GCSswpfinobj" THEN finobj ELSE {},
         \A o \in Obj \ S : IsDead(o) => gcstate' = "GCSswpallgc" /\ o \in sweep',
         apc' = "idle"
  PROVE  LInv'
<1> USE DEF LInv
<1>1. /\ \A o \in S : marked'[o] = IF IsDead(o) THEN "free" ELSE currentwhite
      /\ \A o \in Obj \ S : marked'[o] = marked[o]
      /\ currentwhite' = currentwhite
  BY DEF SweepBatch
<1> DEFINE dead == {o \in S : IsDead(o)}
<1>2. allgc' = allgc \ dead /\ finobj' = finobj \ dead /\ tobefnz' = tobefnz \ dead
  BY DEF SweepBatch
<1>3. dead \subseteq allgc /\ finobj' = finobj /\ tobefnz' = tobefnz
  BY <1>2, DeadInAllgc DEF Owned
<1>4. Allocated' = Allocated \ dead
  BY <1>1 DEF Allocated, TypeOK, White
<1>5. Owned'
  BY <1>2, <1>3, <1>4 DEF Owned
<1>6. Phases' /\ GrayAllocated' /\ FinalizableMarked'
  BY DEF Phases, Inside, GrayAllocated, FinalizableMarked, Marking
<1>7. MainMarked'
  BY <1>1, MainObject DEF MainMarked, Marking
<1>8. DeadSwept'
  <2>1. ASSUME NEW o \in Obj, (IsDead(o))' PROVE o \notin S /\ IsDead(o)
    BY <1>1, <2>1 DEF IsDead, OtherWhite, TypeOK, White
  <2> QED
    BY <2>1 DEF DeadSwept
<1> QED
  BY <1>5, <1>6, <1>7, <1>8

\* The first object of the sweep (entersweep).
LEMMA EnterSweepOwned == ASSUME LInv, EnterSweep PROVE LInv'
<1> USE DEF LInv
<1>1. PICK S \in SUBSET allgc : SweepBatch(S) /\ sweep' = allgc \ S
  BY DEF EnterSweep
<1>2. TypeOK' /\ gcstate = "GCSswpallgc" /\ gcstate' = gcstate /\ apc' = "idle" /\ sweep = allgc
  BY EnterSweepType DEF EnterSweep, Phases
<1>3. S \subseteq Allocated /\ S \subseteq Obj \ {Main}
  BY DEF Owned, Allocated
<1>4. \A o \in Obj \ S : IsDead(o) => o \in sweep'
  BY <1>1, <1>2 DEF DeadSwept
<1> QED
  BY <1>1, <1>2, <1>3, <1>4, SweepBatchOwned

\* Sweeping up to a live object (sweeptolive).
LEMMA SweepToLiveOwned == ASSUME LInv, SweepToLive PROVE LInv'
<1> USE DEF LInv
<1>1. PICK S \in SUBSET sweep : SweepBatch(S) /\ sweep' = sweep \ S
  BY DEF SweepToLive
<1>2. TypeOK' /\ gcstate = "GCSswpallgc" /\ gcstate' = gcstate /\ apc' = "idle" /\ sweep \subseteq allgc
  BY SweepToLiveType DEF SweepToLive, Phases, Owned
<1>3. S \subseteq Allocated /\ S \subseteq Obj \ {Main} /\ sweep' \subseteq allgc \ S
  BY <1>1, <1>2 DEF Owned, Allocated
<1>4. \A o \in Obj \ S : IsDead(o) => o \in sweep'
  BY <1>1, <1>2 DEF DeadSwept
<1> QED
  BY <1>1, <1>2, <1>3, <1>4, SweepBatchOwned

\* A step of the sweep: the next list is entered when nothing is left (sweepstep).
LEMMA SweepStepOwned == ASSUME LInv, SweepStep PROVE LInv'
<1> USE DEF LInv
<1>1. PICK S \in SUBSET sweep :
        /\ SweepBatch(S)
        /\ IF S # sweep THEN sweep' = sweep \ S /\ UNCHANGED gcstate
           ELSE IF gcstate = "GCSswpallgc" THEN sweep' = finobj /\ gcstate' = "GCSswpfinobj"
           ELSE sweep' = {} /\ gcstate' = "GCSswptobefnz"
  BY DEF SweepStep
<1>2. TypeOK' /\ gcstate \in {"GCSswpallgc", "GCSswpfinobj"} /\ apc' = "idle"
  BY SweepStepType DEF SweepStep
<1>3. /\ S \subseteq Allocated /\ S \subseteq Obj \ {Main}
      /\ sweep \subseteq IF gcstate = "GCSswpallgc" THEN allgc ELSE finobj
  BY <1>2 DEF Owned, Allocated
<1>4. \A o \in Obj \ S : IsDead(o) => gcstate' = "GCSswpallgc" /\ o \in sweep'
  BY <1>1 DEF DeadSwept
<1>5. /\ gcstate' \in {"GCSswpallgc", "GCSswpfinobj", "GCSswptobefnz", "GCSswpend"}
      /\ sweep' \subseteq IF gcstate' = "GCSswpallgc" THEN allgc \ S
                          ELSE IF gcstate' = "GCSswpfinobj" THEN finobj ELSE {}
  BY <1>1, <1>2, <1>3
<1> QED
  BY <1>1, <1>2, <1>3, <1>4, <1>5, SweepBatchOwned

\* The sweep of tobefnz (sweepstep).
LEMMA SweepToBeFnzOwned == ASSUME LInv, SweepToBeFnz PROVE LInv'
<1> USE DEF LInv
<1>1. /\ SweepBatch(tobefnz) /\ TypeOK' /\ gcstate = "GCSswptobefnz" /\ gcstate' = "GCSswpend"
      /\ apc' = "idle" /\ sweep' = sweep
  BY SweepToBeFnzType DEF SweepToBeFnz
<1>2. tobefnz \subseteq Allocated /\ tobefnz \subseteq Obj \ {Main} /\ sweep = {}
  BY <1>1 DEF Owned, Allocated
<1>3. \A o \in Obj : ~IsDead(o)
  BY <1>1 DEF DeadSwept
<1> QED
  BY <1>1, <1>2, <1>3, SweepBatchOwned

\* The main thread becomes white (singlestep).
LEMMA SweepEndOwned == ASSUME LInv, SweepEnd PROVE LInv'
<1> USE DEF LInv
<1>1. TypeOK' /\ gcstate = "GCSswpend" /\ gcstate' = "GCScallfin" /\ apc = "idle"
  BY SweepEndType DEF SweepEnd
<1>2. \A o \in Obj : Recoloured(o)
  BY <1>1 DEF SweepEnd, Recoloured, Marking, MainMarked, TypeOK
<1>3. Allocated' = Allocated /\ (\A o \in Obj : (IsDead(o))' => IsDead(o))
  BY <1>1, <1>2, Recolouring DEF SweepEnd
<1>4. Owned' /\ Phases' /\ GrayAllocated' /\ FinalizableMarked'
  BY <1>1, <1>3 DEF SweepEnd, atomvars, Owned, Phases, Inside, GrayAllocated, FinalizableMarked, Marking
<1>5. MainMarked' /\ DeadSwept'
  BY <1>1, <1>3, MainObject DEF SweepEnd, MainMarked, DeadSwept, Marking, Allocated
<1> QED
  BY <1>1, <1>4, <1>5

\* The end of a cycle (singlestep).
LEMMA CallFinEndOwned == ASSUME LInv, CallFinEnd PROVE LInv'
<1> USE DEF LInv
<1>1. TypeOK'
  BY CallFinEndType
<1>2. /\ UNCHANGED <<marked, currentwhite, allgc, finobj, tobefnz, sweep, grays, atomvars>>
      /\ gcstate = "GCScallfin" /\ gcstate' = "GCSpause"
  BY DEF CallFinEnd
<1>3. Owned' /\ Phases' /\ GrayAllocated' /\ FinalizableMarked'
  BY <1>2 DEF atomvars, Owned, Phases, Inside, GrayAllocated, FinalizableMarked, Marking, Allocated, IsWhite
<1>4. MainMarked' /\ DeadSwept'
  BY <1>2 DEF MainMarked, DeadSwept, Marking, IsDead, OtherWhite
<1> QED
  BY <1>1, <1>3, <1>4

\* Every step of the collector keeps the invariant.
LEMMA CollectorOwned == ASSUME LInv, Collector PROVE LInv'
<1>1. ASSUME FinalizerEnd PROVE LInv'
  BY <1>1, PlainStep, FinalizerEndType DEF FinalizerEnd, LInv
<1> QED
  BY <1>1, RestartCollectionOwned, PropagateStepOwned, AtomicStartOwned, AtomicPropagateOwned,
     AtomicMarkRootsOwned, AtomicGrayAgainOwned, ConvergeRoundOwned, ConvergeTableOwned,
     AtomicSeparateOwned, AtomicFinishOwned, EnterSweepOwned, SweepToLiveOwned, SweepStepOwned,
     SweepToBeFnzOwned, SweepEndOwned, CallFinEndOwned, FinalizeOwned
  DEF Collector

\* So does every step.
LEMMA NextLInv == LInv /\ [Next]_vars => LInv'
<1>1. ASSUME LInv, UNCHANGED vars PROVE LInv'
  <2>1. TypeOK' /\ UNCHANGED <<gcvars, grays, atomvars>>
    BY <1>1 DEF LInv, TypeOK, vars, gcvars, grays, atomvars, fullvars, tables, threads
  <2> QED
    BY <1>1, <2>1, PlainStep
<1> QED
  BY <1>1, CollectorOwned, ProgramOwned DEF Next
\* The invariant holds in every reachable state.
THEOREM LInvAlways == Spec => []LInv
  BY InitLInv, NextLInv, PTL DEF Spec

\* Every object but the main thread is in exactly one of allgc, finobj and tobefnz,
\* and sweepgc never leaves the list it sweeps, for any number of objects, whatever
\* the program does between two steps of the collector (luaC_newobj,
\* luaC_checkfinalizer, udata2finalize, separatetobefnz, sweeplist).
THEOREM OwnedAlways == Spec => []Owned
<1>1. LInv => Owned
  BY DEF LInv
<1> QED
  BY <1>1, LInvAlways, PTL

-----------------------------------------------------------------------------
(* The refinement of LuaLife *)

\* The list of an object says where it is in its life.
LEMMA LifeOf ==
  ASSUME Owned
  PROVE  \A o \in Obj \ {Main} :
           /\ o \in allgc => Life[o] = "plain"
           /\ o \in finobj => Life[o] = "finalizable"
           /\ o \in tobefnz => Life[o] = "pending"
           /\ o \notin allgc \cup finobj \cup tobefnz => Life[o] = "free"
  BY DEF Owned, Life

\* Moving the objects of S, and only them, to a list moves them on in their life.
LEMMA LifeMoves ==
  ASSUME Owned, Owned', NEW S, NEW state \in {"free", "plain", "finalizable", "pending"},
         \A o \in (Obj \ {Main}) \ S :
           /\ o \in allgc' <=> o \in allgc
           /\ o \in finobj' <=> o \in finobj
           /\ o \in tobefnz' <=> o \in tobefnz,
         \A o \in (Obj \ {Main}) \cap S :
           /\ state = "plain" <=> o \in allgc'
           /\ state = "finalizable" <=> o \in finobj'
           /\ state = "pending" <=> o \in tobefnz'
  PROVE  L!Move(S, state)
  BY DEF Owned, Life, L!Move

\* The initial state is one where every object is free.
LEMMA InitLife == Init => L!Init
<1>1. ASSUME Init PROVE \A o \in Obj \ {Main} : Life[o] = "free"
  BY <1>1 DEF Init, Life
<1> QED
  BY <1>1 DEF L!Init, Life

\* Freeing dead objects frees plain ones.
LEMMA SweepLife ==
  ASSUME LInv, LInv', NEW S \in SUBSET Obj, SweepBatch(S)
  PROVE  L!Next
<1> DEFINE dead == {o \in S : IsDead(o)}
<1>1. dead \subseteq allgc \cap (Obj \ {Main})
  BY DeadInAllgc
<1>2. allgc' = allgc \ dead /\ finobj' = finobj \ dead /\ tobefnz' = tobefnz \ dead
  BY DEF SweepBatch
<1>3. dead \subseteq L!In("plain")
  BY <1>1, LifeOf DEF LInv, L!In
<1>4. L!Move(dead, "free")
  BY <1>1, <1>2, LifeMoves DEF LInv, Owned
<1> QED
  BY <1>1, <1>3, <1>4 DEF L!Next, L!Free

\* A step that leaves the three lists alone.
LEMMA SameLife ==
  ASSUME UNCHANGED <<allgc, finobj, tobefnz>> PROVE UNCHANGED L!vars
  BY DEF L!vars, Life

\* Creating an object creates it (luaC_newobj).
LEMMA NewObjLife == ASSUME LInv, LInv', NEW o \in Obj, NewObj(o) PROVE L!Next
<1>1. /\ o \in Obj \ {Main} /\ o \notin allgc \cup finobj \cup tobefnz
      /\ allgc' = allgc \cup {o} /\ finobj' = finobj /\ tobefnz' = tobefnz
  BY DEF NewObj, LInv, MainMarked, Owned, Allocated
<1>2. L!Move({o}, "plain")
  BY <1>1, LifeMoves DEF LInv
<1> QED
  BY <1>1, <1>2, LifeOf DEF LInv, L!Next, L!Create, L!In

\* Setting a metatable may mark the object for finalization (luaC_checkfinalizer).
LEMMA SetMetaLife ==
  ASSUME LInv, LInv', NEW o \in Table \cup Udata, NEW m \in Table \cup {Nil}, NEW hasgc \in BOOLEAN,
         SetMeta(o, m, hasgc)
  PROVE  L!Next \/ UNCHANGED L!vars
<1>1. CASE UNCHANGED <<allgc, finobj>>
  BY <1>1, SameLife DEF SetMeta
<1>2. CASE CheckFinalizer(o, ForwardPaint(o, m))
  <2>1. /\ o \in Obj \ {Main} /\ o \in allgc /\ o \notin finobj \cup tobefnz
        /\ allgc' = allgc \ {o} /\ finobj' = finobj \cup {o} /\ tobefnz' = tobefnz
    BY <1>2 DEF SetMeta, CheckFinalizer, LInv, Owned, Allocated
  <2>2. L!Move({o}, "finalizable")
    BY <2>1, LifeMoves DEF LInv
  <2> QED
    BY <2>1, <2>2, LifeOf DEF LInv, L!Next, L!MarkForFinalization, L!In
<1> QED
  BY <1>1, <1>2 DEF SetMeta

\* Calling a finalizer makes its object a plain one again (udata2finalize).
LEMMA FinalizeLife ==
  ASSUME LInv, LInv', NEW o \in tobefnz, NEW keep \in BOOLEAN, Finalize(o, keep)
  PROVE  L!Next
<1>1. /\ o \in Obj \ {Main} /\ o \notin allgc \cup finobj
      /\ allgc' = allgc \cup {o} /\ finobj' = finobj /\ tobefnz' = tobefnz \ {o}
  BY DEF Finalize, LInv, Owned, Allocated
<1>2. L!Move({o}, "plain")
  BY <1>1, LifeMoves DEF LInv
<1> QED
  BY <1>1, <1>2, LifeOf DEF LInv, L!Next, L!CallFinalizer, L!In

\* Separating objects makes their finalizers due (separatetobefnz).
LEMMA AtomicSeparateLife == ASSUME LInv, LInv', AtomicSeparate PROVE L!Next
<1>1. /\ Separated \subseteq finobj /\ Separated \subseteq Obj \ {Main}
      /\ allgc' = allgc /\ finobj' = finobj \ Separated /\ tobefnz' = tobefnz \cup Separated
  BY DEF AtomicSeparate, Separated, LInv, Owned, Allocated
<1>2. L!Move(Separated, "pending")
  BY <1>1, LifeMoves DEF LInv, Owned
<1>3. Separated \subseteq L!In("finalizable")
  BY <1>1, LifeOf DEF LInv, L!In
<1> QED
  BY <1>1, <1>2, <1>3 DEF L!Next, L!Separate

\* Every step of the collector is a step in the life of objects, or none.
LEMMA CollectorLife == ASSUME LInv, LInv', Collector PROVE L!Next \/ UNCHANGED L!vars
<1>1. ASSUME EnterSweep \/ SweepToLive \/ SweepStep \/ SweepToBeFnz PROVE L!Next
  <2>1. \E S \in SUBSET Obj : SweepBatch(S)
    BY <1>1 DEF EnterSweep, SweepToLive, SweepStep, SweepToBeFnz, LInv, TypeOK, Obj
  <2> QED
    BY <2>1, SweepLife
<1>2. ASSUME \/ RestartCollection \/ PropagateStep \/ AtomicStart \/ AtomicPropagate
             \/ AtomicMarkRoots \/ AtomicGrayAgain \/ ConvergeRound \/ AtomicFinish
             \/ SweepEnd \/ CallFinEnd \/ FinalizerEnd \/ \E w \in todo : ConvergeTable(w)
      PROVE  UNCHANGED <<allgc, finobj, tobefnz>>
  BY <1>2 DEF RestartCollection, PropagateStep, AtomicStart, AtomicPropagate, PropagateMark,
    AtomicMarkRoots, AtomicGrayAgain, ConvergeRound, AtomicFinish, SweepEnd, CallFinEnd,
    FinalizerEnd, ConvergeTable, gcvars
<1> QED
  BY <1>1, <1>2, SameLife, AtomicSeparateLife, FinalizeLife DEF Collector

\* So is every step of the program.
LEMMA ProgramLife == ASSUME LInv, LInv', Program PROVE L!Next \/ UNCHANGED L!vars
<1>1. ASSUME \/ (\E x \in Avail : Push(x)) \/ Pop \/ TableOps \/ RehashOps \/ FieldOps
             \/ ModeOps \/ RootOps \/ StringOps \/ ThreadOps \/ FullOps
      PROVE  UNCHANGED <<allgc, finobj, tobefnz>>
  BY <1>1 DEF Push, Pop, TableOps, SetEntry, NewKey, RehashOps, Rehash, FieldOps, SetField, ModeOps,
    SetMode, RootOps, SetGlobalRoot, StringOps, InternFound, ThreadOps, Resume, XMove, Leave, Expose,
    FullOps, FullGC, gcvars
<1> QED
  BY <1>1, SameLife, NewObjLife, SetMetaLife, FinalizeLife
  DEF Program, StackOps, MetaOps, FinalizerOps

\* The collector implements LuaLife, for any number of objects: one that is marked
\* for finalization is freed only after it was separated and its finalizer called,
\* in whatever phase of a cycle it was marked, resurrected or marked again.
THEOREM ImplementsLifeAlways == Spec => ImplementsLife
<1>1. LInv /\ LInv' /\ [Next]_vars => [L!Next]_(L!vars)
  <2>1. UNCHANGED vars => UNCHANGED L!vars
    BY SameLife DEF vars, gcvars
  <2> QED
    BY <2>1, CollectorLife, ProgramLife DEF Next
<1> QED
  BY <1>1, InitLife, LInvAlways, PTL DEF Spec, ImplementsLife, L!Spec

-----------------------------------------------------------------------------
(* The inductive invariant *)

NoWhite(S) == \A x \in S : ~IsWhite(x)
Dark(o) == marked[o] \in {"gray", "black"}

\* A new object starts without references: an address is cleared when it is freed.
Blank ==
  \A o \in Obj : marked[o] = "free" =>
    /\ \A i \in Slot : ref[o][i] = Nil
    /\ o \in Table => Full(o) = {}
    /\ o \in Thread => resumer[o] = Nil
\* Threads are never black, since their stacks have no barrier; strings and userdata
\* are never gray, and strings refer to nothing.
Kinds ==
  /\ \A o \in Thread : marked[o] # "black"
  /\ \A o \in Str \cup Udata : marked[o] # "gray"
  /\ \A s \in Str, i \in Slot : ref[s][i] = Nil
\* The running thread and those that resumed it are a chain that starts at the main
\* thread, and each is on the stack of the one before, which does not change.
Chain ==
  /\ resumer[Main] = Nil
  /\ cur = Main \/ resumer[cur] # Nil
  /\ \A th \in Thread : resumer[th] # Nil =>
       /\ th \in Refs(resumer[th]) /\ resumer[th] # cur
       /\ resumer[th] = Main \/ resumer[resumer[th]] # Nil
       /\ \A u \in Thread : resumer[u] = resumer[th] => u = th
  /\ \A Z \in SUBSET Thread : (\A z \in Z : resumer[z] \in Z) => Z = {}
\* What the sweep has passed is white again.
SweptPale ==
  ~Marking => \A o \in Obj : Dark(o) =>
     /\ gcstate \notin {"GCScallfin", "GCSpause"}
     /\ o \in allgc => gcstate = "GCSswpallgc" /\ o \in sweep
     /\ o \in finobj => gcstate = "GCSswpallgc" \/ (gcstate = "GCSswpfinobj" /\ o \in sweep)
     /\ o \in tobefnz => gcstate \in {"GCSswpallgc", "GCSswpfinobj", "GCSswptobefnz"}

\* The gray objects that the cycle is going to traverse again.
Pending == gray \cup (IF apc \in {"idle", "pre"} THEN grayagain
                      ELSE IF apc = "prop" THEN origagain ELSE {})
\* An entry of a gray table that was traversed: it is marked, or its table is in a list
\* that the rest of the atomic phase looks at.
EntryDone(t, n) ==
  \/ t \in allweak \cup ephemeron \cup todo
  \/ ~IsWhite(keys[t][n]) /\ (t \in weak \/ ~IsWhite(vals[t][n]))
\* A gray object that was traversed, for the last time but for ephemeron tables.
Done(o) ==
  /\ o \notin Func
  /\ o \in Thread => \A i \in Slot : ~IsWhite(ref[o][i])
  /\ o \in Table => NoWhite(Refs(o)) /\ \A n \in Full(o) : EntryDone(o, n)
GrayPlaced ==
  Marking => /\ \A o \in Obj : marked[o] = "gray" /\ o \notin Pending =>
                  Done(o) /\ (apc = "idle" => o \in allweak)
             /\ NoWhite(ephemeron \cup todo)
\* When a round over the ephemeron tables has marked nothing so far, the tables that it
\* has put back have no marked key with an unmarked value.
Settled ==
  /\ apc \in {"conv", "conv2"} \/ todo = {}
  /\ apc \in {"conv", "conv2"} /\ ~changed =>
       /\ gray = {}
       /\ \A t \in ephemeron : \A n \in Full(t) \ WeakNodes(t) : ~IsWhite(vals[t][n])
\* The tables that clearvalues has cleared keep only marked values.
Cleaned ==
  apc \in {"fin", "conv2"} =>
    \A t \in origweak \cup origall : \A n \in Full(t) : ~IsWhite(vals[t][n])
RootsMarked ==
  /\ Marking => NoWhite(tobefnz)
  /\ apc \in Inside => NoWhite({cur, groot})

HeapInv == NoDangling /\ Blank /\ Kinds /\ Chain
MarkInv == SweptPale /\ TriColor /\ GrayPlaced /\ Settled /\ Cleaned /\ RootsMarked
SInv == LInv /\ HeapInv /\ MarkInv

\* The invariant holds in the initial state.
LEMMA InitSInv == Init => SInv
<1> SUFFICES ASSUME Init PROVE SInv
  OBVIOUS
<1>1. LInv
  BY InitLInv
<1>2. Alive = {Main} /\ Main \in Thread /\ Main \in Obj
  BY MainObject, KindsAssumption DEF Init, Alive, Allocated, IsDead, OtherWhite
<1>3. \A o \in Obj : Readable(o) = {}
  BY KindsAssumption DEF Init, Readable, Refs, Slots, Field, Slot, Full
<1>4. NoDangling
  BY <1>2, <1>3, KindsAssumption DEF Init, NoDangling, Roots, Obj
<1>5. Blank /\ Kinds
  BY DEF Init, Blank, Kinds, Full, Obj
<1>6. Chain
  BY <1>2, KindsAssumption DEF Init, Chain, Obj
<1>7. SweptPale /\ TriColor /\ GrayPlaced
  BY DEF Init, SweptPale, TriColor, GrayPlaced, Marking, Dark
<1>8. Settled /\ Cleaned /\ RootsMarked
  BY DEF Init, Settled, Cleaned, RootsMarked, Marking, Inside
<1> QED
  BY <1>1, <1>4, <1>5, <1>6, <1>7, <1>8 DEF SInv, HeapInv, MarkInv

-----------------------------------------------------------------------------
(* The program and the heap *)

\* What the program can name is alive.
LEMMA AvailAlive == ASSUME TypeOK, NoDangling PROVE Avail \subseteq Alive
<1>1. Main \in Alive /\ cur \in Alive /\ (groot = Nil \/ groot \in Alive)
  BY KindsAssumption DEF NoDangling, Roots, TypeOK, Obj
<1>2. \A i \in 1..top[cur] : i \in Slot
  BY KindsAssumption DEF TypeOK, Slot
<1>3. \A i \in 1..top[cur] : ref[cur][i] \in Alive \cup {Nil}
  BY <1>1, <1>2 DEF NoDangling, TypeOK
<1> DEFINE held == ({ref[cur][i] : i \in 1..top[cur]} \cup {groot, cur, Main}) \ {Nil}
<1>4. held \subseteq Alive
  BY <1>1, <1>3
<1>5. \A o \in held : Readable(o) \subseteq Alive
  BY <1>4 DEF NoDangling
<1> QED
  BY <1>4, <1>5 DEF Avail

\* Steps of the program on stacks, roots, modes and coroutines: what they write is alive.
\* A finalizer that is called also takes its object to another list, and may whiten it.
LEMMA HeldStep ==
  ASSUME SInv, LInv', SweptPale', apc = "idle",
         UNCHANGED <<currentwhite, gcstate, grays, atomvars, keys, vals>>,
         \A o \in Obj : marked'[o] = marked[o]
                        \/ (~Marking /\ marked[o] # "free" /\ ~IsDead(o) /\ marked'[o] = currentwhite),
         tobefnz' \subseteq tobefnz,
         \A o \in Obj \ Thread : ref'[o] = ref[o],
         \A th \in Thread, i \in Slot :
           ref'[th][i] = ref[th][i] \/ (marked[th] # "free" /\ ref'[th][i] \in Alive \cup {Nil}),
         cur' \in Alive, groot' \in Alive \cup {Nil},
         \A th \in Thread : resumer'[th] # Nil => {th, resumer'[th]} \subseteq Alive,
         Chain'
  PROVE  SInv'
<1> USE DEF SInv, HeapInv, MarkInv
<1>0. TypeOK /\ TypeOK'
  BY DEF LInv
<1>1. Alive' = Alive /\ (\A o \in Obj : marked'[o] = "free" <=> marked[o] = "free")
  <2>1. OtherWhite' = OtherWhite /\ currentwhite # OtherWhite /\ currentwhite # "free"
    BY <1>0 DEF OtherWhite, TypeOK, White
  <2> QED
    BY <2>1 DEF Alive, Allocated, IsDead
<1>2. \A o \in Obj \ Thread : (Refs(o))' = Refs(o) /\ (Readable(o))' = Readable(o)
  BY DEF Refs, Slots, Readable, Full
<1>3. \A th \in Thread \cap Alive, i \in Slot : ref'[th][i] \in Alive \cup {Nil}
  BY DEF NoDangling
<1>4. \A th \in Thread \cap Alive : (Readable(th))' \subseteq Alive
  <2>1. ASSUME NEW th \in Thread \cap Alive PROVE (Refs(th))' \subseteq Alive
    <3>1. \A i \in 1..top'[th] : i \in Slot
      BY <1>0, KindsAssumption DEF TypeOK, Slot
    <3> QED
      BY <1>3, <3>1 DEF Refs, Slots
  <2> QED
    BY <2>1, KindsAssumption DEF Readable
<1>5. NoDangling'
  <2>1. (Roots \cup tobefnz)' \subseteq Alive
    BY DEF NoDangling, Roots
  <2>2. \A o \in Alive : o \in Obj
    BY DEF Alive, Allocated
  <2>3. \A o \in Alive : (Readable(o))' \subseteq Alive
    BY <1>2, <1>4, <2>2 DEF NoDangling
  <2> QED
    BY <1>1, <1>3, <2>1, <2>3 DEF NoDangling
<1>6. Blank'
  <2>1. ASSUME NEW o \in Obj, marked[o] = "free"
        PROVE  /\ \A i \in Slot : ref'[o][i] = Nil
               /\ o \in Table => (Full(o))' = {}
               /\ o \in Thread => resumer'[o] = Nil
    <3>1. \A i \in Slot : ref'[o][i] = ref[o][i]
      BY <2>1
    <3>2. (Full(o))' = Full(o)
      BY DEF Full
    <3>3. o \notin Alive
      BY <2>1 DEF Alive, Allocated
    <3> QED
      BY <2>1, <3>1, <3>2, <3>3 DEF Blank
  <2> QED
    BY <1>1, <2>1 DEF Blank
<1>7. Kinds'
  <2>1. \A o \in Obj : marked'[o] = marked[o] \/ marked'[o] \notin {"gray", "black"}
    BY <1>0 DEF TypeOK, White
  <2> QED
    BY <2>1, KindsAssumption DEF Kinds, Obj
<1>8. Marking => marked' = marked
  BY <1>0 DEF TypeOK
<1>9. TriColor'
  <2>1. \A o \in Obj : marked[o] = "black" => o \notin Thread
    BY DEF Kinds
  <2> QED
    BY <1>2, <1>8, <2>1 DEF TriColor, Marking, IsWhite
<1>10. GrayPlaced'
  <2>1. ASSUME Marking, NEW o \in Obj, marked[o] = "gray", o \notin Pending
        PROVE  (Done(o))' /\ o \in allweak'
    <3>1. Done(o) /\ o \in allweak /\ o \in Table
      BY <1>0, <2>1 DEF GrayPlaced, TypeOK
    <3>2. o \in Obj \ Thread /\ o \notin Func
      BY <3>1, KindsAssumption
    <3> QED
      BY <1>2, <1>8, <2>1, <3>1, <3>2 DEF Done, NoWhite, IsWhite, EntryDone, grays
  <2> QED
    BY <1>8, <2>1 DEF GrayPlaced, grays, atomvars, Marking, Pending, NoWhite, IsWhite
<1>11. Settled' /\ Cleaned'
  BY DEF Settled, Cleaned, atomvars
<1>12. RootsMarked'
  BY <1>8 DEF RootsMarked, atomvars, Marking, NoWhite, IsWhite, Inside
<1> QED
  BY <1>5, <1>6, <1>7, <1>9, <1>10, <1>11, <1>12

\* The same, when the lists and the colours do not change.
LEMMA StackStep ==
  ASSUME SInv, TypeOK', UNCHANGED <<gcvars, grays, atomvars, keys, vals>>, apc = "idle",
         \A o \in Obj \ Thread : ref'[o] = ref[o],
         \A th \in Thread, i \in Slot :
           ref'[th][i] = ref[th][i] \/ (marked[th] # "free" /\ ref'[th][i] \in Alive \cup {Nil}),
         cur' \in Alive, groot' \in Alive \cup {Nil},
         \A th \in Thread : resumer'[th] # Nil => {th, resumer'[th]} \subseteq Alive,
         Chain'
  PROVE  SInv'
<1>1. LInv'
  BY PlainStep DEF SInv
<1>2. SweptPale'
  BY DEF SInv, MarkInv, SweptPale, gcvars, Marking, Dark
<1> QED
  BY <1>1, <1>2, HeldStep DEF gcvars

\* The chain of coroutines does not depend on the stack of the running one.
LEMMA ChainKept ==
  ASSUME TypeOK, Chain, UNCHANGED <<cur, resumer>>,
         \A th \in Thread \ {cur} :
           th = Main \/ resumer[th] # Nil => ref'[th] = ref[th] /\ top'[th] = top[th]
  PROVE  Chain'
<1>1. ASSUME NEW th \in Thread, resumer[th] # Nil PROVE (Refs(resumer[th]))' = Refs(resumer[th])
  <2>1. resumer[th] \in Thread \ {cur} /\ (resumer[th] = Main \/ resumer[resumer[th]] # Nil)
    BY <1>1 DEF Chain, TypeOK
  <2> QED
    BY <2>1 DEF Refs, Slots
<1> QED
  BY <1>1 DEF Chain

\* A push of something alive on a stack of the program.
LEMMA PushOnStep ==
  ASSUME SInv, TypeOK', UNCHANGED <<gcvars, grays, atomvars, keys, vals, groot, cur, resumer>>,
         apc = "idle", NEW x \in Alive, PushOn(cur, x)
  PROVE  SInv'
<1> USE DEF SInv, HeapInv, MarkInv, LInv
<1>1. top[cur] + 1 \in Slot /\ cur \in Thread /\ cur \in Alive /\ (groot = Nil \/ groot \in Alive)
  BY KindsAssumption DEF PushOn, TypeOK, Slot, NoDangling, Roots, Obj
<1>2. /\ ref' = [ref EXCEPT ![cur][top[cur] + 1] = x] /\ top' = [top EXCEPT ![cur] = @ + 1]
  BY DEF PushOn
<1>3. \A o \in Obj \ {cur} : ref'[o] = ref[o]
  BY <1>2 DEF TypeOK
<1>4. \A i \in Slot : ref'[cur][i] = ref[cur][i] \/ ref'[cur][i] = x
  BY <1>1, <1>2 DEF TypeOK, Obj
<1>5. Chain'
  BY <1>2, <1>3, ChainKept DEF TypeOK, Obj
<1>6. \A th \in Thread : resumer'[th] # Nil => {th, resumer'[th]} \subseteq Alive
  BY DEF NoDangling
<1>7. marked[cur] # "free" /\ \A th \in Thread : th \in Obj
  BY <1>1 DEF Alive, Allocated, Obj
<1> QED
  BY <1>1, <1>3, <1>4, <1>5, <1>6, <1>7, StackStep

\* What a stack step needs to know of the roots.
LEMMA RootsAlive ==
  ASSUME SInv
  PROVE  /\ cur \in Thread /\ cur \in Obj /\ cur \in Alive /\ groot \in Alive \cup {Nil}
         /\ marked[cur] # "free"
         /\ \A th \in Thread : resumer[th] # Nil => {th, resumer[th]} \subseteq Alive
  BY KindsAssumption DEF SInv, LInv, HeapInv, TypeOK, NoDangling, Roots, Obj, Alive, Allocated

\* Pushing a value that the program can name (lua_pushvalue).
LEMMA PushSafe == ASSUME SInv, NEW x \in Avail, Push(x) PROVE SInv'
<1>1. TypeOK' /\ x \in Alive
  BY PushType, AvailAlive DEF SInv, LInv, HeapInv
<1> QED
  BY <1>1, PushOnStep DEF Push, Running, grays, tables

\* Lowering the top (lua_settop).
LEMMA PopSafe == ASSUME SInv, Pop PROVE SInv'
<1>1. TypeOK' /\ TypeOK /\ Chain
  BY PopType DEF SInv, LInv, HeapInv
<1>2. Chain'
  BY <1>1, ChainKept DEF Pop, TypeOK
<1> QED
  BY <1>1, <1>2, RootsAlive, StackStep DEF Pop, Running, tables

\* Raising the top over stale slots (luaD_precall).
LEMMA ExposeSafe == ASSUME SInv, Expose PROVE SInv'
<1>1. TypeOK' /\ TypeOK /\ Chain
  BY ExposeType DEF SInv, LInv, HeapInv
<1>2. Chain'
  BY <1>1, ChainKept DEF Expose, TypeOK
<1> QED
  BY <1>1, <1>2, RootsAlive, StackStep DEF Expose, Running, tables

\* Changing a field __mode (lua_rawset).
LEMMA SetModeSafe == ASSUME SInv, NEW t \in Table, NEW w \in Modes, SetMode(t, w) PROVE SInv'
<1>1. TypeOK' /\ TypeOK /\ Chain
  BY SetModeType DEF SInv, LInv, HeapInv
<1>2. Chain'
  BY <1>1, ChainKept DEF SetMode, threads
<1> QED
  BY <1>1, <1>2, RootsAlive, StackStep DEF SetMode, Running, threads

\* The return of a finalizer (GCTM).
LEMMA FinalizerEndSafe == ASSUME SInv, FinalizerEnd PROVE SInv'
<1>1. TypeOK' /\ TypeOK /\ Chain
  BY FinalizerEndType DEF SInv, LInv, HeapInv
<1>2. Chain'
  BY <1>1, ChainKept DEF FinalizerEnd, threads
<1> QED
  BY <1>1, <1>2, RootsAlive, StackStep DEF FinalizerEnd, threads, tables

\* Changing a root without a barrier (lua_copy).
LEMMA SetGlobalRootSafe == ASSUME SInv, NEW x \in Val, SetGlobalRoot(x) PROVE SInv'
<1>1. TypeOK' /\ TypeOK /\ Chain /\ groot' \in Alive \cup {Nil}
  BY SetGlobalRootType, AvailAlive DEF SInv, LInv, HeapInv, SetGlobalRoot
<1>2. Chain'
  BY <1>1, ChainKept DEF SetGlobalRoot, threads
<1> QED
  BY <1>1, <1>2, RootsAlive, StackStep DEF SetGlobalRoot, Running, threads, tables

\* Resuming a coroutine (lua_resume).
LEMMA ResumeSafe == ASSUME SInv, NEW th \in Thread, Resume(th) PROVE SInv'
<1> USE DEF SInv, LInv, HeapInv
<1>0. TypeOK'
  BY ResumeType
<1>1. /\ cur \in Thread /\ th # cur /\ th # Main /\ resumer[th] = Nil
      /\ th \in Refs(cur) /\ cur' = th /\ cur # Nil
      /\ resumer' = [resumer EXCEPT ![th] = cur]
      /\ UNCHANGED <<ref, top, groot>>
  BY KindsAssumption DEF Resume, TypeOK, Obj
<1>2. /\ \A u \in Thread : resumer'[u] = IF u = th THEN cur ELSE resumer[u]
      /\ \A u \in Thread : (Refs(u))' = Refs(u)
  BY <1>1 DEF TypeOK, Refs, Slots
<1>3. \A u \in Thread : resumer[u] # th
  BY <1>1, KindsAssumption DEF Chain, Obj
<1>4. Chain'
  <2>1. resumer'[Main] = Nil /\ resumer'[cur'] # Nil
    BY <1>1, <1>2, KindsAssumption DEF Chain
  <2>2. ASSUME NEW u \in Thread, resumer'[u] # Nil
        PROVE  /\ u \in (Refs(resumer[u]))' /\ resumer'[u] # cur'
               /\ resumer'[u] = Main \/ resumer'[resumer'[u]] # Nil
               /\ \A w \in Thread : resumer'[w] = resumer'[u] => w = u
    <3>1. CASE u = th
      BY <1>1, <1>2, <1>3, <3>1 DEF Chain
    <3>2. CASE u # th
      BY <1>1, <1>2, <1>3, <2>2, <3>2 DEF Chain, TypeOK
    <3> QED
      BY <3>1, <3>2
  <2>3. ASSUME NEW Z \in SUBSET Thread, \A z \in Z : resumer'[z] \in Z PROVE Z = {}
    <3>1. \A z \in Z \ {th} : resumer[z] \in Z \ {th}
      BY <1>2, <1>3, <2>3
    <3>2. Z \ {th} = {}
      BY <3>1 DEF Chain
    <3>3. th \in Z => cur \in Z
      BY <1>2, <2>3
    <3> QED
      BY <1>1, <3>2, <3>3
  <2> QED
    BY <2>1, <2>2, <2>3 DEF Chain
<1>5. th \in Alive
  BY <1>1, RootsAlive, KindsAssumption DEF NoDangling, Readable
<1>6. \A u \in Thread : resumer'[u] # Nil => {u, resumer'[u]} \subseteq Alive
  BY <1>2, <1>5, RootsAlive
<1> QED
  BY <1>0, <1>1, <1>4, <1>5, <1>6, RootsAlive, StackStep DEF Resume, Running, tables

\* Yielding, or the end of a coroutine (lua_yieldk).
LEMMA LeaveSafe == ASSUME SInv, Leave PROVE SInv'
<1> USE DEF SInv, LInv, HeapInv
<1>1. /\ TypeOK' /\ cur \in Thread /\ resumer[cur] # Nil /\ cur' = resumer[cur]
      /\ resumer' = [resumer EXCEPT ![cur] = Nil] /\ UNCHANGED <<ref, top, groot>>
  BY LeaveType DEF Leave, TypeOK
<1>2. /\ \A u \in Thread : resumer'[u] = IF u = cur THEN Nil ELSE resumer[u]
      /\ \A u \in Thread : (Refs(u))' = Refs(u)
      /\ resumer[cur] \in Thread
  BY <1>1 DEF TypeOK, Refs, Slots
<1>3. Chain'
  <2>1. resumer'[Main] = Nil /\ (cur' = Main \/ resumer'[cur'] # Nil)
    BY <1>1, <1>2, KindsAssumption DEF Chain
  <2>2. ASSUME NEW u \in Thread, resumer'[u] # Nil
        PROVE  /\ u \in (Refs(resumer[u]))' /\ resumer'[u] # cur'
               /\ resumer'[u] = Main \/ resumer'[resumer'[u]] # Nil
               /\ \A w \in Thread : resumer'[w] = resumer'[u] => w = u
    BY <1>1, <1>2, <2>2 DEF Chain, TypeOK
  <2>3. ASSUME NEW Z \in SUBSET Thread, \A z \in Z : resumer'[z] \in Z PROVE Z = {}
    <3>1. Nil \notin Z
      BY KindsAssumption DEF Obj
    <3>2. \A z \in Z : resumer[z] \in Z
      BY <1>2, <2>3, <3>1
    <3> QED
      BY <3>2 DEF Chain
  <2> QED
    BY <2>1, <2>2, <2>3 DEF Chain
<1>4. cur' \in Alive /\ \A u \in Thread : resumer'[u] # Nil => {u, resumer'[u]} \subseteq Alive
  BY <1>1, <1>2, RootsAlive
<1> QED
  BY <1>1, <1>3, <1>4, RootsAlive, StackStep DEF Leave, Running, tables

\* Moving a value to the stack of a thread that is not active (lua_xmove).
LEMMA XMoveSafe == ASSUME SInv, NEW th \in Thread, XMove(th) PROVE SInv'
<1> USE DEF SInv, LInv, HeapInv
<1>0. TypeOK'
  BY XMoveType
<1>1. /\ th \in Avail /\ th # Main /\ th # cur /\ resumer[th] = Nil
      /\ top[cur] \in Slot /\ top[th] + 1 \in Slot /\ cur \in Thread
  BY KindsAssumption DEF XMove, TypeOK, Slot
<1>2. /\ ref' = [ref EXCEPT ![th][top[th] + 1] = ref[cur][top[cur]]]
      /\ top' = [top EXCEPT ![th] = @ + 1, ![cur] = @ - 1]
      /\ UNCHANGED <<cur, resumer, groot>>
  BY DEF XMove
<1>3. th \in Alive /\ marked[th] # "free" /\ ref[cur][top[cur]] \in Alive \cup {Nil}
  BY <1>1, AvailAlive, RootsAlive DEF NoDangling, Alive, Allocated
<1>4. /\ \A o \in Obj \ {th} : ref'[o] = ref[o]
      /\ \A i \in Slot : ref'[th][i] = ref[th][i] \/ ref'[th][i] = ref[cur][top[cur]]
      /\ \A u \in Thread \ {th, cur} : top'[u] = top[u]
  BY <1>1, <1>2 DEF TypeOK, Obj
<1>5. Chain'
  <2>1. \A u \in Thread : u \in Obj
    BY DEF Obj
  <2> QED
    BY <1>1, <1>2, <1>4, <2>1, ChainKept
<1>6. \A u \in Thread : u \in Obj
  BY DEF Obj
<1> QED
  BY <1>0, <1>1, <1>2, <1>3, <1>4, <1>5, <1>6, RootsAlive, StackStep DEF XMove, Running, tables

-----------------------------------------------------------------------------
(* The program and the colours *)

\* What a program step leaves alone, when it changes the colours.
Quiet == UNCHANGED <<currentwhite, gcstate, atomvars, weak, allweak, ephemeron, cur, resumer, groot>>

\* An object without references is created, or a dead string is taken back, and pushed.
LEMMA BirthStep ==
  ASSUME SInv, LInv', Quiet, apc = "idle", NEW o \in Obj, o \notin Alive, PushOn(cur, o),
         marked' = [marked EXCEPT ![o] = currentwhite],
         \A i \in Slot : ref[o][i] = Nil, o \in Table => Full(o) = {},
         o \in Thread => resumer[o] = Nil,
         allgc \subseteq allgc', allgc' \subseteq allgc \cup {o}, sweep \subseteq sweep',
         UNCHANGED <<finobj, tobefnz, gray, grayagain, keys, vals>>
  PROVE  SInv'
<1> USE DEF SInv, HeapInv, MarkInv, Quiet
<1>1. /\ TypeOK /\ TypeOK' /\ cur \in Thread \cap Alive /\ cur # o /\ top[cur] + 1 \in Slot
      /\ cur \in Obj
  BY RootsAlive, KindsAssumption DEF LInv, TypeOK, PushOn, Slot
<1>2. /\ \A x \in Obj \ {cur} : ref'[x] = ref[x]
      /\ \A i \in Slot : ref'[cur][i] = ref[cur][i] \/ ref'[cur][i] = o
      /\ \A th \in Thread \ {cur} : top'[th] = top[th]
  BY <1>1 DEF PushOn, TypeOK
<1>3. Alive' = Alive \cup {o}
  <2>1. marked'[o] = currentwhite /\ \A x \in Obj \ {o} : marked'[x] = marked[x]
    BY <1>1 DEF TypeOK
  <2>2. OtherWhite' = OtherWhite /\ currentwhite # OtherWhite /\ currentwhite # "free"
    BY <1>1 DEF OtherWhite, TypeOK, White
  <2> QED
    BY <2>1, <2>2 DEF Alive, Allocated, IsDead
<1>4. \A x \in Obj \ {cur} : (Readable(x))' = Readable(x) /\ (Refs(x))' = Refs(x)
  BY <1>2 DEF Readable, Refs, Slots, Full
<1>5. Readable(o) = {}
  <2>1. \A i \in Slots(o) : i \in Slot
    BY <1>1, KindsAssumption DEF Slots, Field, Slot, TypeOK
  <2> QED
    BY <2>1 DEF Readable, Refs
<1>6. (Readable(cur))' \subseteq Alive \cup {o}
  <2>1. \A i \in 1..top'[cur] : i \in Slot
    BY <1>1, KindsAssumption DEF TypeOK, Slot
  <2> QED
    BY <1>1, <1>2, <2>1, KindsAssumption DEF Readable, Refs, Slots, NoDangling
<1>7. NoDangling'
  <2>1. (Roots \cup tobefnz)' \subseteq Alive'
    BY <1>3 DEF NoDangling, Roots
  <2>2. \A th \in Thread : resumer'[th] # Nil => {th, resumer'[th]} \subseteq Alive'
    BY <1>3 DEF NoDangling
  <2>3. \A x \in Alive' : (Readable(x))' \subseteq Alive'
    <3>1. \A x \in Alive : x \in Obj
      BY DEF Alive, Allocated
    <3> QED
      BY <1>1, <1>3, <1>4, <1>5, <1>6, <3>1 DEF NoDangling
  <2>4. \A th \in Thread \cap Alive' : \A i \in Slot : ref'[th][i] \in (Alive \cup {Nil})'
    BY <1>1, <1>2, <1>3 DEF NoDangling, Alive, Allocated
  <2> QED
    BY <2>1, <2>2, <2>3, <2>4 DEF NoDangling
<1>8. Blank'
  BY <1>1, <1>2 DEF Blank, Full, Alive, Allocated, TypeOK, White
<1>9. Kinds'
  <2>1. \A x \in Obj : marked'[x] = marked[x] \/ marked'[x] \notin {"gray", "black"}
    BY <1>1 DEF TypeOK, White
  <2>2. \A s \in Str : s \in Obj \ {cur}
    BY <1>1, KindsAssumption DEF Obj
  <2> QED
    BY <1>2, <2>1, <2>2 DEF Kinds, Obj
<1>10. Chain'
  BY <1>1, <1>2, ChainKept DEF Obj
<1>11. SweptPale'
  BY <1>1 DEF SweptPale, Marking, Dark, TypeOK, White
<1>12. TriColor'
  <2>1. ASSUME NEW x \in Obj, marked'[x] = "black", Marking, NEW y \in (Readable(x))'
        PROVE  marked'[y] \notin White
    <3>1. x # o /\ marked[x] = "black" /\ x # cur /\ x \in Alive
      BY <1>1, <2>1 DEF Kinds, TypeOK, White, Alive, Allocated, IsDead, OtherWhite
    <3>2. y \in Readable(x) /\ y # o /\ y \in Obj /\ ~IsWhite(y)
      BY <1>4, <2>1, <3>1 DEF NoDangling, TriColor, Alive, Allocated
    <3> QED
      BY <1>1, <3>2 DEF IsWhite, TypeOK
  <2> QED
    BY <2>1 DEF TriColor, Marking, IsWhite
<1>13. GrayPlaced'
  <2>1. ASSUME Marking, NEW x \in Obj, marked'[x] = "gray", x \notin Pending
        PROVE  (Done(x))' /\ x \in allweak'
    <3>1. x # o /\ marked[x] = "gray" /\ x \in Alive
      BY <1>1, <2>1 DEF TypeOK, White, Alive, Allocated, IsDead, OtherWhite
    <3>2. Done(x) /\ x \in allweak /\ x \in Table /\ x # cur
      BY <1>1, <2>1, <3>1, KindsAssumption DEF GrayPlaced, LInv, TypeOK
    <3>3. \A y \in (Refs(x))' : y \in Alive /\ y \in Refs(x)
      BY <1>4, <3>1, <3>2 DEF NoDangling, Readable
    <3>4. NoWhite(Refs(x))'
      BY <1>1, <3>2, <3>3 DEF Done, NoWhite, IsWhite, TypeOK
    <3> QED
      BY <3>2, <3>4, KindsAssumption DEF Done, EntryDone
  <2>2. NoWhite(ephemeron \cup todo)' \/ ~Marking
    <3>1. Marking => \A x \in ephemeron \cup todo : x \in Alive \/ x \in todo
      BY DEF LInv, GrayAllocated, Alive, DeadSwept, Marking, Allocated
    <3>2. todo = {}
      BY DEF Settled
    <3> QED
      BY <1>1, <3>1, <3>2 DEF GrayPlaced, NoWhite, IsWhite, atomvars, TypeOK
  <2> QED
    BY <2>1, <2>2 DEF GrayPlaced, Marking, Pending, atomvars
<1>14. Settled' /\ Cleaned'
  BY DEF Settled, Cleaned, atomvars
<1>15. RootsMarked'
  BY <1>1 DEF RootsMarked, atomvars, Inside, Marking, NoWhite, NoDangling, IsWhite, TypeOK
<1> QED
  BY <1>7, <1>8, <1>9, <1>10, <1>11, <1>12, <1>13, <1>14, <1>15

\* Creating an object (luaC_newobj).
LEMMA NewObjSafe == ASSUME SInv, NEW o \in Obj, NewObj(o) PROVE SInv'
<1>1. LInv'
  BY NewObjOwned DEF SInv
<1>2. (\A i \in Slot : ref[o][i] = Nil) /\ (o \in Table => Full(o) = {})
  BY DEF NewObj, SInv, HeapInv, Blank
<1>3. (o \in Thread => resumer[o] = Nil) /\ o \notin Alive
  BY DEF NewObj, SInv, HeapInv, Blank, Alive, Allocated
<1> QED
  BY <1>1, <1>2, <1>3, BirthStep DEF NewObj, LinkAhead, Running, Quiet, grays, tables

\* Returning an interned string (internshrstr).
LEMMA InternFoundSafe == ASSUME SInv, NEW s \in Str, InternFound(s) PROVE SInv'
<1>1. LInv' /\ TypeOK' /\ s \in Obj
  BY InternFoundOwned DEF SInv, LInv, Obj
<1>2. CASE IsDead(s)
  <2>1. s \notin Alive /\ s \notin Table \cup Thread
    BY <1>2, KindsAssumption DEF Alive
  <2>2. \A i \in Slot : ref[s][i] = Nil
    BY DEF SInv, HeapInv, Kinds
  <2> QED
    BY <1>1, <1>2, <2>1, <2>2, BirthStep DEF InternFound, Running, Quiet, grays, tables
<1>3. CASE ~IsDead(s)
  <2>1. s \in Alive /\ marked' = marked
    BY <1>1, <1>3 DEF InternFound, Alive, Allocated, SInv, LInv, TypeOK
  <2> QED
    BY <1>1, <2>1, PushOnStep DEF InternFound, Running, gcvars, tables
<1> QED
  BY <1>2, <1>3

\* Writing to a table behind the back barrier (luaC_barrierback).
LEMMA TableStep ==
  ASSUME SInv, LInv', Quiet, apc = "idle", NEW t \in Table, t \in Alive, NEW S,
         S \cap Obj \subseteq Alive, BarrierBack(t, S),
         \A u \in Table \ {t} : keys'[u] = keys[u] /\ vals'[u] = vals[u],
         (Readable(t))' \subseteq Readable(t) \cup (S \cap Obj),
         UNCHANGED <<allgc, finobj, tobefnz, sweep, gray, ref, top>>
  PROVE  SInv'
<1> USE DEF SInv, HeapInv, MarkInv, Quiet
<1>1. /\ TypeOK /\ TypeOK' /\ t \in Obj /\ marked[t] # "free" /\ t \notin Func \cup Thread
      /\ t \notin Str \cup Udata
  BY KindsAssumption DEF LInv, Alive, Allocated, Obj
<1>2. /\ \A x \in Obj \ {t} : marked'[x] = marked[x]
      /\ marked'[t] = marked[t] \/ (marked[t] = "black" /\ marked'[t] = "gray" /\ t \in grayagain')
      /\ marked'[t] = "black" => NoWhite(S)
      /\ grayagain \subseteq grayagain'
  BY <1>1 DEF BarrierBack, TypeOK, NoWhite
<1>3. Alive' = Alive /\ (\A x : (IsWhite(x))' <=> IsWhite(x))
  BY <1>1, <1>2 DEF Alive, Allocated, IsDead, OtherWhite, IsWhite, TypeOK, White
<1>4. /\ \A x \in Obj : (Refs(x))' = Refs(x)
      /\ \A x \in Obj \ {t} : (Readable(x))' = Readable(x)
  BY DEF Readable, Refs, Slots, Full
<1>5. NoDangling'
  BY <1>3, <1>4 DEF NoDangling, Roots, Alive, Allocated
<1>6. Blank' /\ Chain'
  <2>1. \A x \in Obj : marked'[x] = "free" => marked[x] = "free" /\ x # t
    BY <1>1, <1>2
  <2>2. Blank'
    BY <2>1 DEF Blank, Full
  <2>3. Chain'
    BY <1>1, ChainKept
  <2> QED
    BY <2>2, <2>3
<1>7. Kinds'
  BY <1>1, <1>2 DEF Kinds, Obj
<1>8. SweptPale'
  BY <1>2 DEF SweptPale, Marking, Dark
<1>9. TriColor'
  <2>1. ASSUME NEW x \in Obj, marked'[x] = "black", Marking, NEW y \in (Readable(x))'
        PROVE  ~IsWhite(y)
    <3>1. marked[x] = "black" /\ (x = t => NoWhite(S))
      BY <1>2, <2>1
    <3> QED
      BY <1>4, <2>1, <3>1 DEF TriColor, NoWhite
  <2> QED
    BY <1>3, <2>1 DEF TriColor, Marking
<1>10. GrayPlaced'
  <2>1. ASSUME Marking, NEW x \in Obj, marked'[x] = "gray", x \notin Pending'
        PROVE  (Done(x))' /\ x \in allweak'
    <3>1. apc' = apc /\ gray' = gray
      BY DEF atomvars
    <3>2. x \notin Pending /\ (x = t => x \notin grayagain')
      BY <1>2, <2>1, <3>1 DEF Pending
    <3>3. marked[x] = "gray"
      BY <1>2, <2>1, <3>2
    <3>4. Done(x) /\ x \in allweak /\ x \in Table
      BY <1>1, <2>1, <3>2, <3>3 DEF GrayPlaced, TypeOK
    <3>5. NoWhite(Refs(x))'
      BY <1>3, <1>4, <3>4 DEF Done, NoWhite
    <3> QED
      BY <3>4, <3>5, KindsAssumption DEF Done, EntryDone
  <2> QED
    BY <1>3, <2>1 DEF GrayPlaced, Marking, NoWhite, atomvars
<1>11. Settled' /\ Cleaned' /\ RootsMarked'
  BY <1>3 DEF Settled, Cleaned, RootsMarked, atomvars, Marking, NoWhite, Inside
<1> QED
  BY <1>5, <1>6, <1>7, <1>8, <1>9, <1>10, <1>11

\* Assigning to an entry of a table (lua_rawset).
LEMMA SetEntrySafe ==
  ASSUME SInv, NEW t \in Table, NEW n \in Node, NEW v \in Val, SetEntry(t, n, v)
  PROVE  SInv'
<1>1. LInv' /\ t \in Alive /\ (v \in Alive \/ v = Nil)
  BY SetEntryOwned, AvailAlive DEF SInv, LInv, HeapInv, SetEntry
<1>2. /\ \A u \in Table \ {t} : keys'[u] = keys[u] /\ vals'[u] = vals[u]
      /\ keys' = keys /\ \A m \in Node : vals'[t][m] = IF m = n THEN v ELSE vals[t][m]
  BY DEF SetEntry, SInv, LInv, TypeOK
<1>3. (Full(t))' \subseteq Full(t)
  BY <1>2 DEF SetEntry, Full
<1>4. (Readable(t))' \subseteq Readable(t) \cup ({v} \cap Obj)
  <2>1. (Refs(t))' = Refs(t)
    BY DEF SetEntry, threads, Refs, Slots
  <2>2. \A m \in (Full(t))' : m \in Node /\ vals'[t][m] # Nil
    BY DEF Full
  <2>3. v \in Obj \/ v = Nil
    BY DEF Val
  <2> QED
    BY <1>2, <1>3, <2>1, <2>2, <2>3 DEF Readable
<1>5. {v} \cap Obj \subseteq Alive
  BY <1>1, KindsAssumption
<1> QED
  BY <1>1, <1>2, <1>4, <1>5, TableStep DEF SetEntry, Running, Quiet, threads

\* Filling an empty entry of a table (luaV_finishset).
LEMMA NewKeySafe ==
  ASSUME SInv, NEW t \in Table, NEW n \in Node, NEW k \in Obj \cup {NumKey}, NEW v \in Obj,
         NewKey(t, n, k, v)
  PROVE  SInv'
<1>1. LInv' /\ t \in Alive /\ v \in Alive /\ (k \in Alive \/ k = NumKey)
  BY NewKeyOwned, AvailAlive DEF SInv, LInv, HeapInv, NewKey
<1>2. /\ \A u \in Table \ {t} : keys'[u] = keys[u] /\ vals'[u] = vals[u]
      /\ \A m \in Node : /\ vals'[t][m] = IF m = n THEN v ELSE vals[t][m]
                         /\ keys'[t][m] = IF m = n THEN k ELSE keys[t][m]
  BY DEF NewKey, SInv, LInv, TypeOK
<1>3. (Full(t))' \subseteq Full(t) \cup {n}
  BY <1>2 DEF Full
<1>4. (Readable(t))' \subseteq Readable(t) \cup ({k, v} \cap Obj)
  <2>1. (Refs(t))' = Refs(t)
    BY DEF NewKey, threads, Refs, Slots
  <2>2. \A m \in (Full(t))' : m \in Node
    BY DEF Full
  <2> QED
    BY <1>2, <1>3, <2>1, <2>2 DEF Readable
<1>5. {k, v} \cap Obj \subseteq Alive
  BY <1>1, KindsAssumption
<1> QED
  BY <1>1, <1>2, <1>4, <1>5, TableStep DEF NewKey, Running, Quiet, threads

\* Forgetting the empty entries of a table (luaH_resize).
LEMMA RehashSafe == ASSUME SInv, NEW t \in Table, Rehash(t) PROVE SInv'
<1>1. LInv' /\ t \in Alive
  BY PlainStep, RehashType, AvailAlive DEF SInv, LInv, HeapInv, Rehash
<1>2. /\ \A u \in Table \ {t} : keys'[u] = keys[u] /\ vals' = vals
      /\ \A m \in Full(t) : keys'[t][m] = keys[t][m]
  BY DEF Rehash, SInv, LInv, TypeOK, Full
<1>3. (Readable(t))' = Readable(t)
  BY <1>2 DEF Rehash, threads, Readable, Refs, Slots, Full
<1>4. BarrierBack(t, {})
  BY DEF Rehash, BarrierBack, gcvars, grays
<1>5. vals' = vals
  BY DEF Rehash
<1> QED
  BY <1>1, <1>2, <1>3, <1>4, <1>5, TableStep DEF Rehash, Running, Quiet, threads, gcvars, grays

\* A full collection is asked for: marking is given up (luaC_fullgc).
LEMMA FullGCSafe == ASSUME SInv, NEW e \in BOOLEAN, FullGC(e) PROVE SInv'
<1> USE DEF SInv, HeapInv, MarkInv
<1>1. LInv'
  BY FullGCOwned
<1>2. NoDangling' /\ Blank' /\ Kinds' /\ Chain'
  BY DEF FullGC, NoDangling, Roots, Alive, Allocated, IsDead, OtherWhite, Readable, Refs, Slots, Full,
         Blank, Kinds, Chain, tables, threads
<1>3. CASE KeepInvariant
  <2>1. SweptPale'
    BY <1>3 DEF FullGC, SweptPale
  <2>2. TriColor' /\ GrayPlaced' /\ Settled' /\ Cleaned' /\ RootsMarked'
    BY <1>3 DEF FullGC, Running, TriColor, GrayPlaced, Settled, Cleaned, RootsMarked, Marking, Inside
  <2> QED
    BY <1>1, <1>2, <2>1, <2>2
<1>4. CASE ~KeepInvariant
  <2>1. ~Marking /\ UNCHANGED <<gcstate, sweep, apc>> /\ apc = "idle"
    BY <1>4 DEF FullGC, Running, KeepInvariant, Marking, LInv, Phases, Inside
  <2>2. SweptPale'
    BY <2>1 DEF FullGC, SweptPale, Marking, Dark
  <2>3. TriColor' /\ GrayPlaced' /\ Settled' /\ Cleaned' /\ RootsMarked'
    BY <2>1 DEF FullGC, TriColor, GrayPlaced, Settled, Cleaned, RootsMarked, Marking, Inside
  <2> QED
    BY <1>1, <1>2, <2>2, <2>3
<1> QED
  BY <1>3, <1>4

\* Calling a finalizer (GCTM): its object is one of the roots, and alive.
LEMMA FinalizeSafe ==
  ASSUME SInv, NEW o \in tobefnz, NEW keep \in BOOLEAN, Finalize(o, keep)
  PROVE  SInv'
<1> USE DEF SInv, HeapInv
<1>1. LInv' /\ TypeOK /\ TypeOK'
  BY FinalizeOwned DEF LInv
<1>2. /\ o \in Obj /\ o \in Alive /\ o \notin allgc \cup finobj /\ marked[o] # "free" /\ ~IsDead(o)
      /\ cur \in Thread /\ cur \in Obj
  BY <1>1 DEF NoDangling, Alive, Allocated, Owned, LInv, TypeOK, Obj
<1>3. /\ apc = "idle" /\ gcstate # "GCSpause" /\ tobefnz' = tobefnz \ {o}
      /\ allgc' = allgc \cup {o} /\ sweep \subseteq sweep'
      /\ marked' = IF IsSweepPhase THEN [marked EXCEPT ![o] = currentwhite] ELSE marked
      /\ UNCHANGED <<currentwhite, gcstate, finobj, grays, atomvars, keys, vals, cur, resumer, groot>>
  BY DEF Finalize, CallsFinalizers, LinkAhead, tables
<1>4. \A x \in Obj : marked'[x] = marked[x]
                     \/ (~Marking /\ marked[x] # "free" /\ ~IsDead(x) /\ marked'[x] = currentwhite)
  BY <1>1, <1>2, <1>3 DEF TypeOK, IsSweepPhase, Marking
<1>5. SweptPale'
  <2>1. ASSUME ~Marking, NEW x \in Obj, (Dark(x))'
        PROVE  Dark(x) /\ x # o
    <3>1. CASE IsSweepPhase
      BY <1>1, <1>2, <1>3, <2>1, <3>1 DEF Dark, TypeOK, White
    <3>2. CASE ~IsSweepPhase
      <4>1. gcstate = "GCScallfin" /\ marked' = marked
        BY <1>1, <1>3, <2>1, <3>2 DEF IsSweepPhase, Marking, TypeOK, GCState
      <4> QED
        BY <2>1, <4>1 DEF MarkInv, SweptPale, Dark
    <3> QED
      BY <3>1, <3>2
  <2> QED
    BY <1>3, <2>1 DEF MarkInv, SweptPale, Marking
<1>6. \A x \in Obj \ {cur} : ref'[x] = ref[x]
  BY <1>1, <1>2 DEF Finalize, PushOn, TypeOK
<1>7. \A i \in Slot : ref'[cur][i] = ref[cur][i] \/ ref'[cur][i] = o
  BY <1>1, <1>2 DEF Finalize, PushOn, TypeOK
<1>8. \A th \in Thread \ {cur} : top'[th] = top[th]
  BY <1>1, <1>2 DEF Finalize, PushOn, TypeOK
<1>9. (\A th \in Thread : th \in Obj) /\ (\A x \in Obj \ Thread : x # cur)
  BY <1>2 DEF Obj
<1>10. Chain'
  BY <1>1, <1>3, <1>6, <1>8, <1>9, ChainKept
<1> QED
  BY <1>1, <1>2, <1>3, <1>4, <1>5, <1>6, <1>7, <1>9, <1>10, RootsAlive, HeldStep

-----------------------------------------------------------------------------
(* Marking *)

\* What a marked userdata refers to is marked with it; a string refers to nothing.
LEMMA ReachedClosed ==
  ASSUME TypeOK, NEW S
  PROVE  /\ \A u \in Reached(S) \cap Udata : \A x \in Refs(u) : IsWhite(x) => x \in Reached(S)
         /\ (\A x \in S : IsWhite(x) => x \in Str) => Reached(S) \subseteq Str
         /\ Reached({}) = {}
<1>1. ASSUME NEW u \in Reached(S) \cap Udata, NEW x \in Refs(u), IsWhite(x)
      PROVE  x \in Reached(S)
  BY <1>1 DEF Reached, IsWhite
<1>2. ASSUME \A x \in S : IsWhite(x) => x \in Str PROVE Reached(S) \subseteq Str
  <2> DEFINE T == Str
  <2>1. T \in SUBSET Obj /\ T \subseteq Str /\ T \cap Udata = {}
    BY KindsAssumption DEF Obj
  <2>2. \A x \in S : IsWhite(x) => x \in T
    BY <1>2
  <2> HIDE DEF T
  <2>3. \A o \in Reached(S) : o \in T
    BY <2>1, <2>2 DEF Reached
  <2> QED
    BY <2>1, <2>3
<1>3. Reached({}) = {}
  <2>1. ASSUME NEW o \in Reached({}) PROVE o \in {}
    <3>1. {} \in SUBSET Obj
      OBVIOUS
    <3> QED
      BY <3>1 DEF Reached
  <2> QED
    BY <2>1
<1> QED
  BY <1>1, <1>2, <1>3

\* A string refers to nothing.
LEMMA StringRefs == ASSUME TypeOK, Kinds, NEW s \in Str PROVE Readable(s) = {} /\ Refs(s) = {}
<1>1. Slots(s) \subseteq Slot /\ s \notin Table
  BY KindsAssumption DEF Slots, Field, Slot, TypeOK
<1> QED
  BY <1>1 DEF Readable, Refs, Kinds

\* Marking the objects of S, with the consequences that the invariant needs.
LEMMA Marks ==
  ASSUME TypeOK, TypeOK', NEW S, NEW base,
         \A x \in Obj : base[x] = marked[x] \/ base[x] \in {"gray", "black"},
         marked' = Paint(Reached(S), base)
  PROVE  /\ \A x : (IsWhite(x))' => IsWhite(x) /\ x \notin Reached(S)
         /\ \A x \in S : ~(IsWhite(x))'
         /\ \A u \in Reached(S) \cap Udata : \A x \in Refs(u) : ~(IsWhite(x))'
         /\ \A x \in Obj \ Reached(S) : marked'[x] = base[x]
         /\ \A x \in Reached(S) : \/ marked'[x] = "gray" /\ x \in NewGray(Reached(S))
                                  \/ marked'[x] = "black" /\ x \in Str \cup Udata
<1>1. \A x \in Reached(S) : x \in Obj /\ IsWhite(x)
  BY ReachedWhite
<1>2. \A x \in Obj \ Reached(S) : marked'[x] = base[x]
  BY DEF Paint
<1>3. \A x \in Reached(S) : \/ marked'[x] = "gray" /\ x \in NewGray(Reached(S))
                            \/ marked'[x] = "black" /\ x \in Str \cup Udata
  BY <1>1 DEF Paint, MarkedColor, NewGray, Grayable
<1>4. \A x : (IsWhite(x))' => IsWhite(x) /\ x \notin Reached(S)
  BY <1>2, <1>3 DEF IsWhite, White
<1> QED
  BY <1>2, <1>3, <1>4, ReachedWhite, ReachedClosed

\* Except in the sweep of allgc, nothing dies and nothing is revived.
LEMMA AliveKept ==
  ASSUME LInv, TypeOK', gcstate # "GCSswpallgc", UNCHANGED currentwhite,
         \A x \in Obj : Recoloured(x)
  PROVE  Alive' = Alive /\ Alive = Allocated /\ Allocated' = Allocated
<1>1. \A x \in Obj : ~IsDead(x)
  BY DEF LInv, DeadSwept
<1>2. Allocated' = Allocated /\ \A x \in Obj : ~(IsDead(x))'
  BY <1>1, Recolouring DEF LInv
<1> QED
  BY <1>1, <1>2 DEF Alive, Allocated

-----------------------------------------------------------------------------
(* The forward barrier *)

\* When the collector is not marking, it can only whiten the object written to.
LEMMA ForwardIdle ==
  ASSUME LInv, apc = "idle", ~Marking, NEW o \in Obj, NEW v
  PROVE  \A x \in Obj : ForwardPaint(o, v)[x] = marked[x]
                        \/ (x = o /\ ForwardPaint(o, v)[x] = currentwhite)
<1>1. ForwardMark(o, v) = {}
  BY DEF ForwardMark, KeepInvariant, Marking
<1> QED
  BY <1>1 DEF ForwardPaint, Paint, LInv, TypeOK

\* Writing to a field behind the forward barrier (luaC_barrier, luaC_objbarrier).
LEMMA FieldStep ==
  ASSUME SInv, LInv', SweptPale', apc = "idle", apc' = apc \/ (apc' = "tolive" /\ ~Marking),
         UNCHANGED <<currentwhite, gcstate, tobefnz, grayagain, weak, allweak, ephemeron, todo,
                     changed, origagain, origweak, origall, keys, vals, threads, groot>>,
         NEW o \in Table \cup Func \cup Udata, o \in Alive, NEW i \in Field,
         NEW v, v \in Alive \cup {Nil}, o \in allweak => ~Marking,
         ref' = [ref EXCEPT ![o][i] = v], gray' = gray \cup NewGray(ForwardMark(o, v)),
         Marking => marked' = ForwardPaint(o, v),
         ~Marking => \A x \in Obj : marked'[x] = marked[x] \/ (x = o /\ marked'[x] = currentwhite)
  PROVE  SInv'
<1> USE DEF SInv, HeapInv, MarkInv
<1>1. /\ TypeOK /\ TypeOK' /\ o \in Obj /\ marked[o] # "free" /\ i \in Slot /\ ~IsDead(o)
      /\ o \notin Thread \cup Str
  BY KindsAssumption DEF LInv, Alive, Allocated, Obj, Field, Slot
<1>2. /\ \A x \in Obj \ {o} : ref'[x] = ref[x]
      /\ \A j \in Slot : ref'[o][j] = ref[o][j] \/ ref'[o][j] = v
  BY <1>1 DEF TypeOK
<1>3. /\ \A x \in Obj \ {o} : (Refs(x))' = Refs(x) /\ (Readable(x))' = Readable(x)
      /\ (Readable(o))' \subseteq Readable(o) \cup ({v} \ {Nil})
  <2>1. \A x \in Obj \ {o} : (Refs(x))' = Refs(x) /\ (Readable(x))' = Readable(x)
    BY <1>2 DEF Refs, Slots, Readable, Full, threads
  <2>2. \A j \in Slots(o) : j \in Slot
    BY <1>1, KindsAssumption DEF Slots, Field, Slot
  <2>3. (Refs(o))' \subseteq Refs(o) \cup ({v} \ {Nil})
    BY <1>1, <1>2, <2>2 DEF Refs, Slots
  <2> QED
    BY <2>1, <2>3 DEF Readable, Full
<1>4. Alive' = Alive /\ (\A x \in Obj : marked'[x] = "free" <=> marked[x] = "free")
  <2>1. CASE Marking
    <3>1. \A x \in Obj : Recoloured(x)
      BY <1>1, <2>1, ForwardOwned DEF Recoloured, Darkened
    <3>2. Alive' = Alive /\ Allocated' = Allocated
      BY <1>1, <2>1, <3>1, AliveKept DEF Marking
    <3> QED
      BY <3>2 DEF Allocated
  <2>2. CASE ~Marking
    <3>1. OtherWhite' = OtherWhite /\ currentwhite # OtherWhite /\ currentwhite # "free"
      BY <1>1 DEF OtherWhite, TypeOK, White
    <3> QED
      BY <1>1, <2>2, <3>1 DEF Alive, Allocated, IsDead
  <2> QED
    BY <2>1, <2>2
<1>5. NoDangling'
  <2>1. \A x \in Alive : x \in Obj
    BY DEF Alive, Allocated
  <2>2. \A x \in Alive : (Readable(x))' \subseteq Alive
    BY <1>3, <2>1 DEF NoDangling
  <2>3. \A th \in Thread : ref'[th] = ref[th]
    BY <1>1, <1>2 DEF Obj
  <2> QED
    BY <1>4, <2>2, <2>3 DEF NoDangling, Roots, threads
<1>6. Blank' /\ Chain'
  <2>1. \A x \in Obj : marked'[x] = "free" => marked[x] = "free" /\ x # o
    BY <1>1, <1>4
  <2>2. Blank'
    BY <1>2, <2>1 DEF Blank, Full, threads
  <2>3. \A th \in Thread : ref'[th] = ref[th]
    BY <1>1, <1>2 DEF Obj
  <2>4. Chain'
    BY <1>1, <2>3, ChainKept DEF threads
  <2> QED
    BY <2>2, <2>4
<1>7. Settled'
  BY DEF Settled
<1>8. CASE ~Marking
  <2>1. Kinds'
    <3>1. \A x \in Obj : marked'[x] = marked[x] \/ marked'[x] \notin {"gray", "black"}
      BY <1>1, <1>8 DEF TypeOK, White
    <3>2. \A s \in Str : ref'[s] = ref[s]
      BY <1>1, <1>2 DEF Obj
    <3> QED
      BY <3>1, <3>2 DEF Kinds, Obj
  <2>2. TriColor' /\ GrayPlaced' /\ Cleaned' /\ RootsMarked'
    BY <1>8 DEF TriColor, GrayPlaced, Cleaned, RootsMarked, Marking, Inside
  <2> QED
    BY <1>5, <1>6, <1>7, <2>1, <2>2
<1>9. CASE Marking
  <2>1. PICK S : /\ ForwardMark(o, v) = Reached(S) /\ (S = {} \/ marked[o] = "black")
                 /\ marked[o] = "black" => ~IsWhite(v) \/ v \in S
    <3>1. KeepInvariant
      BY <1>1, <1>9 DEF Marking, KeepInvariant, LInv, Phases, Inside
    <3> QED
      BY <1>1, <3>1, ReachedClosed DEF ForwardMark
  <2>2. marked' = Paint(Reached(S), marked) /\ gray' = gray \cup NewGray(Reached(S)) /\ apc' = apc
    <3>1. ~ForwardSweep(o, v)
      BY <1>1, <1>9 DEF Marking, ForwardSweep, KeepInvariant, LInv, Phases, Inside
    <3> QED
      BY <1>9, <2>1, <3>1 DEF ForwardPaint
  <2>3. /\ \A x : (IsWhite(x))' => IsWhite(x) /\ x \notin Reached(S)
        /\ \A x \in S : ~(IsWhite(x))'
        /\ \A u \in Reached(S) \cap Udata : \A x \in Refs(u) : ~(IsWhite(x))'
        /\ \A x \in Obj \ Reached(S) : marked'[x] = marked[x]
        /\ \A x \in Reached(S) : \/ marked'[x] = "gray" /\ x \in NewGray(Reached(S))
                                 \/ marked'[x] = "black" /\ x \in Str \cup Udata
    BY <1>1, <2>2, Marks
  <2>4. o \notin Reached(S)
    BY <1>1, <2>1, ReachedWhite, ReachedClosed DEF IsWhite, White
  <2>5. Kinds'
    <3>1. \A x \in NewGray(Reached(S)) : x \notin Str \cup Udata
      BY DEF NewGray, Grayable
    <3>2. \A x \in Obj : \/ marked'[x] = marked[x]
                         \/ marked'[x] = "gray" /\ x \notin Str \cup Udata
                         \/ marked'[x] = "black" /\ x \in Str \cup Udata
      BY <2>3, <3>1
    <3>3. \A s \in Str : ref'[s] = ref[s]
      BY <1>1, <1>2 DEF Obj
    <3> QED
      BY <3>2, <3>3, KindsAssumption DEF Kinds, Obj
  <2>6. TriColor'
    <3>1. ASSUME NEW x \in Obj, marked'[x] = "black", NEW y \in (Readable(x))'
          PROVE  ~(IsWhite(y))'
      <4>1. CASE x \in Reached(S)
        <5>1. x # o /\ y \in Readable(x) /\ x \in Str \cup Udata
          BY <1>3, <2>3, <2>4, <3>1, <4>1
        <5>2. y \in Refs(x)
          BY <5>1, KindsAssumption DEF Readable
        <5>3. x \notin Str
          BY <1>1, <5>2, StringRefs
        <5> QED
          BY <2>3, <4>1, <5>1, <5>2, <5>3
      <4>2. CASE x \notin Reached(S)
        <5>1. marked[x] = "black"
          BY <2>3, <3>1, <4>2
        <5>2. CASE y \in Readable(x)
          BY <1>9, <2>3, <5>1, <5>2 DEF TriColor
        <5>3. CASE y \notin Readable(x)
          <6>1. x = o /\ y = v
            BY <1>3, <3>1, <5>3
          <6> QED
            BY <2>1, <2>3, <5>1, <6>1
        <5> QED
          BY <5>2, <5>3
      <4> QED
        BY <4>1, <4>2
    <3> QED
      BY <3>1 DEF TriColor
  <2>7. GrayPlaced'
    <3>1. ASSUME NEW x \in Obj, marked'[x] = "gray", x \notin Pending'
          PROVE  (Done(x))' /\ x \in allweak'
      <4>1. gray \subseteq gray' /\ x \notin gray' /\ x \notin Pending
        BY <2>2, <3>1 DEF Pending
      <4>2. marked[x] = "gray"
        BY <2>2, <2>3, <3>1, <4>1
      <4>3. Done(x) /\ x \in allweak /\ x \in Table /\ x # o
        BY <1>1, <1>9, <4>1, <4>2 DEF GrayPlaced, TypeOK
      <4>4. NoWhite(Refs(x))'
        BY <1>3, <2>3, <4>3 DEF Done, NoWhite
      <4> QED
        BY <4>3, <4>4, KindsAssumption DEF Done, EntryDone
    <3>2. NoWhite(ephemeron \cup todo)'
      BY <1>9, <2>3 DEF GrayPlaced, NoWhite
    <3> QED
      BY <3>1, <3>2 DEF GrayPlaced
  <2>8. Cleaned' /\ RootsMarked'
    BY <1>9, <2>2, <2>3 DEF Cleaned, RootsMarked, Inside, Marking, NoWhite
  <2> QED
    BY <1>5, <1>6, <1>7, <2>5, <2>6, <2>7, <2>8
<1> QED
  BY <1>8, <1>9

\* Assigning to an upvalue or a user value (lua_setupvalue, lua_setuservalue).
LEMMA SetFieldSafe ==
  ASSUME SInv, NEW o \in Func \cup Udata, NEW i \in Field, NEW v \in Val, SetField(o, i, v)
  PROVE  SInv'
<1> USE DEF SInv, HeapInv
<1>1. LInv' /\ TypeOK /\ TypeOK' /\ o \in Alive /\ (v \in Alive \/ v = Nil)
  BY SetFieldOwned, AvailAlive DEF LInv, SetField
<1>2. /\ apc = "idle" /\ ref' = [ref EXCEPT ![o][i] = v] /\ marked' = ForwardPaint(o, v)
      /\ gray' = gray \cup NewGray(ForwardMark(o, v))
      /\ UNCHANGED <<currentwhite, gcstate, allgc, finobj, tobefnz, sweep, grayagain, weak,
                     allweak, ephemeron, atomvars, keys, vals, threads, groot>>
  BY DEF SetField, Running, tables
<1>3. o \in Obj /\ o \notin Table
  BY KindsAssumption DEF Obj
<1>4. ~Marking => \A x \in Obj : marked'[x] = marked[x] \/ (x = o /\ marked'[x] = currentwhite)
  BY <1>1, <1>2, <1>3, ForwardIdle DEF LInv
<1>5. SweptPale'
  BY <1>1, <1>2, <1>4 DEF MarkInv, SweptPale, Marking, Dark, TypeOK, White
<1>6. o \notin allweak
  BY <1>1, <1>3 DEF TypeOK
<1>7. /\ UNCHANGED <<currentwhite, gcstate, tobefnz, grayagain, weak, allweak, ephemeron, todo,
                     changed, origagain, origweak, origall, keys, vals, threads, groot>>
      /\ apc' = apc /\ v \in Alive \cup {Nil} /\ o \in Table \cup Func \cup Udata
  BY <1>1, <1>2 DEF atomvars
<1> HIDE DEF SInv, HeapInv
<1> QED
  BY <1>1, <1>2, <1>4, <1>5, <1>6, <1>7, FieldStep

\* Setting a metatable (lua_setmetatable), when the tables in allweak keep theirs.
LEMMA SetMetaSafe ==
  ASSUME SInv, ~ResetAllWeakMeta, NEW o \in Table \cup Udata, NEW m \in Table \cup {Nil},
         NEW hasgc \in BOOLEAN, SetMeta(o, m, hasgc)
  PROVE  SInv'
<1> USE DEF SInv, HeapInv
<1>1. LInv' /\ TypeOK /\ TypeOK' /\ o \in Alive /\ (m \in Alive \/ m = Nil) /\ 1 \in Field /\ o \in Obj
  <2>1. LInv' /\ TypeOK /\ TypeOK'
    BY SetMetaOwned DEF LInv
  <2>2. o \in Avail /\ (m \in Avail \/ m = Nil) /\ Avail \subseteq Alive
    BY AvailAlive DEF LInv, SetMeta
  <2> QED
    BY <2>1, <2>2, KindsAssumption DEF Field, Obj
<1>2. /\ apc = "idle" /\ ref' = [ref EXCEPT ![o][1] = m]
      /\ gray' = gray \cup NewGray(ForwardMark(o, m))
      /\ UNCHANGED <<currentwhite, gcstate, tobefnz, grayagain, weak, allweak, ephemeron, todo,
                     changed, origagain, origweak, origall, keys, vals, threads, groot>>
  BY DEF SetMeta, Running, tables
<1>3. \/ CheckFinalizer(o, ForwardPaint(o, m))
      \/ marked' = ForwardPaint(o, m) /\ UNCHANGED <<allgc, finobj, sweep, apc>>
  BY DEF SetMeta
<1>4. o \in allweak => ~Marking
  BY <1>2 DEF SetMeta, Marking, LInv, Phases, Inside
<1>5. ~Marking => \A x \in Obj : marked'[x] = marked[x] \/ (x = o /\ marked'[x] = currentwhite)
  <2>1. CASE CheckFinalizer(o, ForwardPaint(o, m))
    BY <1>1, <1>2, <2>1, ForwardIdle DEF CheckFinalizer
  <2>2. CASE marked' = ForwardPaint(o, m)
    BY <1>1, <1>2, <2>2, ForwardIdle
  <2> QED
    BY <1>3, <2>1, <2>2
<1>6. Marking => marked' = ForwardPaint(o, m)
  BY <1>3 DEF CheckFinalizer, IsSweepPhase, Marking
<1>7. apc' = apc \/ (apc' = "tolive" /\ ~Marking)
  BY <1>3 DEF CheckFinalizer, Marking
<1>8. SweptPale'
  <2>1. ~Marking => \A x \in Obj : (Dark(x))' => Dark(x)
    BY <1>1, <1>5 DEF Dark, TypeOK, White
  <2>2. CASE CheckFinalizer(o, ForwardPaint(o, m))
    <3>1. IsSweepPhase => ~(Dark(o))'
      BY <1>1, <2>2 DEF CheckFinalizer, Dark, TypeOK, White
    <3>2. allgc' = allgc \ {o} /\ finobj' = finobj \cup {o} /\ sweep \ {o} \subseteq sweep'
      BY <2>2 DEF CheckFinalizer
    <3>3. ~Marking /\ ~IsSweepPhase => gcstate \in {"GCScallfin", "GCSpause"}
      BY <1>1 DEF Marking, IsSweepPhase, TypeOK, GCState
    <3> QED
      BY <1>2, <2>1, <3>1, <3>2, <3>3 DEF MarkInv, SweptPale, Marking
  <2>3. CASE UNCHANGED <<allgc, finobj, sweep>>
    BY <1>2, <2>1, <2>3 DEF MarkInv, SweptPale, Marking
  <2> QED
    BY <1>3, <2>2, <2>3
<1>9. m \in Alive \cup {Nil} /\ o \in Table \cup Func \cup Udata
  BY <1>1
<1> HIDE DEF SInv, HeapInv
<1> QED
  BY <1>1, <1>2, <1>4, <1>5, <1>6, <1>7, <1>8, <1>9, FieldStep

\* Every step of the program keeps the invariant.
LEMMA ProgramSafe == ASSUME SInv, ~ResetAllWeakMeta, Program PROVE SInv'
<1>1. ASSUME StackOps PROVE SInv'
  BY <1>1, NewObjSafe, PushSafe, PopSafe DEF StackOps
<1>2. ASSUME TableOps \/ RehashOps PROVE SInv'
  BY <1>2, SetEntrySafe, NewKeySafe, RehashSafe DEF TableOps, RehashOps
<1>3. ASSUME FieldOps \/ MetaOps PROVE SInv'
  BY <1>3, SetFieldSafe, SetMetaSafe DEF FieldOps, MetaOps
<1>4. ASSUME ModeOps \/ RootOps \/ StringOps PROVE SInv'
  BY <1>4, SetModeSafe, SetGlobalRootSafe, InternFoundSafe DEF ModeOps, RootOps, StringOps
<1>5. ASSUME ThreadOps PROVE SInv'
  BY <1>5, ResumeSafe, XMoveSafe, LeaveSafe, ExposeSafe DEF ThreadOps
<1>6. ASSUME FinalizerOps \/ FullOps PROVE SInv'
  BY <1>6, FinalizeSafe, FullGCSafe DEF FinalizerOps, FullOps
<1> QED
  BY <1>1, <1>2, <1>3, <1>4, <1>5, <1>6 DEF Program

-----------------------------------------------------------------------------
(* What the marking steps have in common *)

\* Marking writes nothing new: it clears the dead part of stacks and empties entries.
Shrunk ==
  /\ UNCHANGED <<top, resumer, cur, groot>>
  /\ \A o \in Obj, i \in Slot :
       ref'[o][i] = ref[o][i] \/ (ref'[o][i] = Nil /\ o \in Thread /\ i \notin 1..top[o])
  /\ \A t \in Table, n \in Node :
       vals'[t][n] = Nil \/ (vals'[t][n] = vals[t][n] /\ keys'[t][n] = keys[t][n])

\* So what an object refers to stays, and what the program can read does not grow.
LEMMA ShrunkHeap ==
  ASSUME TypeOK, Shrunk
  PROVE  /\ \A o \in Obj : (Refs(o))' = Refs(o) /\ (Readable(o))' \subseteq Readable(o)
         /\ \A t \in Table : (Full(t))' \subseteq Full(t)
         /\ \A t \in Table : \A n \in (Full(t))' : vals'[t][n] = vals[t][n] /\ keys'[t][n] = keys[t][n]
<1>1. ASSUME NEW o \in Obj PROVE (Refs(o))' = Refs(o)
  <2>1. (Slots(o))' = Slots(o)
    BY DEF Shrunk, Slots
  <2>2. \A i \in Slots(o) : i \in Slot /\ (o \in Thread => i \in 1..top[o])
    BY KindsAssumption DEF Slots, Field, Slot, TypeOK
  <2>3. \A i \in Slots(o) : ref'[o][i] = ref[o][i]
    BY <2>2 DEF Shrunk
  <2> QED
    BY <2>1, <2>3 DEF Refs
<1>2. ASSUME NEW t \in Table
      PROVE  /\ (Full(t))' \subseteq Full(t)
             /\ \A n \in (Full(t))' : vals'[t][n] = vals[t][n] /\ keys'[t][n] = keys[t][n]
  BY DEF Full, Shrunk
<1>3. ASSUME NEW o \in Obj PROVE (Readable(o))' \subseteq Readable(o)
  BY <1>1, <1>2 DEF Readable
<1> QED
  BY <1>1, <1>2, <1>3

\* A marking step and the part of the invariant that does not depend on the gray lists.
LEMMA MarkHeap ==
  ASSUME SInv, LInv', Shrunk, gcstate # "GCSswpallgc", Marking', UNCHANGED currentwhite,
         tobefnz' \subseteq Alive,
         \A x \in Obj : marked'[x] = marked[x] \/ Darkened(x),
         \A x \in Obj : marked'[x] = "black" =>
           x \notin Thread /\ ((marked[x] = "black" /\ Marking) \/ \A y \in Readable(x) : ~(IsWhite(y))'),
         \A x \in Str \cup Udata : marked'[x] # "gray"
  PROVE  HeapInv' /\ SweptPale' /\ TriColor' /\ Alive' = Alive /\ \A x : (IsWhite(x))' => IsWhite(x)
<1> USE DEF SInv, HeapInv
<1>1. TypeOK /\ TypeOK'
  BY DEF LInv
<1>2. Alive' = Alive /\ Allocated' = Allocated
  BY <1>1, AliveKept DEF Recoloured
<1>3. \A x : (IsWhite(x))' => IsWhite(x)
  BY DEF IsWhite, Darkened, White
<1>4. NoDangling'
  <2>1. \A x \in Alive : (Readable(x))' \subseteq Alive
    BY <1>1, ShrunkHeap DEF NoDangling, Alive, Allocated
  <2>2. \A th \in Thread \cap Alive, i \in Slot : ref'[th][i] \in Alive \cup {Nil}
    BY DEF Shrunk, NoDangling, Obj
  <2> QED
    BY <1>2, <2>1, <2>2 DEF NoDangling, Roots, Shrunk
<1>5. Blank'
  <2>1. \A x \in Obj : marked'[x] = "free" => marked[x] = "free"
    BY DEF Darkened
  <2> QED
    BY <1>1, <2>1, ShrunkHeap DEF Blank, Shrunk
<1>6. Kinds'
  <2>1. \A s \in Str : s \in Obj /\ s \notin Thread
    BY KindsAssumption DEF Obj
  <2>2. \A s \in Str, i \in Slot : ref'[s][i] = Nil
    BY <2>1 DEF Shrunk, Kinds
  <2>3. \A x \in Thread : x \in Obj
    BY DEF Obj
  <2> QED
    BY <2>2, <2>3 DEF Kinds
<1>7. Chain'
  <2>1. \A th \in Thread : (Refs(th))' = Refs(th)
    BY <1>1, ShrunkHeap DEF Obj
  <2>2. \A th \in Thread : resumer[th] # Nil => resumer[th] \in Thread
    BY <1>1 DEF TypeOK
  <2> QED
    BY <2>1, <2>2 DEF Chain, Shrunk
<1>8. TriColor'
  <2>1. ASSUME NEW x \in Obj, marked'[x] = "black", NEW y \in (Readable(x))'
        PROVE  ~(IsWhite(y))'
    <3>1. y \in Readable(x)
      BY <1>1, <2>1, ShrunkHeap
    <3> QED
      BY <1>3, <2>1, <3>1 DEF MarkInv, TriColor
  <2> QED
    BY <2>1 DEF TriColor
<1> QED
  BY <1>2, <1>3, <1>4, <1>5, <1>6, <1>7, <1>8 DEF SweptPale

\* A table or thread that was traversed stays so, while it stays in its list.
LEMMA DoneKept ==
  ASSUME TypeOK, Shrunk, \A x : (IsWhite(x))' => IsWhite(x), NEW o \in Obj, Done(o),
         o \in weak => o \in weak',
         o \in allweak \cup ephemeron \cup todo => o \in (allweak \cup ephemeron \cup todo)'
  PROVE  (Done(o))'
<1>1. ASSUME NEW i \in Slot, o \in Thread PROVE ~(IsWhite(ref[o][i]))'
  <2>1. ~(IsWhite(Nil))'
    BY KindsAssumption DEF IsWhite
  <2> QED
    BY <1>1, <2>1 DEF Done, Shrunk
<1>2. ASSUME o \in Table PROVE NoWhite(Refs(o))' /\ \A n \in (Full(o))' : (EntryDone(o, n))'
  BY <1>2, ShrunkHeap DEF Done, NoWhite, EntryDone
<1> QED
  BY <1>1, <1>2 DEF Done

-----------------------------------------------------------------------------
(* Traversals *)

\* What the invariant needs to know of a traversal of o.
Visited(o) ==
  /\ Shrunk
  /\ grayagain \subseteq grayagain' /\ weak \subseteq weak' /\ allweak \subseteq allweak'
  /\ ephemeron \subseteq ephemeron' /\ ephemeron' \subseteq ephemeron \cup {o}
  /\ gray \ {o} \subseteq gray'
  /\ \A x : (IsWhite(x))' => IsWhite(x) /\ x # o
  /\ \A x \in Obj \ {o} :
       \/ marked'[x] = marked[x]
       \/ marked'[x] = "gray" /\ marked[x] # "free" /\ x \in gray' /\ x \notin Str \cup Udata
       \/ /\ marked'[x] = "black" /\ marked[x] # "free" /\ x \in Str \cup Udata
          /\ \A y \in Refs(x) : ~(IsWhite(y))'
  /\ \/ marked'[o] = "black" /\ o \notin Thread /\ \A y \in Readable(o) : ~(IsWhite(y))'
     \/ /\ marked'[o] = "gray"
        /\ \/ o \in gray'
           \/ o \in grayagain' /\ gcstate # "GCSinsideatomic"
           \/ (Done(o))' /\ (gcstate = "GCSpropagate" => o \in allweak')

\* The colours after a traversal.
LEMMA Visit ==
  ASSUME TypeOK, TypeOK', Kinds, NEW o \in Table \cup Func \cup Thread, marked[o] # "free",
         NEW S, NEW c \in {"gray", "black"}, Traversed(o, S, c)
  PROVE  /\ \A x \in S : ~(IsWhite(x))'
         /\ gray \ {o} \subseteq gray'
         /\ \A x : (IsWhite(x))' => IsWhite(x) /\ x # o
         /\ \A x \in Obj \ {o} :
              \/ marked'[x] = marked[x]
              \/ marked'[x] = "gray" /\ marked[x] # "free" /\ x \in gray' /\ x \notin Str \cup Udata
              \/ /\ marked'[x] = "black" /\ marked[x] # "free" /\ x \in Str \cup Udata
                 /\ \A y \in Refs(x) : ~(IsWhite(y))'
         /\ marked'[o] = c \/ (marked'[o] = "gray" /\ o \in gray')
<1> DEFINE base == [marked EXCEPT ![o] = c]
<1>1. o \in Obj /\ o \notin Str \cup Udata
  BY KindsAssumption DEF Obj
<1>2. /\ marked' = Paint(Reached(S), base) /\ gray' = (gray \ {o}) \cup NewGray(Reached(S))
      /\ \A x \in Obj : base[x] = marked[x] \/ base[x] \in {"gray", "black"}
      /\ base[o] = c /\ \A x \in Obj \ {o} : base[x] = marked[x]
  BY <1>1 DEF Traversed, TypeOK
<1> HIDE DEF base
<1>3. /\ \A x : (IsWhite(x))' => IsWhite(x) /\ x \notin Reached(S)
      /\ \A x \in S : ~(IsWhite(x))'
      /\ \A u \in Reached(S) \cap Udata : \A x \in Refs(u) : ~(IsWhite(x))'
      /\ \A x \in Obj \ Reached(S) : marked'[x] = base[x]
      /\ \A x \in Reached(S) : \/ marked'[x] = "gray" /\ x \in NewGray(Reached(S))
                               \/ marked'[x] = "black" /\ x \in Str \cup Udata
  BY <1>2, Marks
<1>4. marked'[o] = c \/ (marked'[o] = "gray" /\ o \in gray')
  BY <1>1, <1>2, <1>3
<1>5. ~(IsWhite(o))'
  BY <1>4 DEF IsWhite, White
<1>6. ASSUME NEW x \in Obj \ {o}
      PROVE  \/ marked'[x] = marked[x]
             \/ marked'[x] = "gray" /\ marked[x] # "free" /\ x \in gray' /\ x \notin Str \cup Udata
             \/ /\ marked'[x] = "black" /\ marked[x] # "free" /\ x \in Str \cup Udata
                /\ \A y \in Refs(x) : ~(IsWhite(y))'
  <2>1. CASE x \notin Reached(S)
    BY <1>2, <1>3, <2>1
  <2>2. CASE x \in Reached(S)
    <3>1. marked[x] # "free"
      BY <2>2, ReachedWhite DEF IsWhite, White
    <3>2. CASE x \in NewGray(Reached(S)) /\ marked'[x] = "gray"
      BY <1>2, <3>1, <3>2 DEF NewGray, Grayable
    <3>3. CASE x \in Str /\ marked'[x] = "black"
      <4>1. Refs(x) = {}
        BY <3>3, StringRefs
      <4> QED
        BY <3>1, <3>3, <4>1
    <3>4. CASE x \in Udata /\ marked'[x] = "black"
      BY <1>3, <2>2, <3>1, <3>4
    <3> QED
      BY <1>3, <2>2, <3>2, <3>3, <3>4
  <2> QED
    BY <2>1, <2>2
<1> QED
  BY <1>2, <1>3, <1>4, <1>5, <1>6

\* A step that changes the heap only in the empty entries of one table.
LEMMA EntriesShrunk ==
  ASSUME TypeOK, UNCHANGED <<top, resumer, cur, groot, ref, vals>>, NEW h \in Table,
         keys' = [keys EXCEPT ![h] = RemoveEntries(h)]
  PROVE  Shrunk
  BY DEF Shrunk, RemoveEntries, Full, TypeOK

\* What every traversal leaves alone.
OnlyMarks == UNCHANGED <<currentwhite, allgc, finobj, tobefnz, sweep, todo, changed, origagain,
                         origweak, origall, vals, mode, threads, groot>>

\* traversethread: it waits in grayagain, or in the atomic phase it is done.
LEMMA TraverseThreadSafe ==
  ASSUME TypeOK, TypeOK', Kinds, NEW o \in Obj, marked[o] # "free", OnlyMarks, TraverseThread(o)
  PROVE  Visited(o)
<1>1. o \in Thread
  BY DEF TraverseThread
<1>2. Shrunk
  BY <1>1 DEF TraverseThread, OnlyMarks, Shrunk, threads, TypeOK, Obj
<1>3. Traversed(o, Refs(o), "gray") /\ o \in grayagain' /\ grayagain \subseteq grayagain'
  BY DEF TraverseThread
<1>4. \A x \in Refs(o) : ~(IsWhite(x))'
  BY <1>1, <1>3, Visit
<1>5. ASSUME gcstate = "GCSinsideatomic" PROVE (Done(o))'
  <2>1. ASSUME NEW i \in Slot PROVE ~(IsWhite(ref[o][i]))'
    <3>1. ref'[o][i] = IF i <= top[o] THEN ref[o][i] ELSE Nil
      BY <1>1, <1>5 DEF TraverseThread, TypeOK, Obj
    <3>2. ~(IsWhite(Nil))'
      BY KindsAssumption DEF IsWhite
    <3>3. i <= top[o] => i \in 1..top[o]
      BY <1>1, KindsAssumption DEF Slot, TypeOK
    <3> QED
      BY <1>1, <1>4, <3>1, <3>2, <3>3 DEF Refs, Slots, IsWhite
  <2> QED
    BY <1>1, <2>1, KindsAssumption DEF Done
<1>6. UNCHANGED <<weak, allweak, ephemeron>>
  BY DEF TraverseThread
<1>7. gcstate = "GCSpropagate" => gcstate # "GCSinsideatomic"
  OBVIOUS
<1> QED
  BY <1>1, <1>2, <1>3, <1>5, <1>6, <1>7, Visit DEF Visited

\* traverseLclosure, traverseCclosure, traverseproto.
LEMMA TraverseFuncSafe ==
  ASSUME TypeOK, TypeOK', Kinds, NEW o \in Obj, marked[o] # "free", OnlyMarks, TraverseFunc(o)
  PROVE  Visited(o)
<1>1. o \in Func /\ o \notin Thread /\ Readable(o) = Refs(o)
  BY KindsAssumption DEF TraverseFunc, Readable
<1>2. Shrunk
  BY DEF TraverseFunc, OnlyMarks, Shrunk, threads
<1>3. Traversed(o, Refs(o), "black") /\ UNCHANGED <<grayagain, weak, allweak, ephemeron>>
  BY DEF TraverseFunc
<1> QED
  BY <1>1, <1>2, <1>3, Visit DEF Visited

\* traversestrongtable.
LEMMA TraverseStrongSafe ==
  ASSUME TypeOK, TypeOK', Kinds, NEW o \in Obj, marked[o] # "free", OnlyMarks, TraverseStrong(o)
  PROVE  Visited(o)
<1>1. o \in Table /\ o \notin Thread
  BY KindsAssumption DEF TraverseStrong
<1>2. Shrunk
  BY <1>1, EntriesShrunk DEF TraverseStrong, OnlyMarks, threads
<1>3. Traversed(o, Readable(o), "black") /\ UNCHANGED <<grayagain, weak, allweak, ephemeron>>
  BY DEF TraverseStrong
<1> QED
  BY <1>1, <1>2, <1>3, Visit DEF Visited

\* traverseweakvalue: in the atomic phase the table is in weak, or has no white value.
LEMMA TraverseWeakValueSafe ==
  ASSUME TypeOK, TypeOK', Kinds, NEW o \in Obj, marked[o] # "free", OnlyMarks, TraverseWeakValue(o)
  PROVE  Visited(o)
<1>1. o \in Table /\ o \notin Thread \cup Func
  BY KindsAssumption DEF TraverseWeakValue
<1>2. Shrunk
  BY <1>1, EntriesShrunk DEF TraverseWeakValue, OnlyMarks, threads
<1>3. PICK strs : /\ strs \in SUBSET StringsIn({vals[o][n] : n \in Node})
                  /\ ~HasClears(o) => strs = StringsIn({vals[o][n] : n \in Node})
                  /\ Traversed(o, Refs(o) \cup {keys[o][n] : n \in Full(o)} \cup strs, "gray")
  BY DEF TraverseWeakValue
<1>4. /\ \A x \in Refs(o) \cup {keys[o][n] : n \in Full(o)} \cup strs : ~(IsWhite(x))'
      /\ \A x : (IsWhite(x))' => IsWhite(x)
  BY <1>1, <1>3, Visit
<1>5. CASE gcstate = "GCSpropagate"
  <2>1. o \in grayagain' /\ grayagain \subseteq grayagain' /\ UNCHANGED <<weak, allweak, ephemeron>>
    BY <1>5 DEF TraverseWeakValue
  <2> QED
    BY <1>1, <1>2, <1>3, <1>5, <2>1, Visit DEF Visited
<1>6. CASE gcstate # "GCSpropagate"
  <2>1. /\ weak' = (IF HasClears(o) THEN weak \cup {o} ELSE weak)
        /\ UNCHANGED <<grayagain, allweak, ephemeron>>
    BY <1>6 DEF TraverseWeakValue
  <2>2. ASSUME NEW n \in (Full(o))' PROVE (EntryDone(o, n))'
    <3>1. n \in Full(o) /\ vals'[o][n] = vals[o][n] /\ keys'[o][n] = keys[o][n] /\ n \in Node
      BY <1>1, <1>2, ShrunkHeap DEF Full
    <3>2. ~(IsWhite(keys[o][n]))'
      BY <1>4, <3>1 DEF IsWhite
    <3>3. CASE HasClears(o)
      BY <2>1, <3>2, <3>3 DEF EntryDone
    <3>4. CASE ~HasClears(o)
      <4>1. ~IsWhite(vals[o][n]) \/ vals[o][n] \in strs
        BY <1>3, <3>1, <3>4 DEF HasClears, Cleared, StringsIn
      <4>2. ~(IsWhite(vals[o][n]))'
        BY <1>4, <3>1, <4>1 DEF IsWhite
      <4> QED
        BY <3>2, <4>2 DEF EntryDone
    <3> QED
      BY <3>3, <3>4
  <2>3. NoWhite(Refs(o))'
    BY <1>2, <1>4, ShrunkHeap DEF NoWhite
  <2>4. (Done(o))'
    BY <1>1, <2>2, <2>3 DEF Done
  <2> QED
    BY <1>1, <1>2, <1>3, <1>6, <2>1, <2>4, Visit DEF Visited
<1> QED
  BY <1>5, <1>6

\* An ephemeron table in the atomic phase: each entry is marked, or in a list.
LEMMA EphemeronDone ==
  ASSUME TypeOK, TypeOK', Shrunk, NEW o \in Table, gcstate # "GCSpropagate", EphemeronLink(o),
         \A x \in Refs(o) \cup EphemeronMarks(o) : ~(IsWhite(x))',
         \A x : (IsWhite(x))' => IsWhite(x)
  PROVE  (Done(o))'
<1>1. o \notin Thread \cup Func
  BY KindsAssumption
<1>2. ASSUME NEW n \in (Full(o))', WeakNodes(o) = {} PROVE (EntryDone(o, n))'
  <2>1. n \in Full(o) /\ vals'[o][n] = vals[o][n] /\ keys'[o][n] = keys[o][n]
    BY ShrunkHeap
  <2>2. n \notin WeakNodes(o) /\ ~Cleared(keys[o][n])
    BY <1>2, <2>1 DEF WeakNodes
  <2>3. vals[o][n] \in EphemeronMarks(o) /\ (keys[o][n] \in Str => keys[o][n] \in EphemeronMarks(o))
    BY <2>1, <2>2 DEF EphemeronMarks, StringsIn
  <2> QED
    BY <2>1, <2>2, <2>3 DEF EntryDone, Cleared, IsWhite
<1>3. WeakNodes(o) # {} => o \in ephemeron' \cup allweak'
  BY DEF EphemeronLink
<1>4. NoWhite(Refs(o))'
  BY ShrunkHeap DEF NoWhite, Obj
<1> QED
  BY <1>1, <1>2, <1>3, <1>4 DEF Done, EntryDone

\* traverseephemeron.
LEMMA TraverseEphemeronSafe ==
  ASSUME TypeOK, TypeOK', Kinds, NEW o \in Obj, marked[o] # "free", OnlyMarks, TraverseEphemeron(o)
  PROVE  Visited(o)
<1>1. o \in Table /\ o \notin Thread
  BY KindsAssumption DEF TraverseEphemeron
<1>2. Shrunk
  BY <1>1, EntriesShrunk DEF TraverseEphemeron, OnlyMarks, threads
<1>3. Traversed(o, Refs(o) \cup EphemeronMarks(o), "gray") /\ EphemeronLink(o) /\ UNCHANGED weak
  BY DEF TraverseEphemeron
<1>4. /\ grayagain \subseteq grayagain' /\ allweak \subseteq allweak'
      /\ ephemeron \subseteq ephemeron' /\ ephemeron' \subseteq ephemeron \cup {o}
      /\ gcstate = "GCSpropagate" => o \in grayagain'
  BY <1>3 DEF EphemeronLink
<1>5. /\ \A x \in Refs(o) \cup EphemeronMarks(o) : ~(IsWhite(x))'
      /\ \A x : (IsWhite(x))' => IsWhite(x)
  BY <1>1, <1>3, Visit
<1>6. gcstate # "GCSpropagate" => (Done(o))'
  BY <1>1, <1>2, <1>3, <1>5, EphemeronDone
<1> QED
  BY <1>1, <1>2, <1>3, <1>4, <1>6, Visit DEF Visited

\* a table with weak keys and values goes straight to allweak (traversetable).
LEMMA TraverseAllWeakSafe ==
  ASSUME TypeOK, TypeOK', Kinds, NEW o \in Obj, marked[o] # "free", OnlyMarks, TraverseAllWeak(o)
  PROVE  Visited(o)
<1>1. o \in Table /\ o \notin Thread \cup Func
  BY KindsAssumption DEF TraverseAllWeak
<1>2. Shrunk
  BY DEF TraverseAllWeak, OnlyMarks, Shrunk, threads
<1>3. /\ Traversed(o, Refs(o), "gray") /\ o \in allweak' /\ allweak \subseteq allweak'
      /\ UNCHANGED <<grayagain, weak, ephemeron>>
  BY DEF TraverseAllWeak
<1>4. \A x \in Refs(o) : ~(IsWhite(x))'
  BY <1>1, <1>3, Visit
<1>5. (Done(o))'
  BY <1>1, <1>2, <1>3, <1>4, ShrunkHeap DEF Done, NoWhite, EntryDone
<1> QED
  BY <1>1, <1>2, <1>3, <1>5, Visit DEF Visited

\* A traversal keeps the part of the invariant that does not depend on the gray lists.
LEMMA VisitedHeap ==
  ASSUME SInv, LInv', Marking, Marking', UNCHANGED <<currentwhite, tobefnz>>,
         NEW o \in Obj \ (Str \cup Udata), marked[o] # "free", Visited(o)
  PROVE  HeapInv' /\ SweptPale' /\ TriColor'
<1>1. /\ Shrunk
      /\ \A x \in Obj \ {o} :
           \/ marked'[x] = marked[x]
           \/ marked'[x] = "gray" /\ marked[x] # "free" /\ x \notin Str \cup Udata
           \/ /\ marked'[x] = "black" /\ marked[x] # "free" /\ x \in Str \cup Udata
              /\ \A y \in Refs(x) : ~(IsWhite(y))'
      /\ \/ marked'[o] = "black" /\ o \notin Thread /\ \A y \in Readable(o) : ~(IsWhite(y))'
         \/ marked'[o] = "gray"
  BY DEF Visited
<1>2. \A x \in Obj : marked'[x] = marked[x] \/ Darkened(x)
  BY <1>1 DEF Darkened
<1>3. \A x \in Str \cup Udata : x \notin Thread \cup Table /\ Readable(x) = Refs(x)
  BY KindsAssumption DEF Readable
<1>4. \A x \in Obj : marked'[x] = "black" =>
         x \notin Thread /\ ((marked[x] = "black" /\ Marking) \/ \A y \in Readable(x) : ~(IsWhite(y))')
  BY <1>1, <1>3 DEF SInv, HeapInv, Kinds
<1>5. \A x \in Str \cup Udata : marked'[x] # "gray"
  BY <1>1 DEF SInv, HeapInv, Kinds, Obj
<1>6. tobefnz' \subseteq Alive /\ gcstate # "GCSswpallgc"
  BY DEF SInv, HeapInv, NoDangling, Marking
<1> QED
  BY <1>1, <1>2, <1>4, <1>5, <1>6, MarkHeap

\* One object of the gray list is traversed (propagatemark).
LEMMA PropagateVisits ==
  ASSUME SInv, LInv', Marking, PropagateMark
  PROVE  \E o \in gray : o \in Obj \ (Str \cup Udata) /\ marked[o] # "free" /\ Visited(o)
<1> USE DEF SInv, HeapInv, LInv
<1>1. PICK o \in gray : \/ TraverseThread(o) \/ TraverseFunc(o) \/ TraverseStrong(o)
                        \/ TraverseWeakValue(o) \/ TraverseEphemeron(o) \/ TraverseAllWeak(o)
  BY DEF PropagateMark
<1>2. o \in Obj /\ marked[o] # "free" /\ OnlyMarks
  BY DEF GrayAllocated, Allocated, PropagateMark, OnlyMarks
<1> HIDE DEF SInv, HeapInv
<1>3. TypeOK /\ TypeOK' /\ Kinds
  BY DEF SInv, HeapInv
<1>4. Visited(o)
  BY <1>1, <1>2, <1>3, TraverseThreadSafe, TraverseFuncSafe, TraverseStrongSafe,
     TraverseWeakValueSafe, TraverseEphemeronSafe, TraverseAllWeakSafe
<1>5. o \notin Str \cup Udata
  BY <1>1, KindsAssumption DEF TraverseThread, TraverseFunc, TraverseStrong, TraverseWeakValue,
     TraverseEphemeron, TraverseAllWeak
<1> QED
  BY <1>2, <1>4, <1>5

\* And the step keeps the invariant, in any of the loops that it is in.
LEMMA PropagateMarkSafe ==
  ASSUME SInv, LInv', Marking, Marking', PropagateMark, UNCHANGED apc,
         apc = "idle" => gcstate = "GCSpropagate"
  PROVE  SInv'
<1> USE DEF SInv, MarkInv, LInv
<1>1. PICK o \in gray : o \in Obj \ (Str \cup Udata) /\ marked[o] # "free" /\ Visited(o)
  BY PropagateVisits
<1>2. UNCHANGED <<currentwhite, tobefnz, todo, changed, origagain, origweak, origall, cur, groot>>
  BY DEF PropagateMark, threads
<1>3. /\ Shrunk /\ grayagain \subseteq grayagain' /\ weak \subseteq weak'
      /\ allweak \subseteq allweak' /\ ephemeron \subseteq ephemeron'
      /\ ephemeron' \subseteq ephemeron \cup {o} /\ gray \ {o} \subseteq gray'
      /\ \A x : (IsWhite(x))' => IsWhite(x) /\ x # o
  BY <1>1 DEF Visited
<1>4. \A x \in Obj \ {o} :
        \/ marked'[x] = marked[x]
        \/ marked'[x] = "gray" /\ marked[x] # "free" /\ x \in gray' /\ x \notin Str \cup Udata
        \/ /\ marked'[x] = "black" /\ marked[x] # "free" /\ x \in Str \cup Udata
           /\ \A y \in Refs(x) : ~(IsWhite(y))'
  BY <1>1 DEF Visited
<1>5. \/ marked'[o] = "black" /\ o \notin Thread /\ \A y \in Readable(o) : ~(IsWhite(y))'
      \/ /\ marked'[o] = "gray"
         /\ \/ o \in gray'
            \/ o \in grayagain' /\ gcstate # "GCSinsideatomic"
            \/ (Done(o))' /\ (gcstate = "GCSpropagate" => o \in allweak')
  BY <1>1 DEF Visited
<1>6. HeapInv' /\ SweptPale' /\ TriColor'
  BY <1>1, <1>2, VisitedHeap
<1>7. GrayPlaced'
  <2>1. ASSUME NEW x \in Obj, marked'[x] = "gray", x \notin Pending'
        PROVE  (Done(x))' /\ (apc' = "idle" => x \in allweak')
    <3>1. x \notin gray' /\ (apc \in {"idle", "pre"} => x \notin grayagain')
      BY <2>1 DEF Pending
    <3>2. CASE x = o
      <4>1. apc \notin {"idle", "pre"} => gcstate = "GCSinsideatomic"
        BY DEF Phases, Inside, Marking, TypeOK
      <4> QED
        BY <1>5, <2>1, <3>1, <3>2, <4>1
    <3>3. CASE x # o
      <4>1. marked[x] = "gray" /\ x \notin gray
        BY <1>3, <1>4, <2>1, <3>1, <3>3
      <4>2. x \notin Pending
        BY <1>2, <1>3, <2>1, <4>1 DEF Pending
      <4>3. Done(x) /\ (apc' = "idle" => x \in allweak')
        BY <1>3, <4>1, <4>2 DEF GrayPlaced
      <4> QED
        BY <1>2, <1>3, <4>3, DoneKept
    <3> QED
      BY <3>2, <3>3
  <2>2. NoWhite(ephemeron \cup todo)'
    BY <1>2, <1>3 DEF GrayPlaced, NoWhite
  <2> QED
    BY <2>1, <2>2 DEF GrayPlaced
<1>8. Settled'
  BY <1>1, <1>2 DEF Settled
<1>9. Cleaned'
  <2>1. ASSUME apc \in {"fin", "conv2"}, NEW t \in origweak \cup origall, NEW n \in (Full(t))'
        PROVE  ~(IsWhite(vals[t][n]))'
    <3>1. n \in Full(t) /\ vals'[t][n] = vals[t][n]
      BY <1>3, ShrunkHeap DEF TypeOK
    <3> QED
      BY <1>3, <2>1, <3>1 DEF Cleaned
  <2> QED
    BY <1>2, <2>1 DEF Cleaned
<1>10. RootsMarked'
  BY <1>2, <1>3 DEF RootsMarked, NoWhite
<1> QED
  BY <1>6, <1>7, <1>8, <1>9, <1>10

\* One step of the propagate phase (singlestep).
LEMMA PropagateStepSafe == ASSUME SInv, PropagateStep PROVE SInv'
<1>1. LInv' /\ Marking /\ Marking' /\ apc' = apc /\ gcstate = "GCSpropagate" /\ PropagateMark
  BY PropagateStepOwned DEF PropagateStep, Marking, SInv
<1> QED
  BY <1>1, PropagateMarkSafe

\* One step of a propagateall of the atomic phase.
LEMMA AtomicPropagateSafe == ASSUME SInv, AtomicPropagate PROVE SInv'
<1>1. LInv' /\ UNCHANGED <<apc, gcstate>> /\ apc # "idle" /\ PropagateMark
  BY AtomicPropagateOwned DEF AtomicPropagate, SInv
<1>2. Marking /\ Marking'
  BY <1>1 DEF AtomicPropagate, SInv, LInv, Phases, Inside, Marking
<1> QED
  BY <1>1, <1>2, PropagateMarkSafe

-----------------------------------------------------------------------------
(* The other steps that mark *)

\* Marking the objects of S, from a state without marked objects or while marking.
LEMMA MarkSet ==
  ASSUME SInv, LInv', Shrunk, gcstate # "GCSswpallgc", Marking', UNCHANGED currentwhite,
         tobefnz' \subseteq Alive, NEW S, marked' = Paint(Reached(S), marked),
         Marking \/ \A x \in Obj : ~Dark(x)
  PROVE  /\ HeapInv' /\ SweptPale' /\ TriColor' /\ Alive' = Alive
         /\ \A x : (IsWhite(x))' => IsWhite(x) /\ x \notin Reached(S)
         /\ \A x \in S : ~(IsWhite(x))'
         /\ \A x \in Obj : marked'[x] = "gray" =>
              x \in NewGray(Reached(S)) \/ (Marking /\ marked[x] = "gray")
<1>1. TypeOK /\ TypeOK' /\ Kinds
  BY DEF SInv, LInv, HeapInv
<1>2. \A x \in Obj : marked[x] = marked[x] \/ marked[x] \in {"gray", "black"}
  OBVIOUS
<1>3. /\ \A x : (IsWhite(x))' => IsWhite(x) /\ x \notin Reached(S)
      /\ \A x \in S : ~(IsWhite(x))'
      /\ \A u \in Reached(S) \cap Udata : \A x \in Refs(u) : ~(IsWhite(x))'
      /\ \A x \in Obj \ Reached(S) : marked'[x] = marked[x]
      /\ \A x \in Reached(S) : \/ marked'[x] = "gray" /\ x \in NewGray(Reached(S))
                               \/ marked'[x] = "black" /\ x \in Str \cup Udata
  BY <1>1, <1>2, Marks
<1>4. \A x \in Obj : marked'[x] = marked[x] \/ Darkened(x)
  BY <1>3, ReachedWhite DEF Darkened, IsWhite, White
<1>5. ASSUME NEW x \in Obj, marked'[x] = "black"
      PROVE  x \notin Thread /\ ((marked[x] = "black" /\ Marking) \/ \A y \in Readable(x) : ~(IsWhite(y))')
  <2>1. CASE x \notin Reached(S)
    BY <1>1, <1>3, <1>5, <2>1 DEF Kinds, Dark
  <2>2. CASE x \in Reached(S)
    <3>1. x \in Str \cup Udata /\ x \notin Thread \cup Table
      BY <1>3, <1>5, <2>2, KindsAssumption
    <3>2. \A y \in Readable(x) : ~(IsWhite(y))'
      BY <1>1, <1>3, <2>2, <3>1, StringRefs DEF Readable
    <3> QED
      BY <3>1, <3>2
  <2> QED
    BY <2>1, <2>2
<1>6. \A x \in Str \cup Udata : marked'[x] # "gray"
  BY <1>1, <1>3 DEF Kinds, NewGray, Grayable, Obj
<1>7. HeapInv' /\ SweptPale' /\ TriColor' /\ Alive' = Alive
  BY <1>4, <1>5, <1>6, MarkHeap
<1>8. \A x \in Obj : marked'[x] = "gray" =>
        x \in NewGray(Reached(S)) \/ (Marking /\ marked[x] = "gray")
  BY <1>3 DEF Dark
<1> QED
  BY <1>3, <1>7, <1>8

\* The same step without marking anything.
LEMMA MarkNothing ==
  ASSUME SInv, LInv', Marking, Marking', UNCHANGED <<marked, currentwhite, tobefnz, ref, keys, vals,
                                                    threads, groot>>
  PROVE  /\ HeapInv' /\ SweptPale' /\ TriColor' /\ Shrunk
         /\ \A x : (IsWhite(x))' <=> IsWhite(x)
<1>1. Shrunk
  BY DEF Shrunk, threads
<1>2. gcstate # "GCSswpallgc" /\ tobefnz' \subseteq Alive
  BY DEF Marking, SInv, HeapInv, NoDangling
<1>3. /\ \A x \in Obj : marked'[x] = "black" => x \notin Thread /\ marked[x] = "black" /\ Marking
      /\ \A x \in Str \cup Udata : marked'[x] # "gray"
  BY DEF SInv, HeapInv, Kinds
<1>4. HeapInv' /\ SweptPale' /\ TriColor'
  BY <1>1, <1>2, <1>3, MarkHeap
<1> QED
  BY <1>1, <1>4 DEF IsWhite

\* The roots are marked from a heap without marked objects (restartcollection).
LEMMA RestartCollectionSafe == ASSUME SInv, RestartCollection PROVE SInv'
<1> USE DEF SInv, MarkInv
<1>1. /\ LInv' /\ gcstate = "GCSpause" /\ gcstate' = "GCSpropagate" /\ apc = "idle"
      /\ marked' = Paint(Reached(RestartRoots), marked)
      /\ gray' = NewGray(Reached(RestartRoots)) /\ ephemeron' = {}
      /\ UNCHANGED <<currentwhite, tobefnz, apc, todo, ref, keys, vals, threads, groot>>
  BY RestartCollectionOwned DEF RestartCollection, atomvars, tables
<1>2. Shrunk /\ Marking' /\ ~Marking /\ todo = {} /\ tobefnz \subseteq Alive /\ Nil \notin tobefnz
  BY <1>1, KindsAssumption DEF Shrunk, threads, Marking, Settled, HeapInv, NoDangling, LInv, TypeOK, Obj
<1>3. \A x \in Obj : ~Dark(x)
  BY <1>1, <1>2 DEF SweptPale
<1> HIDE DEF SInv, MarkInv
<1>4. /\ HeapInv' /\ SweptPale' /\ TriColor'
      /\ \A x \in RestartRoots : ~(IsWhite(x))'
      /\ \A x \in Obj : marked'[x] = "gray" => x \in gray'
  BY <1>1, <1>2, <1>3, MarkSet
<1>5. GrayPlaced'
  BY <1>1, <1>2, <1>4 DEF GrayPlaced, Pending, NoWhite
<1>6. Settled' /\ Cleaned'
  BY <1>1, <1>2 DEF Settled, Cleaned
<1>7. RootsMarked'
  BY <1>1, <1>2, <1>4 DEF RootsMarked, RestartRoots, NoWhite, Inside
<1> QED
  BY <1>1, <1>4, <1>5, <1>6, <1>7 DEF SInv, MarkInv

\* The atomic phase begins.
LEMMA AtomicStartSafe == ASSUME SInv, AtomicStart PROVE SInv'
<1>1. /\ LInv' /\ apc = "idle" /\ apc' = "pre" /\ gcstate = "GCSatomic"
      /\ UNCHANGED <<gcvars, grays, todo, ref, keys, vals, threads, groot>>
  BY AtomicStartOwned DEF AtomicStart, tables, SInv
<1>2. Marking /\ Marking'
  BY <1>1 DEF Marking, gcvars
<1>3. HeapInv' /\ SweptPale' /\ TriColor' /\ Shrunk /\ \A x : (IsWhite(x))' <=> IsWhite(x)
  BY <1>1, <1>2, MarkNothing DEF gcvars
<1>4. GrayPlaced'
  <2>1. \A o \in Obj : Done(o) => (Done(o))'
    BY <1>1, <1>3, DoneKept DEF SInv, LInv, grays
  <2> QED
    BY <1>1, <1>2, <1>3, <2>1 DEF SInv, MarkInv, GrayPlaced, Pending, gcvars, grays, NoWhite
<1>5. Settled' /\ Cleaned' /\ RootsMarked'
  BY <1>1, <1>2, <1>3 DEF SInv, MarkInv, Settled, Cleaned, RootsMarked, Inside, NoWhite, gcvars
<1> QED
  BY <1>1, <1>3, <1>4, <1>5 DEF SInv, MarkInv

\* The roots that have no barrier are marked (atomic).
LEMMA AtomicMarkRootsSafe == ASSUME SInv, AtomicMarkRoots PROVE SInv'
<1>1. /\ LInv' /\ apc = "pre" /\ apc' = "prop" /\ gray = {} /\ gcstate' = "GCSinsideatomic"
      /\ marked' = Paint(Reached(AtomicRoots), marked)
      /\ gray' = NewGray(Reached(AtomicRoots)) /\ origagain' = grayagain
      /\ UNCHANGED <<currentwhite, tobefnz, weak, allweak, ephemeron, todo, ref, keys, vals, threads,
                     groot>>
  BY AtomicMarkRootsOwned DEF AtomicMarkRoots, tables, SInv
<1>2. Marking /\ Marking' /\ gcstate # "GCSswpallgc"
  BY <1>1 DEF Marking, SInv, LInv, Phases
<1>3. Shrunk /\ tobefnz' \subseteq Alive
  BY <1>1 DEF Shrunk, threads, SInv, HeapInv, NoDangling
<1>4. /\ HeapInv' /\ SweptPale' /\ TriColor' /\ (\A x : (IsWhite(x))' => IsWhite(x))
      /\ \A x \in AtomicRoots : ~(IsWhite(x))'
      /\ \A x \in Obj : marked'[x] = "gray" => x \in gray' \/ marked[x] = "gray"
  BY <1>1, <1>2, <1>3, MarkSet
<1>5. GrayPlaced'
  <2>1. \A o \in Obj : Done(o) => (Done(o))'
    BY <1>1, <1>3, <1>4, DoneKept DEF SInv, LInv
  <2> QED
    BY <1>1, <1>2, <1>4, <2>1 DEF SInv, MarkInv, GrayPlaced, Pending, NoWhite
<1>6. Settled' /\ Cleaned'
  BY <1>1 DEF SInv, MarkInv, Settled, Cleaned
<1>7. RootsMarked'
  <2>1. ~(IsWhite(Nil))' /\ cur' = cur
    BY <1>1, KindsAssumption DEF IsWhite, threads
  <2> QED
    BY <1>1, <1>2, <1>4, <2>1 DEF SInv, MarkInv, RootsMarked, AtomicRoots, NoWhite
<1> QED
  BY <1>1, <1>4, <1>5, <1>6, <1>7 DEF SInv, MarkInv

\* The list that the propagate phase left is traversed again (atomic).
LEMMA AtomicGrayAgainSafe == ASSUME SInv, AtomicGrayAgain PROVE SInv'
<1>1. /\ LInv' /\ apc = "prop" /\ apc' = "again" /\ gray = {} /\ gray' = origagain
      /\ UNCHANGED <<gcvars, grayagain, weak, allweak, ephemeron, todo, ref, keys, vals, threads,
                     groot>>
  BY AtomicGrayAgainOwned DEF AtomicGrayAgain, tables, SInv
<1>2. Marking /\ Marking'
  BY <1>1 DEF Marking, SInv, LInv, Phases, Inside, gcvars
<1>3. HeapInv' /\ SweptPale' /\ TriColor' /\ Shrunk /\ \A x : (IsWhite(x))' <=> IsWhite(x)
  BY <1>1, <1>2, MarkNothing DEF gcvars
<1>4. GrayPlaced'
  <2>1. \A o \in Obj : Done(o) => (Done(o))'
    BY <1>1, <1>3, DoneKept DEF SInv, LInv
  <2> QED
    BY <1>1, <1>2, <1>3, <2>1 DEF SInv, MarkInv, GrayPlaced, Pending, gcvars, NoWhite
<1>5. Settled' /\ Cleaned' /\ RootsMarked'
  BY <1>1, <1>2, <1>3 DEF SInv, MarkInv, Settled, Cleaned, RootsMarked, Inside, NoWhite, gcvars, threads
<1> QED
  BY <1>1, <1>3, <1>4, <1>5 DEF SInv, MarkInv

\* A round over the ephemeron tables begins (convergeephemerons).
LEMMA ConvergeRoundSafe == ASSUME SInv, ConvergeRound PROVE SInv'
<1>1. /\ LInv' /\ gray = {} /\ apc \in Inside /\ apc' \in {"conv", "conv2"}
      /\ apc # "prop" /\ (apc' = "conv2" <=> apc \in {"fin", "conv2"})
      /\ todo' = ephemeron /\ ephemeron' = {}
      /\ UNCHANGED <<gcvars, gray, grayagain, weak, allweak, origweak, origall, ref, keys, vals,
                     threads, groot>>
  BY ConvergeRoundOwned DEF ConvergeRound, ConvergeEnter, tables, SInv, Inside
<1>2. todo = {}
  BY DEF ConvergeRound, ConvergeEnter, SInv, MarkInv, Settled
<1>3. Marking /\ Marking'
  BY <1>1 DEF Marking, SInv, LInv, Phases, gcvars
<1>4. HeapInv' /\ SweptPale' /\ TriColor' /\ Shrunk /\ \A x : (IsWhite(x))' <=> IsWhite(x)
  BY <1>1, <1>3, MarkNothing DEF gcvars
<1>5. GrayPlaced'
  <2>1. \A o \in Obj : Done(o) => (Done(o))'
    BY <1>1, <1>2, <1>4, DoneKept DEF SInv, LInv
  <2>2. Pending = {} /\ Pending' = {}
    BY <1>1 DEF Pending, Inside
  <2> QED
    BY <1>1, <1>2, <1>3, <1>4, <2>1, <2>2 DEF SInv, MarkInv, GrayPlaced, gcvars, NoWhite
<1>6. Settled'
  BY <1>1 DEF Settled
<1>7. Cleaned' /\ RootsMarked'
  BY <1>1, <1>3, <1>4 DEF SInv, MarkInv, Cleaned, RootsMarked, Inside, NoWhite, gcvars, threads, Full
<1> QED
  BY <1>1, <1>4, <1>5, <1>6, <1>7 DEF SInv, MarkInv

\* A table of the round is traversed (convergeephemerons): its metatable is marked
\* already, and its entries are now marked or in a list.
LEMMA ConvergeTableSafe == ASSUME SInv, NEW w \in todo, ConvergeTable(w) PROVE SInv'
<1>1. LInv' /\ TypeOK /\ TypeOK' /\ Kinds
  BY ConvergeTableOwned DEF SInv, LInv, HeapInv
<1>2. /\ apc \in {"conv", "conv2"} /\ gray = {} /\ todo' = todo \ {w}
      /\ changed' = (changed \/ \E n \in Full(w) \ WeakNodes(w) : IsWhite(vals[w][n]))
      /\ Traversed(w, EphemeronMarks(w), "gray")
      /\ keys' = [keys EXCEPT ![w] = RemoveEntries(w)] /\ EphemeronLink(w)
      /\ UNCHANGED <<currentwhite, gcstate, tobefnz, weak, apc, origweak, origall, ref, vals, top,
                     cur, resumer, groot>>
  BY DEF ConvergeTable, threads
<1>3. /\ w \in Table /\ w \in Obj \ (Str \cup Udata) /\ w \notin Thread /\ marked[w] # "free"
      /\ gcstate = "GCSinsideatomic" /\ Marking /\ Marking' /\ ~IsWhite(w)
  BY <1>1, <1>2, KindsAssumption DEF SInv, LInv, GrayAllocated, Phases, Inside, Marking, Allocated,
     MarkInv, GrayPlaced, NoWhite, Obj, TypeOK
<1>4. Shrunk
  BY <1>1, <1>2, <1>3, EntriesShrunk
<1>5. Pending = {}
  BY <1>2 DEF Pending
<1>6. /\ \A x \in EphemeronMarks(w) : ~(IsWhite(x))'
      /\ gray \ {w} \subseteq gray'
      /\ \A x : (IsWhite(x))' => IsWhite(x) /\ x # w
      /\ \A x \in Obj \ {w} :
           \/ marked'[x] = marked[x]
           \/ marked'[x] = "gray" /\ marked[x] # "free" /\ x \in gray' /\ x \notin Str \cup Udata
           \/ /\ marked'[x] = "black" /\ marked[x] # "free" /\ x \in Str \cup Udata
              /\ \A y \in Refs(x) : ~(IsWhite(y))'
      /\ marked'[w] = "gray"
  BY <1>1, <1>2, <1>3, Visit
<1>7. NoWhite(Refs(w))
  <2>1. CASE marked[w] = "black"
    BY <1>3, <2>1 DEF SInv, MarkInv, TriColor, Readable, NoWhite
  <2>2. CASE marked[w] = "gray"
    BY <1>3, <1>5, <2>2 DEF SInv, MarkInv, GrayPlaced, Done
  <2> QED
    BY <1>1, <1>3, <2>1, <2>2 DEF TypeOK, IsWhite
<1>8. (Done(w))'
  <2>1. \A x \in Refs(w) \cup EphemeronMarks(w) : ~(IsWhite(x))'
    BY <1>6, <1>7 DEF NoWhite
  <2> QED
    BY <1>1, <1>2, <1>3, <1>4, <1>6, <2>1, EphemeronDone
<1>9. /\ grayagain \subseteq grayagain' /\ allweak \subseteq allweak'
      /\ ephemeron \subseteq ephemeron' /\ ephemeron' \subseteq ephemeron \cup {w}
  BY <1>2 DEF EphemeronLink
<1>10. HeapInv' /\ SweptPale' /\ TriColor'
  <2>1. Visited(w)
    BY <1>2, <1>3, <1>4, <1>6, <1>8, <1>9 DEF Visited
  <2> QED
    BY <1>1, <1>2, <1>3, <2>1, VisitedHeap
<1>11. GrayPlaced'
  <2>1. ASSUME NEW x \in Obj, marked'[x] = "gray", x \notin gray' PROVE (Done(x))'
    <3>1. CASE x # w
      <4>1. Done(x)
        BY <1>3, <1>5, <1>6, <2>1, <3>1 DEF SInv, MarkInv, GrayPlaced
      <4> QED
        BY <1>1, <1>2, <1>4, <1>6, <1>9, <3>1, <4>1, DoneKept
    <3> QED
      BY <1>8, <3>1
  <2>2. NoWhite(ephemeron \cup todo)'
    BY <1>2, <1>3, <1>6, <1>9 DEF SInv, MarkInv, GrayPlaced, NoWhite
  <2> QED
    BY <1>2, <2>1, <2>2 DEF GrayPlaced, Pending
<1>12. Settled'
  <2>1. SUFFICES ASSUME ~changed'
                 PROVE  /\ gray' = {}
                        /\ \A t \in ephemeron' : \A n \in (Full(t) \ WeakNodes(t))' : ~(IsWhite(vals[t][n]))'
    BY <1>2 DEF Settled
  <2>2. ~changed /\ \A n \in Full(w) \ WeakNodes(w) : ~IsWhite(vals[w][n])
    BY <1>1, <1>2, <2>1 DEF TypeOK
  <2>3. Reached(EphemeronMarks(w)) \subseteq Str
    <3>1. \A x \in EphemeronMarks(w) : IsWhite(x) => x \in Str
      BY <2>2 DEF EphemeronMarks, StringsIn
    <3> QED
      BY <1>1, <3>1, ReachedClosed
  <2>4. gray' = {}
    BY <1>2, <2>3 DEF Traversed, NewGray, Grayable
  <2>5. \A x \in Obj \ Str : IsWhite(x) => (IsWhite(x))'
    BY <1>1, <1>2, <1>3, <2>3 DEF Traversed, Paint, IsWhite, TypeOK
  <2>6. ASSUME NEW t \in ephemeron', NEW n \in (Full(t) \ WeakNodes(t))'
        PROVE  ~(IsWhite(vals[t][n]))'
    <3>1. t \in Table /\ n \in Full(t) /\ vals'[t][n] = vals[t][n] /\ keys'[t][n] = keys[t][n]
      BY <1>1, <1>4, ShrunkHeap DEF TypeOK
    <3>2. n \notin WeakNodes(t)
      BY <2>5, <2>6, <3>1 DEF WeakNodes, Cleared, IsWhite
    <3>3. ~IsWhite(vals[t][n])
      BY <1>2, <1>9, <2>2, <3>1, <3>2 DEF SInv, MarkInv, Settled
    <3> QED
      BY <1>6, <3>1, <3>3
  <2> QED
    BY <2>4, <2>6
<1>13. Cleaned' /\ RootsMarked'
  BY <1>2, <1>3, <1>6 DEF SInv, MarkInv, Cleaned, RootsMarked, NoWhite, Full, Inside
<1> QED
  BY <1>1, <1>10, <1>11, <1>12, <1>13 DEF SInv, MarkInv

\* The string keys, and the string values of the entries whose key stays, are asked about.
LEMMA AskedStrings ==
  ASSUME NEW KT \in SUBSET Table, NEW VT \in SUBSET Table
  PROVE  /\ \A t \in KT : \A x \in {keys[t][n] : n \in Full(t)} : x \in Str => x \in Asked(KT, VT)
         /\ \A t \in VT : \A x \in {vals[t][n] : n \in {m \in Node : ~DropKey(t, m, KT)}} :
              x \in Str => x \in Asked(KT, VT)
<1> DEFINE keysof(t) == {keys[t][n] : n \in Full(t)}
           valsof(t) == {vals[t][n] : n \in {m \in Node : ~DropKey(t, m, KT)}}
           K == UNION {keysof(t) : t \in KT}
           V == UNION {valsof(t) : t \in VT}
<1>1. Asked(KT, VT) = StringsIn(K \cup V)
  BY DEF Asked
<1>2. /\ \A t \in KT : \A x \in keysof(t) : x \in Str => x \in Asked(KT, VT)
      /\ \A t \in VT : \A x \in valsof(t) : x \in Str => x \in Asked(KT, VT)
  <2> HIDE DEF keysof, valsof
  <2>1. (\A t \in KT : keysof(t) \subseteq K) /\ (\A t \in VT : valsof(t) \subseteq V)
    OBVIOUS
  <2> HIDE DEF K, V
  <2> QED
    BY <1>1, <2>1 DEF StringsIn
<1> QED
  BY <1>2

\* What clearkeys and clearvalues leave: an entry that stays has a key, and a value, that
\* is marked by the end of the step.
LEMMA ClearMarks ==
  ASSUME TypeOK, NEW KT \in SUBSET Table, NEW VT \in SUBSET Table, NEW F, Clear(KT, VT, F),
         UNCHANGED <<ref, top, resumer, cur, groot>>
  PROVE  /\ Shrunk
         /\ marked' = Paint(Reached(Asked(KT, VT) \cup F), marked)
         /\ gray' = NewGray(Reached(Asked(KT, VT) \cup F))
         /\ Asked(KT, VT) \subseteq Str
         /\ \A t \in KT : \A n \in (Full(t))' :
              n \notin WeakNodes(t) /\ (IsWhite(keys[t][n]) => keys[t][n] \in Asked(KT, VT))
         /\ \A t \in VT : \A n \in (Full(t))' :
              IsWhite(vals[t][n]) => vals[t][n] \in Asked(KT, VT)
<1> DEFINE Drop(t, n) == DropKey(t, n, KT) \/ DropVal(t, n, VT)
           keysof(t) == {keys[t][n] : n \in Full(t)}
           valsof(t) == {vals[t][n] : n \in {m \in Node : ~DropKey(t, m, KT)}}
<1>0. /\ \A t \in KT : \A x \in keysof(t) : x \in Str => x \in Asked(KT, VT)
      /\ \A t \in VT : \A x \in valsof(t) : x \in Str => x \in Asked(KT, VT)
  BY AskedStrings
<1>1. /\ \A t \in Table, n \in Node : /\ vals'[t][n] = IF Drop(t, n) THEN Nil ELSE vals[t][n]
                                      /\ ~Drop(t, n) => keys'[t][n] = keys[t][n]
      /\ marked' = Paint(Reached(Asked(KT, VT) \cup F), marked)
      /\ gray' = NewGray(Reached(Asked(KT, VT) \cup F))
  BY DEF Clear
<1>2. Shrunk
  BY <1>1 DEF Shrunk
<1>3. \A t \in Table : \A n \in (Full(t))' : n \in Node /\ n \in Full(t) /\ ~Drop(t, n)
  BY <1>1 DEF Full
<1>4. ASSUME NEW t \in KT, NEW n \in (Full(t))'
      PROVE  n \notin WeakNodes(t) /\ (IsWhite(keys[t][n]) => keys[t][n] \in Asked(KT, VT))
  <2>1. n \in Full(t) /\ n \notin WeakNodes(t) /\ ~Cleared(keys[t][n])
    BY <1>3, <1>4 DEF DropKey, WeakNodes
  <2>2. keys[t][n] \in keysof(t)
    BY <2>1
  <2> QED
    BY <1>0, <2>1, <2>2 DEF Cleared
<1>5. ASSUME NEW t \in VT, NEW n \in (Full(t))', IsWhite(vals[t][n])
      PROVE  vals[t][n] \in Asked(KT, VT)
  <2>1. n \in Node /\ ~DropKey(t, n, KT) /\ ~Cleared(vals[t][n])
    BY <1>3, <1>5 DEF DropVal
  <2>2. vals[t][n] \in valsof(t)
    BY <2>1
  <2> QED
    BY <1>0, <1>5, <2>1, <2>2 DEF Cleared
<1>6. Asked(KT, VT) \subseteq Str
  BY DEF StringsIn, Asked
<1> QED
  BY <1>1, <1>2, <1>4, <1>5, <1>6

\* Weak values are cleared and finalizers separated (atomic).
LEMMA AtomicSeparateSafe == ASSUME SInv, AtomicSeparate PROVE SInv'
<1>1. LInv' /\ TypeOK /\ TypeOK'
  BY AtomicSeparateOwned DEF SInv, LInv
<1>2. /\ apc = "conv" /\ Converged /\ apc' = "fin"
      /\ Clear({}, weak \cup allweak, tobefnz \cup Separated)
      /\ origweak' = weak /\ origall' = allweak /\ tobefnz' = tobefnz \cup Separated
      /\ UNCHANGED <<currentwhite, gcstate, weak, allweak, ephemeron, todo, ref, top, cur, resumer, groot>>
  BY DEF AtomicSeparate, threads
<1>3. Marking /\ Marking' /\ gcstate # "GCSswpallgc"
  BY <1>2 DEF SInv, LInv, Phases, Inside, Marking
<1>4. Shrunk
  BY <1>1, <1>2, ClearMarks DEF TypeOK
<1> DEFINE asked == Asked({}, weak \cup allweak)
           S == asked \cup tobefnz \cup Separated
<1>5. /\ marked' = Paint(Reached(S), marked) /\ gray' = NewGray(Reached(S))
      /\ \A t \in weak \cup allweak : \A n \in (Full(t))' : IsWhite(vals[t][n]) => vals[t][n] \in asked
  <2>1. asked \cup (tobefnz \cup Separated) = S
    OBVIOUS
  <2> HIDE DEF S
  <2> QED
    BY <1>1, <1>2, <2>1, ClearMarks DEF TypeOK
<1>6. tobefnz' \subseteq Alive
  <2>1. Separated \subseteq Alive
    BY <1>3 DEF Separated, SInv, LInv, Owned, DeadSwept, Alive, Allocated
  <2> QED
    BY <1>2, <2>1 DEF SInv, HeapInv, NoDangling
<1>7. /\ HeapInv' /\ SweptPale' /\ TriColor' /\ (\A x : (IsWhite(x))' => IsWhite(x))
      /\ \A x \in S : ~(IsWhite(x))'
      /\ \A x \in Obj : marked'[x] = "gray" => x \in gray' \/ marked[x] = "gray"
  BY <1>1, <1>2, <1>3, <1>4, <1>5, <1>6, MarkSet
<1>8. GrayPlaced'
  <2>1. \A o \in Obj : Done(o) => (Done(o))'
    BY <1>1, <1>2, <1>4, <1>7, DoneKept
  <2>2. Pending = {} /\ Pending' = gray'
    BY <1>2 DEF Pending, Converged
  <2> QED
    BY <1>2, <1>3, <1>7, <2>1, <2>2 DEF SInv, MarkInv, GrayPlaced, NoWhite
<1>9. Settled'
  BY <1>2 DEF Settled, Converged
<1>10. Cleaned'
  <2>1. ASSUME NEW t \in weak \cup allweak, NEW n \in (Full(t))' PROVE ~(IsWhite(vals[t][n]))'
    <3>1. vals'[t][n] = vals[t][n]
      BY <1>1, <1>4, ShrunkHeap DEF TypeOK
    <3> QED
      BY <1>5, <1>7, <3>1
  <2> QED
    BY <1>2, <2>1 DEF Cleaned
<1>11. RootsMarked'
  BY <1>2, <1>5, <1>7 DEF SInv, MarkInv, RootsMarked, Inside, NoWhite
<1> QED
  BY <1>1, <1>7, <1>8, <1>9, <1>10, <1>11 DEF SInv, MarkInv

-----------------------------------------------------------------------------
(* The end of the atomic phase *)

\* A thread that is active is marked: the running thread is, and each marked thread has a
\* marked stack, so the unmarked ones would be a chain without an end.
LEMMA ActiveMarked ==
  ASSUME SInv, Marking, Pending = {}
  PROVE  \A th \in Thread : resumer[th] # Nil => ~IsWhite(th) /\ ~IsWhite(resumer[th])
<1>1. TypeOK /\ ~IsWhite(Main) /\ Main \in Thread
  BY KindsAssumption DEF SInv, LInv, MainMarked
<1> DEFINE Z == {th \in Thread : resumer[th] # Nil /\ IsWhite(th)}
<1>2. ASSUME NEW th \in Z PROVE resumer[th] \in Z
  <2>1. /\ resumer[th] \in Thread /\ th \in Refs(resumer[th])
        /\ resumer[th] = Main \/ resumer[resumer[th]] # Nil
        /\ resumer[th] \in Obj /\ marked[resumer[th]] # "free"
    BY <1>1 DEF SInv, HeapInv, Chain, NoDangling, Alive, Allocated, TypeOK, Obj
  <2>2. IsWhite(resumer[th])
    <3>1. SUFFICES ASSUME ~IsWhite(resumer[th]) PROVE FALSE
      OBVIOUS
    <3>2. marked[resumer[th]] = "gray"
      BY <1>1, <2>1, <3>1 DEF SInv, HeapInv, Kinds, IsWhite, TypeOK
    <3>3. \A i \in Slot : ~IsWhite(ref[resumer[th]][i])
      BY <2>1, <3>2 DEF SInv, MarkInv, GrayPlaced, Done
    <3>4. Slots(resumer[th]) \subseteq Slot
      BY <1>1, <2>1, KindsAssumption DEF Slots, Slot, TypeOK
    <3> QED
      BY <2>1, <3>3, <3>4 DEF Refs
  <2> QED
    BY <1>1, <2>1, <2>2
<1>3. Z = {}
  BY <1>2 DEF SInv, HeapInv, Chain
<1>4. ASSUME NEW th \in Thread, resumer[th] # Nil PROVE ~IsWhite(resumer[th])
  <2>1. resumer[th] \in Thread /\ (resumer[th] = Main \/ resumer[resumer[th]] # Nil)
    BY <1>4, <1>1 DEF SInv, HeapInv, Chain, TypeOK
  <2> QED
    BY <1>1, <1>3, <2>1
<1> QED
  BY <1>3, <1>4

\* The white is flipped: what is alive afterwards is what is marked, and what that refers
\* to is marked too, the entries of weak tables because the others have been cleared.
LEMMA AtomicFinishSafe == ASSUME SInv, AtomicFinish PROVE SInv'
<1> DEFINE KT == ephemeron \cup allweak
           VT == (weak \ origweak) \cup (allweak \ origall)
<1>1. LInv' /\ TypeOK /\ TypeOK' /\ Kinds /\ NoDangling
  BY AtomicFinishOwned DEF SInv, LInv, HeapInv
<1>2. /\ apc = "conv2" /\ gray = {} /\ todo = {} /\ ~changed /\ Clear(KT, VT, {})
      /\ currentwhite' = OtherWhite /\ gcstate' = "GCSswpallgc" /\ sweep' = allgc
      /\ apc' = "entersweep"
      /\ UNCHANGED <<allgc, tobefnz, todo, ref, top, resumer, cur, groot>>
  BY DEF AtomicFinish, Converged, threads
<1>3. Marking /\ ~Marking' /\ Pending = {}
  BY <1>2 DEF SInv, LInv, Phases, Inside, Marking, Pending
<1>4. KT \in SUBSET Table /\ VT \in SUBSET Table
  BY <1>1 DEF TypeOK
<1>5. Shrunk
  BY <1>1, <1>2, <1>4, ClearMarks
<1> DEFINE S == Asked(KT, VT)
<1>6. /\ marked' = Paint(Reached(S), marked) /\ S \subseteq Str
      /\ \A t \in KT : \A n \in (Full(t))' :
           n \notin WeakNodes(t) /\ (IsWhite(keys[t][n]) => keys[t][n] \in S)
      /\ \A t \in VT : \A n \in (Full(t))' : IsWhite(vals[t][n]) => vals[t][n] \in S
  <2>1. S \cup {} = S
    OBVIOUS
  <2> HIDE DEF S, KT, VT
  <2> QED
    BY <1>1, <1>2, <1>4, <2>1, ClearMarks DEF S
<1> HIDE DEF S
<1>7. /\ \A x : (IsWhite(x))' => IsWhite(x)
      /\ \A x \in S : ~(IsWhite(x))'
      /\ \A x \in Obj : x \notin Str => marked'[x] = marked[x]
      /\ \A x \in Obj : marked'[x] = marked[x] \/ (x \in Str /\ marked'[x] = "black" /\ marked[x] # "free")
  <2>1. \A x \in Obj : marked[x] = marked[x] \/ marked[x] \in {"gray", "black"}
    OBVIOUS
  <2>2. Reached(S) \subseteq Str
    BY <1>1, <1>6, ReachedClosed
  <2>3. /\ \A x : (IsWhite(x))' => IsWhite(x) /\ x \notin Reached(S)
        /\ \A x \in S : ~(IsWhite(x))'
        /\ \A x \in Obj \ Reached(S) : marked'[x] = marked[x]
        /\ \A x \in Reached(S) : \/ marked'[x] = "gray" /\ x \in NewGray(Reached(S))
                                 \/ marked'[x] = "black" /\ x \in Str \cup Udata
    BY <1>1, <1>6, <2>1, Marks
  <2> QED
    BY <2>2, <2>3, ReachedWhite DEF NewGray, Grayable, IsWhite, White
<1>8. Alive' = {x \in Obj : marked'[x] \in {"gray", "black"}}
  <2>1. \A x \in Obj : marked[x] # OtherWhite
    BY <1>3 DEF SInv, LInv, DeadSwept, IsDead, Marking
  <2>2. \A x \in Obj : marked'[x] \in {"gray", "black", "free", currentwhite}
    BY <1>1, <1>7, <2>1 DEF OtherWhite, TypeOK, White
  <2>3. OtherWhite' = currentwhite /\ currentwhite \in White
    BY <1>1, <1>2 DEF OtherWhite, TypeOK, White
  <2> QED
    BY <2>2, <2>3 DEF Alive, Allocated, IsDead, White
<1>9. \A x \in Alive : ~(IsWhite(x))' => x \in Alive'
  BY <1>1, <1>7, <1>8 DEF Alive, Allocated, IsWhite, TypeOK
<1>10. ASSUME NEW o \in Alive' PROVE (Readable(o))' \subseteq Alive'
  <2>1. o \in Obj /\ marked'[o] \in {"gray", "black"} /\ o \in Alive
    BY <1>1, <1>3, <1>7, <1>8, <1>10 DEF Alive, Allocated, SInv, LInv, DeadSwept, Marking, White
  <2>2. (Readable(o))' \subseteq Readable(o) /\ (Refs(o))' = Refs(o) /\ Readable(o) \subseteq Alive
    BY <1>1, <1>5, <2>1, ShrunkHeap DEF NoDangling
  <2>3. SUFFICES ASSUME NEW y \in (Readable(o))' PROVE ~(IsWhite(y))'
    BY <1>9, <2>2
  <2>4. CASE o \in Str
    BY <1>1, <2>2, <2>3, <2>4, StringRefs
  <2>5. CASE o \notin Str /\ marked[o] = "black"
    BY <1>3, <1>7, <2>1, <2>2, <2>3, <2>5 DEF SInv, MarkInv, TriColor
  <2>6. CASE o \notin Str /\ marked[o] = "gray"
    <3>1. Done(o) /\ o \in Table \cup Thread
      BY <1>1, <1>3, <2>1, <2>6 DEF SInv, MarkInv, GrayPlaced, Kinds, Obj, Done
    <3>2. CASE o \in Thread
      <4>1. y \in Refs(o)
        BY <2>2, <2>3, <3>2, KindsAssumption DEF Readable
      <4>2. Slots(o) \subseteq Slot
        BY <1>1, <3>2, KindsAssumption DEF Slots, Slot, TypeOK
      <4> QED
        BY <1>7, <3>1, <3>2, <4>1, <4>2 DEF Refs, Done
    <3>3. CASE o \in Table
      <4>1. CASE y \in Refs(o)
        BY <1>7, <3>1, <3>3, <4>1 DEF Done, NoWhite
      <4>2. CASE y \notin Refs(o)
        <5>1. PICK n \in (Full(o))' : y = vals'[o][n] \/ y = keys'[o][n]
          BY <2>2, <2>3, <3>3, <4>2 DEF Readable
        <5>2. n \in Full(o) /\ vals'[o][n] = vals[o][n] /\ keys'[o][n] = keys[o][n]
          BY <1>1, <1>5, <3>3, <5>1, ShrunkHeap
        <5>3. EntryDone(o, n)
          BY <3>1, <3>3, <5>2 DEF Done
        <5>4. ~(IsWhite(keys[o][n]))'
          BY <1>2, <1>6, <1>7, <5>1, <5>2, <5>3 DEF EntryDone
        <5>5. o \in VT => ~(IsWhite(vals[o][n]))'
          BY <1>6, <1>7, <5>1, <5>2
        <5>6. o \in origweak \cup origall => ~(IsWhite(vals[o][n]))'
          BY <1>2, <1>7, <5>2 DEF SInv, MarkInv, Cleaned
        <5>7. o \in ephemeron => ~(IsWhite(vals[o][n]))'
          <6>1. o \in ephemeron => n \notin WeakNodes(o)
            BY <1>6, <5>1
          <6> QED
            BY <1>2, <1>7, <5>2, <6>1 DEF SInv, MarkInv, Settled
        <5>8. ~(IsWhite(vals[o][n]))'
          BY <1>2, <1>7, <5>2, <5>3, <5>5, <5>6, <5>7 DEF EntryDone
        <5> QED
          BY <5>1, <5>2, <5>4, <5>8
      <4> QED
        BY <4>1, <4>2
    <3> QED
      BY <3>1, <3>2, <3>3
  <2> QED
    BY <1>7, <2>1, <2>4, <2>5, <2>6
<1>11. NoDangling'
  <2>1. (Roots \cup tobefnz)' \subseteq Alive'
    <3>1. \A x \in Roots \cup tobefnz : ~IsWhite(x) /\ x \in Alive
      BY <1>1, <1>2, <1>3 DEF NoDangling, Roots, SInv, LInv, MainMarked, MarkInv, RootsMarked, Inside, NoWhite
    <3> QED
      BY <1>2, <1>7, <1>9, <3>1 DEF Roots
  <2>2. \A th \in Thread : resumer'[th] # Nil => {th, resumer'[th]} \subseteq Alive'
    BY <1>1, <1>2, <1>3, <1>7, <1>9, ActiveMarked DEF NoDangling
  <2>3. ASSUME NEW th \in Thread \cap Alive', NEW i \in Slot PROVE ref'[th][i] \in (Alive \cup {Nil})'
    <3>1. th \in Obj /\ marked[th] = "gray" /\ th \in Alive
      BY <1>1, <1>3, <1>7, <1>8, <2>3, KindsAssumption DEF Kinds, Alive, Allocated, SInv, LInv, DeadSwept, Marking, Obj
    <3>2. ~IsWhite(ref[th][i]) /\ ref[th][i] \in Alive \cup {Nil}
      BY <1>1, <1>3, <3>1 DEF SInv, MarkInv, GrayPlaced, Done, NoDangling
    <3> QED
      BY <1>2, <1>7, <1>9, <3>2
  <2> QED
    BY <1>10, <2>1, <2>2, <2>3 DEF NoDangling
<1>12. Blank' /\ Kinds' /\ Chain'
  <2>1. \A x \in Obj : marked'[x] = "free" => marked[x] = "free"
    BY <1>7
  <2>2. \A t \in Table : (Full(t))' \subseteq Full(t)
    BY <1>1, <1>5, ShrunkHeap
  <2>3. Blank'
    BY <1>2, <2>1, <2>2 DEF SInv, HeapInv, Blank
  <2>4. Kinds'
    BY <1>1, <1>2, <1>7, KindsAssumption DEF Kinds, Obj
  <2>5. Chain'
    BY <1>1, <1>2, ChainKept DEF SInv, HeapInv
  <2> QED
    BY <2>3, <2>4, <2>5
<1>13. SweptPale'
  BY <1>2 DEF SweptPale
<1>14. TriColor' /\ GrayPlaced' /\ Settled' /\ Cleaned' /\ RootsMarked'
  BY <1>2, <1>3 DEF TriColor, GrayPlaced, Settled, Cleaned, RootsMarked, Inside
<1> QED
  BY <1>1, <1>11, <1>12, <1>13, <1>14 DEF SInv, HeapInv, MarkInv

-----------------------------------------------------------------------------
(* The sweep *)

\* Freeing dead objects and whitening others leaves alone all that is alive.
LEMMA SweepBatchSafe ==
  ASSUME SInv, LInv', NEW S \in SUBSET Allocated, SweepBatch(S), ~Marking, ~Marking', SweptPale',
         apc \notin Inside, apc' = "idle"
  PROVE  SInv'
<1> USE DEF SInv, HeapInv, MarkInv
<1>1. TypeOK /\ TypeOK' /\ OtherWhite' = OtherWhite /\ currentwhite # OtherWhite /\ OtherWhite # "free"
  BY DEF LInv, SweepBatch, OtherWhite, TypeOK, White
<1> DEFINE dead == {o \in S : IsDead(o)}
<1>2. /\ marked' = [o \in Obj |-> IF o \in dead THEN "free"
                                  ELSE IF o \in S THEN currentwhite ELSE marked[o]]
      /\ tobefnz' \subseteq tobefnz
      /\ ref' = [o \in Obj |-> IF o \in dead THEN [i \in Slot |-> Nil] ELSE ref[o]]
      /\ top' = [th \in Thread |-> IF th \in dead THEN 0 ELSE top[th]]
      /\ resumer' = [th \in Thread |-> IF th \in dead THEN Nil ELSE resumer[th]]
      /\ keys' = [t \in Table |-> IF t \in dead THEN [n \in Node |-> Nil] ELSE keys[t]]
      /\ vals' = [t \in Table |-> IF t \in dead THEN [n \in Node |-> Nil] ELSE vals[t]]
      /\ todo' = todo /\ cur' = cur /\ groot' = groot
  BY DEF SweepBatch
<1>3. /\ dead \cap Alive = {} /\ dead \subseteq Obj /\ S \subseteq Obj
      /\ \A o \in Obj : marked'[o] = "free" => marked[o] = "free" \/ o \in dead
  BY <1>1, <1>2 DEF Alive, Allocated, TypeOK, White
<1>4. Alive' = Alive
  <2>1. \A o \in Obj : IsDead(o) => o \notin Alive
    BY DEF Alive
  <2>2. \A o \in Obj : marked[o] = "free" => o \notin S /\ o \notin Alive
    BY DEF Allocated, Alive
  <2>3. ASSUME NEW o \in Obj PROVE o \in Alive' <=> o \in Alive
    BY <1>1, <1>2, <1>3, <2>1, <2>2 DEF Alive, Allocated, IsDead, TypeOK, White
  <2> QED
    BY <2>3 DEF Alive, Allocated
<1> HIDE DEF dead
<1>5. ASSUME NEW o \in Alive
      PROVE  o \in Obj /\ ref'[o] = ref[o] /\ (Refs(o))' = Refs(o) /\ (Readable(o))' = Readable(o)
  <2>1. o \in Obj /\ o \notin dead
    BY <1>3 DEF Alive, Allocated
  <2>2. ref'[o] = ref[o] /\ (o \in Thread => top'[o] = top[o])
    BY <1>2, <2>1
  <2>3. o \in Table => keys'[o] = keys[o] /\ vals'[o] = vals[o]
    BY <1>2, <2>1
  <2>4. (Refs(o))' = Refs(o)
    BY <2>2 DEF Refs, Slots
  <2>5. o \in Table => (Full(o))' = Full(o)
    BY <2>3 DEF Full
  <2> QED
    BY <2>1, <2>2, <2>3, <2>4, <2>5 DEF Readable
<1>6. resumer' = resumer
  <2>1. ASSUME NEW th \in Thread PROVE resumer'[th] = resumer[th]
    BY <1>2, <1>3 DEF NoDangling
  <2> QED
    BY <1>1, <1>2, <2>1 DEF TypeOK
<1>7. NoDangling'
  <2>1. (Roots \cup tobefnz)' \subseteq Alive
    BY <1>2 DEF NoDangling, Roots
  <2>2. \A o \in Alive : (Readable(o))' \subseteq Alive
    BY <1>5 DEF NoDangling
  <2>3. \A th \in Thread \cap Alive : \A i \in Slot : ref'[th][i] \in Alive \cup {Nil}
    BY <1>5 DEF NoDangling
  <2>4. \A th \in Thread : resumer'[th] # Nil => {th, resumer'[th]} \subseteq Alive
    BY <1>6 DEF NoDangling
  <2> QED
    BY <1>4, <2>1, <2>2, <2>3, <2>4 DEF NoDangling
<1>8. Blank'
  <2>1. ASSUME NEW o \in Obj, marked'[o] = "free"
        PROVE  /\ \A i \in Slot : ref'[o][i] = Nil
               /\ o \in Table => (Full(o))' = {}
               /\ o \in Thread => resumer'[o] = Nil
    <3>1. CASE o \in dead
      BY <1>2, <2>1, <3>1 DEF Full
    <3>2. CASE o \notin dead
      BY <1>2, <1>3, <2>1, <3>2 DEF Blank, Full
    <3> QED
      BY <3>1, <3>2
  <2> QED
    BY <2>1 DEF Blank
<1>9. Kinds'
  <2>1. \A o \in Obj : marked'[o] = marked[o] \/ marked'[o] \notin {"gray", "black"}
    BY <1>1, <1>2 DEF TypeOK, White
  <2>2. \A s \in Str : s \in Obj
    BY DEF Obj
  <2>3. \A s \in Str, i \in Slot : ref'[s][i] = Nil
    BY <1>2, <2>2 DEF Kinds
  <2> QED
    BY <2>1, <2>3 DEF Kinds, Obj
<1>10. Chain'
  <2>1. ASSUME NEW th \in Thread, resumer[th] # Nil
        PROVE  (Refs(resumer[th]))' = Refs(resumer[th])
    <3>1. resumer[th] \in Alive /\ resumer'[th] = resumer[th]
      BY <1>6, <2>1 DEF NoDangling
    <3>2. PICK r \in Alive : r = resumer[th] /\ r = resumer'[th]
      BY <3>1
    <3> QED
      BY <1>5, <3>2
  <2>2. cur' = cur
    BY <1>2
  <2> QED
    BY <1>6, <2>1, <2>2 DEF Chain
<1>11. TriColor' /\ GrayPlaced' /\ Settled' /\ Cleaned' /\ RootsMarked'
  BY <1>2 DEF TriColor, GrayPlaced, Settled, Cleaned, RootsMarked, Inside
<1> QED
  BY <1>7, <1>8, <1>9, <1>10, <1>11

\* What has been swept is pale, what is ahead of the sweep has kept its colour.
LEMMA SweepPales ==
  ASSUME SInv, LInv', NEW S \in SUBSET Allocated, SweepBatch(S)
  PROVE  /\ \A o \in Obj : (Dark(o))' => Dark(o) /\ o \notin S
         /\ allgc' \subseteq allgc /\ finobj' \subseteq finobj /\ tobefnz' \subseteq tobefnz
  BY DEF SweepBatch, Dark, SInv, LInv, TypeOK, White

\* The first object of the sweep (entersweep).
LEMMA EnterSweepSafe == ASSUME SInv, EnterSweep PROVE SInv'
<1>1. PICK S \in SUBSET allgc : SweepBatch(S) /\ sweep' = allgc \ S
  BY DEF EnterSweep
<1>2. LInv /\ LInv' /\ S \subseteq Allocated /\ gcstate = "GCSswpallgc" /\ gcstate' = gcstate
  BY EnterSweepOwned DEF SInv, LInv, Owned, Phases, EnterSweep
<1>3. ~Marking /\ ~Marking' /\ apc \notin Inside /\ apc' = "idle"
  BY <1>2 DEF EnterSweep, Marking, Inside
<1>4. SweptPale'
  BY <1>1, <1>2, <1>3, SweepPales DEF SweptPale
<1> QED
  BY <1>1, <1>2, <1>3, <1>4, SweepBatchSafe

\* Sweeping up to a live object (sweeptolive).
LEMMA SweepToLiveSafe == ASSUME SInv, SweepToLive PROVE SInv'
<1>1. PICK S \in SUBSET sweep : SweepBatch(S) /\ sweep' = sweep \ S
  BY DEF SweepToLive
<1>2. LInv /\ LInv' /\ S \subseteq Allocated /\ gcstate = "GCSswpallgc" /\ gcstate' = gcstate
  BY SweepToLiveOwned DEF SInv, LInv, Owned, Phases, SweepToLive
<1>3. ~Marking /\ ~Marking' /\ apc \notin Inside /\ apc' = "idle"
  BY <1>2 DEF SweepToLive, Marking, Inside
<1>4. SweptPale'
  BY <1>1, <1>2, <1>3, SweepPales DEF SweptPale, SInv, MarkInv
<1> QED
  BY <1>1, <1>2, <1>3, <1>4, SweepBatchSafe

\* A step of the sweep: the next list is entered when nothing is left (sweepstep).
LEMMA SweepStepSafe == ASSUME SInv, SweepStep PROVE SInv'
<1>1. PICK S \in SUBSET sweep :
        /\ SweepBatch(S)
        /\ IF S # sweep THEN sweep' = sweep \ S /\ UNCHANGED gcstate
           ELSE IF gcstate = "GCSswpallgc" THEN sweep' = finobj /\ gcstate' = "GCSswpfinobj"
           ELSE sweep' = {} /\ gcstate' = "GCSswptobefnz"
  BY DEF SweepStep
<1>2. /\ LInv /\ LInv' /\ S \subseteq Allocated
      /\ gcstate \in {"GCSswpallgc", "GCSswpfinobj"} /\ apc = "idle" /\ apc' = "idle"
  BY SweepStepOwned DEF SInv, LInv, Owned, SweepStep
<1>3. ~Marking /\ ~Marking' /\ apc \notin Inside
  BY <1>1, <1>2 DEF Marking, Inside
<1>4. SweptPale'
  BY <1>1, <1>2, <1>3, SweepPales DEF SweptPale, SInv, MarkInv
<1> QED
  BY <1>1, <1>2, <1>3, <1>4, SweepBatchSafe

\* The sweep of tobefnz (sweepstep).
LEMMA SweepToBeFnzSafe == ASSUME SInv, SweepToBeFnz PROVE SInv'
<1>1. /\ LInv /\ LInv' /\ tobefnz \subseteq Allocated /\ SweepBatch(tobefnz)
      /\ gcstate = "GCSswptobefnz" /\ gcstate' = "GCSswpend" /\ apc = "idle" /\ apc' = "idle"
  BY SweepToBeFnzOwned DEF SInv, LInv, Owned, SweepToBeFnz
<1>2. ~Marking /\ ~Marking' /\ apc \notin Inside
  BY <1>1 DEF Marking, Inside
<1>3. SweptPale'
  BY <1>1, <1>2, SweepPales DEF SweptPale, SInv, MarkInv
<1> QED
  BY <1>1, <1>2, <1>3, SweepBatchSafe

\* The last object to be swept is the main thread (singlestep).
LEMMA SweepEndSafe == ASSUME SInv, SweepEnd PROVE SInv'
<1> USE DEF SInv, HeapInv, MarkInv
<1>1. LInv' /\ gcstate = "GCSswpend" /\ gcstate' = "GCScallfin" /\ ~Marking /\ ~Marking'
  BY SweepEndOwned DEF SweepEnd, Marking
<1>2. /\ UNCHANGED <<currentwhite, allgc, finobj, tobefnz, sweep, keys, vals, ref, top, resumer, cur,
                     groot, todo>>
      /\ apc = "idle" /\ apc' = "idle" /\ marked' = [marked EXCEPT ![Main] = currentwhite]
  BY DEF SweepEnd, grays, atomvars, tables, threads
<1>3. TypeOK /\ Main \in Obj /\ marked[Main] # "free" /\ ~IsDead(Main)
  BY <1>1, MainObject DEF LInv, MainMarked, DeadSwept
<1>4. Alive' = Alive /\ \A o \in Obj : marked'[o] = "free" <=> marked[o] = "free"
  <2>1. OtherWhite' = OtherWhite /\ currentwhite # OtherWhite /\ currentwhite # "free"
    BY <1>2, <1>3 DEF OtherWhite, TypeOK, White
  <2> QED
    BY <1>2, <1>3, <2>1 DEF Alive, Allocated, IsDead, TypeOK
<1>5. \A o \in Obj : (Refs(o))' = Refs(o) /\ (Readable(o))' = Readable(o)
  BY <1>2 DEF Refs, Slots, Readable, Full
<1>6. NoDangling'
  <2>1. \A o \in Alive : (Readable(o))' \subseteq Alive
    BY <1>5 DEF NoDangling, Alive, Allocated
  <2> QED
    BY <1>2, <1>4, <2>1 DEF NoDangling, Roots
<1>7. Blank'
  BY <1>2, <1>4 DEF Blank, Full
<1>8. \A o \in Obj : (Dark(o))' => Dark(o) /\ o # Main
  BY <1>2, <1>3 DEF Dark, TypeOK, White
<1>9. Kinds' /\ Chain'
  BY <1>2, <1>5, <1>8 DEF Kinds, Chain, Dark, Obj, Refs, Slots
<1>10. SweptPale'
  <2>1. \A o \in Obj : Dark(o) => o \in allgc \cup finobj \cup tobefnz \cup {Main}
    BY DEF LInv, Owned, Allocated, Dark
  <2>2. \A o \in Obj : ~(Dark(o))'
    BY <1>1, <1>8, <2>1 DEF SweptPale
  <2> QED
    BY <2>2 DEF SweptPale
<1>11. TriColor' /\ GrayPlaced' /\ Settled' /\ Cleaned' /\ RootsMarked'
  BY <1>1, <1>2 DEF TriColor, GrayPlaced, Settled, Cleaned, RootsMarked, Inside
<1> QED
  BY <1>1, <1>6, <1>7, <1>9, <1>10, <1>11

\* A step that changes neither the colours nor the heap, outside of the marking.
LEMMA IdleStep ==
  ASSUME SInv, LInv', ~Marking, ~Marking', SweptPale', apc' = "idle",
         UNCHANGED <<marked, currentwhite, allgc, finobj, tobefnz, grays, todo, ref, tables, threads,
                     groot>>
  PROVE  SInv'
<1> USE DEF SInv, HeapInv, MarkInv
<1>1. Alive' = Alive /\ \A o \in Obj : (Refs(o))' = Refs(o) /\ (Readable(o))' = Readable(o)
  BY DEF Alive, Allocated, IsDead, OtherWhite, Refs, Slots, Readable, Full, tables, threads
<1>2. NoDangling'
  <2>1. \A o \in Alive : (Readable(o))' \subseteq Alive
    BY <1>1 DEF NoDangling, Alive, Allocated
  <2> QED
    BY <1>1, <2>1 DEF NoDangling, Roots, threads
<1>3. Blank' /\ Kinds' /\ Chain'
  BY DEF Blank, Full, Kinds, Chain, Refs, Slots, tables, threads
<1>4. TriColor' /\ GrayPlaced' /\ Settled' /\ Cleaned' /\ RootsMarked'
  <2>1. todo = {} \/ apc \in {"conv", "conv2"}
    BY DEF Settled
  <2>2. apc \notin Inside
    BY DEF LInv, Phases, Marking
  <2> QED
    BY <2>1, <2>2 DEF TriColor, GrayPlaced, Settled, Cleaned, RootsMarked, Inside
<1> QED
  BY <1>2, <1>3, <1>4

\* The end of a cycle (singlestep).
LEMMA CallFinEndSafe == ASSUME SInv, CallFinEnd PROVE SInv'
<1>1. LInv' /\ ~Marking /\ ~Marking' /\ apc' = "idle"
  BY CallFinEndOwned DEF SInv, CallFinEnd, atomvars, Marking
<1>2. SweptPale'
  BY DEF SInv, MarkInv, SweptPale, CallFinEnd, Dark, Marking
<1> QED
  BY <1>1, <1>2, IdleStep DEF CallFinEnd, atomvars

-----------------------------------------------------------------------------
(* The theorems *)

\* Every step of the collector keeps the invariant.
LEMMA CollectorSafe == ASSUME SInv, Collector PROVE SInv'
  BY RestartCollectionSafe, PropagateStepSafe, AtomicStartSafe, AtomicPropagateSafe,
     AtomicMarkRootsSafe, AtomicGrayAgainSafe, ConvergeRoundSafe, ConvergeTableSafe,
     AtomicSeparateSafe, AtomicFinishSafe, EnterSweepSafe, SweepToLiveSafe, SweepStepSafe,
     SweepToBeFnzSafe, SweepEndSafe, CallFinEndSafe, FinalizeSafe, FinalizerEndSafe
  DEF Collector

\* A step that changes nothing keeps the invariant.
LEMMA StutterSafe == ASSUME SInv, UNCHANGED vars PROVE SInv'
<1>1. LInv'
  BY NextLInv DEF SInv
<1>2. UNCHANGED <<gcvars, grays, atomvars, ref, keys, vals, top, groot, cur, resumer>>
  BY DEF vars, tables, threads
<1> USE DEF gcvars, grays, atomvars
<1>3. HeapInv'
  BY <1>2 DEF SInv, HeapInv, NoDangling, Roots, Alive, Allocated, IsDead, OtherWhite, Readable, Refs,
    Slots, Full, Blank, Kinds, Chain
<1>4. SweptPale' /\ TriColor'
  BY <1>2 DEF SInv, MarkInv, SweptPale, Dark, TriColor, Marking, IsWhite, Readable, Refs, Slots, Full
<1>5. GrayPlaced'
  BY <1>2 DEF SInv, MarkInv, GrayPlaced, Marking, Pending, Done, EntryDone, NoWhite, IsWhite, Refs,
    Slots, Full
<1>6. Settled' /\ Cleaned' /\ RootsMarked'
  BY <1>2 DEF SInv, MarkInv, Settled, Cleaned, RootsMarked, WeakNodes, Cleared, NoWhite, IsWhite, Full,
    Marking
<1> QED
  BY <1>1, <1>3, <1>4, <1>5, <1>6 DEF SInv, MarkInv

\* So does every step of a program that leaves the metatables of allweak tables alone.
LEMMA NextSInv == SInv /\ ~ResetAllWeakMeta /\ [Next]_vars => SInv'
  BY CollectorSafe, ProgramSafe, StutterSafe DEF Next

\* The invariant holds in every reachable state.
THEOREM SInvAlways == ASSUME ~ResetAllWeakMeta PROVE Spec => []SInv
<1>1. SInv /\ [Next]_vars => SInv'
  BY NextSInv
<1> QED
  BY <1>1, InitSInv, PTL DEF Spec

\* No reference dangles, for any number of objects of any kind: what a root, a live
\* object or a stack refers to, the stale part of the stack included, is allocated
\* and not about to be freed, whatever the program does between two steps of the
\* collector (the barriers, atomic, sweeplist), except to replace the metatable of a
\* table that the cycle has put in allweak.
THEOREM NoDanglingAlways == ASSUME ~ResetAllWeakMeta PROVE Spec => []NoDangling
<1>1. SInv => NoDangling
  BY DEF SInv, HeapInv
<1> QED
  BY <1>1, SInvAlways, PTL

\* While the collector marks, a black object never points to a white one (the main
\* invariant of lgc.h), under the same condition and for any heap.
THEOREM TriColorAlways == ASSUME ~ResetAllWeakMeta PROVE Spec => []TriColor
<1>1. SInv => TriColor
  BY DEF SInv, MarkInv
<1> QED
  BY <1>1, SInvAlways, PTL

-----------------------------------------------------------------------------
(* The inductive invariant *)

\* The metatable of a table is a table, and a table is in weak or among the ephemeron
\* tables, in the atomic phase only, because of its weak mode.
WeakLists ==
  /\ \A t \in Table : ref[t][1] \in Table \cup {Nil}
  /\ Marking /\ apc = "idle" => weak = {} /\ ephemeron = {}
  /\ Marking => /\ \A t \in weak : WeakMode(t) = "v"
                /\ \A t \in ephemeron \cup todo : WeakMode(t) = "k"
GInv == SInv /\ WeakLists

\* The invariant holds in the initial state.
LEMMA InitGInv == Init => GInv
<1>1. 1 \in Slot /\ \A t \in Table : t \in Obj
  BY KindsAssumption DEF Slot, Obj
<1> QED
  BY <1>1, InitSInv DEF Init, GInv, WeakLists, Marking

\* A step outside of the atomic phase, which leaves the weak lists alone.
LEMMA CalmStep ==
  ASSUME GInv, TypeOK', Marking' => Marking /\ apc = "idle",
         Marking' => UNCHANGED <<weak, ephemeron, todo>>,
         \A t \in Table : ref'[t][1] \in Table \cup {ref[t][1], Nil}
  PROVE  WeakLists'
<1>1. Marking' => weak' = {} /\ ephemeron' = {} /\ todo' = {}
  BY DEF GInv, SInv, MarkInv, Settled, WeakLists
<1> QED
  BY <1>1 DEF GInv, WeakLists

\* Every step of the program keeps the weak lists right.
LEMMA ProgramWeakLists == ASSUME GInv, Program PROVE WeakLists'
<1>1. TypeOK' /\ \A t \in Table : t \in Obj
  BY ProgramOwned DEF GInv, SInv, LInv, Obj
<1>2. ASSUME Running, UNCHANGED gcstate \/ ~Marking', UNCHANGED <<weak, ephemeron, todo>>,
             \A t \in Table : ref'[t][1] \in Table \cup {ref[t][1], Nil}
      PROVE  WeakLists'
  BY <1>1, <1>2, CalmStep DEF Running, Marking
<1>3. TypeOK /\ \A t \in Table : t \notin Thread \cup Func \cup Udata
  BY KindsAssumption DEF GInv, SInv, LInv
<1>4. ASSUME NEW x, PushOn(cur, x) PROVE \A t \in Table : ref'[t] = ref[t]
  BY <1>1, <1>3, <1>4 DEF PushOn, TypeOK
<1> USE DEF grays, atomvars, gcvars, tables, threads
<1>5. ASSUME StackOps PROVE WeakLists'
  <2>1. CASE \E o \in Obj : NewObj(o)
    BY <1>2, <1>4, <2>1 DEF NewObj
  <2>2. CASE \E x \in Avail : Push(x)
    BY <1>2, <1>4, <2>2 DEF Push
  <2>3. CASE Pop
    BY <1>2, <2>3 DEF Pop
  <2> QED
    BY <1>5, <2>1, <2>2, <2>3 DEF StackOps
<1>6. ASSUME TableOps PROVE WeakLists'
  <2>1. Running /\ UNCHANGED <<gcstate, weak, ephemeron, todo, ref>>
    BY <1>6 DEF TableOps, SetEntry, NewKey
  <2> QED
    BY <1>2, <2>1
<1>7. ASSUME RehashOps \/ ModeOps \/ RootOps PROVE WeakLists'
  BY <1>2, <1>7 DEF RehashOps, Rehash, ModeOps, SetMode, RootOps, SetGlobalRoot
<1>8. ASSUME FieldOps PROVE WeakLists'
  BY <1>1, <1>2, <1>3, <1>8 DEF FieldOps, SetField, TypeOK
<1>9. ASSUME MetaOps PROVE WeakLists'
  <2>1. PICK o \in Table \cup Udata, m \in Table \cup {Nil} : \E hasgc \in BOOLEAN : SetMeta(o, m, hasgc)
    BY <1>9 DEF MetaOps
  <2>2. Running /\ ref' = [ref EXCEPT ![o][1] = m] /\ UNCHANGED <<gcstate, weak, ephemeron, todo>>
    BY <2>1 DEF SetMeta
  <2>3. \A t \in Table : ref'[t][1] \in Table \cup {ref[t][1], Nil}
    BY <1>1, <1>3, <2>2, KindsAssumption DEF TypeOK, Slot
  <2> QED
    BY <1>2, <2>2, <2>3
<1>10. ASSUME StringOps PROVE WeakLists'
  BY <1>2, <1>4, <1>10 DEF StringOps, InternFound
<1>11. ASSUME ThreadOps PROVE WeakLists'
  <2>1. CASE \E th \in Thread : XMove(th)
    BY <1>1, <1>2, <1>3, <2>1 DEF XMove, TypeOK
  <2>2. CASE (\E th \in Thread : Resume(th)) \/ Leave \/ Expose
    BY <1>2, <2>2 DEF Resume, Leave, Expose
  <2> QED
    BY <1>11, <2>1, <2>2 DEF ThreadOps
<1>12. ASSUME FinalizerOps PROVE WeakLists'
  <2>1. PICK o \in tobefnz, keep \in BOOLEAN : Finalize(o, keep)
    BY <1>12 DEF FinalizerOps
  <2>2. \A t \in Table : ref'[t] = ref[t]
    BY <1>4, <2>1 DEF Finalize
  <2> QED
    BY <1>1, <2>1, <2>2, CalmStep DEF Finalize, CallsFinalizers, Marking
<1>13. ASSUME FullOps PROVE WeakLists'
  BY <1>2, <1>13 DEF FullOps, FullGC, Marking, KeepInvariant
<1> QED
  BY <1>5, <1>6, <1>7, <1>8, <1>9, <1>10, <1>11, <1>12, <1>13 DEF Program

\* A traversal puts a table in the list of its mode, in the atomic phase.
LEMMA PropagateWeakLists ==
  ASSUME GInv, Marking', PropagateMark,
         Marking, apc = "idle" => gcstate = "GCSpropagate" /\ apc' = "idle", apc # "idle" => apc' # "idle"
  PROVE  WeakLists'
<1> USE DEF GInv, WeakLists
<1>1. TypeOK /\ \A t \in Table : t \in Obj /\ t \notin Thread \cup Func
  BY KindsAssumption DEF SInv, LInv, Obj
<1>2. \A t \in Table : ref'[t] = ref[t] /\ (WeakMode(t))' = WeakMode(t)
  <2>1. \A t \in Table : ref'[t] = ref[t]
    BY <1>1 DEF PropagateMark, TraverseThread, TraverseFunc, TraverseStrong, TraverseWeakValue,
      TraverseEphemeron, TraverseAllWeak, TypeOK
  <2> QED
    BY <2>1 DEF PropagateMark, WeakMode
<1>3. todo' = todo
  BY DEF PropagateMark
<1>4. \/ weak' = weak
      \/ gcstate # "GCSpropagate" /\ \E h \in Table : WeakMode(h) = "v" /\ weak' = weak \cup {h}
  BY DEF PropagateMark, TraverseThread, TraverseFunc, TraverseStrong, TraverseWeakValue,
    TraverseEphemeron, TraverseAllWeak
<1>5. \/ ephemeron' = ephemeron
      \/ gcstate # "GCSpropagate" /\ \E h \in Table : WeakMode(h) = "k" /\ ephemeron' = ephemeron \cup {h}
  BY DEF PropagateMark, TraverseThread, TraverseFunc, TraverseStrong, TraverseWeakValue,
    TraverseEphemeron, TraverseAllWeak, EphemeronLink
<1>6. weak \cup ephemeron \cup todo \subseteq Table
  BY <1>1 DEF TypeOK
<1> QED
  BY <1>1, <1>2, <1>3, <1>4, <1>5, <1>6

\* Every step of the collector keeps the weak lists right.
LEMMA CollectorWeakLists == ASSUME GInv, Collector PROVE WeakLists'
<1>1. TypeOK' /\ TypeOK /\ Phases /\ (\A t \in Table : t \in Obj /\ t \notin Thread)
  BY CollectorOwned, KindsAssumption DEF GInv, SInv, LInv, Obj
<1>2. weak \cup ephemeron \cup todo \subseteq Table
  BY <1>1 DEF TypeOK
<1> USE DEF grays, atomvars, gcvars, tables, threads
<1>3. ASSUME RestartCollection PROVE WeakLists'
  <2>1. weak' = {} /\ ephemeron' = {} /\ todo' = {} /\ ref' = ref
    BY <1>3 DEF RestartCollection, GInv, SInv, MarkInv, Settled
  <2> QED
    BY <2>1 DEF GInv, WeakLists
<1>4. ASSUME PropagateStep \/ AtomicPropagate PROVE WeakLists'
  <2>1. PropagateMark /\ Marking /\ Marking' /\ apc' = apc /\ (apc = "idle" => gcstate = "GCSpropagate")
    BY <1>1, <1>4 DEF PropagateStep, AtomicPropagate, Marking, Phases, Inside
  <2> QED
    BY <2>1, PropagateWeakLists
<1>5. ASSUME UNCHANGED <<ref, mode>>, Marking, apc' # "idle",
             weak' = weak, (ephemeron \cup todo)' \subseteq ephemeron \cup todo
      PROVE  WeakLists'
  <2>1. \A t \in Table : (WeakMode(t))' = WeakMode(t)
    BY <1>5 DEF WeakMode
  <2> QED
    BY <1>2, <1>5, <2>1 DEF GInv, WeakLists
<1>6. ASSUME AtomicStart \/ AtomicMarkRoots \/ AtomicGrayAgain \/ ConvergeRound \/ AtomicSeparate
      PROVE  WeakLists'
  <2>1. Marking
    BY <1>1, <1>6 DEF AtomicStart, AtomicMarkRoots, AtomicGrayAgain, ConvergeRound, ConvergeEnter,
      AtomicSeparate, Phases, Inside, Marking
  <2> QED
    BY <1>5, <1>6, <2>1 DEF AtomicStart, AtomicMarkRoots, AtomicGrayAgain, ConvergeRound,
      ConvergeEnter, AtomicSeparate
<1>7. ASSUME NEW w \in todo, ConvergeTable(w) PROVE WeakLists'
  BY <1>1, <1>5, <1>7 DEF ConvergeTable, EphemeronLink, Phases, Inside, Marking
<1>8. ASSUME ~Marking', \A t \in Table : ref'[t][1] \in {ref[t][1], Nil} PROVE WeakLists'
  BY <1>1, <1>8, CalmStep
<1>9. ASSUME AtomicFinish \/ SweepEnd \/ CallFinEnd PROVE WeakLists'
  BY <1>8, <1>9 DEF AtomicFinish, SweepEnd, CallFinEnd, Marking
<1>10. ASSUME EnterSweep \/ SweepToLive \/ SweepStep \/ SweepToBeFnz PROVE WeakLists'
  <2>1. ~Marking'
    BY <1>1, <1>10 DEF EnterSweep, SweepToLive, SweepStep, SweepToBeFnz, Phases, Marking
  <2>2. PICK S : SweepBatch(S)
    BY <1>10 DEF EnterSweep, SweepToLive, SweepStep, SweepToBeFnz
  <2>3. \A t \in Table : ref'[t][1] \in {ref[t][1], Nil}
    BY <1>1, <2>2, KindsAssumption DEF SweepBatch, Slot
  <2> QED
    BY <1>8, <2>1, <2>3
<1>11. ASSUME NEW o \in tobefnz, NEW keep \in BOOLEAN, Finalize(o, keep) PROVE WeakLists'
  BY <1>11, ProgramWeakLists DEF Program, FinalizerOps
<1>12. ASSUME FinalizerEnd PROVE WeakLists'
  BY <1>1, <1>12, CalmStep DEF FinalizerEnd, Marking
<1> QED
  BY <1>3, <1>4, <1>6, <1>7, <1>9, <1>10, <1>11, <1>12 DEF Collector

\* Every step keeps the invariant.
LEMMA NextGInv == GInv /\ ~ResetAllWeakMeta /\ [Next]_vars => GInv'
<1>1. ASSUME GInv, UNCHANGED vars PROVE WeakLists'
  BY <1>1 DEF GInv, WeakLists, Marking, WeakMode, vars, gcvars, grays, atomvars, tables, threads
<1> QED
  BY <1>1, NextSInv, ProgramWeakLists, CollectorWeakLists DEF GInv, Next

\* The invariant holds in every reachable state.
THEOREM GInvAlways == ASSUME ~ResetAllWeakMeta PROVE Spec => []GInv
<1>1. GInv /\ [Next]_vars => GInv'
  BY NextGInv
<1> QED
  BY <1>1, InitGInv, PTL DEF Spec

-----------------------------------------------------------------------------
(* What is reachable when the ephemeron tables have converged *)

\* What an object keeps alive, the program can read from it.
LEMMA KeepsReadable ==
  ASSUME TypeOK, WeakLists, NEW o \in Obj, NEW T PROVE Keeps(o, T) \subseteq Readable(o)
<1>1. CASE o \notin Table
  BY <1>1 DEF Keeps, Readable
<1>2. CASE o \in Table
  <2>1. CycleMode(o) \in {"strong", "k", "v", "kv"}
    BY <1>2, KindsAssumption DEF CycleMode, WeakMode, WeakLists, TypeOK
  <2> QED
    BY <1>2, <2>1 DEF Keeps, Readable
<1> QED
  BY <1>1, <1>2

\* It keeps more alive when more is alive.
LEMMA KeepsMonotone ==
  ASSUME TypeOK, WeakLists, NEW o \in Obj, NEW T, NEW P, T \subseteq P PROVE Keeps(o, T) \subseteq Keeps(o, P)
<1>1. CASE o \notin Table
  BY <1>1 DEF Keeps
<1>2. CASE o \in Table
  <2>1. CycleMode(o) \in {"strong", "k", "v", "kv"}
    BY <1>2, KindsAssumption DEF CycleMode, WeakMode, WeakLists, TypeOK
  <2> DEFINE live(A) == {n \in Full(o) : keys[o][n] \in A \cup Str \cup {NumKey}}
  <2>2. live(T) \subseteq live(P)
    OBVIOUS
  <2> QED
    BY <1>2, <2>1, <2>2 DEF Keeps
<1> QED
  BY <1>1, <1>2

\* What is left of it for each weak mode.
LEMMA KeepsModes ==
  ASSUME NEW o \in Table, NEW T, NEW y \in Keeps(o, T), y \notin Refs(o)
  PROVE  /\ CycleMode(o) = "kv" => \E n \in Full(o) :
              /\ y \in Str
              /\ y = keys[o][n] \/ (y = vals[o][n] /\ keys[o][n] \in T \cup Str \cup {NumKey})
         /\ CycleMode(o) = "k" => \E n \in Full(o) :
              \/ y = keys[o][n] /\ y \in Str
              \/ y = vals[o][n] /\ keys[o][n] \in T \cup Str \cup {NumKey}
         /\ CycleMode(o) = "v" => \E n \in Full(o) :
              y = keys[o][n] \/ (y = vals[o][n] /\ y \in Str)
  BY DEF Keeps

\* An entry of a gray table, by the list of its table.
LEMMA GrayEntries ==
  ASSUME GInv, apc \in {"conv", "conv2"}, Converged, NEW t \in Table, marked[t] = "gray"
  PROVE  /\ NoWhite(Refs(t))
         /\ t \in allweak => CycleMode(t) = "kv"
         /\ t \in ephemeron \ allweak =>
              /\ CycleMode(t) = "k"
              /\ \A n \in Full(t) \ WeakNodes(t) : ~IsWhite(vals[t][n])
         /\ t \in weak \ (allweak \cup ephemeron) =>
              CycleMode(t) = "v" /\ \A n \in Full(t) : ~IsWhite(keys[t][n])
         /\ t \notin weak \cup allweak \cup ephemeron =>
              \A n \in Full(t) : ~IsWhite(keys[t][n]) /\ ~IsWhite(vals[t][n])
<1>1. /\ gray = {} /\ todo = {} /\ ~changed /\ Marking /\ Pending = {} /\ t \in Obj
      /\ SInv /\ WeakLists
  BY DEF GInv, SInv, LInv, Converged, Phases, Inside, Marking, Pending, Obj
<1>2. Done(t)
  BY <1>1 DEF SInv, MarkInv, GrayPlaced
<1>3. t \in ephemeron => \A n \in Full(t) \ WeakNodes(t) : ~IsWhite(vals[t][n])
  BY <1>1 DEF SInv, MarkInv, Settled
<1> QED
  BY <1>1, <1>2, <1>3 DEF Done, EntryDone, WeakLists, CycleMode

\* Nothing can be read from a free address.
LEMMA FreeReads ==
  ASSUME TypeOK, Blank, NEW o \in Obj, marked[o] = "free" PROVE Readable(o) = {}
<1>1. Slots(o) \subseteq Slot
  BY KindsAssumption DEF Slots, Field, Slot, TypeOK
<1> QED
  BY <1>1 DEF Blank, Refs, Readable

\* What is white and can be read from a gray object, is in an entry of a table.
LEMMA GrayReads ==
  ASSUME GInv, apc \in {"conv", "conv2"}, Converged, NEW o \in Obj, marked[o] = "gray",
         NEW y \in Readable(o), IsWhite(y)
  PROVE  o \in Table /\ y \notin Refs(o)
<1>1. TypeOK /\ Kinds
  BY DEF GInv, SInv, LInv, HeapInv
<1>2. o \in Table \cup Thread /\ Done(o)
  BY <1>1 DEF GInv, SInv, LInv, MarkInv, GrayPlaced, Converged, Pending, Done, Kinds, Obj, Phases,
    Inside, Marking
<1>3. ASSUME o \in Thread PROVE FALSE
  <2>1. y \in Refs(o) /\ Slots(o) \subseteq Slot
    BY <1>1, <1>3, KindsAssumption DEF Readable, Slots, Slot, TypeOK
  <2> QED
    BY <1>2, <1>3, <2>1 DEF Refs, Done
<1> QED
  BY <1>2, <1>3, GrayEntries DEF NoWhite

\* A white object that is not a string is not kept alive by one that is marked.
LEMMA MarkedClosed ==
  ASSUME GInv, apc \in {"conv", "conv2"}, Converged,
         NEW T, T = {o \in Obj : ~IsWhite(o) \/ o \in Str}, NEW o \in T
  PROVE  Keeps(o, T) \subseteq T
<1>1. /\ TypeOK /\ Kinds /\ Blank /\ TriColor /\ WeakLists /\ o \in Obj /\ NoDangling
      /\ Marking
  BY DEF GInv, SInv, LInv, HeapInv, MarkInv, Phases, Inside, Marking
<1>2. SUFFICES ASSUME NEW y \in Keeps(o, T) PROVE y \in Obj /\ (~IsWhite(y) \/ y \in Str)
  OBVIOUS
<1>3. y \in Readable(o)
  BY <1>1, KeepsReadable
<1>4. CASE o \in Str
  BY <1>1, <1>3, <1>4, StringRefs
<1>5. marked[o] # "free"
  BY <1>1, <1>3, FreeReads
<1>6. y \in Obj
  <2>1. CASE o \in Str
    BY <1>4, <2>1
  <2>2. CASE o \notin Str
    <3>1. o \in Alive
      BY <1>1, <1>5 DEF Alive, Allocated, GInv, SInv, LInv, DeadSwept, Marking
    <3> QED
      BY <1>1, <1>3, <3>1 DEF NoDangling, Alive, Allocated
  <2> QED
    BY <2>1, <2>2
<1>7. CASE marked[o] = "black"
  BY <1>1, <1>3, <1>6, <1>7 DEF TriColor
<1>8. CASE marked[o] = "gray" /\ IsWhite(y)
  <2>1. o \in Table /\ y \notin Refs(o)
    BY <1>1, <1>3, <1>8, GrayReads
  <2>2. CASE o \notin weak \cup allweak \cup ephemeron
    BY <1>3, <1>6, <1>8, <2>1, <2>2, GrayEntries DEF Readable
  <2>3. CASE o \in allweak
    BY <1>6, <1>8, <2>1, <2>3, GrayEntries, KeepsModes
  <2>4. CASE o \in ephemeron \ allweak
    <3>1. PICK n \in Full(o) : \/ y = keys[o][n] /\ y \in Str
                               \/ y = vals[o][n] /\ keys[o][n] \in T \cup Str \cup {NumKey}
      BY <1>8, <2>1, <2>4, GrayEntries, KeepsModes
    <3>2. keys[o][n] \in T \cup Str \cup {NumKey} => n \notin WeakNodes(o)
      BY KindsAssumption DEF WeakNodes, Cleared, IsWhite
    <3> QED
      BY <1>6, <1>8, <2>1, <2>4, <3>1, <3>2, GrayEntries
  <2>5. CASE o \in weak \ (allweak \cup ephemeron)
    BY <1>6, <1>8, <2>1, <2>5, GrayEntries, KeepsModes
  <2> QED
    BY <2>1, <2>2, <2>3, <2>4, <2>5
<1> QED
  BY <1>1, <1>4, <1>5, <1>6, <1>7, <1>8 DEF TypeOK, IsWhite, White

\* So whatever can be reached then, from the roots and from the objects whose finalizer is
\* due, is marked or a string.
LEMMA ReachableMarked ==
  ASSUME GInv, apc \in {"conv", "conv2"}, Converged, NEW o \in ReachableFrom(Roots \cup tobefnz)
  PROVE  ~IsWhite(o) \/ o \in Str
<1> DEFINE T == {x \in Obj : ~IsWhite(x) \/ x \in Str}
<1>1. Roots \cup tobefnz \subseteq T
  BY DEF GInv, SInv, LInv, HeapInv, MarkInv, RootsMarked, MainMarked, NoDangling, Alive, Allocated,
    Roots, NoWhite, Phases, Inside, Marking
<1>2. \A x \in T : Keeps(x, T) \subseteq T
  BY MarkedClosed
<1>3. T \subseteq Obj
  OBVIOUS
<1> HIDE DEF T
<1>4. o \in T
  BY <1>1, <1>2, <1>3 DEF ReachableFrom
<1> QED
  BY <1>4 DEF T

\* More can be reached from more.
LEMMA ReachableMonotone == ASSUME NEW R, NEW Q, R \subseteq Q PROVE ReachableFrom(R) \subseteq ReachableFrom(Q)
  BY DEF ReachableFrom

-----------------------------------------------------------------------------
(* The theorems *)

\* What is set aside to be finalized cannot be reached (separatetobefnz).
LEMMA FinalizesGarbage ==
  ASSUME GInv, [Next]_vars, NEW o \in tobefnz' \ tobefnz PROVE o \in finobj \ Reachable
<1>1. CASE AtomicSeparate
  <2>1. o \in finobj /\ IsWhite(o) /\ apc = "conv" /\ Converged
    BY <1>1 DEF AtomicSeparate, Separated
  <2>2. o \notin Str
    BY <2>1, KindsAssumption DEF GInv, SInv, LInv, TypeOK
  <2>3. o \notin Reachable
    BY <2>1, <2>2, ReachableMarked, ReachableMonotone DEF Reachable
  <2> QED
    BY <2>1, <2>3
<1>2. ASSUME Program \/ UNCHANGED vars PROVE FALSE
  BY <1>2 DEF Program, StackOps, NewObj, Push, Pop, TableOps, SetEntry, NewKey, RehashOps, Rehash,
    FieldOps, SetField, MetaOps, SetMeta, ModeOps, SetMode, RootOps, SetGlobalRoot, StringOps,
    InternFound, ThreadOps, Resume, XMove, Leave, Expose, FinalizerOps, Finalize, FullOps, FullGC,
    gcvars, vars
<1>3. ASSUME Collector, ~AtomicSeparate PROVE FALSE
  BY <1>3 DEF Collector, RestartCollection, PropagateStep, AtomicStart, AtomicPropagate,
    PropagateMark, AtomicMarkRoots, AtomicGrayAgain, ConvergeRound, ConvergeTable, AtomicFinish,
    EnterSweep, SweepToLive, SweepStep, SweepToBeFnz, SweepBatch, SweepEnd, CallFinEnd, Finalize,
    FinalizerEnd, gcvars
<1> QED
  BY <1>1, <1>2, <1>3 DEF Next

\* An entry that is dropped refers to something that cannot be reached (clearvalues,
\* clearkeys).
LEMMA ClearDrops ==
  ASSUME GInv, apc \in {"conv", "conv2"}, Converged, NEW KT \in SUBSET Table,
         KT = {} \/ tobefnz' = tobefnz, NEW VT \in SUBSET Table,
         NEW F, Clear(KT, VT, F), NEW t \in Table, NEW n \in Node, vals[t][n] # Nil, vals'[t][n] = Nil
  PROVE  \/ vals[t][n] \notin Reachable \cup Str
         \/ keys[t][n] \in Obj \ (ReachableFrom(Roots \cup tobefnz') \cup Str)
<1>1. DropKey(t, n, KT) \/ DropVal(t, n, VT)
  BY DEF Clear
<1>2. CASE DropVal(t, n, VT)
  <2>1. IsWhite(vals[t][n]) /\ vals[t][n] \notin Str
    BY <1>2 DEF DropVal, Cleared
  <2> QED
    BY <2>1, ReachableMarked, ReachableMonotone DEF Reachable
<1>3. CASE DropKey(t, n, KT)
  <2>1. IsWhite(keys[t][n]) /\ keys[t][n] \notin Str /\ tobefnz' = tobefnz
    BY <1>3 DEF DropKey, WeakNodes, Cleared
  <2> QED
    BY <2>1, ReachableMarked DEF IsWhite
<1> QED
  BY <1>1, <1>2, <1>3

\* Nothing else in the atomic phase changes an entry.
LEMMA AtomicDrops ==
  ASSUME GInv, [Next]_vars, gcstate = "GCSinsideatomic",
         NEW t \in Table, NEW n \in Node, vals[t][n] # Nil, vals'[t][n] = Nil
  PROVE  \/ vals[t][n] \notin Reachable \cup Str
         \/ keys[t][n] \in Obj \ (ReachableFrom(Roots \cup tobefnz') \cup Str)
<1>1. apc \in Inside /\ apc # "idle"
  BY DEF GInv, SInv, LInv, Phases, Inside
<1>2. weak \cup allweak \cup ephemeron \subseteq Table
  BY DEF GInv, SInv, LInv, TypeOK
<1>3. CASE AtomicSeparate
  <2>1. apc = "conv" /\ Converged /\ Clear({}, weak \cup allweak, tobefnz \cup Separated)
    BY <1>3 DEF AtomicSeparate
  <2> QED
    BY <1>2, <2>1, ClearDrops
<1>4. CASE AtomicFinish
  <2>1. /\ apc = "conv2" /\ Converged /\ tobefnz' = tobefnz
        /\ Clear(ephemeron \cup allweak, (weak \ origweak) \cup (allweak \ origall), {})
    BY <1>4 DEF AtomicFinish
  <2> QED
    BY <1>2, <2>1, ClearDrops
<1>5. ASSUME Program \/ UNCHANGED vars PROVE vals' = vals
  BY <1>1, <1>5 DEF Program, StackOps, NewObj, Push, Pop, TableOps, SetEntry, NewKey, RehashOps,
    Rehash, FieldOps, SetField, MetaOps, SetMeta, ModeOps, SetMode, RootOps, SetGlobalRoot,
    StringOps, InternFound, ThreadOps, Resume, XMove, Leave, Expose, FinalizerOps, Finalize,
    FullOps, FullGC, Running, CallsFinalizers, vars, tables
<1>6. ASSUME Collector, ~AtomicSeparate, ~AtomicFinish PROVE vals' = vals
  BY <1>1, <1>6 DEF Collector, RestartCollection, PropagateStep, AtomicStart, AtomicPropagate,
    PropagateMark, AtomicMarkRoots, AtomicGrayAgain, ConvergeRound, ConvergeTable,
    EnterSweep, SweepToLive, SweepStep, SweepToBeFnz, SweepEnd, CallFinEnd, Finalize,
    CallsFinalizers, FinalizerEnd, Inside, tables
<1> QED
  BY <1>3, <1>4, <1>5, <1>6 DEF Next

\* Marking strings reaches nothing else (reallymarkobject).
LEMMA ReachedStrings == ASSUME NEW S \in SUBSET Str PROVE Reached(S) \subseteq S
<1>1. S \subseteq Obj /\ S \cap Udata = {}
  BY KindsAssumption DEF Obj
<1> QED
  BY <1>1 DEF Reached

\* What clearkeys and clearvalues mark by asking about it: the flip condemns nothing that
\* what is marked then keeps alive.
LEMMA FlipClosed ==
  ASSUME GInv, AtomicFinish, NEW T, T = {x \in Obj : marked'[x] \notin White}, NEW o \in T
  PROVE  Keeps(o, T) \subseteq T
<1> DEFINE KT == ephemeron \cup allweak
           VT == (weak \ origweak) \cup (allweak \ origall)
           S == Asked(KT, VT)
<1>1. /\ TypeOK /\ Kinds /\ o \in Obj /\ apc = "conv2" /\ Converged /\ KT \in SUBSET Table
      /\ VT \in SUBSET Table /\ marked' = Paint(Reached(S \cup {}), marked)
  BY DEF GInv, SInv, LInv, HeapInv, AtomicFinish, Clear, TypeOK
<1>2. /\ \A t \in KT : \A n \in Full(t) : keys[t][n] \in Str => keys[t][n] \in S
      /\ \A t \in VT : \A n \in Full(t) : n \notin WeakNodes(t) =>
           (vals[t][n] \in Str => vals[t][n] \in S)
  <2>1. \A t \in VT : \A n \in Full(t) : n \notin WeakNodes(t) =>
          n \in {m \in Node : ~DropKey(t, m, KT)}
    BY DEF DropKey, Full
  <2> HIDE DEF KT, VT
  <2> QED
    BY <1>1, <2>1, AskedStrings
<1>3. S \subseteq Str
  BY DEF Asked, StringsIn
<1>4. S \cup {} = S
  OBVIOUS
<1> HIDE DEF S
<1>5. Reached(S) \subseteq S
  BY <1>3, ReachedStrings
<1>6. \A x \in Obj : x \in T <=> ~IsWhite(x) \/ x \in S
  BY <1>1, <1>3, <1>4, <1>5, ReachedWhite DEF Paint, MarkedColor, IsWhite, White
<1> DEFINE P == {x \in Obj : ~IsWhite(x) \/ x \in Str}
<1>7. Keeps(o, T) \subseteq P
  <2>1. T \subseteq P
    BY <1>3, <1>6
  <2>2. Keeps(o, P) \subseteq P
    BY <1>1, <2>1, MarkedClosed
  <2> HIDE DEF P
  <2>3. Keeps(o, T) \subseteq Keeps(o, P)
    BY <1>1, <2>1, KeepsMonotone DEF GInv
  <2> QED
    BY <2>2, <2>3
<1>8. SUFFICES ASSUME NEW y \in Keeps(o, T), y \in Str, IsWhite(y) PROVE y \in S
  BY <1>6, <1>7
<1> HIDE DEF P, KT, VT
<1>9. y \in Readable(o) /\ WeakLists
  BY <1>1, KeepsReadable DEF GInv
<1>10. o \notin Str /\ marked[o] \in {"gray", "black"}
  <2>1. o \notin Str
    BY <1>1, <1>9, StringRefs
  <2>2. marked[o] # "free"
    BY <1>1, <1>9, FreeReads DEF GInv, SInv, HeapInv
  <2> QED
    BY <1>1, <1>3, <1>6, <2>1, <2>2 DEF TypeOK, IsWhite
<1>11. marked[o] = "gray"
  BY <1>1, <1>8, <1>9, <1>10 DEF GInv, SInv, LInv, MarkInv, TriColor, Phases, Inside, Marking
<1>12. o \in Table /\ y \notin Refs(o)
  BY <1>1, <1>8, <1>9, <1>11, GrayReads
<1>13. CASE o \notin weak \cup allweak \cup ephemeron
  BY <1>1, <1>8, <1>9, <1>11, <1>12, <1>13, GrayEntries DEF Readable
<1>14. \A n \in Full(o) : keys[o][n] \in T \cup Str \cup {NumKey} => n \notin WeakNodes(o)
  BY <1>3, <1>6, KindsAssumption DEF WeakNodes, Cleared, IsWhite
<1>15. CASE o \in allweak
  <2>1. PICK n \in Full(o) : y = keys[o][n] \/ (y = vals[o][n] /\ n \notin WeakNodes(o))
    BY <1>1, <1>11, <1>12, <1>14, <1>15, GrayEntries, KeepsModes
  <2>2. o \in origall => ~IsWhite(vals[o][n])
    BY <1>1 DEF GInv, SInv, MarkInv, Cleaned
  <2> QED
    BY <1>2, <1>8, <1>15, <2>1, <2>2 DEF KT, VT
<1>16. CASE o \in ephemeron \ allweak
  BY <1>1, <1>2, <1>8, <1>11, <1>12, <1>14, <1>16, GrayEntries, KeepsModes DEF KT
<1>17. CASE o \in weak \ (allweak \cup ephemeron)
  <2>1. PICK n \in Full(o) : y = vals[o][n]
    BY <1>1, <1>8, <1>11, <1>12, <1>17, GrayEntries, KeepsModes
  <2>2. o \in origweak => ~IsWhite(vals[o][n])
    BY <1>1 DEF GInv, SInv, MarkInv, Cleaned
  <2>3. ~IsWhite(keys[o][n])
    BY <1>1, <1>11, <1>12, <1>17, GrayEntries
  <2> QED
    BY <1>2, <1>8, <1>17, <2>1, <2>2, <2>3 DEF VT, WeakNodes, Cleared
<1> QED
  BY <1>13, <1>15, <1>16, <1>17

\* When the white is flipped, what can be reached is not of the old white.
LEMMA FlipMarks ==
  ASSUME GInv, AtomicFinish, NEW o \in ReachableFnz PROVE marked'[o] \notin White
<1> DEFINE T == {x \in Obj : marked'[x] \notin White}
<1>1. Roots \cup tobefnz \subseteq T
  <2>1. Roots \cup tobefnz \subseteq {x \in Obj : ~IsWhite(x)}
    BY DEF GInv, SInv, LInv, HeapInv, MarkInv, RootsMarked, MainMarked, NoDangling, Alive,
      Allocated, Roots, NoWhite, Phases, Inside, Marking, AtomicFinish
  <2>2. \A x \in Obj : ~IsWhite(x) => marked'[x] \notin White
    BY DEF AtomicFinish, Clear, Paint, MarkedColor, IsWhite, White
  <2> QED
    BY <2>1, <2>2
<1>2. \A x \in T : Keeps(x, T) \subseteq T
  BY FlipClosed
<1>3. T \subseteq Obj
  OBVIOUS
<1> HIDE DEF T
<1>4. o \in T
  BY <1>1, <1>2, <1>3 DEF ReachableFnz, ReachableFrom
<1> QED
  BY <1>4 DEF T

\* Only the flip leaves the atomic phase.
LEMMA OnlyFlip ==
  ASSUME GInv, [Next]_vars, gcstate = "GCSinsideatomic", gcstate' # gcstate PROVE AtomicFinish
<1>1. apc \in Inside /\ apc \notin {"idle", "pre", "entersweep", "tolive"}
  BY DEF GInv, SInv, LInv, Phases, Inside
<1>2. ~(Program \/ UNCHANGED vars)
  BY <1>1 DEF Program, StackOps, NewObj, Push, Pop, TableOps, SetEntry, NewKey, RehashOps,
    Rehash, FieldOps, SetField, MetaOps, SetMeta, ModeOps, SetMode, RootOps, SetGlobalRoot,
    StringOps, InternFound, ThreadOps, Resume, XMove, Leave, Expose, FinalizerOps, Finalize,
    FullOps, FullGC, Running, CallsFinalizers, vars, gcvars
<1> QED
  BY <1>1, <1>2 DEF Next, Collector, RestartCollection, PropagateStep, AtomicStart, AtomicPropagate,
    AtomicMarkRoots, AtomicGrayAgain, ConvergeRound, ConvergeTable, AtomicSeparate,
    EnterSweep, SweepToLive, SweepStep, SweepToBeFnz, SweepEnd, CallFinEnd, Finalize,
    CallsFinalizers, FinalizerEnd, gcvars

\* When the white is flipped, which condemns the objects of the old white, none of them can
\* be reached, not even through an object that awaits its finalizer (atomic), for any heap.
THEOREM CondemnsOnlyGarbageAlways == ASSUME ~ResetAllWeakMeta PROVE Spec => CondemnsOnlyGarbage
<1>1. GInv /\ [Next]_vars =>
        (gcstate = "GCSinsideatomic" /\ gcstate' # gcstate
           => \A o \in ReachableFnz : marked'[o] \notin White)
  BY OnlyFlip, FlipMarks
<1> QED
  BY <1>1, GInvAlways, PTL DEF Spec, CondemnsOnlyGarbage

\* An entry of a weak table is dropped only when its key, or its value, cannot be reached
\* otherwise (clearkeys, clearvalues), for any weak tables.
THEOREM DropsOnlyGarbageAlways == ASSUME ~ResetAllWeakMeta PROVE Spec => DropsOnlyGarbage
<1>1. GInv /\ [Next]_vars =>
        (gcstate = "GCSinsideatomic" =>
           \A t \in Table, n \in Node :
             vals[t][n] # Nil /\ vals'[t][n] = Nil =>
               \/ vals[t][n] \notin Reachable \cup Str
               \/ keys[t][n] \in Obj \ (ReachableFrom(Roots \cup tobefnz') \cup Str))
  BY AtomicDrops
<1> QED
  BY <1>1, GInvAlways, PTL DEF Spec, DropsOnlyGarbage

\* A finalizer becomes due only for an object that the program cannot reach
\* (separatetobefnz).
THEOREM FinalizesOnlyGarbageAlways == ASSUME ~ResetAllWeakMeta PROVE Spec => FinalizesOnlyGarbage
<1>1. GInv /\ [Next]_vars => \A o \in tobefnz' \ tobefnz : o \in finobj \ Reachable
  BY FinalizesGarbage
<1> QED
  BY <1>1, GInvAlways, PTL DEF Spec, FinalizesOnlyGarbage

\* Before the atomic phase ends, what a gray object refers to is marked (lgc.h: "so that it
\* can be visited again before finishing the collection cycle").
THEOREM GrayVisitedAlways == ASSUME ~ResetAllWeakMeta PROVE Spec => []GrayVisited
<1>1. GInv => GrayVisited
  <2>1. ASSUME GInv, apc = "conv2", Converged, NEW o \in Obj, marked[o] = "gray", NEW x \in Refs(o)
        PROVE  ~IsWhite(x)
    BY <2>1, GrayReads DEF Readable
  <2> QED
    BY <2>1 DEF GrayVisited
<1> QED
  BY <1>1, GInvAlways, PTL

=============================================================================

------------------------------- MODULE LuaGC -------------------------------
(***************************************************************************)
(* The incremental mark-and-sweep collector of Lua 5.3.4 (lgc.c, lgc.h)    *)
(* together with the operations of the program it collects for (lapi.c,    *)
(* lvm.c, ltable.c, ldo.c), which run between two of its steps.            *)
(*                                                                         *)
(* Objects are memory blocks, identified by their address; an address is   *)
(* used again once the sweep has freed it.  The linked lists allgc,        *)
(* finobj, tobefnz and the five gray lists are sets here: the order of a   *)
(* list, and the pointer sweepgc into it, are the subject of LuaGCLists.   *)
(* One step of the program or of the collector is one action, except that  *)
(* the function atomic() is a sequence of steps during which the program   *)
(* does not run (apc # "idle").                                            *)
(***************************************************************************)
EXTENDS Naturals

CONSTANTS
  Table, Func, Thread, Str, Udata, \* the addresses, by the kind of object they hold:
                                   \*   Func is a C closure or a prototype
  Main,                            \* g->mainthread
  Node,                            \* the slots of a table (array part and hash nodes)
  NField, NSlot,                   \* references of an object; slots of a stack
  Modes,                           \* the weak modes that the program uses
  Nil, NumKey, DeadKey,            \* nil; a key that is not collectable; a dead key
  ResetAllWeakMeta                 \* may the program replace the metatable of a table
                                   \*   that the current cycle has put in allweak?

Obj == Table \cup Func \cup Thread \cup Str \cup Udata
Field == 1..NField
Slot == 1..NSlot

ASSUME KindsAssumption ==
  /\ Table \cap (Func \cup Thread \cup Str \cup Udata) = {}
  /\ Func \cap (Thread \cup Str \cup Udata) = {}
  /\ Thread \cap (Str \cup Udata) = {} /\ Str \cap Udata = {}
  /\ Main \in Thread
  /\ Nil \notin Obj /\ NumKey \notin Obj /\ DeadKey \notin Obj
  /\ Nil # NumKey /\ Nil # DeadKey /\ NumKey # DeadKey
  /\ NField \in Nat /\ NSlot \in Nat /\ 1 <= NField /\ NField <= NSlot
  /\ Modes \subseteq {"strong", "k", "v", "kv"} /\ "strong" \in Modes
  /\ ResetAllWeakMeta \in BOOLEAN

VARIABLES
  \* what the collector knows of an object
  marked,     \* its colour, or "free" for an address that holds no object
  currentwhite, gcstate,
  allgc, finobj, tobefnz,                    \* the lists that own the objects
  gray, grayagain, weak, allweak, ephemeron, \* the lists of gray objects
  sweep,      \* the part of the list being swept that sweepgc has not passed
  \* inside singlestep() and luaC_fullgc()
  apc,        \* where the collector is in a step that does several things
  todo, changed,                             \* locals of convergeephemerons
  origagain, origweak, origall,              \* locals of atomic
  full, emergency, infin,                    \* progress of luaC_fullgc; gckind; is it
                                             \*   running a finalizer
  \* the heap and the program
  ref,        \* ref[o][1] is the metatable of a table or userdata, ref[u][2] a user
              \*   value, ref[f][i] an upvalue or constant, ref[th][i] a stack slot
  top,        \* th->top: the slots 1..top[th] are live, those above it stale
  keys, vals, \* the nodes of the tables
  mode,       \* field __mode of a table that is used as a metatable
  groot,      \* a global root the API changes without a barrier: l_registry, mt[]
  cur,        \* L, the running thread
  resumer     \* the thread that resumed a thread, Nil if it is not active

gcvars   == <<marked, currentwhite, gcstate, allgc, finobj, tobefnz, sweep>>
grays    == <<gray, grayagain, weak, allweak, ephemeron>>
atomvars == <<apc, todo, changed, origagain, origweak, origall>>
fullvars == <<full, emergency, infin>>
tables   == <<keys, vals, mode>>
threads  == <<top, cur, resumer>>
vars == <<gcvars, grays, atomvars, fullvars, ref, tables, threads, groot>>

White == {"white0", "white1"}
GCState == {"GCSpropagate", "GCSatomic", "GCSinsideatomic", "GCSswpallgc",
            "GCSswpfinobj", "GCSswptobefnz", "GCSswpend", "GCScallfin", "GCSpause"}
Key == Obj \cup {Nil, NumKey, DeadKey}
Val == Obj \cup {Nil}

TypeOK ==
  /\ marked \in [Obj -> White \cup {"free", "gray", "black"}]
  /\ currentwhite \in White /\ gcstate \in GCState
  /\ allgc \subseteq Obj /\ finobj \subseteq Table \cup Udata
  /\ tobefnz \subseteq Table \cup Udata /\ sweep \subseteq Obj
  /\ gray \subseteq Obj /\ grayagain \subseteq Obj
  /\ weak \subseteq Table /\ allweak \subseteq Table /\ ephemeron \subseteq Table
  /\ apc \in {"idle", "pre", "prop", "again", "conv", "fin", "conv2",
              "entersweep", "tolive"}
  /\ todo \subseteq Table /\ changed \in BOOLEAN
  /\ origagain \subseteq Obj /\ origweak \subseteq Table /\ origall \subseteq Table
  /\ full \in {"none", "finish", "cycle"} /\ emergency \in BOOLEAN
  /\ infin \in BOOLEAN
  /\ ref \in [Obj -> [Slot -> Val]]
  /\ top \in [Thread -> 0..NSlot]
  /\ keys \in [Table -> [Node -> Key]] /\ vals \in [Table -> [Node -> Val]]
  /\ mode \in [Table -> Modes]
  /\ groot \in Val /\ cur \in Thread
  /\ resumer \in [Thread -> Thread \cup {Nil}]

-----------------------------------------------------------------------------
(* Colours (lgc.h) *)

OtherWhite == IF currentwhite = "white0" THEN "white1" ELSE "white0"
IsWhite(o) == o \in Obj /\ marked[o] \in White
IsDead(o) == marked[o] = OtherWhite
IsSweepPhase == gcstate \in {"GCSswpallgc", "GCSswpfinobj", "GCSswptobefnz", "GCSswpend"}
KeepInvariant == gcstate \in {"GCSpropagate", "GCSatomic"}

\* Strings and userdata have no gray stage: marking one turns it black.
Grayable(o) == o \notin Str \cup Udata

-----------------------------------------------------------------------------
(* What an object refers to *)

Full(t) == {n \in Node : vals[t][n] # Nil}
Slots(o) == IF o \in Thread THEN 1..top[o] ELSE Field
Refs(o) == {ref[o][i] : i \in Slots(o)} \ {Nil}
\* gfasttm(g, h->metatable, TM_MODE)
WeakMode(t) == IF ref[t][1] = Nil THEN "strong" ELSE mode[ref[t][1]]
\* What the program can read from object o in one operation.
Readable(o) ==
  Refs(o) \cup (IF o \in Table
                THEN {vals[o][n] : n \in Full(o)} \cup ({keys[o][n] : n \in Full(o)} \cap Obj)
                ELSE {})
\* What the program can name in one operation.
Avail ==
  LET held == ({ref[cur][i] : i \in 1..top[cur]} \cup {groot, cur, Main}) \ {Nil}
  IN held \cup UNION {Readable(o) : o \in held}

-----------------------------------------------------------------------------
(* reallymarkobject *)

\* The white objects that marking all of S turns: those in S and, with a
\* userdata, its metatable and user value (the "goto reentry").
Reached(S) ==
  {o \in Obj : /\ IsWhite(o)
               /\ \A T \in SUBSET Obj :
                    (/\ \A x \in S : IsWhite(x) => x \in T
                     /\ \A u \in T \cap Udata : \A x \in Refs(u) : IsWhite(x) => x \in T)
                    => o \in T}
MarkedColor(o) == IF Grayable(o) THEN "gray" ELSE "black"
\* The colours after marking the objects of M, from the colours in base.
Paint(M, base) == [o \in Obj |-> IF o \in M THEN MarkedColor(o) ELSE base[o]]
NewGray(M) == {o \in M : Grayable(o)}

(* The write barriers (lgc.c, lgc.h) *)

\* luaC_barrierback: a black table that gets a white value goes back to gray.
BarrierBack(t, S) ==
  IF marked[t] = "black" /\ \E v \in S : IsWhite(v)
  THEN /\ marked' = [marked EXCEPT ![t] = "gray"]
       /\ grayagain' = grayagain \cup {t}
  ELSE UNCHANGED <<marked, grayagain>>

\* Mutant: the barrier forgets the state between propagation and atomic phase.
ForwardMarkPropagate(o, v) ==
  IF marked[o] = "black" /\ IsWhite(v) /\ gcstate = "GCSpropagate" THEN Reached({v}) ELSE {}
\* luaC_barrier, luaC_objbarrier: what a black object is made to point to is
\* marked, or in a sweep phase the object itself is swept.  'painted' and
\* 'nowgray' are the colours and the gray list that result.
ForwardMark(o, v) ==
  IF marked[o] = "black" /\ IsWhite(v) /\ KeepInvariant THEN Reached({v}) ELSE {}
ForwardSweep(o, v) == marked[o] = "black" /\ IsWhite(v) /\ ~KeepInvariant
ForwardPaint(o, v) ==
  Paint(ForwardMark(o, v), IF ForwardSweep(o, v) THEN [marked EXCEPT ![o] = currentwhite]
                                                ELSE marked)

-----------------------------------------------------------------------------
(* The program *)

\* The program runs between two steps of the collector, and never inside a full
\* collection except as a finalizer, of which an emergency collection calls none.
Running == apc = "idle" /\ (full = "none" \/ infin)

PushOn(th, x) ==
  /\ top[th] < NSlot
  /\ ref' = [ref EXCEPT ![th][top[th] + 1] = x]
  /\ top' = [top EXCEPT ![th] = @ + 1]

\* An object linked at the head of list l is in the part still to be swept only
\* when sweepgc points at that head: when nothing of the list has been passed.
LinkAhead(state, l, o) ==
  sweep' = IF gcstate = state /\ sweep = l THEN sweep \cup {o} ELSE sweep

\* luaC_newobj, the object being left on the stack by its creator.
NewObj(o) ==
  /\ Running /\ marked[o] = "free"
  /\ marked' = [marked EXCEPT ![o] = currentwhite]
  /\ allgc' = allgc \cup {o}
  /\ LinkAhead("GCSswpallgc", allgc, o)
  /\ PushOn(cur, o)
  /\ UNCHANGED <<currentwhite, gcstate, finobj, tobefnz, grays, atomvars, fullvars,
                 tables, cur, resumer, groot>>

\* internshrstr finding a short string: it may be one that the sweep is about
\* to free, which changewhite takes back.
InternFound(s) ==
  /\ Running /\ s \in Str /\ marked[s] # "free"
  /\ marked' = [marked EXCEPT ![s] = IF IsDead(s) THEN currentwhite ELSE @]
  /\ PushOn(cur, s)
  /\ UNCHANGED <<currentwhite, gcstate, allgc, finobj, tobefnz, sweep, grays, atomvars,
                 fullvars, tables, cur, resumer, groot>>

Push(x) ==
  /\ Running /\ x \in Avail
  /\ PushOn(cur, x)
  /\ UNCHANGED <<gcvars, grays, atomvars, fullvars, tables, cur, resumer, groot>>

\* Mutant: no check that there is something to pop.
PopUnchecked ==
  /\ Running
  /\ top' = [top EXCEPT ![cur] = @ - 1]
  /\ UNCHANGED <<gcvars, grays, atomvars, fullvars, tables, ref, cur, resumer, groot>>
\* Lowering the top leaves the old values in the dead part of the stack.
Pop ==
  /\ Running /\ top[cur] > 0
  /\ top' = [top EXCEPT ![cur] = @ - 1]
  /\ UNCHANGED <<gcvars, grays, atomvars, fullvars, tables, ref, cur, resumer, groot>>

\* luaD_precall gives a Lua function its frame without clearing it: the stale
\* slots become part of the stack that traversethread marks.
Expose ==
  /\ Running /\ top[cur] < NSlot
  /\ top' = [top EXCEPT ![cur] = @ + 1]
  /\ UNCHANGED <<gcvars, grays, atomvars, fullvars, tables, ref, cur, resumer, groot>>

\* luaV_fastset, lua_rawset: assignment to an entry that is there.
SetEntry(t, n, v) ==
  /\ Running /\ t \in Avail /\ n \in Full(t) /\ v \in Avail \cup {Nil}
  /\ vals' = [vals EXCEPT ![t][n] = v]
  /\ BarrierBack(t, {v})
  /\ UNCHANGED <<currentwhite, gcstate, allgc, finobj, tobefnz, sweep, gray, weak, allweak,
                 ephemeron, atomvars, fullvars, ref, keys, mode, threads, groot>>

\* luaV_finishset with luaH_newkey: assignment to an empty entry, found by its
\* key or taken over (an array slot stays one); both key and value are barriered.
NewKey(t, n, k, v) ==
  /\ Running /\ t \in Avail /\ n \in Node \ Full(t)
  /\ k \in Avail \cup {NumKey} /\ v \in Avail
  /\ keys[t][n] = NumKey => k = NumKey
  /\ \A m \in Node \ {n} : keys[t][m] = k => k = NumKey
  /\ keys' = [keys EXCEPT ![t][n] = k]
  /\ vals' = [vals EXCEPT ![t][n] = v]
  /\ BarrierBack(t, {k, v})
  /\ UNCHANGED <<currentwhite, gcstate, allgc, finobj, tobefnz, sweep, gray, weak, allweak,
                 ephemeron, atomvars, fullvars, ref, mode, threads, groot>>

\* luaH_resize re-inserts the entries that have a value and forgets the others.
Rehash(t) ==
  /\ Running /\ t \in Avail
  /\ keys' = [keys EXCEPT ![t] = [n \in Node |-> IF n \in Full(t) THEN @[n] ELSE Nil]]
  /\ UNCHANGED <<gcvars, grays, atomvars, fullvars, ref, vals, mode, threads, groot>>

\* The program changes field __mode of a metatable.
SetMode(t, w) ==
  /\ Running /\ t \in Avail
  /\ mode' = [mode EXCEPT ![t] = w]
  /\ UNCHANGED <<gcvars, grays, atomvars, fullvars, ref, keys, vals, threads, groot>>

\* lua_setuservalue, lua_setupvalue and assignments to the constants of a
\* prototype under construction: a forward barrier.
SetField(o, i, v) ==
  /\ Running /\ o \in Avail /\ v \in Avail \cup {Nil}
  /\ o \in Func \/ (o \in Udata /\ i = 2)
  /\ ref' = [ref EXCEPT ![o][i] = v]
  /\ marked' = ForwardPaint(o, v)
  /\ gray' = gray \cup NewGray(ForwardMark(o, v))
  /\ UNCHANGED <<currentwhite, gcstate, allgc, finobj, tobefnz, sweep, grayagain, weak,
                 allweak, ephemeron, atomvars, fullvars, tables, threads, groot>>

\* Mutant: sweepgc is left where it is.
CheckFinalizerInPlace(o, painted) ==
  /\ o \in allgc
  /\ allgc' = allgc \ {o}
  /\ finobj' = finobj \cup {o}
  /\ marked' = IF IsSweepPhase THEN [painted EXCEPT ![o] = currentwhite] ELSE painted
  /\ UNCHANGED <<sweep, apc>>
\* luaC_checkfinalizer, when the metatable m has a field __gc: o moves from
\* allgc to finobj.  In a sweep phase it is swept on the way, and if sweepgc
\* points into it, sweeptolive moves sweepgc on (the step SweepToLive).
CheckFinalizer(o, painted) ==
  /\ o \in allgc
  /\ allgc' = allgc \ {o}
  /\ finobj' = finobj \cup {o}
  /\ marked' = IF IsSweepPhase THEN [painted EXCEPT ![o] = currentwhite] ELSE painted
  /\ sweep' = IF gcstate = "GCSswpfinobj" /\ sweep = finobj THEN sweep \cup {o}
              ELSE sweep \ {o}
  /\ \/ apc' = apc
     \/ gcstate = "GCSswpallgc" /\ o \notin sweep /\ sweep # {} /\ apc' = "tolive"

\* lua_setmetatable on a table or userdata; hasgc: m has a field __gc.
SetMeta(o, m, hasgc) ==
  /\ Running /\ o \in Avail /\ o \in Table \cup Udata
  /\ m \in (Avail \cap Table) \cup {Nil}
  /\ o \in allweak /\ gcstate \in {"GCSpropagate", "GCSatomic"} => ResetAllWeakMeta
  /\ ref' = [ref EXCEPT ![o][1] = m]
  /\ gray' = gray \cup NewGray(ForwardMark(o, m))
  /\ \/ /\ hasgc /\ m # Nil
        /\ CheckFinalizer(o, ForwardPaint(o, m))
     \/ /\ ~hasgc \/ m = Nil \/ o \in finobj \cup tobefnz
        /\ marked' = ForwardPaint(o, m)
        /\ UNCHANGED <<allgc, finobj, sweep, apc>>
  /\ UNCHANGED <<currentwhite, gcstate, tobefnz, grayagain, weak, allweak, ephemeron, todo,
                 changed, origagain, origweak, origall, fullvars, tables, threads, groot>>

\* lua_setmetatable on a basic type, lua_replace on the registry: no barrier.
SetGlobalRoot(x) ==
  /\ Running /\ x \in Avail \cup {Nil}
  /\ groot' = x
  /\ UNCHANGED <<gcvars, grays, atomvars, fullvars, ref, tables, threads>>

\* lua_resume from auxresume: the coroutine stays on the stack of its resumer.
Resume(th) ==
  /\ Running /\ th \in Thread \ {Main, cur} /\ resumer[th] = Nil
  /\ th \in Refs(cur)
  /\ resumer' = [resumer EXCEPT ![th] = cur]
  /\ cur' = th
  /\ UNCHANGED <<gcvars, grays, atomvars, fullvars, ref, tables, top, groot>>

\* lua_yield, or the end of the coroutine.
Leave ==
  /\ Running /\ resumer[cur] # Nil
  /\ resumer' = [resumer EXCEPT ![cur] = Nil]
  /\ cur' = resumer[cur]
  /\ UNCHANGED <<gcvars, grays, atomvars, fullvars, ref, tables, top, groot>>

\* lua_xmove: one value from the running thread to a thread that is not active.
XMove(th) ==
  /\ Running /\ th \in (Avail \cap Thread) \ {Main, cur} /\ resumer[th] = Nil
  /\ top[cur] > 0 /\ top[th] < NSlot
  /\ ref' = [ref EXCEPT ![th][top[th] + 1] = ref[cur][top[cur]]]
  /\ top' = [top EXCEPT ![th] = @ + 1, ![cur] = @ - 1]
  /\ UNCHANGED <<gcvars, grays, atomvars, fullvars, tables, cur, resumer, groot>>

\* GCTM with udata2finalize: at the end of a luaC_step in any state but
\* GCSpause, and in GCScallfin.  The finalizer gets the object on the stack, and
\* what it then does are steps of the program (keep: it does something with it).
CallsFinalizers ==
  /\ apc = "idle" /\ gcstate # "GCSpause" /\ ~emergency
  /\ full # "none" => gcstate = "GCScallfin"
Finalize(o, keep) ==
  /\ CallsFinalizers /\ o \in tobefnz
  /\ infin' = (full # "none")
  /\ tobefnz' = tobefnz \ {o}
  /\ allgc' = allgc \cup {o}
  /\ LinkAhead("GCSswpallgc", allgc, o)
  /\ marked' = IF IsSweepPhase THEN [marked EXCEPT ![o] = currentwhite] ELSE marked
  /\ IF keep THEN PushOn(cur, o) ELSE UNCHANGED <<ref, top>>
  /\ UNCHANGED <<currentwhite, gcstate, finobj, grays, atomvars, full, emergency, tables, cur,
                 resumer, groot>>

\* luaC_fullgc, up to its first luaC_runtilstate: a cycle that is still marking
\* is given up, and everything is swept back to white.
FullGC(e) ==
  /\ Running
  /\ full' = "finish" /\ emergency' = e /\ infin' = FALSE
  /\ IF KeepInvariant
     THEN gcstate' = "GCSswpallgc" /\ sweep' = allgc /\ apc' = "entersweep"
     ELSE UNCHANGED <<gcstate, sweep, apc>>
  /\ UNCHANGED <<marked, currentwhite, allgc, finobj, tobefnz, grays, todo, changed, origagain, origweak,
                 origall, ref, tables, threads, groot>>

\* The finalizer called by a full collection returns to it.
FinalizerEnd ==
  /\ infin /\ apc = "idle"
  /\ infin' = FALSE
  /\ UNCHANGED <<gcvars, grays, atomvars, full, emergency, ref, tables, threads, groot>>

-----------------------------------------------------------------------------
(* propagatemark and the traverse functions *)

\* iscleared: whether a weak reference to x is dropped.  Strings count as values:
\* asking about one marks it, which the callers below do with StringsIn.
Cleared(x) == IsWhite(x) /\ x \notin Str
\* Mutant: iscleared does not mark the strings.
StringsInNone(S) == {}
StringsIn(S) == S \cap Str

\* removeentry on every empty entry of t: an unmarked key becomes a dead key.
RemoveEntries(t) ==
  [n \in Node |-> IF n \notin Full(t) /\ IsWhite(keys[t][n]) THEN DeadKey ELSE keys[t][n]]

\* A traversal of o that marks everything in S and leaves o with colour c.
Traversed(o, S, c) ==
  /\ marked' = Paint(Reached(S), [marked EXCEPT ![o] = c])
  /\ gray' = (gray \ {o}) \cup NewGray(Reached(S))

\* Mutant: the dead part of the stack is never cleared.
TraverseThreadStale(th) ==
  /\ th \in Thread
  /\ Traversed(th, Refs(th), "gray")
  /\ grayagain' = grayagain \cup {th}
  /\ UNCHANGED <<weak, allweak, ephemeron, keys, ref>>
\* Threads stay gray and wait in grayagain for the atomic phase, which also
\* clears the dead part of their stack.
TraverseThread(th) ==
  /\ th \in Thread
  /\ Traversed(th, Refs(th), "gray")
  /\ grayagain' = grayagain \cup {th}
  /\ ref' = IF gcstate = "GCSinsideatomic"
            THEN [ref EXCEPT ![th] = [i \in Slot |-> IF i <= top[th] THEN @[i] ELSE Nil]]
            ELSE ref
  /\ UNCHANGED <<weak, allweak, ephemeron, keys>>

TraverseFunc(f) ==
  /\ f \in Func
  /\ Traversed(f, Refs(f), "black")
  /\ UNCHANGED <<grayagain, weak, allweak, ephemeron, keys, ref>>

TraverseStrong(h) ==
  /\ h \in Table /\ WeakMode(h) = "strong"
  /\ Traversed(h, Readable(h), "black")
  /\ keys' = [keys EXCEPT ![h] = RemoveEntries(h)]
  /\ UNCHANGED <<grayagain, weak, allweak, ephemeron, ref>>

\* Weak values.  The keys are marked; the string values too, up to the first
\* value that is white (strs: those met before it).
HasClears(h) == \E n \in Node : keys[h][n] = NumKey \/ Cleared(vals[h][n])
TraverseWeakValue(h) ==
  /\ h \in Table /\ WeakMode(h) = "v"
  /\ \E strs \in SUBSET StringsIn({vals[h][n] : n \in Node}) :
       /\ ~HasClears(h) => strs = StringsIn({vals[h][n] : n \in Node})
       /\ Traversed(h, Refs(h) \cup {keys[h][n] : n \in Full(h)} \cup strs, "gray")
  /\ keys' = [keys EXCEPT ![h] = RemoveEntries(h)]
  /\ IF gcstate = "GCSpropagate"
     THEN grayagain' = grayagain \cup {h} /\ UNCHANGED weak
     ELSE /\ weak' = IF HasClears(h) THEN weak \cup {h} ELSE weak
          /\ UNCHANGED grayagain
  /\ UNCHANGED <<allweak, ephemeron, ref>>

\* traverseephemeron.  WeakNodes are the entries whose key is not marked: their
\* value is not marked either, unless the key turns out to be reachable.
WeakNodes(h) == {n \in Full(h) : Cleared(keys[h][n])}
EphemeronMarks(h) ==
  {vals[h][n] : n \in Full(h) \ WeakNodes(h)} \cup StringsIn({keys[h][n] : n \in Full(h)})
EphemeronLink(h) ==
  LET hasww == \E n \in WeakNodes(h) : IsWhite(vals[h][n])
  IN IF gcstate = "GCSpropagate"
     THEN grayagain' = grayagain \cup {h} /\ UNCHANGED <<ephemeron, allweak>>
     ELSE /\ ephemeron' = IF hasww THEN ephemeron \cup {h} ELSE ephemeron
          /\ allweak' = IF ~hasww /\ WeakNodes(h) # {} THEN allweak \cup {h} ELSE allweak
          /\ UNCHANGED grayagain
TraverseEphemeron(h) ==
  /\ h \in Table /\ WeakMode(h) = "k"
  /\ Traversed(h, Refs(h) \cup EphemeronMarks(h), "gray")
  /\ keys' = [keys EXCEPT ![h] = RemoveEntries(h)]
  /\ EphemeronLink(h)
  /\ UNCHANGED <<weak, ref>>

\* Weak keys and values: only the metatable is marked, and in every phase the
\* table goes straight to allweak.
TraverseAllWeak(h) ==
  /\ h \in Table /\ WeakMode(h) = "kv"
  /\ Traversed(h, Refs(h), "gray")
  /\ allweak' = allweak \cup {h}
  /\ UNCHANGED <<grayagain, weak, ephemeron, keys, ref>>

\* Everything of the collector that a traversal leaves alone.
PropagateMark ==
  /\ \E o \in gray :
       \/ TraverseThread(o) \/ TraverseFunc(o) \/ TraverseStrong(o)
       \/ TraverseWeakValue(o) \/ TraverseEphemeron(o) \/ TraverseAllWeak(o)
  /\ UNCHANGED <<currentwhite, allgc, finobj, tobefnz, sweep, todo, changed, origagain, origweak, origall,
                 fullvars, vals, mode, threads, groot>>

-----------------------------------------------------------------------------
(* singlestep: GCSpause and GCSpropagate *)

RestartRoots == ({Main, groot} \cup tobefnz) \ {Nil}
\* Mutant: the full collection does not notice that its own cycle starts.
RestartUnnoticed ==
  /\ apc = "idle" /\ gcstate = "GCSpause"
  /\ gcstate' = "GCSpropagate"
  /\ marked' = Paint(Reached(RestartRoots), marked)
  /\ gray' = NewGray(Reached(RestartRoots))
  /\ grayagain' = {} /\ weak' = {} /\ allweak' = {} /\ ephemeron' = {}
  /\ UNCHANGED <<currentwhite, allgc, finobj, tobefnz, sweep, atomvars, fullvars, ref, tables,
                 threads, groot>>
RestartCollection ==
  /\ apc = "idle" /\ gcstate = "GCSpause"
  /\ gcstate' = "GCSpropagate"
  /\ marked' = Paint(Reached(RestartRoots), marked)
  /\ gray' = NewGray(Reached(RestartRoots))
  /\ grayagain' = {} /\ weak' = {} /\ allweak' = {} /\ ephemeron' = {}
  /\ full' = IF full = "finish" THEN "cycle" ELSE full
  /\ UNCHANGED <<currentwhite, allgc, finobj, tobefnz, sweep, atomvars, emergency, infin, ref, tables,
                 threads, groot>>

PropagateStep ==
  /\ apc = "idle" /\ gcstate = "GCSpropagate"
  /\ PropagateMark
  /\ gcstate' = IF gray' = {} THEN "GCSatomic" ELSE gcstate
  /\ UNCHANGED apc

-----------------------------------------------------------------------------
(* singlestep: GCSatomic.  The program does not run until apc is idle again. *)

\* The leading propagateall: the barriers may have filled the gray list.
AtomicStart ==
  /\ apc = "idle" /\ gcstate = "GCSatomic"
  /\ apc' = "pre"
  /\ UNCHANGED <<gcvars, grays, todo, changed, origagain, origweak, origall, fullvars, ref, tables, threads,
                 groot>>

\* The body of every propagateall of the atomic phase.
AtomicPropagate ==
  /\ apc \in {"pre", "prop", "again", "conv", "fin", "conv2"}
  /\ PropagateMark
  /\ UNCHANGED <<gcstate, apc>>

\* Mark what may have changed without a barrier.
AtomicRoots == {cur, groot} \ {Nil}
AtomicMarkRoots ==
  /\ apc = "pre" /\ gray = {}
  /\ gcstate' = "GCSinsideatomic" /\ apc' = "prop"
  /\ marked' = Paint(Reached(AtomicRoots), marked)
  /\ gray' = NewGray(Reached(AtomicRoots))
  /\ origagain' = grayagain
  /\ UNCHANGED <<currentwhite, allgc, finobj, tobefnz, sweep, grayagain, weak, allweak, ephemeron,
                 todo, changed, origweak, origall, fullvars, ref, tables, threads, groot>>

\* Mutant: what the propagate phase put aside is not traversed again.
AtomicGrayAgainSkipped ==
  /\ apc = "prop" /\ gray = {}
  /\ apc' = "again" /\ origagain' = {}
  /\ UNCHANGED <<gcvars, grays, todo, changed, origweak, origall, fullvars, ref, tables, threads,
                 groot>>
\* Traverse again what the propagate phase put aside.
AtomicGrayAgain ==
  /\ apc = "prop" /\ gray = {}
  /\ apc' = "again"
  /\ gray' = origagain /\ origagain' = {}
  /\ UNCHANGED <<gcvars, grayagain, weak, allweak, ephemeron, todo, changed, origweak, origall,
                 fullvars, ref, tables, threads, groot>>

\* convergeephemerons: take the list, traverse each of its tables and what that
\* marked, and start over as long as a round marked something.
ConvergeEnter ==
  \/ apc = "again" /\ gray = {} /\ apc' = "conv"
  \/ apc = "fin" /\ gray = {} /\ apc' = "conv2"
  \/ apc \in {"conv", "conv2"} /\ gray = {} /\ todo = {} /\ changed /\ apc' = apc
ConvergeRound ==
  /\ ConvergeEnter
  /\ todo' = ephemeron /\ ephemeron' = {} /\ changed' = FALSE
  /\ UNCHANGED <<gcvars, gray, grayagain, weak, allweak, origagain, origweak, origall, fullvars, ref, tables,
                 threads, groot>>
ConvergeTable(w) ==
  /\ apc \in {"conv", "conv2"} /\ gray = {} /\ w \in todo
  /\ todo' = todo \ {w}
  /\ changed' = (changed \/ \E n \in Full(w) \ WeakNodes(w) : IsWhite(vals[w][n]))
  /\ Traversed(w, EphemeronMarks(w), "gray")
  /\ keys' = [keys EXCEPT ![w] = RemoveEntries(w)]
  /\ EphemeronLink(w)
  /\ UNCHANGED <<currentwhite, gcstate, allgc, finobj, tobefnz, sweep, weak, apc, origagain, origweak,
                 origall, fullvars, ref, vals, mode, threads, groot>>
Converged == gray = {} /\ todo = {} /\ ~changed

\* clearkeys on the tables KT and clearvalues on the tables VT, in this order.
\* The entry loses its value, and its key if that is unmarked; the strings met
\* on the way are marked.
DropKey(t, n, KT) == t \in KT /\ n \in WeakNodes(t)
DropVal(t, n, VT) == t \in VT /\ Cleared(vals[t][n])
Asked(KT, VT) ==
  StringsIn((UNION {{keys[t][n] : n \in Full(t)} : t \in KT})
            \cup (UNION {{vals[t][n] : n \in {m \in Node : ~DropKey(t, m, KT)}} : t \in VT}))
Clear(KT, VT, finalized) ==
  LET Drop(t, n) == DropKey(t, n, KT) \/ DropVal(t, n, VT)
      M == Reached(Asked(KT, VT) \cup finalized)
  IN /\ vals' = [t \in Table |-> [n \in Node |-> IF Drop(t, n) THEN Nil ELSE vals[t][n]]]
     /\ keys' = [t \in Table |-> [n \in Node |->
                   IF Drop(t, n) /\ IsWhite(keys[t][n]) THEN DeadKey ELSE keys[t][n]]]
     /\ marked' = Paint(M, marked)
     /\ gray' = NewGray(M)

\* Mutant: separatetobefnz takes every object, as it does when a state is closed.
SeparatedAll == finobj
\* Clear the weak values, then separatetobefnz and markbeingfnz: what has a
\* finalizer and is not marked will be finalized, and is marked for that.
Separated == {o \in finobj : IsWhite(o)}
\* Mutant: weak keys are cleared before the finalizers are considered.
AtomicSeparateKeys ==
  /\ apc = "conv" /\ Converged
  /\ apc' = "fin"
  /\ Clear(ephemeron \cup allweak, weak \cup allweak, tobefnz \cup Separated)
  /\ origweak' = weak /\ origall' = allweak
  /\ tobefnz' = tobefnz \cup Separated /\ finobj' = finobj \ Separated
  /\ UNCHANGED <<currentwhite, gcstate, allgc, sweep, grayagain, weak, allweak, ephemeron, todo,
                 changed, origagain, fullvars, ref, mode, threads, groot>>
\* Mutant: what is to be finalized is not marked.
AtomicSeparateUnmarked ==
  /\ apc = "conv" /\ Converged
  /\ apc' = "fin"
  /\ Clear({}, weak \cup allweak, {})
  /\ origweak' = weak /\ origall' = allweak
  /\ tobefnz' = tobefnz \cup Separated /\ finobj' = finobj \ Separated
  /\ UNCHANGED <<currentwhite, gcstate, allgc, sweep, grayagain, weak, allweak, ephemeron, todo,
                 changed, origagain, fullvars, ref, mode, threads, groot>>
AtomicSeparate ==
  /\ apc = "conv" /\ Converged
  /\ apc' = "fin"
  /\ Clear({}, weak \cup allweak, tobefnz \cup Separated)
  /\ origweak' = weak /\ origall' = allweak
  /\ tobefnz' = tobefnz \cup Separated /\ finobj' = finobj \ Separated
  /\ UNCHANGED <<currentwhite, gcstate, allgc, sweep, grayagain, weak, allweak, ephemeron, todo,
                 changed, origagain, fullvars, ref, mode, threads, groot>>

\* Mutant: the white is not flipped.
AtomicFinishSameWhite ==
  /\ apc = "conv2" /\ Converged
  /\ Clear(ephemeron \cup allweak, (weak \ origweak) \cup (allweak \ origall), {})
  /\ gcstate' = "GCSswpallgc" /\ sweep' = allgc /\ apc' = "entersweep"
  /\ origweak' = {} /\ origall' = {}
  /\ UNCHANGED <<currentwhite, allgc, finobj, tobefnz, grayagain, weak, allweak, ephemeron, todo,
                 changed, origagain, fullvars, ref, mode, threads, groot>>
\* Clear the weak keys and the values of the tables that were resurrected, flip
\* the white and enter the sweep.
AtomicFinish ==
  /\ apc = "conv2" /\ Converged
  /\ Clear(ephemeron \cup allweak, (weak \ origweak) \cup (allweak \ origall), {})
  /\ currentwhite' = OtherWhite
  /\ gcstate' = "GCSswpallgc" /\ sweep' = allgc /\ apc' = "entersweep"
  /\ origweak' = {} /\ origall' = {}
  /\ UNCHANGED <<allgc, finobj, tobefnz, grayagain, weak, allweak, ephemeron, todo, changed,
                 origagain, fullvars, ref, mode, threads, groot>>

-----------------------------------------------------------------------------
(* The sweep *)

\* sweeplist over the objects S: the dead ones are freed, the others become
\* white for the next cycle.
SweepBatch(S) ==
  LET dead == {o \in S : IsDead(o)}
  IN /\ marked' = [o \in Obj |-> IF o \in dead THEN "free"
                                 ELSE IF o \in S THEN currentwhite ELSE marked[o]]
     /\ allgc' = allgc \ dead /\ finobj' = finobj \ dead /\ tobefnz' = tobefnz \ dead
     /\ ref' = [o \in Obj |-> IF o \in dead THEN [i \in Slot |-> Nil] ELSE ref[o]]
     /\ top' = [th \in Thread |-> IF th \in dead THEN 0 ELSE top[th]]
     /\ resumer' = [th \in Thread |-> IF th \in dead THEN Nil ELSE resumer[th]]
     /\ keys' = [t \in Table |-> IF t \in dead THEN [n \in Node |-> Nil] ELSE keys[t]]
     /\ vals' = [t \in Table |-> IF t \in dead THEN [n \in Node |-> Nil] ELSE vals[t]]
     /\ mode' = [t \in Table |-> IF t \in dead THEN "strong" ELSE mode[t]]
     /\ UNCHANGED <<currentwhite, grays, todo, changed, origagain, origweak, origall, emergency, infin, cur, groot>>

\* entersweep sweeps one object at once, if there is one.
EnterSweep ==
  /\ apc = "entersweep"
  /\ apc' = "idle"
  /\ \E S \in SUBSET allgc :
       /\ IF allgc = {} THEN S = {} ELSE \E o \in allgc : S = {o}
       /\ SweepBatch(S)
       /\ sweep' = allgc \ S
  /\ UNCHANGED <<gcstate, full>>

\* sweeptolive: the dead objects that follow, and the first that is not.
SweepToLive ==
  /\ apc = "tolive"
  /\ apc' = "idle"
  /\ \E S \in SUBSET sweep :
       /\ S = sweep \/ \E o \in S : ~IsDead(o)
       /\ \A o, p \in S : ~IsDead(o) /\ ~IsDead(p) => o = p
       /\ SweepBatch(S)
       /\ sweep' = sweep \ S
  /\ UNCHANGED <<gcstate, full>>

\* sweepstep on allgc and finobj: some of what is left, or the rest of it.
SweepStep ==
  /\ apc = "idle" /\ gcstate \in {"GCSswpallgc", "GCSswpfinobj"}
  /\ \E S \in SUBSET sweep :
       /\ S # {} \/ sweep = {}
       /\ SweepBatch(S)
       /\ IF S # sweep THEN sweep' = sweep \ S /\ UNCHANGED gcstate
          ELSE IF gcstate = "GCSswpallgc" THEN sweep' = finobj /\ gcstate' = "GCSswpfinobj"
          ELSE sweep' = {} /\ gcstate' = "GCSswptobefnz"
  /\ UNCHANGED <<apc, full>>

\* sweepstep on tobefnz, in one step (at most GCSWEEPMAX objects; LuaGCLists has
\* the case of a longer list).
SweepToBeFnz ==
  /\ apc = "idle" /\ gcstate = "GCSswptobefnz"
  /\ SweepBatch(tobefnz)
  /\ gcstate' = "GCSswpend"
  /\ UNCHANGED <<apc, full, sweep>>

SweepEnd ==
  /\ apc = "idle" /\ gcstate = "GCSswpend"
  /\ marked' = [marked EXCEPT ![Main] = currentwhite]
  /\ gcstate' = "GCScallfin"
  /\ UNCHANGED <<currentwhite, allgc, finobj, tobefnz, sweep, grays, atomvars, fullvars, ref,
                 tables, threads, groot>>

\* GCScallfin, when nothing is left to finalize or in an emergency; a full
\* collection ends with its second arrival here.
CallFinEnd ==
  /\ apc = "idle" /\ gcstate = "GCScallfin"
  /\ tobefnz = {} \/ emergency
  /\ gcstate' = "GCSpause"
  /\ full' = IF full = "cycle" THEN "none" ELSE full
  /\ emergency' = (emergency /\ full # "cycle") /\ infin' = FALSE
  /\ UNCHANGED <<marked, currentwhite, allgc, finobj, tobefnz, sweep, grays, atomvars, ref, tables,
                 threads, groot>>

-----------------------------------------------------------------------------
(* The specification *)

Init ==
  /\ marked = [o \in Obj |-> IF o = Main THEN "white0" ELSE "free"]
  /\ currentwhite = "white0" /\ gcstate = "GCSpause"
  /\ allgc = {} /\ finobj = {} /\ tobefnz = {} /\ sweep = {}
  /\ gray = {} /\ grayagain = {} /\ weak = {} /\ allweak = {} /\ ephemeron = {}
  /\ apc = "idle" /\ todo = {} /\ changed = FALSE
  /\ origagain = {} /\ origweak = {} /\ origall = {}
  /\ full = "none" /\ emergency = FALSE /\ infin = FALSE
  /\ ref = [o \in Obj |-> [i \in Slot |-> Nil]]
  /\ top = [th \in Thread |-> 0]
  /\ keys = [t \in Table |-> [n \in Node |-> Nil]]
  /\ vals = [t \in Table |-> [n \in Node |-> Nil]]
  /\ mode = [t \in Table |-> "strong"]
  /\ groot = Nil /\ cur = Main /\ resumer = [th \in Thread |-> Nil]

Collector ==
  \/ RestartCollection \/ PropagateStep
  \/ AtomicStart \/ AtomicPropagate \/ AtomicMarkRoots \/ AtomicGrayAgain
  \/ ConvergeRound \/ (\E w \in todo : ConvergeTable(w)) \/ AtomicSeparate \/ AtomicFinish
  \/ EnterSweep \/ SweepToLive \/ SweepStep \/ SweepToBeFnz \/ SweepEnd \/ CallFinEnd
  \/ (gcstate = "GCScallfin" /\ \E o \in tobefnz, keep \in BOOLEAN : Finalize(o, keep))
  \/ FinalizerEnd

StackOps == \/ \E o \in Obj : NewObj(o)
            \/ \E x \in Avail : Push(x)
            \/ Pop
TableOps ==
  \/ \E t \in Table, n \in Node, v \in Val : SetEntry(t, n, v)
  \/ \E t \in Table, n \in Node, k \in Obj \cup {NumKey}, v \in Obj : NewKey(t, n, k, v)
RehashOps == \E t \in Table : Rehash(t)
FieldOps == \E o \in Func \cup Udata, i \in Field, v \in Val : SetField(o, i, v)
MetaOps == \E o \in Table \cup Udata, m \in Table \cup {Nil}, hasgc \in BOOLEAN : SetMeta(o, m, hasgc)
ModeOps == \E t \in Table, w \in Modes : SetMode(t, w)
RootOps == \E x \in Val : SetGlobalRoot(x)
StringOps == \E s \in Str : InternFound(s)
ThreadOps == (\E th \in Thread : Resume(th) \/ XMove(th)) \/ Leave \/ Expose
FinalizerOps == \E o \in tobefnz, keep \in BOOLEAN : Finalize(o, keep)
FullOps == \E e \in BOOLEAN : FullGC(e)

Program ==
  \/ StackOps \/ TableOps \/ RehashOps \/ FieldOps \/ MetaOps \/ ModeOps \/ RootOps
  \/ StringOps \/ ThreadOps \/ FinalizerOps \/ FullOps

Next == Collector \/ Program

Spec == Init /\ [][Next]_vars

\* The collector is driven by the allocations of the program (luaC_step), or runs to
\* the end of a cycle by itself (luaC_fullgc): it does not stop half way.
FairSpec == Spec /\ WF_vars(Collector)

-----------------------------------------------------------------------------
(* Reachability, the reference that the collector is measured against *)

Allocated == {o \in Obj : marked[o] # "free"}
Alive == {o \in Allocated : ~IsDead(o)}
Marking == gcstate \in {"GCSpropagate", "GCSatomic", "GCSinsideatomic"}

\* The weakness of a table for the current cycle: a table with weak keys and
\* values is put aside when it is traversed, whatever becomes of its mode later.
CycleMode(t) == IF t \in allweak THEN "kv" ELSE WeakMode(t)
\* What o keeps alive when the objects of T are alive.
Keeps(o, T) ==
  LET values(N) == {vals[o][n] : n \in N}
      keysof(N) == {keys[o][n] : n \in N} \cap Obj
      live == {n \in Full(o) : keys[o][n] \in T \cup Str \cup {NumKey}}
  IN Refs(o) \cup
     IF o \notin Table THEN {}
     ELSE CASE CycleMode(o) = "strong" -> Readable(o)
            [] CycleMode(o) = "v" -> keysof(Full(o)) \cup (values(Full(o)) \cap Str)
            [] CycleMode(o) = "k" -> values(live) \cup (keysof(Full(o)) \cap Str)
            [] CycleMode(o) = "kv" -> (keysof(Full(o)) \cup values(live)) \cap Str
\* The least set that has the roots and what its members keep alive.
ReachableFrom(R) ==
  {o \in Obj : \A T \in SUBSET Obj :
                 (R \subseteq T /\ \A x \in T : Keeps(x, T) \subseteq T) => o \in T}
Roots == {Main, cur, groot} \ {Nil}
\* Reachable by the program, and reachable once finalizers have resurrected.
Reachable == ReachableFrom(Roots)
ReachableFnz == ReachableFrom(Roots \cup tobefnz)

-----------------------------------------------------------------------------
(* Properties *)

\* "A black object can never point to a white one", while marking (lgc.h, the
\* main invariant): what the program can read from a black object is marked.
TriColor ==
  Marking => \A o \in Obj : marked[o] = "black" => \A x \in Readable(o) : ~IsWhite(x)

\* No reference dangles: whatever the program can reach, the stale part of the
\* stacks included (a call may uncover it), is allocated and not about to be freed.
NoDangling ==
  /\ Roots \cup tobefnz \subseteq Alive
  /\ \A th \in Thread : resumer[th] # Nil => {th, resumer[th]} \subseteq Alive
  /\ \A o \in Alive : Readable(o) \subseteq Alive
  /\ \A th \in Thread \cap Alive : \A i \in Slot : ref[th][i] \in Alive \cup {Nil}

\* "Any gray object must be in a gray list so that it can be visited again before
\* finishing the collection cycle" (lgc.h): when the atomic phase is about to end,
\* what a gray object refers to (its metatable, its stack) is marked.
GrayVisited ==
  apc = "conv2" /\ Converged =>
    \A o \in Obj : marked[o] = "gray" => \A x \in Refs(o) : ~IsWhite(x)

\* Every object but the main thread is in exactly one of the lists that own objects,
\* and the part left to sweep is part of the list being swept.
Owned ==
  /\ allgc \cup finobj \cup tobefnz = Allocated \ {Main}
  /\ allgc \cap finobj = {} /\ allgc \cap tobefnz = {} /\ finobj \cap tobefnz = {}
  /\ sweep \subseteq (IF gcstate = "GCSswpallgc" THEN allgc
                      ELSE IF gcstate = "GCSswpfinobj" THEN finobj ELSE {})

\* When the white is flipped, which condemns the objects of the old white, none of
\* them can be reached, not even through an object that awaits its finalizer.
CondemnsOnlyGarbage ==
  [][gcstate = "GCSinsideatomic" /\ gcstate' # gcstate
       => \A o \in ReachableFnz : marked'[o] \notin White]_vars

\* A weak entry is dropped by the collector only when the key, or the value, is an
\* object that the program cannot reach otherwise (strings are never dropped); in
\* keys, objects that await a finalizer count as reached.
DropsOnlyGarbage ==
  [][gcstate = "GCSinsideatomic" =>
       \A t \in Table, n \in Node :
         vals[t][n] # Nil /\ vals'[t][n] = Nil =>
           \/ vals[t][n] \notin Reachable \cup Str
           \/ keys[t][n] \in Obj \ (ReachableFrom(Roots \cup tobefnz') \cup Str)]_vars

\* Only what the program cannot reach is set aside to be finalized.
FinalizesOnlyGarbage ==
  [][\A o \in tobefnz' \ tobefnz : o \in finobj \ Reachable]_vars

\* Finalizers do not start full collections for ever.
FinalizersCalm == <>[][~(full # "none" /\ FullOps)]_vars

\* What stays unreachable, and has no finalizer to run, is freed in the end.
Reclaimed ==
  FinalizersCalm => \A o \in Obj : []<>(o \notin Allocated \ ReachableFnz)

\* A cycle always ends, and so does a full collection.
CycleEnds == FinalizersCalm => []<>(gcstate = "GCSpause" /\ full = "none")

-----------------------------------------------------------------------------
(* What the collector promises *)

\* The life of the objects as the program sees it.
Life == [o \in Obj \ {Main} |-> CASE o \in allgc -> "plain"
                                  [] o \in finobj -> "finalizable"
                                  [] o \in tobefnz -> "pending"
                                  [] OTHER -> "free"]
L == INSTANCE LuaLife WITH Object <- Obj \ {Main}, life <- Life, closed <- FALSE
\* The collector implements LuaLife: an object with a finalizer is freed only after
\* its finalizer has been called (sweeplist, separatetobefnz, udata2finalize).
ImplementsLife == L!Spec
=============================================================================

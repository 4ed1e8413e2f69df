------------------------------ MODULE LuaUpval ------------------------------
(***************************************************************************)
(* Closures and upvalues (lfunc.c, OP_CLOSURE in lvm.c): open upvalues     *)
(* that point into the stack of a thread, their lists, reference counts,   *)
(* the reallocation of stacks, and the collector, which frees closures     *)
(* and threads in the order of its sweep and between two steps of          *)
(* pushclosure when memory runs out.                                       *)
(***************************************************************************)
EXTENDS Naturals, FiniteSets, SequencesExt

CONSTANTS
  Thread, mainthread,
  Closure,
  UpVal,     \* addresses of upvalues
  Block,     \* addresses of stacks
  MaxLevel,  \* bound of the active locals of a thread
  NUp,       \* upvalues of a closure
  Value, Nil,
  Junk,      \* the contents of memory that is not allocated
  NULL,
  Own, Free, \* for v of an upvalue that is closed or not allocated
  SelfJoin   \* may the program join an upvalue of a closure to itself

Level == 0..(MaxLevel - 1)
Index == 1..NUp
Address == [block : Block, level : Level]
Object == Thread \cup Closure

\* Memory is finite.
UpvalAssumption ==
  /\ IsFiniteSet(Closure) /\ Closure \cap Thread = {}
  /\ mainthread \in Thread /\ Nil \in Value /\ Junk \notin Value
  /\ MaxLevel \in Nat \ {0} /\ NUp \in Nat \ {0}
  /\ NULL \notin Thread \cup Closure \cup UpVal \cup Block
  /\ Own # Free /\ Own \notin Address /\ Free \notin Address
  /\ SelfJoin \in BOOLEAN
\* No upvalue is the address of a local.
PlaceAssumption == UpVal \cap Address = {}

VARIABLES
  mem,      \* the values in a block
  stack,    \* the block of a thread
  top,      \* its active locals are 0..top-1
  openupval,
  v,        \* where an upvalue lives: an address, Own when it is closed, or Free
  value, refcount,
  upvals,   \* of a closure; NULL until it is filled in
  cache,    \* of the prototype of the closures
  proto,    \* its colour
  marked,   \* of closures and threads
  gcphase,
  sweeps,   \* sweeps to go in an emergency collection
  pc, ncl, th, encup, level, pp  \* of pushclosure and luaF_findupval
vars == <<mem, stack, top, openupval, v, value, refcount, upvals, cache, proto,
          marked, gcphase, sweeps, pc, ncl, th, encup, level, pp>>
threads == <<mem, stack, top>>
pools == <<openupval, v, value, refcount>>
collector == <<proto, marked, gcphase, sweeps>>
locals == <<pc, ncl, th, encup, level, pp>>

TypeOK ==
  /\ mem \in [Block -> [Level -> Value \cup {Junk}]]
  /\ stack \in [Thread -> Block \cup {NULL}] /\ top \in [Thread -> 0..MaxLevel]
  /\ openupval \in [Thread -> Seq(UpVal)]
  /\ v \in [UpVal -> Address \cup {Own, Free}]
  /\ value \in [UpVal -> Value] /\ refcount \in [UpVal -> Nat]
  /\ upvals \in [Closure -> [Index -> UpVal \cup {NULL}]]
  /\ cache \in Closure \cup {NULL} /\ proto \in {"white", "black"}
  /\ marked \in [Object -> {"free", "white", "black", "dead"}]
  /\ gcphase \in {"marking", "sweeping"} /\ sweeps \in 0..2
  /\ pc \in {"idle", "fill", "link", "init"}
  /\ ncl \in Closure \cup {NULL} /\ th \in Thread \cup {NULL}
  /\ encup \in Closure \cup {NULL} /\ level \in Level /\ pp \in Nat

Live(o) == marked[o] \in {"white", "black"}
Complete(c) == \A i \in Index : upvals[c][i] # NULL
Running(t) == pc = "idle" /\ sweeps = 0 /\ Live(t)
Callable(c) == Live(c) /\ Complete(c)

AddressOf(t, l) == [block |-> stack[t], level |-> l]
upisopen(u) == v[u] \in Address
Deref(u) == IF upisopen(u) THEN mem[v[u].block][v[u].level] ELSE value[u]

-----------------------------------------------------------------------------
(* luaF_findupval and luaF_close *)

\* Where the walk over the open upvalues s at level l or above ends.
PositionIn(s, where, l) ==
  CHOOSE n \in 1..(Len(s) + 1) :
    /\ \A i \in 1..(n - 1) : where[s[i]].level >= l
    /\ n <= Len(s) => where[s[n]].level < l
Position(t, l) == PositionIn(openupval[t], v, l)
Above(t, l) == {openupval[t][i] : i \in 1..(Position(t, l) - 1)}

luaF_close(t, l) ==
  /\ openupval' = [openupval EXCEPT ![t] = SubSeq(@, Position(t, l), Len(@))]
  /\ v' = [u \in UpVal |-> IF u \notin Above(t, l) THEN v[u]
                           ELSE IF refcount[u] = 0 THEN Free ELSE Own]
  /\ value' = [u \in UpVal |-> IF u \in Above(t, l) /\ refcount[u] # 0
                               THEN Deref(u) ELSE value[u]]

-----------------------------------------------------------------------------
(* The program *)

\* A new local variable; the stack is large enough, or Reallocate comes first.
NewLocal(t, x) ==
  /\ Running(t) /\ top[t] < MaxLevel
  /\ mem' = [mem EXCEPT ![stack[t]][top[t]] = x]
  /\ top' = [top EXCEPT ![t] = @ + 1]
  /\ UNCHANGED <<stack, pools, upvals, cache, collector, locals>>
SetLocal(t, l, x) ==
  /\ Running(t) /\ l < top[t]
  /\ mem' = [mem EXCEPT ![stack[t]][l] = x]
  /\ UNCHANGED <<stack, top, pools, upvals, cache, collector, locals>>
\* OP_SETUPVAL writes through the pointer.
SetUpval(c, i, x) ==
  /\ pc = "idle" /\ sweeps = 0 /\ Callable(c)
  /\ LET u == upvals[c][i] IN
     IF upisopen(u)
     THEN mem' = [mem EXCEPT ![v[u].block][v[u].level] = x] /\ UNCHANGED value
     ELSE value' = [value EXCEPT ![u] = x] /\ UNCHANGED mem
  /\ UNCHANGED <<stack, top, openupval, v, refcount, upvals, cache, collector, locals>>

\* The end of a block (OP_JMP), of a function (OP_RETURN, OP_TAILCALL), or an error
\* caught at that level (luaD_pcall, recover).
Leave(t, l) ==
  /\ Running(t) /\ l < top[t]
  /\ luaF_close(t, l)
  /\ top' = [top EXCEPT ![t] = l]
  /\ UNCHANGED <<mem, stack, refcount, upvals, cache, collector, locals>>

\* luaD_reallocstack and correctstack: the stack moves, or not.
Reallocate(t, b) ==
  /\ Running(t) /\ b \notin {stack[s] : s \in Thread \ {t}}
  /\ stack' = [stack EXCEPT ![t] = b]
  /\ mem' = [mem EXCEPT ![stack[t]] = [l \in Level |-> Junk], ![b] = mem[stack[t]]]
  /\ v' = [u \in UpVal |-> IF u \in ToSet(openupval[t]) THEN [v[u] EXCEPT !.block = b]
                           ELSE v[u]]
  /\ UNCHANGED <<top, openupval, value, refcount, upvals, cache, collector, locals>>

\* lua_newthread
NewThread(t, b) ==
  /\ Running(mainthread) /\ marked[t] = "free" /\ b \notin {stack[s] : s \in Thread}
  /\ stack' = [stack EXCEPT ![t] = b] /\ top' = [top EXCEPT ![t] = 0]
  /\ mem' = [mem EXCEPT ![b] = [l \in Level |-> Nil]]
  /\ marked' = [marked EXCEPT ![t] = "white"]
  /\ UNCHANGED <<pools, upvals, cache, proto, gcphase, sweeps, locals>>

Idle == pc' = "idle" /\ ncl' = NULL /\ th' = NULL /\ encup' = NULL /\ level' = 0 /\ pp' = 0

\* luaF_newLclosure, for pushclosure in a function e running in t, or to load a chunk.
NewLClosure(t, c, e) ==
  /\ Running(t) /\ marked[c] = "free" /\ (e # NULL => Callable(e))
  /\ marked' = [marked EXCEPT ![c] = "white"]
  /\ \/ pc' = "fill" /\ (e # NULL \/ top[t] > 0)
     \/ pc' = "init" /\ e = NULL
  /\ ncl' = c /\ th' = t /\ encup' = e
  /\ UNCHANGED <<threads, pools, upvals, cache, proto, gcphase, sweeps, level, pp>>

Next_i == CHOOSE i \in Index : upvals[ncl][i] = NULL /\ \A j \in 1..(i - 1) : upvals[ncl][j] # NULL
SetUp(u) == upvals' = [upvals EXCEPT ![ncl][Next_i] = u]

\* An upvalue from the enclosing function.
FillEnclosing(j) ==
  /\ pc = "fill" /\ ~Complete(ncl) /\ encup # NULL
  /\ SetUp(upvals[encup][j])
  /\ refcount' = [refcount EXCEPT ![upvals[encup][j]] = @ + 1]
  /\ UNCHANGED <<threads, openupval, v, value, cache, collector, locals>>
\* luaF_findupval for an active local of the enclosing function: an upvalue is found,
FillFound(l) ==
  /\ pc = "fill" /\ ~Complete(ncl) /\ l < top[th]
  /\ \E u \in Above(th, l) :
       /\ v[u] = AddressOf(th, l)
       /\ SetUp(u)
       /\ refcount' = [refcount EXCEPT ![u] = @ + 1]
  /\ UNCHANGED <<threads, openupval, v, value, cache, collector, locals>>
\* or a new one has to be allocated before it is linked.
FillNew(l) ==
  /\ pc = "fill" /\ ~Complete(ncl) /\ l < top[th]
  /\ \A u \in Above(th, l) : v[u] # AddressOf(th, l)
  /\ pc' = "link" /\ level' = l /\ pp' = Position(th, l)
  /\ UNCHANGED <<threads, pools, upvals, cache, collector, ncl, th, encup>>
Link(u) ==
  /\ pc = "link" /\ sweeps = 0 /\ v[u] = Free
  /\ v' = [v EXCEPT ![u] = AddressOf(th, level)]
  /\ openupval' = [openupval EXCEPT ![th] = InsertAt(@, pp, u)]
  /\ refcount' = [refcount EXCEPT ![u] = 1]
  /\ SetUp(u)
  /\ pc' = "fill" /\ level' = 0 /\ pp' = 0
  /\ UNCHANGED <<threads, value, cache, collector, ncl, th, encup>>
\* luaF_initupvals
InitUpval(u) ==
  /\ pc = "init" /\ sweeps = 0 /\ ~Complete(ncl) /\ v[u] = Free
  /\ v' = [v EXCEPT ![u] = Own]
  /\ value' = [value EXCEPT ![u] = Nil]
  /\ refcount' = [refcount EXCEPT ![u] = 1]
  /\ SetUp(u)
  /\ UNCHANGED <<threads, openupval, cache, collector, locals>>

\* Mutant: the colour of the prototype is not looked at.
CachedAlways == ncl
\* The closure is not cached when the prototype is black.
Cached == IF proto = "black" THEN cache ELSE ncl
Finish ==
  /\ pc \in {"fill", "init"} /\ sweeps = 0 /\ Complete(ncl)
  /\ cache' = IF pc = "fill" THEN Cached ELSE cache
  /\ Idle
  /\ UNCHANGED <<threads, pools, upvals, collector>>
\* luaM_new fails: the closure stays as it is.
MemoryError ==
  /\ pc \in {"link", "init"} /\ sweeps = 0 /\ ~Complete(ncl)
  /\ Idle
  /\ UNCHANGED <<threads, pools, upvals, cache, collector>>

\* luaC_upvdeccount, n times: what becomes of v[u].
Deccount(u, n) == IF n > 0 /\ refcount[u] = n /\ ~upisopen(u) THEN Free ELSE v[u]

\* lua_upvaluejoin: the old upvalue is released before the new one is taken.
UpvalueJoin(c1, i1, c2, i2) ==
  /\ pc = "idle" /\ sweeps = 0 /\ Callable(c1) /\ Callable(c2)
  /\ SelfJoin \/ <<c1, i1>> # <<c2, i2>>
  /\ LET old == upvals[c1][i1]
         new == upvals[c2][i2] IN
     /\ v' = [v EXCEPT ![old] = Deccount(old, 1)]
     /\ refcount' = [u \in UpVal |-> (IF u = new THEN refcount[u] + 1 ELSE refcount[u])
                                     - (IF u = old THEN 1 ELSE 0)]
     /\ upvals' = [upvals EXCEPT ![c1][i1] = new]
  /\ UNCHANGED <<threads, openupval, value, cache, collector, locals>>

-----------------------------------------------------------------------------
(* The collector *)

Mark(o) ==
  /\ gcphase = "marking" /\ (pc = "idle" \/ sweeps > 0) /\ marked[o] = "white"
  /\ marked' = [marked EXCEPT ![o] = "black"]
  /\ UNCHANGED <<threads, pools, upvals, cache, proto, gcphase, sweeps, locals>>
\* traverseproto: a closure that is not marked leaves the cache.
TraverseProto ==
  /\ gcphase = "marking" /\ (pc = "idle" \/ sweeps > 0) /\ proto = "white"
  /\ cache' = IF cache # NULL /\ marked[cache] = "white" THEN NULL ELSE cache
  /\ proto' = "black"
  /\ UNCHANGED <<threads, pools, upvals, marked, gcphase, sweeps, locals>>
\* The atomic phase has marked what is reachable; the objects of S are not.
Atomic(S) ==
  /\ gcphase = "marking" /\ (pc = "idle" \/ sweeps > 0) /\ proto = "black"
  /\ \A o \in S : marked[o] = "white"
  /\ S \cap {mainthread, ncl, th, encup} = {}
  /\ marked' = [o \in Object |-> IF o \in S THEN "dead"
                                 ELSE IF marked[o] = "white" THEN "black" ELSE marked[o]]
  /\ gcphase' = "sweeping"
  /\ UNCHANGED <<threads, pools, upvals, cache, proto, sweeps, locals>>

Sweeping == gcphase = "sweeping" /\ (pc = "idle" \/ sweeps > 0)
\* Mutant: the sweep of a thread unlinks the open upvalues that nobody uses.
SweepLiveUpvals(o) ==
  /\ Sweeping /\ marked[o] = "black"
  /\ marked' = [marked EXCEPT ![o] = "white"]
  /\ openupval' = [t \in Thread |-> IF t # o THEN openupval[t]
                                   ELSE SelectSeq(openupval[t], LAMBDA u : refcount[u] > 0)]
  /\ UNCHANGED <<threads, v, value, refcount, upvals, cache, proto, gcphase, sweeps, locals>>
SweepLive(o) ==
  /\ Sweeping /\ marked[o] = "black"
  /\ marked' = [marked EXCEPT ![o] = "white"]
  /\ UNCHANGED <<threads, pools, upvals, cache, proto, gcphase, sweeps, locals>>
SweepProto ==
  /\ Sweeping /\ proto = "black"
  /\ proto' = "white"
  /\ UNCHANGED <<threads, pools, upvals, cache, marked, gcphase, sweeps, locals>>
\* freeLclosure
FreeLClosure(c) ==
  /\ Sweeping /\ marked[c] = "dead"
  /\ LET n(u) == Cardinality({i \in Index : upvals[c][i] = u}) IN
     /\ v' = [u \in UpVal |-> Deccount(u, n(u))]
     /\ refcount' = [u \in UpVal |-> refcount[u] - n(u)]
  /\ upvals' = [upvals EXCEPT ![c] = [i \in Index |-> NULL]]
  /\ marked' = [marked EXCEPT ![c] = "free"]
  /\ UNCHANGED <<threads, openupval, value, cache, proto, gcphase, sweeps, locals>>
\* Mutant: the upvalues of the thread are not closed.
FreeThreadOpen(t) ==
  /\ Sweeping /\ marked[t] = "dead"
  /\ stack' = [stack EXCEPT ![t] = NULL] /\ top' = [top EXCEPT ![t] = 0]
  /\ mem' = [mem EXCEPT ![stack[t]] = [l \in Level |-> Junk]]
  /\ marked' = [marked EXCEPT ![t] = "free"]
  /\ UNCHANGED <<pools, upvals, cache, proto, gcphase, sweeps, locals>>
\* luaE_freethread
FreeThread(t) ==
  /\ Sweeping /\ marked[t] = "dead"
  /\ luaF_close(t, 0)
  /\ stack' = [stack EXCEPT ![t] = NULL] /\ top' = [top EXCEPT ![t] = 0]
  /\ mem' = [mem EXCEPT ![stack[t]] = [l \in Level |-> Junk]]
  /\ marked' = [marked EXCEPT ![t] = "free"]
  /\ UNCHANGED <<refcount, upvals, cache, proto, gcphase, sweeps, locals>>
SweepEnd ==
  /\ Sweeping /\ proto = "white" /\ \A o \in Object : marked[o] \in {"free", "white"}
  /\ gcphase' = "marking"
  /\ sweeps' = IF sweeps = 0 THEN 0 ELSE sweeps - 1
  /\ UNCHANGED <<threads, pools, upvals, cache, proto, marked, locals>>
\* luaC_fullgc from luaM_realloc_: what is marked is swept white, then a whole cycle.
Emergency ==
  /\ pc \in {"link", "init"} /\ sweeps = 0 /\ ~Complete(ncl)
  /\ sweeps' = 2 /\ gcphase' = "sweeping"
  /\ UNCHANGED <<threads, pools, upvals, cache, proto, marked, locals>>

-----------------------------------------------------------------------------
(* The specification *)

Init ==
  /\ \E b \in Block :
       /\ stack = [t \in Thread |-> IF t = mainthread THEN b ELSE NULL]
       /\ mem = [c \in Block |-> [l \in Level |-> IF c = b THEN Nil ELSE Junk]]
  /\ top = [t \in Thread |-> 0] /\ openupval = [t \in Thread |-> <<>>]
  /\ v = [u \in UpVal |-> Free] /\ value = [u \in UpVal |-> Nil]
  /\ refcount = [u \in UpVal |-> 0]
  /\ upvals = [c \in Closure |-> [i \in Index |-> NULL]]
  /\ cache = NULL /\ proto = "white"
  /\ marked = [o \in Object |-> IF o = mainthread THEN "white" ELSE "free"]
  /\ gcphase = "marking" /\ sweeps = 0
  /\ pc = "idle" /\ ncl = NULL /\ th = NULL /\ encup = NULL /\ level = 0 /\ pp = 0

Program ==
  \/ \E t \in Thread, x \in Value : NewLocal(t, x) \/ (\E l \in Level : SetLocal(t, l, x))
  \/ \E t \in Thread, l \in Level : Leave(t, l)
  \/ \E t \in Thread, b \in Block : Reallocate(t, b) \/ NewThread(t, b)
  \/ \E c \in Closure, i \in Index, x \in Value : SetUpval(c, i, x)
  \/ \E t \in Thread, c \in Closure, e \in Closure \cup {NULL} : NewLClosure(t, c, e)
  \/ \E j \in Index : FillEnclosing(j)
  \/ \E l \in Level : FillFound(l) \/ FillNew(l)
  \/ \E u \in UpVal : Link(u) \/ InitUpval(u)
  \/ Finish \/ MemoryError
  \/ \E c1, c2 \in Closure, i1, i2 \in Index : UpvalueJoin(c1, i1, c2, i2)
Collector ==
  \/ \E o \in Object : Mark(o) \/ SweepLive(o)
  \/ TraverseProto \/ SweepProto \/ SweepEnd \/ Emergency
  \/ \E S \in SUBSET Object : Atomic(S)
  \/ \E c \in Closure : FreeLClosure(c)
  \/ \E t \in Thread : FreeThread(t)
\* A collector that marks nothing before the atomic phase and is not called for memory.
LateCollector ==
  \/ TraverseProto \/ SweepProto \/ SweepEnd
  \/ \E o \in Object : SweepLive(o)
  \/ \E S \in SUBSET Object : Atomic(S)
  \/ \E c \in Closure : FreeLClosure(c)
  \/ \E t \in Thread : FreeThread(t)
Next == Program \/ Collector
Spec == Init /\ [][Next]_vars

-----------------------------------------------------------------------------
(* Properties *)

Users(u) == {p \in Closure \X Index : upvals[p[1]][p[2]] = u}
\* A reference count is the number of closures' slots that hold the upvalue, dead
\* closures included; an upvalue in use is allocated, and a closed one that nobody
\* uses is not (luaC_upvdeccount, luaF_close, lua_upvaluejoin).
RefCounted ==
  \A u \in UpVal :
    /\ v[u] = Free => Users(u) = {}
    /\ v[u] # Free => refcount[u] = Cardinality(Users(u))
    /\ v[u] = Own => Users(u) # {}

\* The open upvalues of a thread are in its list, the highest first, one for a level,
\* and each points to an active local in the stack as it is now (luaF_findupval,
\* luaF_close, correctstack).
OpenListed ==
  /\ \A u \in UpVal : upisopen(u) => \E t \in Thread : u \in ToSet(openupval[t])
  /\ \A t \in Thread :
       /\ \A i \in DOMAIN openupval[t] :
            \E l \in 0..(top[t] - 1) : v[openupval[t][i]] = AddressOf(t, l)
       /\ \A i, j \in DOMAIN openupval[t] :
            i < j => v[openupval[t][i]].level > v[openupval[t][j]].level

\* The place where luaF_findupval will link the new upvalue is still the right one
\* after a collection in the allocation.
PlaceValid == pc = "link" => pp = Position(th, level)

\* What getcached looks at is a finished closure that is not about to be freed
\* (traverseproto, pushclosure).
CacheLive == cache # NULL => Callable(cache)

\* Upvalues are sound while closures are made and fail to be made, stacks move and the
\* collector frees what it likes: a count is the number of slots that hold the upvalue, the
\* open ones are listed in order and point into the stack, and the place where
\* luaF_findupval will link the new one is still right after the allocation.
UpvalsSound == TypeOK /\ RefCounted /\ OpenListed /\ PlaceValid

\* The variables of LuaVariable: references are active locals of live threads and
\* the upvalues of live closures, and they share a variable when they have one address.
Ref == (Thread \X Level) \cup (Closure \X Index)
InUse(r) == Live(r[1]) /\ IF r[1] \in Thread THEN r[2] < top[r[1]]
                          ELSE upvals[r[1]][r[2]] # NULL
Place(r) == IF r[1] \in Thread THEN AddressOf(r[1], r[2])
            ELSE LET u == upvals[r[1]][r[2]] IN IF upisopen(u) THEN v[u] ELSE u
Contents(r) == IF r[1] \in Thread THEN mem[stack[r[1]]][r[2]] ELSE Deref(upvals[r[1]][r[2]])
Sharing ==
  [r \in Ref |-> IF InUse(r) THEN LET p == Place(r) IN {s \in Ref : InUse(s) /\ Place(s) = p}
                 ELSE {}]
Holding == [r \in Ref |-> IF InUse(r) THEN Contents(r) ELSE Junk]
Variables == INSTANCE LuaVariable WITH Undefined <- Junk, same <- Sharing, value <- Holding
\* Closures and threads behave as if variables were boxes of their own: capturing,
\* closing, moving the stack and collecting change no value and no sharing.
ImplementsVariables == Variables!Spec
=============================================================================

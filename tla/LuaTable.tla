------------------------------ MODULE LuaTable ------------------------------
(***************************************************************************)
(* Tables (ltable.c) and the cache of absent metamethods that a table used *)
(* as a metatable has (ltm.c).                                             *)
(*                                                                         *)
(* A table has an array part and a hash part of nodes chained by relative  *)
(* offsets; a new key that collides moves a node or takes the last free    *)
(* one, and when there is none all keys are counted and both parts get new *)
(* sizes.  One iteration of a loop of luaH_resize is one step; phase # "idle" *)
(* while it runs.  The collector kills the keys of entries without value,  *)
(* whose objects may be freed and their addresses used again.              *)
(***************************************************************************)
EXTENDS Integers, FiniteSets, FiniteSetsExt

CONSTANTS
  Ints,        \* integer keys
  Half,        \* floats, counted in halves
  Object,      \* addresses of collectable keys
  Event,       \* those that are names of metamethods: strings that are never freed
  Hash,        \* what hashpointer, hashstr and l_hashfloat take modulo the size
  Value, Nil,
  MAXABITS, MAXHBITS,
  MAX_INT,
  ArraySizes   \* sizes that the program preallocates

IntKey(i) == [tt |-> "int", v |-> i]
FloatKey(h) == [tt |-> "flt", v |-> h]
ObjKey(o) == [tt |-> "obj", v |-> o]
DeadKey(o) == [tt |-> "dead", v |-> o]
NilKey == [tt |-> "nil", v |-> 0]

twoto[x \in Nat] == IF x = 0 THEN 1 ELSE 2 * twoto[x - 1]

TableAssumption ==
  /\ Ints \subseteq Nat /\ Half \subseteq Nat
  /\ Event \subseteq Object
  /\ Hash \in [{FloatKey(h) : h \in Half} \cup {ObjKey(o) : o \in Object} -> Nat]
  /\ Nil \notin Value
  /\ MAXABITS \in Nat /\ MAXHBITS \in Nat /\ MAX_INT \in Nat
  /\ ArraySizes \subseteq 0..twoto[MAXABITS]

\* Every key that a program may write, and those that stay what they are.
AnyKey == {IntKey(i) : i \in Ints} \cup {FloatKey(h) : h \in Half} \cup {ObjKey(o) : o \in Object}
\* luaV_tointeger with mode 0: a float with an integral value is that integer.
Normal(k) == IF k.tt = "flt" /\ k.v % 2 = 0 THEN IntKey(k.v \div 2) ELSE k
Key == {Normal(k) : k \in AnyKey}

VARIABLES
  tab,      \* the table: both vectors with their sizes and lastfree, -1 when node is dummynode
  flags,    \* the events known to have no metamethod
  phase,       \* "idle", or in luaH_resize before setnodevector ("vector") or after it ("insert")
  nasize, nhsize,  \* parameters of luaH_resize
  slice, i, \* the elements that vanish from the array and the next one to be inserted
  nold, j,  \* the old nodes and the next one to be inserted
  pending,  \* the entry that luaH_newkey adds after the rehash, if any
  trav,     \* a traversal: whether one is going on, its key, the keys it has met
  freed,    \* addresses of collected keys, which new objects may get
  map       \* history: the map that the assignments of the program have made

resize == <<phase, nasize, nhsize, slice, i, nold, j, pending>>
tvars == <<tab, flags, resize, trav, freed, map>>

FreeNode == [key |-> NilKey, val |-> Nil, next |-> 0]
IsDummy(t) == t.lastfree = -1
AllocSizeNode(t) == IF IsDummy(t) THEN 0 ELSE t.sizenode
InArray(t, k) == k.tt = "int" /\ k.v \in 1..t.sizearray

-----------------------------------------------------------------------------
(* Searching *)

HashMod(t, n) == n % (IF t.sizenode = 1 THEN 1 ELSE t.sizenode - 1)
MainPosition(t, k) ==
  IF k.tt = "int" THEN k.v % t.sizenode
  ELSE IF k.v \in Event THEN Hash[k] % t.sizenode ELSE HashMod(t, Hash[k])

\* 0 for a key that does not fit the array part of any table.
ArrayIndex(k) == IF k.tt = "int" /\ 0 < k.v /\ k.v <= twoto[MAXABITS] THEN k.v ELSE 0

\* The nodes that a search from node n comes to one after the other; it stops where next
\* is 0, and no chain has more than all the nodes.
Walk(t, n) ==
  LET at[s \in Nat] == IF s = 0 THEN n ELSE LET m == at[s - 1] IN m + t.node[m].next
  IN  at
Chain(t, n) == {Walk(t, n)[s] : s \in 0..(t.sizenode - 1)}
\* The first node in the chain from n on with one of the keys in K, or -1.
InChain(t, n, K) ==
  LET hits == {s \in 0..(t.sizenode - 1) : t.node[Walk(t, n)[s]].key \in K}
  IN  IF hits = {} THEN -1 ELSE Walk(t, n)[Min(hits)]
Slot(t, k) == InChain(t, MainPosition(t, k), {k})

\* luaH_getint, luaH_getshortstr and getgeneric.
GetNormal(t, k) ==
  IF InArray(t, k) THEN t.array[k.v]
  ELSE LET n == Slot(t, k) IN IF n = -1 THEN Nil ELSE t.node[n].val
luaH_get(t, k) == GetNormal(t, Normal(k))
GetInt(t, k) == GetNormal(t, IntKey(k))

-----------------------------------------------------------------------------
(* New keys *)

\* getfreepos: where lastfree stops.
FreeNodes(t) == {n \in 0..(t.lastfree - 1) : t.node[n].key = NilKey}
Taken(t, mp) == t.node[mp].val # Nil \/ IsDummy(t)
NoRoom(t, k) == Taken(t, MainPosition(t, k)) /\ FreeNodes(t) = {}

\* The node before mp in a chain from n on.
Previous(t, n, mp) ==
  CHOOSE m \in Chain(t, n) : t.node[m].next # 0 /\ m + t.node[m].next = mp
\* Mutant: the node before the one that moves still points to its old place.
MoveCollidingLost(t, mp, f, k, v) ==
  LET next == t.node[mp].next IN
  [t EXCEPT !.node[f] = [t.node[mp] EXCEPT !.next = IF next = 0 THEN 0 ELSE next + mp - f],
            !.node[mp] = [key |-> k, val |-> v, next |-> 0],
            !.lastfree = f]
\* The colliding node is out of its main position: it moves and the new key takes its place.
MoveColliding(t, mp, f, k, v) ==
  LET prev == Previous(t, MainPosition(t, t.node[mp].key), mp)
      next == t.node[mp].next
  IN  [t EXCEPT !.node[prev].next = f - prev,
                !.node[f] = [t.node[mp] EXCEPT !.next = IF next = 0 THEN 0 ELSE next + mp - f],
                !.node[mp] = [key |-> k, val |-> v, next |-> 0],
                !.lastfree = f]
\* Mutant: the new key goes to the end of the chain.
InsertAfterLast(t, mp, f, k, v) ==
  LET last == CHOOSE m \in Chain(t, mp) : t.node[m].next = 0 IN
  [t EXCEPT !.node[f] = [key |-> k, val |-> v, next |-> 0],
            !.node[last].next = f - last, !.lastfree = f]
\* It is in its own: the new key goes to the free node, next in the chain.
InsertAfter(t, mp, f, k, v) ==
  LET next == t.node[mp].next IN
  [t EXCEPT !.node[f] = [key |-> k, val |-> v, next |-> IF next = 0 THEN 0 ELSE mp + next - f],
            !.node[mp].next = f - mp,
            !.lastfree = f]

\* luaH_newkey into a table with room, and the value put in the new node.
NewKeyInRoom(t, k, v) ==
  LET mp == MainPosition(t, k)
      f == Max(FreeNodes(t))
  IN
  IF ~Taken(t, mp) THEN [t EXCEPT !.node[mp] = [key |-> k, val |-> v, next |-> @.next]]
  ELSE IF MainPosition(t, t.node[mp].key) # mp THEN MoveColliding(t, mp, f, k, v)
  ELSE InsertAfter(t, mp, f, k, v)

Absent(t, k) == ~InArray(t, k) /\ Slot(t, k) = -1
\* luaH_set and the assignment to the slot that it returns, unless there is no room.
Set(t, k, v) ==
  IF InArray(t, k) THEN [t EXCEPT !.array[k.v] = v]
  ELSE IF ~Absent(t, k) THEN [t EXCEPT !.node[Slot(t, k)].val = v]
  ELSE NewKeyInRoom(t, k, v)
NeedsRehash(t, k) == Absent(t, k) /\ NoRoom(t, k)

-----------------------------------------------------------------------------
(* Rehash *)

UsedElements(t) == {x \in 1..t.sizearray : t.array[x] # Nil}
UsedNodes(t) == {n \in DOMAIN t.node : t.node[n].val # Nil}
\* numusearray, numusehash and countint of the extra key: the candidates for the array.
Candidates(t, ek) ==
  (UsedElements(t) \cup {ArrayIndex(t.node[n].key) : n \in UsedNodes(t)} \cup {ArrayIndex(ek)}) \ {0}
TotalUse(t) == Cardinality(UsedElements(t)) + Cardinality(UsedNodes(t)) + 1
\* computesizes: the largest power of two of which more than half would be used.
\* The loop ends when even all the keys together cannot fill half of the next one.
ComputeSizes(S) ==
  LET Slice(x, l) == x <= twoto[l] /\ (l = 0 \/ twoto[l - 1] < x)
      Fits(l) == /\ Cardinality(S) > twoto[l] \div 2
                 /\ \E x \in S : Slice(x, l)
                 /\ Cardinality({x \in S : x <= twoto[l]}) > twoto[l] \div 2
      sizes == {twoto[l] : l \in {l \in 0..MAXABITS : Fits(l)}}
  IN  IF sizes = {} THEN 0 ELSE Max(sizes)
\* The sizes that rehash asks for.
ArraySize(t, ek) == ComputeSizes(Candidates(t, ek))
HashSize(t, ek) ==
  TotalUse(t) - Cardinality({x \in Candidates(t, ek) : x <= ArraySize(t, ek)})

SetArrayVector(t, size) ==
  [t EXCEPT !.array = [x \in 1..size |-> IF x <= t.sizearray THEN t.array[x] ELSE Nil],
            !.sizearray = size]
TableOverflow(size) == size > twoto[MAXHBITS]
SetNodeVector(t, size) ==
  IF size = 0 THEN [t EXCEPT !.node = [n \in {0} |-> FreeNode], !.sizenode = 1, !.lastfree = -1]
  ELSE LET n == Min({m \in {twoto[l] : l \in 0..MAXHBITS} : size <= m}) IN
       [t EXCEPT !.node = [m \in 0..(n - 1) |-> FreeNode], !.sizenode = n, !.lastfree = n]

Nothing == [key |-> NilKey, val |-> Nil]
NoTraversal == [on |-> FALSE, key |-> NilKey, seen |-> {}]
Idle == /\ phase' = "idle" /\ nasize' = 0 /\ nhsize' = 0
        /\ slice' = <<>> /\ i' = 0 /\ nold' = <<>> /\ j' = -1 /\ pending' = Nothing

\* luaH_resize of table t up to the allocation of the nodes.
Resize(t, asize, hsize, entry) ==
  /\ tab' = IF asize > t.sizearray THEN SetArrayVector(t, asize) ELSE t
  /\ phase' = "vector" /\ nasize' = asize /\ nhsize' = hsize /\ pending' = entry
  /\ trav' = NoTraversal
  /\ UNCHANGED <<flags, slice, i, nold, j, freed, map>>
\* luaH_newkey finds no room: getfreepos has moved lastfree to the first node.
Rehash(k, v) ==
  Resize([tab EXCEPT !.lastfree = IF IsDummy(tab) THEN -1 ELSE 0],
         ArraySize(tab, k), HashSize(tab, k), [key |-> k, val |-> v])

NewNodes ==
  /\ phase = "vector" /\ ~TableOverflow(nhsize)
  /\ phase' = "insert"
  /\ slice' = [x \in (nasize + 1)..tab.sizearray |-> tab.array[x]] /\ i' = nasize + 1
  /\ nold' = tab.node /\ j' = AllocSizeNode(tab) - 1
  /\ tab' = SetArrayVector(SetNodeVector(tab, nhsize), nasize)
  /\ UNCHANGED <<nasize, nhsize, pending, flags, trav, freed, map>>
\* The loops insert what has a value.  luaH_set would rehash again in a table without room.
Reinsert(k, v) ==
  \/ v = Nil /\ tab' = tab
  \/ v # Nil /\ ~NeedsRehash(tab, k) /\ tab' = Set(tab, k, v)
InsertElement ==
  /\ phase = "insert" /\ i \in DOMAIN slice
  /\ Reinsert(IntKey(i), slice[i])
  /\ i' = i + 1
  /\ UNCHANGED <<phase, nasize, nhsize, slice, nold, j, pending, flags, trav, freed, map>>
\* Nodes are inserted again from the last to the first.
InsertNode ==
  /\ phase = "insert" /\ i \notin DOMAIN slice /\ j >= 0
  /\ Reinsert(nold[j].key, nold[j].val)
  /\ j' = j - 1
  /\ UNCHANGED <<phase, nasize, nhsize, slice, i, nold, pending, flags, trav, freed, map>>

\* Mutant: the fact that a metamethod is absent is kept.
InvalidateTMcacheNot(k) == flags
InvalidateTMcache(k) == {}
\* luaH_newkey goes on with luaH_set, and its caller with the assignment.
ResizeEnd ==
  /\ phase = "insert" /\ i \notin DOMAIN slice /\ j < 0
  /\ Idle
  /\ \/ pending = Nothing /\ UNCHANGED <<tab, flags, map>>
     \/ /\ pending # Nothing /\ ~NeedsRehash(tab, pending.key)
        /\ tab' = Set(tab, pending.key, pending.val)
        /\ map' = [map EXCEPT ![pending.key] = pending.val]
        /\ flags' = InvalidateTMcache(pending.key)
  /\ UNCHANGED <<trav, freed>>

\* There is no memory for the nodes, or too many are asked for: the array has grown already.
\* For a size of 0 setnodevector takes dummynode, which cannot fail.
NodesFail ==
  /\ phase = "vector" /\ nhsize > 0
  /\ Idle
  /\ UNCHANGED <<tab, flags, trav, freed, map>>
\* The same when an integer key that the array now has a place for is still in a node.
Strands ==
  NodesFail /\ \E n \in DOMAIN tab.node : tab.node[n].val # Nil /\ InArray(tab, tab.node[n].key)

-----------------------------------------------------------------------------
(* Traversal *)

\* findindex: a key of an entry that the collector killed is found by its address.
FindIndex(t, k) ==
  IF k = NilKey THEN 0
  ELSE IF ArrayIndex(k) \in 1..t.sizearray THEN ArrayIndex(k)
  ELSE LET n == InChain(t, MainPosition(t, k),
                        IF k.tt = "obj" THEN {k, DeadKey(k.v)} ELSE {k}) IN
       IF n = -1 THEN -1 ELSE n + 1 + t.sizearray
\* The entry at an index of a traversal that counts from 1.
EntryAt(t, x) ==
  IF x <= t.sizearray THEN [key |-> IntKey(x), val |-> t.array[x]]
  ELSE [key |-> t.node[x - t.sizearray - 1].key, val |-> t.node[x - t.sizearray - 1].val]
Following(t, x) == {y \in (x + 1)..(t.sizearray + t.sizenode) : EntryAt(t, y).val # Nil}
\* luaH_next: a key, NilKey at the end, or an error.
Error == [tt |-> "error", v |-> 0]
luaH_next(t, k) ==
  LET x == FindIndex(t, k)
      more == Following(t, x)
  IN  IF x = -1 THEN Error
      ELSE IF more = {} THEN NilKey
      ELSE EntryAt(t, Min(more)).key

-----------------------------------------------------------------------------
(* The length *)

\* Binary search between low, which has a value, and high, which has none.
BinSearch(t, low, high) ==
  LET at[s \in Nat] ==
        IF s = 0 THEN <<low, high>>
        ELSE LET r == at[s - 1]
                 m == (r[1] + r[2]) \div 2
             IN  IF r[2] - r[1] <= 1 THEN r
                 ELSE IF GetInt(t, m) = Nil THEN <<r[1], m>> ELSE <<m, r[2]>>
  IN  at[high - low][1]
\* unbound_search: the upper end is doubled until it has no value or is too large, and
\* then a linear search starts from 1.
UnboundSearch(t, low) ==
  LET at[s \in Nat] ==
        IF s = 0 THEN <<low, low + 1>> ELSE LET high == at[s - 1][2] IN <<high, 2 * high>>
      Stop(s) == GetInt(t, at[s][2]) = Nil \/ at[s][2] > MAX_INT \div 2
      last == Min({s \in 0..(MAX_INT + 1) : Stop(s)})
  IN  IF GetInt(t, at[last][2]) = Nil THEN BinSearch(t, at[last][1], at[last][2])
      ELSE Min({n \in 0..(t.sizenode + t.sizearray) : GetInt(t, n + 1) = Nil})
\* Mutant: the element found last is not counted.
luaH_getnShort(t) ==
  IF t.sizearray > 0 /\ t.array[t.sizearray] = Nil THEN BinSearch(t, 0, t.sizearray)
  ELSE t.sizearray
luaH_getn(t) ==
  IF t.sizearray > 0 /\ t.array[t.sizearray] = Nil THEN BinSearch(t, 0, t.sizearray)
  ELSE IF IsDummy(t) THEN t.sizearray
  ELSE UnboundSearch(t, t.sizearray)

-----------------------------------------------------------------------------
(* The program *)

\* The object of a key is alive.
Alive(k) == k.tt = "obj" => k.v \notin freed

\* luaV_fastset assigns to an entry that has a value.
FastSet(k, v) ==
  /\ phase = "idle" /\ Alive(k)
  /\ luaH_get(tab, k) # Nil
  /\ tab' = Set(tab, Normal(k), v)
  /\ map' = [map EXCEPT ![Normal(k)] = v]
  /\ UNCHANGED <<flags, resize, trav, freed>>
\* luaV_finishset and lua_rawset: the entry has no value, or there is none.  The manual:
\* a traversal is undefined after an assignment to a field that was absent.
FinishSet(k, v) ==
  /\ phase = "idle" /\ Alive(k)
  /\ luaH_get(tab, k) = Nil
  /\ \/ /\ NeedsRehash(tab, Normal(k))
        /\ Rehash(Normal(k), v)
     \/ /\ ~NeedsRehash(tab, Normal(k))
        /\ tab' = Set(tab, Normal(k), v)
        /\ map' = [map EXCEPT ![Normal(k)] = v]
        /\ flags' = InvalidateTMcache(k)
        /\ trav' = NoTraversal
        /\ UNCHANGED <<resize, freed>>
\* The array part cannot be allocated.
ArrayFails(k) ==
  /\ phase = "idle" /\ Alive(k)
  /\ NeedsRehash(tab, Normal(k)) /\ ArraySize(tab, Normal(k)) > tab.sizearray
  /\ tab' = [tab EXCEPT !.lastfree = IF IsDummy(tab) THEN -1 ELSE 0]
  /\ trav' = NoTraversal
  /\ UNCHANGED <<flags, resize, freed, map>>
\* OP_SETLIST makes room in the array part (luaH_resizearray).
SetList(size) ==
  /\ phase = "idle" /\ size > tab.sizearray
  /\ Resize(tab, size, AllocSizeNode(tab), Nothing)

\* fasttm: a metamethod is looked up if it is not known to be absent.
FastTM(e) ==
  /\ phase = "idle" /\ e \notin flags
  /\ flags' = IF luaH_get(tab, ObjKey(e)) = Nil THEN flags \cup {e} ELSE flags
  /\ UNCHANGED <<tab, resize, trav, freed, map>>

\* lua_next, from the first key on.
Traverse ==
  /\ phase = "idle"
  /\ LET k == luaH_next(tab, trav.key)
     IN  /\ k # Error
         /\ trav' = IF k = NilKey THEN NoTraversal
                    ELSE [on |-> TRUE, key |-> k, seen |-> trav.seen \cup {k}]
  /\ UNCHANGED <<tab, flags, resize, freed, map>>

\* traversestrongtable and removeentry, between two instructions or when luaH_resize asks
\* for memory, for nodes or for an array that grows (it never asks for neither): the key of
\* an entry without value is killed if it is not marked yet; the object is freed unless it
\* is marked later, as are those on the stack.
Collect(o) ==
  /\ phase \in {"idle", "vector"} /\ o \notin Event
  /\ luaH_get(tab, ObjKey(o)) = Nil
  /\ tab' = LET n == Slot(tab, ObjKey(o)) IN
            IF n = -1 THEN tab ELSE [tab EXCEPT !.node[n].key = DeadKey(o)]
  /\ \/ freed' = freed
     \/ ObjKey(o) \notin {trav.key, pending.key} /\ freed' = freed \cup {o}
  /\ UNCHANGED <<flags, resize, trav, map>>
\* A new object at the address of one that was freed.
NewObject(o) ==
  /\ phase = "idle" /\ o \in freed /\ freed' = freed \ {o}
  /\ trav' = [trav EXCEPT !.seen = @ \ {ObjKey(o)}]
  /\ UNCHANGED <<tab, flags, resize, map>>

\* luaH_new
TableInit ==
  /\ tab = [sizearray |-> 0, array |-> <<>>,
            sizenode |-> 1, node |-> [n \in {0} |-> FreeNode], lastfree |-> -1]
  /\ flags = Event
  /\ phase = "idle" /\ nasize = 0 /\ nhsize = 0
  /\ slice = <<>> /\ i = 0 /\ nold = <<>> /\ j = -1 /\ pending = Nothing
  /\ trav = NoTraversal
  /\ freed = {}
  /\ map = [k \in Key |-> Nil]

luaH_resize == NewNodes \/ InsertElement \/ InsertNode \/ ResizeEnd \/ NodesFail
TableNext ==
  \/ \E k \in AnyKey, v \in Value \cup {Nil} : FastSet(k, v) \/ FinishSet(k, v)
  \/ \E k \in AnyKey : ArrayFails(k)
  \/ \E s \in ArraySizes : SetList(s)
  \/ luaH_resize
  \/ \E e \in Event : FastTM(e)
  \/ Traverse
  \/ \E o \in Object : Collect(o) \/ NewObject(o)
TableSpec == TableInit /\ [][TableNext]_tvars
\* When memory for nodes is there whenever an entry would be stranded without it.
MemoryNext == TableNext /\ ~Strands
MemorySpec == TableInit /\ [][MemoryNext]_tvars

-----------------------------------------------------------------------------
(* Properties *)

\* Types, with vectors of their sizes and offsets inside of them.
NodeOK(d) == d.val \in Value \cup {Nil} /\ d.next \in Int
TableTypes ==
  /\ tab.sizearray \in Nat /\ tab.array \in [1..tab.sizearray -> Value \cup {Nil}]
  /\ tab.sizenode \in {twoto[l] : l \in 0..MAXHBITS}
  /\ DOMAIN tab.node = 0..(tab.sizenode - 1)
  /\ \A n \in DOMAIN tab.node :
       NodeOK(tab.node[n]) /\ n + tab.node[n].next \in DOMAIN tab.node
  /\ tab.lastfree \in -1..tab.sizenode
  /\ flags \subseteq Event

\* luaH_set, which luaH_resize calls for each entry that it inserts again and luaH_newkey
\* for the new one, finds a place for it: a rehash never leads to another.
EntryFits(k) == ~NeedsRehash(tab, k)
RoomForAll ==
  phase = "insert" =>
    IF i \in DOMAIN slice THEN slice[i] # Nil => EntryFits(IntKey(i))
    ELSE IF j >= 0 THEN nold[j].val # Nil => EntryFits(nold[j].key)
    ELSE pending # Nothing => EntryFits(pending.key)

\* What a key finds is what was assigned to it last: rehashes, the moves of colliding
\* nodes, the death of keys and new objects at old addresses change nothing.
HoldsMap == phase = "idle" => \A k \in Key : luaH_get(tab, k) = map[k]

\* Manual, 2.1: "any key that is not part of a table has an associated value nil", and a
\* key that next lists is part of it.
ListedHasValue ==
  phase = "idle" =>
    \A n \in DOMAIN tab.node : tab.node[n].val # Nil => luaH_get(tab, tab.node[n].key) # Nil

\* A traversal that goes on after fields were cleared and their keys collected never
\* fails, meets no key twice and meets all that have a value.
TraversalMeetsAll ==
  LET n == luaH_next(tab, trav.key) IN
  trav.on => /\ n # Error /\ n \notin trav.seen
             /\ n = NilKey => \A k \in Key : luaH_get(tab, k) # Nil => k \in trav.seen

\* The length is a border, whatever was removed from either part.
LengthIsBorder ==
  LET n == luaH_getn(tab) IN
  phase = "idle" => (n = 0 \/ GetInt(tab, n) # Nil) /\ GetInt(tab, n + 1) = Nil

\* A metamethod known to be absent is absent.
AbsentEvents == \A e \in flags : luaH_get(tab, ObjKey(e)) = Nil

=============================================================================

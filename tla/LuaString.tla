----------------------------- MODULE LuaString -----------------------------
(***************************************************************************)
(* The table of interned strings and the cache of strings made by the API  *)
(* (lstring.c), with the collector that frees strings.                     *)
(*                                                                         *)
(* Short strings are compared by address (eqshrstr), so there may be only  *)
(* one with the same contents.  Creating one allocates memory up to two    *)
(* times, and when memory runs out an emergency collection frees strings   *)
(* in the middle of it.  A chain of the table is the set of its strings.   *)
(***************************************************************************)
EXTENDS Naturals, FiniteSets

CONSTANTS
  Addr,      \* addresses of strings
  memerrmsg, \* the address of the string that the state keeps (it is fixed)
  Content,   \* contents of strings
  NoMemory,  \* the contents of memerrmsg
  Long,      \* those longer than LUAI_MAXSHORTLEN
  Hash,      \* luaS_hash
  MINSTRTABSIZE, MAX_INT,
  STRCACHE_N, STRCACHE_M

\* Memory is finite.
ASSUME StringAssumption ==
  /\ IsFiniteSet(Addr) /\ memerrmsg \in Addr /\ NoMemory \in Content \ Long
  /\ Long \subseteq Content
  /\ Hash \in [Content -> Nat]
  /\ MINSTRTABSIZE \in Nat \ {0} /\ MAX_INT \in Nat /\ MINSTRTABSIZE <= MAX_INT
  /\ STRCACHE_N \in Nat \ {0} /\ STRCACHE_M \in Nat \ {0}

VARIABLES
  contents,  \* what the string at an address holds
  marked,    \* "white" is the current white and "dead" the other one; or "free"
  hash, size, nuse,  \* g->strt
  strcache,
  gcphase,
  held,      \* the strings that the program refers to
  pc,        \* where luaS_new or internshrstr is
  arg,       \* the contents of the string to make
  row,       \* the row of the cache that luaS_new uses, 0 in a luaS_newlstr
  list       \* the address &hash[index] in a vector of some size
vars == <<contents, marked, hash, size, nuse, strcache, gcphase, held, pc, arg, row, list>>
table == <<hash, size, nuse>>
locals == <<arg, row, list>>

TypeOK ==
  /\ contents \in [Addr -> Content]
  /\ marked \in [Addr -> {"free", "white", "dead", "black", "fixed"}]
  /\ hash \in [0..(MAX_INT - 1) -> SUBSET Addr]
  /\ size \in 1..MAX_INT /\ nuse \in 0..Cardinality(Addr)
  /\ strcache \in [1..STRCACHE_N -> [1..STRCACHE_M -> Addr]]
  /\ gcphase \in {"marking", "sweeping"}
  /\ held \subseteq Addr
  /\ pc \in {"idle", "search", "grow", "create"}
  /\ arg \in Content /\ row \in 0..STRCACHE_N
  /\ list \in [index : 0..(MAX_INT - 1), size : 1..MAX_INT]

lmod(c, n) == Hash[c] % n
Allocated == {a \in Addr : marked[a] # "free"}
Short == {a \in Allocated : contents[a] \notin Long}
Cached == {strcache[i][j] : i \in 1..STRCACHE_N, j \in 1..STRCACHE_M}
Cols == 1..STRCACHE_M

-----------------------------------------------------------------------------
(* luaS_resize *)

\* The strings of S in a table with n chains.
Placed(S, n) == [i \in DOMAIN hash |-> {a \in S : lmod(contents[a], n) = i}]
Linked == UNION {hash[i] : i \in 0..(size - 1)}
luaS_resize(newsize) == hash' = Placed(Linked, newsize) /\ size' = newsize

-----------------------------------------------------------------------------
(* Making a string *)

\* luaS_newlstr, called directly by lua_pushlstring and many others.
NewLStr(c) ==
  /\ pc = "idle"
  /\ arg' = c /\ row' = 0
  /\ pc' = IF c \in Long THEN "create" ELSE "search"
  /\ UNCHANGED <<contents, marked, table, strcache, gcphase, held, list>>

\* luaS_new: a hit in the cache is returned as it is.
CacheHit(i, j) ==
  /\ pc = "idle"
  /\ held' = held \cup {strcache[i][j]}
  /\ UNCHANGED <<contents, marked, table, strcache, gcphase, pc, locals>>
\* luaS_new without a hit: the row is moved before the string is made.
CacheMiss(i, c) ==
  /\ pc = "idle"
  /\ \A j \in Cols : contents[strcache[i][j]] # c
  /\ strcache' = [strcache EXCEPT ![i] = [j \in Cols |-> IF j = 1 THEN @[1] ELSE @[j - 1]]]
  /\ arg' = c /\ row' = i
  /\ pc' = IF c \in Long THEN "create" ELSE "search"
  /\ UNCHANGED <<contents, marked, table, gcphase, held, list>>

Here == [index |-> lmod(arg, size), size |-> size]
Nowhere == [index |-> 0, size |-> 1]
End == pc' = "idle" /\ arg' = NoMemory /\ row' = 0 /\ list' = Nowhere
\* The string is returned to the program; luaS_new keeps it in the cache.
Return(a) ==
  /\ held' = held \cup {a}
  /\ strcache' = IF row = 0 THEN strcache ELSE [strcache EXCEPT ![row][1] = a]
  /\ End

Full == nuse >= size /\ size <= MAX_INT \div 2

TakeBack(a) == [marked EXCEPT ![a] = IF @ = "dead" THEN "white" ELSE @]
\* Mutant: the strings that wait to be freed are passed over.
SearchLiving ==
  /\ pc = "search"
  /\ LET found == {a \in hash[lmod(arg, size)] : contents[a] = arg /\ marked[a] # "dead"} IN
     \/ \E a \in found : Return(a) /\ marked' = TakeBack(a)
     \/ /\ found = {}
        /\ pc' = (IF Full THEN "grow" ELSE "create") /\ list' = Here
        /\ UNCHANGED <<marked, held, strcache, arg, row>>
  /\ UNCHANGED <<contents, table, gcphase>>
\* internshrstr: search the chain; a string that waits to be freed is taken back.
\* A table that is full has to grow before a new string is made.
Search ==
  /\ pc = "search"
  /\ LET found == {a \in hash[lmod(arg, size)] : contents[a] = arg} IN
     \/ \E a \in found : Return(a) /\ marked' = TakeBack(a)
     \/ /\ found = {}
        /\ pc' = (IF Full THEN "grow" ELSE "create") /\ list' = Here
        /\ UNCHANGED <<marked, held, strcache, arg, row>>
  /\ UNCHANGED <<contents, table, gcphase>>

\* The table grows, and the pointer to the chain is computed again.
Grow ==
  /\ pc = "grow"
  /\ luaS_resize(size * 2)
  /\ list' = [index |-> lmod(arg, size * 2), size |-> size * 2]
  /\ pc' = "create"
  /\ UNCHANGED <<contents, marked, nuse, strcache, gcphase, held, arg, row>>

\* createstrobj; a long string is ready then.
Create(a) ==
  /\ pc = "create" /\ marked[a] = "free"
  /\ marked' = [marked EXCEPT ![a] = "white"]
  /\ contents' = [contents EXCEPT ![a] = arg]
  /\ IF arg \in Long
     THEN UNCHANGED <<hash, nuse>>
     ELSE \* internshrstr links it: no memory is allocated in between
          /\ hash' = [hash EXCEPT ![list.index] = @ \cup {a}]
          /\ nuse' = nuse + 1
  /\ Return(a)
  /\ UNCHANGED <<size, gcphase>>

\* A failed allocation, when a collection did not help either: luaD_throw.
MemoryError ==
  /\ pc \in {"grow", "create"}
  /\ End
  /\ UNCHANGED <<contents, marked, table, strcache, gcphase, held>>

\* The program forgets a string.
Drop(a) ==
  /\ pc = "idle" /\ a \in held
  /\ held' = held \ {a}
  /\ UNCHANGED <<contents, marked, table, strcache, gcphase, pc, locals>>

-----------------------------------------------------------------------------
(* The collector *)

\* Mutant: the cache is left alone.
luaS_clearcacheNot(dead) == UNCHANGED strcache
\* luaS_clearcache: strings about to be collected leave the cache.
luaS_clearcache(dead) ==
  strcache' = [i \in 1..STRCACHE_N |-> [j \in Cols |->
                 IF strcache[i][j] \in dead THEN memerrmsg ELSE strcache[i][j]]]

\* The atomic phase has marked the strings of S: the others are dead.
Atomic(S) ==
  /\ pc = "idle" /\ gcphase = "marking" /\ held \subseteq S \cup {memerrmsg}
  /\ LET dead == {a \in Addr : marked[a] = "white"} \ S IN
     /\ luaS_clearcache(dead)
     /\ marked' = [a \in Addr |-> IF a \in dead THEN "dead"
                                  ELSE IF marked[a] = "white" THEN "black" ELSE marked[a]]
  /\ gcphase' = "sweeping"
  /\ UNCHANGED <<contents, table, held, pc, locals>>

luaS_remove(a) ==
  /\ hash' = [hash EXCEPT ![lmod(contents[a], size)] = @ \ {a}]
  /\ nuse' = nuse - 1
\* sweeplist, with freeobj and luaS_remove for a dead string.
SweepString(a) ==
  /\ pc = "idle" /\ gcphase = "sweeping"
  /\ \/ /\ marked[a] = "dead"
        /\ marked' = [marked EXCEPT ![a] = "free"]
        /\ IF a \in Short THEN luaS_remove(a)
                          ELSE UNCHANGED <<hash, nuse>>
     \/ /\ marked[a] = "black"
        /\ marked' = [marked EXCEPT ![a] = "white"]
        /\ UNCHANGED <<hash, nuse>>
  /\ UNCHANGED <<contents, size, strcache, gcphase, held, pc, locals>>

\* checkSizes: a table less than a quarter full is halved.
checkSizes == IF nuse < size \div 4 THEN luaS_resize(size \div 2) ELSE UNCHANGED <<hash, size>>
SweepEnd ==
  /\ pc = "idle" /\ gcphase = "sweeping"
  /\ \A a \in Addr : marked[a] \notin {"dead", "black"}
  /\ checkSizes
  /\ gcphase' = "marking"
  /\ UNCHANGED <<contents, marked, nuse, strcache, held, pc, locals>>

\* checkSizes does nothing in an emergency, however few strings (n) are left.
EmergencySize(n) == size
\* luaC_fullgc from luaM_realloc_: what is being swept is swept to the end, and a new
\* cycle that marks S frees all the rest.
Emergency(S) ==
  /\ pc \in {"grow", "create"}
  /\ S \subseteq {a \in Addr : marked[a] \in {"white", "black"}}
  /\ held \subseteq S \cup {memerrmsg}
  /\ LET dead == {a \in Addr : marked[a] \in {"white", "black", "dead"}} \ S IN
     /\ luaS_clearcache(dead)
     /\ marked' = [a \in Addr |-> IF a \in dead THEN "free"
                                  ELSE IF a \in S THEN "white" ELSE marked[a]]
     /\ nuse' = nuse - Cardinality(dead \cap Short)
     /\ size' = EmergencySize(nuse')
     /\ hash' = Placed(Linked \ dead, size')
  /\ gcphase' = "marking"
  /\ UNCHANGED <<contents, held, pc, locals>>

-----------------------------------------------------------------------------
(* The specification *)

\* luaS_init
Init ==
  /\ contents = [a \in Addr |-> NoMemory]
  /\ marked = [a \in Addr |-> IF a = memerrmsg THEN "fixed" ELSE "free"]
  /\ size = MINSTRTABSIZE /\ nuse = 1
  /\ hash = [i \in 0..(MAX_INT - 1) |-> IF i = lmod(NoMemory, size) THEN {memerrmsg} ELSE {}]
  /\ strcache = [i \in 1..STRCACHE_N |-> [j \in Cols |-> memerrmsg]]
  /\ gcphase = "marking" /\ held = {}
  /\ pc = "idle" /\ arg = NoMemory /\ row = 0 /\ list = Nowhere

Program ==
  \/ \E c \in Content : NewLStr(c) \/ (\E i \in 1..STRCACHE_N : CacheMiss(i, c))
  \/ \E i \in 1..STRCACHE_N, j \in Cols : CacheHit(i, j)
  \/ Search \/ Grow \/ (\E a \in Addr : Create(a) \/ Drop(a)) \/ MemoryError
Collector ==
  \/ \E S \in SUBSET Addr : Atomic(S) \/ Emergency(S)
  \/ (\E a \in Addr : SweepString(a)) \/ SweepEnd
Next == Program \/ Collector
Spec == Init /\ [][Next]_vars

-----------------------------------------------------------------------------
(* Properties *)

\* There is only one short string with the same contents, so that eqshrstr may compare
\* addresses, even while dead strings wait to be freed (internshrstr).
Interned == \A a, b \in Short : contents[a] = contents[b] => a = b

\* Each short string is in the chain where it is looked for, and the number of
\* strings is right, whatever was resized, collected or failed in between: a string
\* that luaS_remove does not find makes it run off the end of the chain.
InTable ==
  /\ \A i \in DOMAIN hash : hash[i] = {a \in Short : lmod(contents[a], size) = i}
  /\ nuse = Cardinality(Short)

\* The pointer to the chain that internshrstr has computed points into the table as
\* it is when the new string is linked, though memory was allocated in between.
ListValid == pc = "create" /\ arg \notin Long => list = Here

\* What luaS_new may return from the cache, and what the program has got, is neither
\* freed nor about to be (luaS_clearcache, changewhite in internshrstr).
HeldLive == \A a \in held \cup Cached : marked[a] \notin {"free", "dead"}

\* The table is sound, with dead strings in it and with memory running out in the middle
\* of an insertion: one string for the same contents, each in the chain where it is looked
\* for, and the chain that internshrstr has found is one of the table (luaS_resize).
TableSound == TypeOK /\ Interned /\ InTable /\ ListValid

=============================================================================

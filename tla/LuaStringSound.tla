--------------------------- MODULE LuaStringSound ---------------------------
(***************************************************************************)
(* Proofs about LuaString, for any number of strings, contents, chains and *)
(* rows of the cache, and for any hash function: the table of strings is   *)
(* sound and what the program holds is alive.                              *)
(***************************************************************************)
EXTENDS LuaString, FiniteSetTheorems, TLAPS

(***************************************************************************)
(* The inductive invariant.  Interned does not imply itself: that Create   *)
(* makes no second string with the same contents needs that the search has *)
(* found none and that only collections came after it.                     *)
(***************************************************************************)
\* Only the string that the state keeps is fixed.
FixedKept ==
  /\ contents[memerrmsg] = NoMemory /\ marked[memerrmsg] = "fixed"
  /\ \A a \in Addr : marked[a] = "fixed" => a = memerrmsg
\* What the steps of an insertion have found out.
Found ==
  /\ pc \in {"search", "grow"} => arg \notin Long
  /\ pc \in {"grow", "create"} /\ arg \notin Long => \A a \in Short : contents[a] # arg
  /\ pc = "grow" => size <= MAX_INT \div 2
SInv == TypeOK /\ Interned /\ InTable /\ ListValid /\ HeldLive /\ FixedKept /\ Found

(***************************************************************************)
(* Arithmetic and counting                                                 *)
(***************************************************************************)
\* A hash modulo a size is a chain of a table of that size.
LEMMA ChainInRange ==
  ASSUME NEW c \in Content, NEW n \in Nat \ {0}
  PROVE  lmod(c, n) \in 0..(n - 1)
<1>1. Hash[c] \in Nat BY StringAssumption
<1> QED BY <1>1 DEF lmod

\* Doubling and halving stay in the range of sizes.
LEMMA Sizes ==
  ASSUME NEW n \in 1..MAX_INT
  PROVE  /\ n <= MAX_INT \div 2 => n * 2 \in 1..MAX_INT
         /\ \A k \in Nat : k < n \div 4 => n \div 2 \in 1..MAX_INT
<1>1. MAX_INT \in Nat BY StringAssumption
<1> QED BY <1>1

\* Sets of strings are finite.
LEMMA Counts ==
  ASSUME NEW S, S \subseteq Addr
  PROVE  IsFiniteSet(S) /\ Cardinality(S) \in 0..Cardinality(Addr)
<1>1. IsFiniteSet(Addr) BY StringAssumption
<1>2. IsFiniteSet(S) /\ Cardinality(S) <= Cardinality(Addr) BY <1>1, FS_Subset
<1>3. Cardinality(S) \in Nat /\ Cardinality(Addr) \in Nat BY <1>1, <1>2, FS_CardinalityType
<1> QED BY <1>2, <1>3

\* The chains up to size hold exactly the short strings.
LEMMA LinkedShort ==
  ASSUME TypeOK, InTable
  PROVE  Linked = Short
<1>1. ASSUME NEW a \in Short PROVE a \in Linked
  <2>1. contents[a] \in Content /\ size \in Nat \ {0} BY DEF TypeOK, Short, Allocated
  <2>2. lmod(contents[a], size) \in 0..(size - 1) BY <2>1, ChainInRange
  <2>3. 0..(size - 1) \subseteq DOMAIN hash BY StringAssumption DEF TypeOK
  <2> QED BY <2>2, <2>3 DEF Linked, InTable
<1>2. ASSUME NEW a \in Linked PROVE a \in Short
  <2>1. 0..(size - 1) \subseteq DOMAIN hash BY StringAssumption DEF TypeOK
  <2> QED BY <1>2, <2>1 DEF Linked, InTable
<1> QED BY <1>1, <1>2

\* A table that is built again from the strings S holds them where they are looked for.
LEMMA PlacedRight ==
  ASSUME TypeOK, NEW S \in SUBSET Addr, NEW n \in 1..MAX_INT
  PROVE  /\ Placed(S, n) \in [0..(MAX_INT - 1) -> SUBSET Addr]
         /\ \A i \in 0..(MAX_INT - 1) :
              Placed(S, n)[i] = {a \in S : lmod(contents[a], n) = i}
<1>1. DOMAIN hash = 0..(MAX_INT - 1) BY DEF TypeOK
<1> QED BY <1>1 DEF Placed

(***************************************************************************)
(* What most steps leave alone                                             *)
(***************************************************************************)
\* Colours may change as long as no string is freed or made.
LEMMA SameStrings ==
  ASSUME Interned, InTable, ListValid, UNCHANGED <<contents, table>>, Short' = Short
  PROVE  Interned' /\ InTable' /\ (UNCHANGED <<arg, list>> /\ (pc' = "create" => pc = "create") => ListValid')
<1>1. Interned' BY DEF Interned
<1>2. InTable' BY DEF InTable, lmod, table
<1>3. ASSUME UNCHANGED <<arg, list>>, pc' = "create" => pc = "create" PROVE ListValid'
  BY <1>3 DEF ListValid, Here, lmod, table
<1> QED BY <1>1, <1>2, <1>3

\* The cache and the set of short strings change only with what they are made of.
LEMMA CacheStill == ASSUME UNCHANGED strcache PROVE Cached' = Cached
BY DEF Cached, Cols

\* What a cache holds, whose entries are some of the former ones or members of S.
LEMMA CacheOf ==
  ASSUME NEW S,
         \A i \in 1..STRCACHE_N, j \in 1..STRCACHE_M : strcache'[i][j] \in S \cup Cached
  PROVE  Cached' \subseteq S \cup Cached
<1>1. ASSUME NEW a \in Cached' PROVE a \in S \cup Cached
  <2>1. PICK i \in 1..STRCACHE_N, j \in 1..STRCACHE_M : a = strcache'[i][j] BY DEF Cached
  <2> QED BY <2>1
<1> QED BY <1>1

LEMMA CachedAddr == ASSUME TypeOK PROVE Cached \subseteq Addr
<1>1. ASSUME NEW a \in Cached PROVE a \in Addr
  <2>1. PICK i \in 1..STRCACHE_N, j \in 1..STRCACHE_M : a = strcache[i][j] BY DEF Cached
  <2>2. strcache \in [1..STRCACHE_N -> [1..STRCACHE_M -> Addr]] BY DEF TypeOK
  <2>3. strcache[i] \in [1..STRCACHE_M -> Addr] BY <2>2
  <2> QED BY <2>1, <2>3
<1> QED BY <1>1

LEMMA ShortStill == ASSUME UNCHANGED <<contents, marked>> PROVE Short' = Short
BY DEF Short, Allocated

(***************************************************************************)
(* The steps of the program                                                *)
(***************************************************************************)
LEMMA InitSound == Init => SInv
<1> SUFFICES ASSUME Init PROVE SInv OBVIOUS
<1> USE StringAssumption
<1>1. Short = {memerrmsg} BY DEF Init, Short, Allocated
<1>2. nuse = Cardinality(Short) /\ nuse \in 0..Cardinality(Addr)
  <2>1. Cardinality(Short) = 1 BY <1>1, FS_Singleton
  <2>2. {memerrmsg} \subseteq Addr OBVIOUS
  <2>3. Cardinality(Short) \in 0..Cardinality(Addr) BY <1>1, <2>2, Counts
  <2> QED BY <2>1, <2>3 DEF Init
<1>3. lmod(NoMemory, size) \in 0..(size - 1) BY ChainInRange DEF Init
<1>4. TypeOK
  <2>1. strcache \in [1..STRCACHE_N -> [1..STRCACHE_M -> Addr]] BY DEF Init, Cols
  <2>2. hash \in [0..(MAX_INT - 1) -> SUBSET Addr] BY DEF Init
  <2>3. list \in [index : 0..(MAX_INT - 1), size : 1..MAX_INT] BY DEF Init, Nowhere
  <2>4. contents \in [Addr -> Content] /\ marked \in [Addr -> {"free", "white", "dead", "black", "fixed"}]
    BY DEF Init
  <2>5. size \in 1..MAX_INT /\ row \in 0..STRCACHE_N BY DEF Init
  <2>6. gcphase = "marking" /\ held = {} /\ pc = "idle" /\ arg \in Content BY DEF Init
  <2> QED BY <1>2, <2>1, <2>2, <2>3, <2>4, <2>5, <2>6 DEF TypeOK
<1>5. InTable BY <1>1, <1>2 DEF Init, InTable
<1>6. Interned BY <1>1 DEF Interned
<1>7. Cached = {memerrmsg} BY DEF Init, Cached, Cols
<1>8. HeldLive BY <1>7 DEF Init, HeldLive
<1>9. ListValid /\ FixedKept /\ Found BY DEF Init, ListValid, FixedKept, Found
<1> QED BY <1>4, <1>5, <1>6, <1>8, <1>9 DEF SInv

LEMMA NewLStrSound == ASSUME SInv, NEW c \in Content, NewLStr(c) PROVE SInv'
<1> USE StringAssumption DEF SInv
<1>1. Short' = Short /\ Cached' = Cached BY ShortStill, CacheStill DEF NewLStr
<1>2. TypeOK' BY DEF TypeOK, NewLStr, table
<1>3. Interned' /\ InTable' BY <1>1, SameStrings DEF NewLStr
<1>4. ListValid' /\ Found' BY DEF NewLStr, ListValid, Found
<1>5. HeldLive' BY <1>1 DEF HeldLive, NewLStr
<1>6. FixedKept' BY DEF FixedKept, NewLStr
<1> QED BY <1>2, <1>3, <1>4, <1>5, <1>6

LEMMA CacheHitSound ==
  ASSUME SInv, NEW i \in 1..STRCACHE_N, NEW j \in Cols, CacheHit(i, j) PROVE SInv'
<1> USE StringAssumption DEF SInv
<1>1. Short' = Short /\ Cached' = Cached BY ShortStill, CacheStill DEF CacheHit
<1>2. strcache[i][j] \in Cached /\ strcache[i][j] \in Addr BY DEF Cached, TypeOK, Cols
<1>3. TypeOK' BY <1>2 DEF TypeOK, CacheHit, table, locals
<1>4. Interned' /\ InTable' /\ ListValid' BY <1>1, SameStrings DEF CacheHit, locals
<1>5. HeldLive' BY <1>1, <1>2 DEF HeldLive, CacheHit
<1>6. FixedKept' /\ Found' BY <1>1 DEF FixedKept, Found, CacheHit, table, locals
<1> QED BY <1>3, <1>4, <1>5, <1>6

\* Shifting a row of the cache adds no string to it.
LEMMA CacheMissSound ==
  ASSUME SInv, NEW i \in 1..STRCACHE_N, NEW c \in Content, CacheMiss(i, c) PROVE SInv'
<1> USE StringAssumption DEF SInv
<1>1. Short' = Short BY ShortStill DEF CacheMiss
<1>2. strcache' \in [1..STRCACHE_N -> [Cols -> Addr]] /\ Cached' \subseteq Cached
  <2> DEFINE row2 == [j \in Cols |-> IF j = 1 THEN strcache[i][1] ELSE strcache[i][j - 1]]
  <2>1. strcache' = [strcache EXCEPT ![i] = row2] BY DEF CacheMiss
  <2>2. strcache \in [1..STRCACHE_N -> [Cols -> Addr]] BY DEF TypeOK, Cols
  <2>3. \A j \in Cols : \E k \in Cols : row2[j] = strcache[i][k] BY DEF Cols
  <2>4. row2 \in [Cols -> Addr] BY <2>2 DEF Cols
  <2> HIDE DEF row2
  <2>5. strcache' \in [1..STRCACHE_N -> [Cols -> Addr]] BY <2>1, <2>2, <2>4
  <2>6. \A k \in 1..STRCACHE_N, j \in Cols : \E l \in Cols : strcache'[k][j] = strcache[k][l]
    BY <2>1, <2>2, <2>3
  <2>7. \A k \in 1..STRCACHE_N, l \in Cols : strcache[k][l] \in Cached BY DEF Cached, Cols
  <2>8. \A k \in 1..STRCACHE_N, j \in 1..STRCACHE_M : strcache'[k][j] \in {} \cup Cached
    <3> SUFFICES ASSUME NEW k \in 1..STRCACHE_N, NEW j \in Cols PROVE strcache'[k][j] \in Cached
      BY DEF Cols
    <3>1. PICK l \in Cols : strcache'[k][j] = strcache[k][l] BY <2>6
    <3> QED BY <2>7, <3>1
  <2> QED BY <2>5, <2>8, CacheOf
<1>3. TypeOK'
  <2>1. pc' \in {"idle", "search", "grow", "create"} /\ arg' \in Content /\ row' \in 0..STRCACHE_N
    BY DEF CacheMiss
  <2>2. UNCHANGED <<contents, marked, hash, size, nuse, gcphase, held, list>>
    BY DEF CacheMiss, table
  <2> QED BY <1>2, <2>1, <2>2 DEF TypeOK, Cols
<1>4. Interned' /\ InTable' BY <1>1, SameStrings DEF CacheMiss
<1>5. ListValid' /\ Found' BY DEF CacheMiss, ListValid, Found
<1>6. HeldLive' BY <1>2 DEF HeldLive, CacheMiss
<1>7. FixedKept' BY DEF FixedKept, CacheMiss
<1> QED BY <1>3, <1>4, <1>5, <1>6, <1>7

\* What Return does to the cache and to what is held.
LEMMA ReturnHeld ==
  ASSUME TypeOK, NEW a \in Addr, Return(a)
  PROVE  /\ held' \subseteq Addr /\ held' = held \cup {a}
         /\ strcache' \in [1..STRCACHE_N -> [1..STRCACHE_M -> Addr]]
         /\ Cached' \subseteq Cached \cup {a}
         /\ pc' = "idle" /\ arg' \in Content /\ row' \in 0..STRCACHE_N
         /\ list' \in [index : 0..(MAX_INT - 1), size : 1..MAX_INT]
<1> USE StringAssumption
<1>1. pc' = "idle" /\ arg' \in Content /\ row' \in 0..STRCACHE_N
      /\ list' \in [index : 0..(MAX_INT - 1), size : 1..MAX_INT]
  BY DEF Return, End, Nowhere
<1>2. held' \subseteq Addr /\ held' = held \cup {a} BY DEF Return, TypeOK
<1>3. CASE row = 0 BY <1>1, <1>2, <1>3, CacheStill DEF Return, TypeOK
<1>4. CASE row # 0
  <2>1. row \in 1..STRCACHE_N BY <1>4 DEF TypeOK
  <2>2. strcache' = [strcache EXCEPT ![row][1] = a] BY <1>4 DEF Return
  <2>3. strcache' \in [1..STRCACHE_N -> [1..STRCACHE_M -> Addr]] BY <2>1, <2>2 DEF TypeOK
  <2>4. \A i \in 1..STRCACHE_N, j \in 1..STRCACHE_M : strcache'[i][j] \in {a, strcache[i][j]}
    BY <2>1, <2>2 DEF TypeOK
  <2>5. \A i \in 1..STRCACHE_N, j \in 1..STRCACHE_M : strcache'[i][j] \in {a} \cup Cached
    BY <2>4 DEF Cached
  <2> QED BY <1>1, <1>2, <2>3, <2>5, CacheOf
<1> QED BY <1>3, <1>4

\* A string that is found is taken back before it is returned; the rest stays.
LEMMA SearchSound == ASSUME SInv, Search PROVE SInv'
<1> USE StringAssumption DEF SInv
<1> DEFINE chain == hash[lmod(arg, size)]
           found == {a \in chain : contents[a] = arg}
<1>1. lmod(arg, size) \in DOMAIN hash
  <2>1. arg \in Content /\ size \in Nat \ {0} /\ size <= MAX_INT BY DEF TypeOK
  <2>2. lmod(arg, size) \in 0..(size - 1) BY <2>1, ChainInRange
  <2>3. DOMAIN hash = 0..(MAX_INT - 1) BY DEF TypeOK
  <2> QED BY <2>1, <2>2, <2>3
<1>2. ASSUME NEW a \in found, Return(a), marked' = TakeBack(a), UNCHANGED <<contents, table, gcphase>>
      PROVE  SInv'
  <2>1. a \in Short /\ a \in Addr BY <1>1 DEF InTable, Short, Allocated
  <2>2. /\ marked' \in [Addr -> {"free", "white", "dead", "black", "fixed"}]
        /\ \A b \in Addr : \/ marked'[b] = marked[b]
                           \/ marked[b] = "dead" /\ marked'[b] = "white"
        /\ marked'[a] \notin {"free", "dead"}
    <3>1. marked \in [Addr -> {"free", "white", "dead", "black", "fixed"}] BY DEF TypeOK
    <3>2. marked' = [marked EXCEPT ![a] = IF marked[a] = "dead" THEN "white" ELSE marked[a]]
      BY <1>2 DEF TakeBack
    <3>3. marked[a] # "free" BY <2>1 DEF Short, Allocated
    <3>4. a \in Addr BY <2>1
    <3> HIDE DEF found
    <3>5. marked' \in [Addr -> {"free", "white", "dead", "black", "fixed"}] BY <3>1, <3>2, <3>4
    <3>6. \A b \in Addr : b # a => marked'[b] = marked[b] BY <3>1, <3>2, <3>4
    <3>7. marked'[a] = IF marked[a] = "dead" THEN "white" ELSE marked[a] BY <3>1, <3>2, <3>4
    <3>8. marked[a] \in {"free", "white", "dead", "black", "fixed"} BY <3>1, <3>4
    <3>9. marked'[a] \notin {"free", "dead"} BY <3>3, <3>7, <3>8
    <3>10. marked'[a] = marked[a] \/ (marked[a] = "dead" /\ marked'[a] = "white") BY <3>7
    <3> QED BY <3>5, <3>6, <3>9, <3>10
  <2>3. Short' = Short
    <3>1. contents' = contents BY <1>2
    <3> QED BY <2>2, <3>1 DEF Short, Allocated
  <2>4. pc' = "idle" /\ held' = held \cup {a} /\ Cached' \subseteq Cached \cup {a}
    BY <1>2, <2>1, ReturnHeld
  <2>5. TypeOK' BY <1>2, <2>1, <2>2, ReturnHeld DEF TypeOK, table
  <2>6. Interned' /\ InTable' BY <1>2, <2>3, SameStrings
  <2>7. ListValid' /\ Found' BY <2>4 DEF ListValid, Found
  <2>8. held \cup Cached \subseteq Addr BY CachedAddr DEF TypeOK
  <2>9. HeldLive'
    <3> SUFFICES ASSUME NEW b \in (held \cup Cached)' PROVE marked'[b] \notin {"free", "dead"}
      BY DEF HeldLive
    <3>1. b = a \/ b \in held \cup Cached BY <2>4
    <3> QED BY <2>2, <2>8, <3>1 DEF HeldLive
  <2>10. FixedKept'
    <3>1. contents' = contents BY <1>2
    <3>2. memerrmsg \in Addr OBVIOUS
    <3> QED BY <2>2, <3>1, <3>2 DEF FixedKept
  <2> QED BY <2>5, <2>6, <2>7, <2>9, <2>10
<1>3. ASSUME pc = "search", found = {}, pc' = (IF Full THEN "grow" ELSE "create"), list' = Here,
             UNCHANGED <<marked, held, strcache, arg, row, contents, table, gcphase>>
      PROVE  SInv'
  <2>1. Short' = Short /\ Cached' = Cached BY <1>3, ShortStill, CacheStill
  <2>2. Here \in [index : 0..(MAX_INT - 1), size : 1..MAX_INT] BY <1>1 DEF Here, TypeOK
  <2>3. TypeOK' BY <1>3, <2>2 DEF TypeOK, table
  <2>4. Interned' /\ InTable' BY <1>3, <2>1, SameStrings
  <2>5. ListValid' BY <1>3 DEF ListValid, Here, lmod, table
  <2>6. \A a \in Short : contents[a] # arg BY <1>1, <1>3 DEF InTable
  <2>7. Found' BY <1>3, <2>1, <2>6 DEF Found, Full, table
  <2>8. HeldLive' /\ FixedKept' BY <1>3, <2>1 DEF HeldLive, FixedKept
  <2> QED BY <2>3, <2>4, <2>5, <2>7, <2>8
<1> QED BY <1>2, <1>3 DEF Search

\* The strings are linked again, and the chain is found again.
LEMMA GrowSound == ASSUME SInv, Grow PROVE SInv'
<1> USE StringAssumption DEF SInv
<1>1. size * 2 \in 1..MAX_INT BY Sizes DEF TypeOK, Found, Grow
<1>2. Short' = Short /\ Cached' = Cached BY ShortStill, CacheStill DEF Grow
<1>3. hash' = Placed(Short, size * 2) /\ size' = size * 2 BY LinkedShort DEF Grow, luaS_resize
<1>4. Short \in SUBSET Addr BY DEF Short, Allocated
<1>5. lmod(arg, size * 2) \in 0..(MAX_INT - 1)
  <2>1. arg \in Content /\ size * 2 \in Nat \ {0} /\ size * 2 <= MAX_INT BY <1>1 DEF TypeOK
  <2>2. lmod(arg, size * 2) \in 0..(size * 2 - 1) BY <2>1, ChainInRange
  <2> QED BY <2>1, <2>2
<1>6. TypeOK'
  <2>1. hash' \in [0..(MAX_INT - 1) -> SUBSET Addr] BY <1>1, <1>3, <1>4, PlacedRight
  <2>2. list' \in [index : 0..(MAX_INT - 1), size : 1..MAX_INT] BY <1>1, <1>5 DEF Grow
  <2> QED BY <1>1, <1>3, <2>1, <2>2 DEF TypeOK, Grow
<1>7. InTable'
  <2>1. DOMAIN hash' = 0..(MAX_INT - 1) BY <1>6 DEF TypeOK
  <2>2. \A i \in 0..(MAX_INT - 1) : hash'[i] = {a \in Short : lmod(contents[a], size * 2) = i}
    <3> DEFINE n == size * 2
    <3>1. n \in 1..MAX_INT /\ hash' = Placed(Short, n) BY <1>1, <1>3
    <3> HIDE DEF n
    <3>2. \A i \in 0..(MAX_INT - 1) : Placed(Short, n)[i] = {a \in Short : lmod(contents[a], n) = i}
      <4>1. TypeOK OBVIOUS
      <4> QED BY <1>4, <3>1, <4>1, PlacedRight
    <3> QED BY <3>1, <3>2 DEF n
  <2> QED BY <1>2, <1>3, <2>1, <2>2 DEF InTable, Grow, lmod
<1>8. Interned' BY <1>2 DEF Interned, Grow
<1>9. ListValid' BY <1>3 DEF ListValid, Here, Grow, lmod
<1>10. Found' BY <1>2 DEF Found, Grow
<1>11. HeldLive' /\ FixedKept' BY <1>2 DEF HeldLive, FixedKept, Grow
<1> QED BY <1>6, <1>7, <1>8, <1>9, <1>10, <1>11

\* A new string has no equal, since the search has found none and only collections
\* came after it; the chain where it is linked is one of the table.
LEMMA CreateSound == ASSUME SInv, NEW a \in Addr, Create(a) PROVE SInv'
<1> USE StringAssumption DEF SInv
<1>1. /\ held' \subseteq Addr /\ held' = held \cup {a}
      /\ strcache' \in [1..STRCACHE_N -> [1..STRCACHE_M -> Addr]]
      /\ Cached' \subseteq Cached \cup {a}
      /\ pc' = "idle" /\ arg' \in Content /\ row' \in 0..STRCACHE_N
      /\ list' \in [index : 0..(MAX_INT - 1), size : 1..MAX_INT]
  <2>1. TypeOK /\ Return(a) BY DEF Create
  <2> QED BY <2>1, ReturnHeld
<1>2. /\ pc = "create" /\ marked[a] = "free" /\ arg \in Content
      /\ size' = size /\ gcphase' = gcphase
  BY DEF Create, TypeOK
<1>3. /\ contents' \in [Addr -> Content] /\ contents'[a] = arg
      /\ \A b \in Addr : b # a => contents'[b] = contents[b]
  <2>1. contents' = [contents EXCEPT ![a] = arg] /\ contents \in [Addr -> Content] BY DEF Create, TypeOK
  <2> QED BY <1>2, <2>1
<1>4. /\ marked' \in [Addr -> {"free", "white", "dead", "black", "fixed"}] /\ marked'[a] = "white"
      /\ \A b \in Addr : b # a => marked'[b] = marked[b]
  <2>1. /\ marked' = [marked EXCEPT ![a] = "white"]
        /\ marked \in [Addr -> {"free", "white", "dead", "black", "fixed"}]
    BY DEF Create, TypeOK
  <2> QED BY <2>1
<1>5. a \notin Short BY <1>2 DEF Short, Allocated
<1>6. Short' = IF arg \in Long THEN Short ELSE Short \cup {a}
  BY <1>2, <1>3, <1>4 DEF Short, Allocated
<1>7. Interned'
  <2>1. Short \subseteq Addr BY DEF Short, Allocated
  <2>2. arg \notin Long => \A b \in Short : contents[b] # arg BY <1>2 DEF Found
  <2> QED BY <1>3, <1>5, <1>6, <2>1, <2>2 DEF Interned
<1>8. hash' \in [0..(MAX_INT - 1) -> SUBSET Addr] /\ InTable' /\ nuse' \in 0..Cardinality(Addr)
  <2>1. Short' \subseteq Addr BY <1>4 DEF Short, Allocated
  <2>2. \A b \in Short : b \in Addr /\ contents'[b] = contents[b] BY <1>3, <1>5 DEF Short, Allocated
  <2>3. CASE arg \in Long
    <3>1. hash' = hash /\ nuse' = nuse BY <2>3 DEF Create
    <3>2. Short' = Short BY <1>6, <2>3
    <3>3. \A b \in Short : lmod(contents'[b], size) = lmod(contents[b], size) BY <2>2
    <3>4. ASSUME NEW i \in DOMAIN hash' PROVE hash'[i] = {b \in Short' : lmod(contents'[b], size) = i}
      BY <3>1, <3>2, <3>3 DEF InTable
    <3>5. nuse' = Cardinality(Short') BY <3>1, <3>2 DEF InTable
    <3> QED BY <1>2, <3>1, <3>4, <3>5 DEF InTable, TypeOK, lmod
  <2>4. CASE arg \notin Long
    <3> DEFINE k == lmod(arg, size)
    <3>1. k \in 0..(MAX_INT - 1)
      <4>1. size \in Nat \ {0} /\ size <= MAX_INT BY DEF TypeOK
      <4>2. lmod(arg, size) \in 0..(size - 1) BY <1>2, <4>1, ChainInRange
      <4> QED BY <4>1, <4>2
    <3>2. hash' = [hash EXCEPT ![k] = hash[k] \cup {a}] /\ nuse' = nuse + 1
      BY <1>2, <2>4 DEF Create, ListValid, Here
    <3> HIDE DEF k
    <3>3. hash \in [0..(MAX_INT - 1) -> SUBSET Addr] BY DEF TypeOK
    <3>4. /\ hash' \in [0..(MAX_INT - 1) -> SUBSET Addr] /\ hash'[k] = hash[k] \cup {a}
          /\ \A i \in 0..(MAX_INT - 1) : i # k => hash'[i] = hash[i]
      BY <3>1, <3>2, <3>3
    <3>5. Short' = Short \cup {a} BY <1>6, <2>4
    <3>6. ASSUME NEW i \in DOMAIN hash'
          PROVE  hash'[i] = {b \in Short' : lmod(contents'[b], size) = i}
      <4>1. i \in DOMAIN hash /\ i \in 0..(MAX_INT - 1) BY <3>3, <3>4
      <4>2. hash[i] = {b \in Short : lmod(contents[b], size) = i} BY <4>1 DEF InTable
      <4>3. \A b \in Short : lmod(contents'[b], size) = lmod(contents[b], size) BY <2>2
      <4>4. lmod(contents'[a], size) = k BY <1>3 DEF k
      <4>5. CASE i = k BY <3>4, <3>5, <4>2, <4>3, <4>4, <4>5
      <4>6. CASE i # k BY <3>4, <3>5, <4>1, <4>2, <4>3, <4>4, <4>6
      <4> QED BY <4>5, <4>6
    <3>7. nuse' = Cardinality(Short')
      <4>1. IsFiniteSet(Short) /\ nuse = Cardinality(Short) BY Counts DEF InTable, Short, Allocated
      <4> QED BY <1>5, <3>2, <3>5, <4>1, FS_AddElement
    <3>8. nuse' \in 0..Cardinality(Addr) BY <2>1, <3>7, Counts
    <3> QED BY <1>2, <3>4, <3>6, <3>7, <3>8 DEF InTable, lmod
  <2> QED BY <2>3, <2>4
<1>9. TypeOK' BY <1>1, <1>2, <1>3, <1>4, <1>8 DEF TypeOK
<1>10. ListValid' /\ Found' BY <1>1 DEF ListValid, Found
<1>11. HeldLive'
  <2>1. held \cup Cached \subseteq Addr BY CachedAddr DEF TypeOK
  <2> QED BY <1>1, <1>4, <2>1 DEF HeldLive
<1>12. FixedKept' BY <1>2, <1>3, <1>4 DEF FixedKept
<1> QED BY <1>7, <1>8, <1>9, <1>10, <1>11, <1>12

\* An insertion that fails leaves what it has done so far.
LEMMA MemoryErrorSound == ASSUME SInv, MemoryError PROVE SInv'
<1> USE StringAssumption DEF SInv
<1>1. Short' = Short /\ Cached' = Cached BY ShortStill, CacheStill DEF MemoryError
<1>2. TypeOK' BY DEF TypeOK, MemoryError, End, Nowhere, table
<1>3. Interned' /\ InTable' BY <1>1, SameStrings DEF MemoryError
<1>4. ListValid' /\ Found' BY DEF MemoryError, End, ListValid, Found
<1>5. HeldLive' /\ FixedKept' BY <1>1 DEF HeldLive, FixedKept, MemoryError
<1> QED BY <1>2, <1>3, <1>4, <1>5

LEMMA DropSound == ASSUME SInv, NEW a \in Addr, Drop(a) PROVE SInv'
<1> USE StringAssumption DEF SInv
<1>1. Short' = Short /\ Cached' = Cached BY ShortStill, CacheStill DEF Drop
<1>2. TypeOK' BY DEF TypeOK, Drop, locals, table
<1>3. Interned' /\ InTable' BY <1>1, SameStrings DEF Drop
<1>4. ListValid' /\ Found' BY DEF Drop, ListValid, Found
<1>5. HeldLive' /\ FixedKept' BY <1>1 DEF HeldLive, FixedKept, Drop
<1> QED BY <1>2, <1>3, <1>4, <1>5

(***************************************************************************)
(* The steps of the collector                                              *)
(***************************************************************************)
\* After luaS_clearcache the cache holds none of the dead.
LEMMA Cleared ==
  ASSUME TypeOK, NEW dead \in SUBSET Addr, luaS_clearcache(dead)
  PROVE  /\ strcache' \in [1..STRCACHE_N -> [1..STRCACHE_M -> Addr]]
         /\ \A a \in Cached' : a = memerrmsg \/ a \in Cached \ dead
<1> USE StringAssumption
<1>1. strcache' = [i \in 1..STRCACHE_N |-> [j \in 1..STRCACHE_M |->
                     IF strcache[i][j] \in dead THEN memerrmsg ELSE strcache[i][j]]]
  BY DEF luaS_clearcache, Cols
<1>2. strcache \in [1..STRCACHE_N -> [1..STRCACHE_M -> Addr]] BY DEF TypeOK
<1>3. ASSUME NEW a \in Cached' PROVE a = memerrmsg \/ a \in Cached \ dead
  <2>1. PICK i \in 1..STRCACHE_N, j \in 1..STRCACHE_M : a = strcache'[i][j] BY DEF Cached
  <2>2. a = IF strcache[i][j] \in dead THEN memerrmsg ELSE strcache[i][j] BY <1>1, <2>1
  <2>3. strcache[i][j] \in Cached BY DEF Cached
  <2> QED BY <2>2, <2>3
<1> QED BY <1>1, <1>2, <1>3

LEMMA AtomicSound == ASSUME SInv, NEW S \in SUBSET Addr, Atomic(S) PROVE SInv'
<1> USE StringAssumption DEF SInv
<1> DEFINE dead == {a \in Addr : marked[a] = "white"} \ S
<1>1. /\ strcache' \in [1..STRCACHE_N -> [1..STRCACHE_M -> Addr]]
      /\ \A a \in Cached' : a = memerrmsg \/ a \in Cached \ dead
  <2>1. TypeOK /\ luaS_clearcache(dead) /\ dead \in SUBSET Addr BY DEF Atomic
  <2> QED BY <2>1, Cleared
<1>2. /\ marked' \in [Addr -> {"free", "white", "dead", "black", "fixed"}]
      /\ \A a \in Addr : marked'[a] = IF a \in dead THEN "dead"
                                     ELSE IF marked[a] = "white" THEN "black" ELSE marked[a]
  BY DEF Atomic, TypeOK
<1>3. /\ pc = "idle" /\ held \subseteq S \cup {memerrmsg} /\ gcphase' = "sweeping"
      /\ UNCHANGED <<contents, hash, size, nuse, table, held, pc, arg, row, list>>
  BY DEF Atomic, table, locals
<1>4. \A a \in Addr : (marked'[a] = "free" <=> marked[a] = "free")
                     /\ (marked'[a] = "fixed" <=> marked[a] = "fixed")
  BY <1>2
<1>5. Short' = Short BY <1>3, <1>4 DEF Short, Allocated
<1>6. TypeOK' BY <1>1, <1>2, <1>3 DEF TypeOK
<1>7. Interned' /\ InTable' BY <1>3, <1>5, SameStrings
<1>8. ListValid' /\ Found' BY <1>3 DEF ListValid, Found
<1>9. HeldLive'
  <2> SUFFICES ASSUME NEW a \in (held \cup Cached)' PROVE marked'[a] \notin {"free", "dead"}
    BY DEF HeldLive
  <2>1. a \in S \cup {memerrmsg} \/ a \in Cached \ dead BY <1>1, <1>3
  <2>2. a = memerrmsg \/ a \in held \cup Cached BY <1>1, <1>3
  <2>3. a \in Addr BY <2>2, CachedAddr DEF TypeOK
  <2>4. marked[a] \notin {"free", "dead"} BY <2>2 DEF HeldLive, FixedKept
  <2>5. a \notin dead BY <2>1 DEF FixedKept
  <2> HIDE DEF dead
  <2> QED BY <1>2, <2>3, <2>4, <2>5
<1>10. FixedKept' BY <1>3, <1>4 DEF FixedKept
<1> QED BY <1>6, <1>7, <1>8, <1>9, <1>10

\* A dead string is unlinked before it is freed.
LEMMA SweepStringSound == ASSUME SInv, NEW a \in Addr, SweepString(a) PROVE SInv'
<1> USE StringAssumption DEF SInv
<1>1. /\ pc = "idle"
      /\ UNCHANGED <<contents, size, strcache, gcphase, held, pc, arg, row, list>>
  BY DEF SweepString, locals
<1>2. ListValid' /\ Found' /\ Cached' = Cached BY <1>1, CacheStill DEF ListValid, Found
<1>3. ASSUME marked[a] = "dead", marked' = [marked EXCEPT ![a] = "free"],
             IF a \in Short THEN luaS_remove(a) ELSE UNCHANGED <<hash, nuse>>
      PROVE  SInv'
  <2>1. /\ marked' \in [Addr -> {"free", "white", "dead", "black", "fixed"}] /\ marked'[a] = "free"
        /\ \A b \in Addr : b # a => marked'[b] = marked[b]
    BY <1>3 DEF TypeOK
  <2>2. Short' = Short \ {a} BY <1>1, <2>1 DEF Short, Allocated
  <2>3. Short \subseteq Addr /\ Short' \subseteq Addr BY DEF Short, Allocated
  <2>4. hash' \in [0..(MAX_INT - 1) -> SUBSET Addr] /\ InTable'
    <3>1. CASE a \notin Short
      <4>1. Short' = Short /\ hash' = hash /\ nuse' = nuse BY <1>3, <2>2, <3>1
      <4> QED BY <1>1, <4>1 DEF InTable, TypeOK, lmod
    <3>2. CASE a \in Short
      <4> DEFINE k == lmod(contents[a], size)
      <4>1. k \in 0..(MAX_INT - 1)
        <5>1. size \in Nat \ {0} /\ size <= MAX_INT /\ contents[a] \in Content BY DEF TypeOK
        <5>2. lmod(contents[a], size) \in 0..(size - 1) BY <5>1, ChainInRange
        <5> QED BY <5>1, <5>2
      <4>2. hash' = [hash EXCEPT ![k] = hash[k] \ {a}] /\ nuse' = nuse - 1
        BY <1>3, <3>2 DEF luaS_remove
      <4>3. hash \in [0..(MAX_INT - 1) -> SUBSET Addr] BY DEF TypeOK
      <4>4. lmod(contents[a], size) = k OBVIOUS
      <4> HIDE DEF k
      <4>5. /\ hash' \in [0..(MAX_INT - 1) -> SUBSET Addr] /\ hash'[k] = hash[k] \ {a}
            /\ \A i \in 0..(MAX_INT - 1) : i # k => hash'[i] = hash[i]
        BY <4>1, <4>2, <4>3
      <4>6. ASSUME NEW i \in DOMAIN hash'
            PROVE  hash'[i] = {b \in Short' : lmod(contents[b], size) = i}
        <5>1. i \in DOMAIN hash /\ i \in 0..(MAX_INT - 1) BY <4>3, <4>5
        <5>2. hash[i] = {b \in Short : lmod(contents[b], size) = i} BY <5>1 DEF InTable
        <5>3. CASE i = k BY <2>2, <4>4, <4>5, <5>2, <5>3
        <5>4. CASE i # k BY <2>2, <4>4, <4>5, <5>1, <5>2, <5>4
        <5> QED BY <5>3, <5>4
      <4>7. nuse' = Cardinality(Short')
        <5>1. IsFiniteSet(Short) /\ nuse = Cardinality(Short) BY <2>3, Counts DEF InTable
        <5> QED BY <2>2, <3>2, <4>2, <5>1, FS_RemoveElement
      <4> QED BY <1>1, <4>5, <4>6, <4>7 DEF InTable, lmod
    <3> QED BY <3>1, <3>2
  <2>5. nuse' \in 0..Cardinality(Addr) BY <2>3, <2>4, Counts DEF InTable
  <2>6. TypeOK' BY <1>1, <2>1, <2>4, <2>5 DEF TypeOK
  <2>7. Interned' BY <1>1, <2>2 DEF Interned
  <2>8. held \cup Cached \subseteq Addr BY CachedAddr DEF TypeOK
  <2>9. HeldLive' BY <1>1, <1>2, <1>3, <2>1, <2>8 DEF HeldLive
  <2>10. FixedKept' BY <1>1, <1>3, <2>1 DEF FixedKept
  <2> QED BY <1>2, <2>4, <2>6, <2>7, <2>9, <2>10
<1>4. ASSUME marked[a] = "black", marked' = [marked EXCEPT ![a] = "white"], UNCHANGED <<hash, nuse>>
      PROVE  SInv'
  <2>1. /\ marked' \in [Addr -> {"free", "white", "dead", "black", "fixed"}] /\ marked'[a] = "white"
        /\ \A b \in Addr : b # a => marked'[b] = marked[b]
    BY <1>4 DEF TypeOK
  <2>2. Short' = Short BY <1>1, <1>4, <2>1 DEF Short, Allocated
  <2>3. Interned' /\ InTable' BY <1>1, <1>4, <2>2, SameStrings DEF table
  <2>4. TypeOK' BY <1>1, <1>4, <2>1 DEF TypeOK
  <2>5. held \cup Cached \subseteq Addr BY CachedAddr DEF TypeOK
  <2>6. HeldLive' BY <1>1, <1>2, <2>1, <2>5 DEF HeldLive
  <2>7. FixedKept' BY <1>1, <1>4, <2>1 DEF FixedKept
  <2> QED BY <1>2, <2>3, <2>4, <2>6, <2>7
<1> QED BY <1>3, <1>4 DEF SweepString

\* A table that is halved is built again from the same strings.
LEMMA SweepEndSound == ASSUME SInv, SweepEnd PROVE SInv'
<1> USE StringAssumption DEF SInv
<1>1. Short' = Short /\ Cached' = Cached BY ShortStill, CacheStill DEF SweepEnd
<1>2. /\ pc = "idle" /\ gcphase' = "marking"
      /\ UNCHANGED <<contents, marked, nuse, strcache, held, pc, arg, row, list>>
  BY DEF SweepEnd, locals
<1>3. /\ hash' \in [0..(MAX_INT - 1) -> SUBSET Addr] /\ size' \in 1..MAX_INT
      /\ \A i \in 0..(MAX_INT - 1) : hash'[i] = {a \in Short : lmod(contents[a], size') = i}
  <2>1. CASE nuse < size \div 4
    <3> DEFINE n == size \div 2
    <3>1. n \in 1..MAX_INT
      <4>1. nuse \in Nat
        <5>1. Short \subseteq Addr BY DEF Short, Allocated
        <5>2. Cardinality(Short) \in Nat BY <5>1, Counts, FS_CardinalityType
        <5> QED BY <5>2 DEF InTable
      <4> QED BY <2>1, <4>1, Sizes DEF TypeOK
    <3>2. hash' = Placed(Short, n) /\ size' = n
      BY <2>1, LinkedShort DEF SweepEnd, checkSizes, luaS_resize
    <3>3. Short \in SUBSET Addr /\ TypeOK BY DEF Short, Allocated
    <3> HIDE DEF n
    <3>4. /\ Placed(Short, n) \in [0..(MAX_INT - 1) -> SUBSET Addr]
          /\ \A i \in 0..(MAX_INT - 1) : Placed(Short, n)[i] = {a \in Short : lmod(contents[a], n) = i}
      BY <3>1, <3>3, PlacedRight
    <3> QED BY <3>1, <3>2, <3>4
  <2>2. CASE ~(nuse < size \div 4)
    <3>1. hash' = hash /\ size' = size BY <2>2 DEF SweepEnd, checkSizes
    <3> QED BY <3>1 DEF TypeOK, InTable
  <2> QED BY <2>1, <2>2
<1>4. TypeOK' BY <1>2, <1>3 DEF TypeOK
<1>5. InTable'
  <2>1. DOMAIN hash' = 0..(MAX_INT - 1) BY <1>3
  <2> QED BY <1>1, <1>2, <1>3, <2>1 DEF InTable, lmod
<1>6. Interned' BY <1>1, <1>2 DEF Interned
<1>7. ListValid' /\ Found' BY <1>2 DEF ListValid, Found
<1>8. HeldLive' /\ FixedKept' BY <1>1, <1>2 DEF HeldLive, FixedKept
<1> QED BY <1>4, <1>5, <1>6, <1>7, <1>8

\* A collection in the middle of an insertion frees strings, adds none and leaves the
\* size of the table alone, so that the chain found before is still one of it.
LEMMA EmergencySound == ASSUME SInv, NEW S \in SUBSET Addr, Emergency(S) PROVE SInv'
<1> USE StringAssumption DEF SInv
<1> DEFINE dead == {a \in Addr : marked[a] \in {"white", "black", "dead"}} \ S
<1>1. /\ strcache' \in [1..STRCACHE_N -> [1..STRCACHE_M -> Addr]]
      /\ \A a \in Cached' : a = memerrmsg \/ a \in Cached \ dead
  <2>1. TypeOK /\ luaS_clearcache(dead) /\ dead \in SUBSET Addr BY DEF Emergency
  <2> QED BY <2>1, Cleared
<1>2. /\ marked' \in [Addr -> {"free", "white", "dead", "black", "fixed"}]
      /\ \A a \in Addr : marked'[a] = IF a \in dead THEN "free"
                                     ELSE IF a \in S THEN "white" ELSE marked[a]
  BY DEF Emergency, TypeOK
<1>3. /\ held \subseteq S \cup {memerrmsg} /\ gcphase' = "marking" /\ size' = size
      /\ S \subseteq {a \in Addr : marked[a] \in {"white", "black"}}
      /\ UNCHANGED <<contents, held, pc, arg, row, list>>
  BY DEF Emergency, EmergencySize, locals
<1>4. Short' = Short \ dead
  <2>1. \A a \in Addr : marked'[a] # "free" <=> marked[a] # "free" /\ a \notin dead BY <1>2, <1>3
  <2> QED BY <1>3, <2>1 DEF Short, Allocated
<1>5. Short \subseteq Addr /\ Short' \in SUBSET Addr BY DEF Short, Allocated
<1>6. /\ hash' \in [0..(MAX_INT - 1) -> SUBSET Addr]
      /\ \A i \in 0..(MAX_INT - 1) : hash'[i] = {a \in Short' : lmod(contents[a], size) = i}
  <2>1. hash' = Placed(Linked \ dead, size) BY <1>3 DEF Emergency
  <2>2. Linked \ dead = Short' BY <1>4, LinkedShort
  <2>3. TypeOK /\ size \in 1..MAX_INT /\ Short \ dead \in SUBSET Addr BY <1>5 DEF TypeOK
  <2> HIDE DEF dead
  <2>4. /\ Placed(Short \ dead, size) \in [0..(MAX_INT - 1) -> SUBSET Addr]
        /\ \A i \in 0..(MAX_INT - 1) :
             Placed(Short \ dead, size)[i] = {a \in Short \ dead : lmod(contents[a], size) = i}
    BY <2>3, PlacedRight
  <2> QED BY <1>4, <2>1, <2>2, <2>4
<1>7. nuse' = Cardinality(Short')
  <2>1. nuse' = nuse - Cardinality(dead \cap Short) BY DEF Emergency
  <2>2. IsFiniteSet(Short) /\ nuse = Cardinality(Short) BY <1>5, Counts DEF InTable
  <2> HIDE DEF dead
  <2>3. Cardinality(Short \ dead) = Cardinality(Short) - Cardinality(Short \cap dead)
    BY <2>2, FS_Difference
  <2>4. Short \cap dead = dead \cap Short OBVIOUS
  <2> QED BY <1>4, <2>1, <2>2, <2>3, <2>4
<1>8. nuse' \in 0..Cardinality(Addr) BY <1>5, <1>7, Counts
<1>9. TypeOK' BY <1>1, <1>2, <1>3, <1>6, <1>8 DEF TypeOK
<1>10. InTable'
  <2>1. DOMAIN hash' = 0..(MAX_INT - 1) BY <1>6
  <2> QED BY <1>3, <1>6, <1>7, <2>1 DEF InTable, lmod
<1>11. Interned' BY <1>3, <1>4 DEF Interned
<1>12. ListValid' BY <1>3 DEF ListValid, Here, lmod
<1>13. Found' BY <1>3, <1>4 DEF Found
<1>14. HeldLive'
  <2> SUFFICES ASSUME NEW a \in (held \cup Cached)' PROVE marked'[a] \notin {"free", "dead"}
    BY DEF HeldLive
  <2>1. a \in S \cup {memerrmsg} \/ a \in Cached \ dead BY <1>1, <1>3
  <2>2. a = memerrmsg \/ a \in held \cup Cached BY <1>1, <1>3
  <2>3. a \in Addr BY <2>2, CachedAddr DEF TypeOK
  <2>4. marked[a] \notin {"free", "dead"} BY <2>2 DEF HeldLive, FixedKept
  <2>5. a \notin dead BY <2>1 DEF FixedKept
  <2> HIDE DEF dead
  <2> QED BY <1>2, <2>3, <2>4, <2>5
<1>15. FixedKept'
  <2>1. memerrmsg \notin dead /\ memerrmsg \notin S BY <1>3 DEF FixedKept
  <2> HIDE DEF dead
  <2> QED BY <1>2, <1>3, <2>1 DEF FixedKept
<1> QED BY <1>9, <1>10, <1>11, <1>12, <1>13, <1>14, <1>15

(***************************************************************************)
(* The theorems                                                            *)
(***************************************************************************)
\* Every step keeps the invariant.
LEMMA NextSound == SInv /\ [Next]_vars => SInv'
<1> SUFFICES ASSUME SInv, [Next]_vars PROVE SInv' OBVIOUS
<1>1. ASSUME NEW c \in Content, NewLStr(c) PROVE SInv' BY <1>1, NewLStrSound
<1>2. ASSUME NEW i \in 1..STRCACHE_N, NEW c \in Content, CacheMiss(i, c) PROVE SInv'
  BY <1>2, CacheMissSound
<1>3. ASSUME NEW i \in 1..STRCACHE_N, NEW j \in Cols, CacheHit(i, j) PROVE SInv'
  BY <1>3, CacheHitSound
<1>4. CASE Search BY <1>4, SearchSound
<1>5. CASE Grow BY <1>5, GrowSound
<1>6. ASSUME NEW a \in Addr, Create(a) PROVE SInv' BY <1>6, CreateSound
<1>7. ASSUME NEW a \in Addr, Drop(a) PROVE SInv' BY <1>7, DropSound
<1>8. CASE MemoryError BY <1>8, MemoryErrorSound
<1>9. ASSUME NEW S \in SUBSET Addr, Atomic(S) PROVE SInv' BY <1>9, AtomicSound
<1>10. ASSUME NEW S \in SUBSET Addr, Emergency(S) PROVE SInv' BY <1>10, EmergencySound
<1>11. ASSUME NEW a \in Addr, SweepString(a) PROVE SInv' BY <1>11, SweepStringSound
<1>12. CASE SweepEnd BY <1>12, SweepEndSound
<1>13. CASE UNCHANGED vars
  <2>1. /\ UNCHANGED <<contents, marked, hash, size, nuse, strcache, gcphase>>
        /\ UNCHANGED <<held, pc, arg, row, list>>
    BY <1>13 DEF vars
  <2>2. Short' = Short /\ Cached' = Cached BY <2>1, ShortStill, CacheStill
  <2>3. TypeOK' /\ FixedKept' BY <2>1 DEF SInv, TypeOK, FixedKept
  <2>4. Interned' /\ InTable' /\ ListValid' BY <2>1, <2>2, SameStrings DEF SInv, table
  <2>5. HeldLive' /\ Found' BY <2>1, <2>2 DEF SInv, HeldLive, Found
  <2> QED BY <2>3, <2>4, <2>5 DEF SInv
<1> QED BY <1>1, <1>2, <1>3, <1>4, <1>5, <1>6, <1>7, <1>8, <1>9, <1>10, <1>11, <1>12, <1>13
        DEF Next, Program, Collector

LEMMA SInvAlways == Spec => []SInv
BY InitSound, NextSound, PTL DEF Spec

\* There is one short string for the same contents, in the chain where it is looked for, and
\* the chain that internshrstr links a new string into is one of the table, for any number
\* of strings and whatever memory runs out or is collected meanwhile (internshrstr).
THEOREM TableSoundAlways == Spec => []TableSound
<1>1. SInv => TableSound BY DEF SInv, TableSound
<1> QED BY <1>1, SInvAlways, PTL

\* What the program holds and what luaS_new may return from the cache is never freed, nor
\* about to be (luaS_clearcache, changewhite in internshrstr).
THEOREM HeldLiveAlways == Spec => []HeldLive
<1>1. SInv => HeldLive BY DEF SInv
<1> QED BY <1>1, SInvAlways, PTL
=============================================================================

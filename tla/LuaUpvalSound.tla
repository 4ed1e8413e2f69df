--------------------------- MODULE LuaUpvalSound ---------------------------
(***************************************************************************)
(* Proofs about LuaUpval, for any number of threads, closures, upvalues    *)
(* and locals: reference counts are right, the lists of open upvalues are  *)
(* sound, the cached closure is alive, and what a program sees are         *)
(* variables that closures share (LuaVariable), if no upvalue is joined to *)
(* itself (lua_upvaluejoin).                                               *)
(***************************************************************************)
EXTENDS LuaUpval, FiniteSetTheorems, SequenceTheorems, WellFoundedInduction, TLAPS

(***************************************************************************)
(* The inductive invariant                                                 *)
(***************************************************************************)
\* Threads have stacks of their own, in which every local has a value.
Stacks ==
  /\ \A t \in Thread : stack[t] # NULL <=> marked[t] # "free"
  /\ \A t \in Thread : marked[t] = "free" => top[t] = 0
  /\ \A s, t \in Thread : s # t /\ stack[s] # NULL => stack[s] # stack[t]
  /\ \A t \in Thread, l \in Level : stack[t] # NULL => mem[stack[t]][l] \in Value
\* What pushclosure works with is not freed under it, and the level for which it makes
\* an upvalue has none.
Busy ==
  /\ pc # "idle" => ncl \in Closure /\ Live(ncl) /\ th \in Thread /\ Live(th)
  /\ pc # "idle" /\ encup # NULL => Callable(encup)
  /\ pc = "link" => /\ ~Complete(ncl) /\ level < top[th]
                    /\ \A u \in UpVal : v[u] # AddressOf(th, level)
\* Once the prototype is marked, its cache is marked: the atomic phase spares it.
CacheKept ==
  /\ CacheLive
  /\ gcphase = "marking" /\ proto = "black" /\ cache # NULL => marked[cache] = "black"
UInv == TypeOK /\ RefCounted /\ OpenListed /\ PlaceValid /\ Stacks /\ Busy /\ CacheKept

(***************************************************************************)
(* Numbers, sequences and counting                                         *)
(***************************************************************************)
\* A set of numbers has a least one.
LEMMA Smallest ==
  ASSUME NEW S \in SUBSET Nat, NEW k \in S
  PROVE  \E n \in S : \A m \in S : n <= m
<1> DEFINE R == OpToRel(<, Nat)
<1>1. \A x, y \in Nat : <<y, x>> \in R <=> y < x BY DEF OpToRel
<1>2. IsWellFoundedOn(R, Nat) BY NatLessThanWellFounded
<1> HIDE DEF R
<1>3. PICK x \in S : \A y \in S : ~(<<y, x>> \in R) BY <1>2, WFMin
<1>4. ASSUME NEW y \in S PROVE x <= y
  <2>1. x \in Nat /\ y \in Nat /\ ~(y < x) BY <1>1, <1>3
  <2> QED BY <2>1
<1> QED BY <1>4

\* The walk over a list of upvalues ends at one place.
LEMMA PositionRight ==
  ASSUME NEW s, NEW where, NEW l \in Nat, Len(s) \in Nat,
         \A i \in 1..Len(s) : where[s[i]].level \in Nat
  PROVE  /\ PositionIn(s, where, l) \in 1..(Len(s) + 1)
         /\ \A i \in 1..(PositionIn(s, where, l) - 1) : where[s[i]].level >= l
         /\ PositionIn(s, where, l) <= Len(s) => where[s[PositionIn(s, where, l)]].level < l
<1> DEFINE P(n) == /\ \A i \in 1..(n - 1) : where[s[i]].level >= l
                   /\ n <= Len(s) => where[s[n]].level < l
           Ends == {n \in 1..(Len(s) + 1) : n <= Len(s) => where[s[n]].level < l}
<1>1. PICK n \in Ends : \A m \in Ends : n <= m
  <2>1. Ends \in SUBSET Nat /\ Len(s) + 1 \in Ends OBVIOUS
  <2> HIDE DEF Ends
  <2> QED BY <2>1, Smallest
<1>2. ASSUME NEW i \in 1..(n - 1) PROVE where[s[i]].level >= l
  <2>1. i \in 1..Len(s) /\ i \notin Ends BY <1>1
  <2> QED BY <2>1
<1>3. n \in 1..(Len(s) + 1) /\ P(n) BY <1>1, <1>2
<1>4. PositionIn(s, where, l) = CHOOSE m \in 1..(Len(s) + 1) : P(m) BY DEF PositionIn
<1> HIDE DEF P
<1>5. PositionIn(s, where, l) \in 1..(Len(s) + 1) /\ P(PositionIn(s, where, l)) BY <1>3, <1>4
<1> QED BY <1>5 DEF P

\* No other place is one where the walk may end.
LEMMA PositionOnly ==
  ASSUME NEW s, NEW where, NEW l \in Nat, Len(s) \in Nat,
         \A i \in 1..Len(s) : where[s[i]].level \in Nat,
         NEW n \in 1..(Len(s) + 1),
         \A i \in 1..(n - 1) : where[s[i]].level >= l,
         n <= Len(s) => where[s[n]].level < l
  PROVE  n = PositionIn(s, where, l)
<1> DEFINE m == PositionIn(s, where, l)
<1>1. /\ m \in 1..(Len(s) + 1)
      /\ \A i \in 1..(m - 1) : where[s[i]].level >= l
      /\ m <= Len(s) => where[s[m]].level < l
  BY PositionRight
<1> HIDE DEF m
<1>2. ~(n < m)
  <2> SUFFICES ASSUME n < m PROVE FALSE OBVIOUS
  <2>1. n \in 1..(m - 1) /\ n \in 1..Len(s) BY <1>1
  <2> QED BY <1>1, <2>1
<1>3. ~(m < n)
  <2> SUFFICES ASSUME m < n PROVE FALSE OBVIOUS
  <2>1. m \in 1..(n - 1) /\ m \in 1..Len(s) BY <1>1
  <2> QED BY <1>1, <2>1
<1>4. n = m BY <1>1, <1>2, <1>3
<1> QED BY <1>4 DEF m

\* A list with an element more.
LEMMA Inserted ==
  ASSUME NEW S, NEW s \in Seq(S), NEW e \in S, NEW p \in 1..(Len(s) + 1)
  PROVE  /\ InsertAt(s, p, e) \in Seq(S) /\ Len(InsertAt(s, p, e)) = Len(s) + 1
         /\ \A i \in 1..(Len(s) + 1) :
              InsertAt(s, p, e)[i] = IF i < p THEN s[i] ELSE IF i = p THEN e ELSE s[i - 1]
<1> DEFINE a == SubSeq(s, 1, p - 1)
           b == SubSeq(s, p, Len(s))
<1>1. Len(s) \in Nat /\ \A i \in 1..Len(s) : s[i] \in S OBVIOUS
<1>2. a \in Seq(S) /\ Len(a) = p - 1 /\ \A i \in 1..(p - 1) : a[i] = s[i]
  <2>1. 1 \in Int /\ p - 1 \in Int /\ \A i \in 1..(p - 1) : s[i] \in S BY <1>1
  <2>2. /\ a \in Seq(S) /\ Len(a) = IF 1 <= p - 1 THEN (p - 1) - 1 + 1 ELSE 0
        /\ \A i \in 1..((p - 1) - 1 + 1) : a[i] = s[1 + i - 1]
    BY <2>1, SubSeqProperties
  <2> QED BY <1>1, <2>2
<1>3. b \in Seq(S) /\ Len(b) = Len(s) - p + 1 /\ \A i \in 1..(Len(s) - p + 1) : b[i] = s[p + i - 1]
  <2>1. p \in Int /\ Len(s) \in Int /\ \A i \in p..Len(s) : s[i] \in S BY <1>1
  <2>2. /\ b \in Seq(S) /\ Len(b) = IF p <= Len(s) THEN Len(s) - p + 1 ELSE 0
        /\ \A i \in 1..(Len(s) - p + 1) : b[i] = s[p + i - 1]
    BY <2>1, SubSeqProperties
  <2> QED BY <1>1, <2>2
<1>4. InsertAt(s, p, e) = a \o <<e>> \o b BY DEF InsertAt
<1> HIDE DEF a, b
<1>5. <<e>> \in Seq(S) /\ Len(<<e>>) = 1 /\ <<e>>[1] = e OBVIOUS
<1>6. /\ a \o <<e>> \in Seq(S) /\ Len(a \o <<e>>) = p
      /\ \A i \in 1..p : (a \o <<e>>)[i] = IF i < p THEN s[i] ELSE e
  <2>1. /\ a \o <<e>> \in Seq(S) /\ Len(a \o <<e>>) = Len(a) + Len(<<e>>)
        /\ \A i \in 1..(Len(a) + Len(<<e>>)) :
             (a \o <<e>>)[i] = IF i <= Len(a) THEN a[i] ELSE <<e>>[i - Len(a)]
    BY <1>2, <1>5, ConcatProperties
  <2> QED BY <1>1, <1>2, <1>5, <2>1
<1> DEFINE c == a \o <<e>>
<1> HIDE DEF c
<1>7. c \in Seq(S) /\ Len(c) = p /\ \A i \in 1..p : c[i] = IF i < p THEN s[i] ELSE e
  BY <1>6 DEF c
<1>8. /\ c \o b \in Seq(S) /\ Len(c \o b) = Len(c) + Len(b)
      /\ \A i \in 1..(Len(c) + Len(b)) : (c \o b)[i] = IF i <= Len(c) THEN c[i] ELSE b[i - Len(c)]
  BY <1>3, <1>7, ConcatProperties
<1>9. Len(c) + Len(b) = Len(s) + 1 BY <1>1, <1>3, <1>7
<1>10. ASSUME NEW i \in 1..(Len(s) + 1)
       PROVE  (c \o b)[i] = IF i < p THEN s[i] ELSE IF i = p THEN e ELSE s[i - 1]
  <2>1. CASE i <= p BY <1>1, <1>7, <1>8, <1>9, <2>1
  <2>2. CASE i > p
    <3>1. (c \o b)[i] = b[i - p] BY <1>1, <1>7, <1>8, <1>9, <2>2
    <3>2. i - p \in 1..(Len(s) - p + 1) /\ p + (i - p) - 1 = i - 1 BY <1>1, <2>2
    <3>3. b[i - p] = s[p + (i - p) - 1] BY <1>3, <3>2
    <3> QED BY <2>2, <3>1, <3>2, <3>3
  <2>3. i <= p \/ i > p BY <1>1
  <2> QED BY <2>1, <2>2, <2>3
<1>11. InsertAt(s, p, e) = c \o b BY <1>4 DEF c
<1> QED BY <1>8, <1>9, <1>10, <1>11

\* The users of an upvalue can be counted.
LEMMA UsersFinite ==
  ASSUME UpvalAssumption, NEW S, S \subseteq Closure \X Index
  PROVE  IsFiniteSet(S) /\ Cardinality(S) \in Nat
<1>1. IsFiniteSet(Closure) /\ NUp \in Nat BY DEF UpvalAssumption
<1>2. IsFiniteSet(Index)
  <2>1. 1 \in Int /\ NUp \in Int BY <1>1
  <2> QED BY <2>1, FS_Interval DEF Index
<1>3. IsFiniteSet(Closure \X Index) BY <1>1, <1>2, FS_Product
<1>4. IsFiniteSet(S) BY <1>3, FS_Subset
<1> QED BY <1>4, FS_CardinalityType

(***************************************************************************)
(* What the invariant says of the lists                                    *)
(***************************************************************************)
\* A listed upvalue is open and points to a local of the thread of the list.
LEMMA Listed ==
  ASSUME UpvalAssumption, TypeOK, OpenListed, Stacks, NEW t \in Thread,
         NEW i \in 1..Len(openupval[t])
  PROVE  /\ openupval[t][i] \in UpVal /\ stack[t] \in Block /\ marked[t] # "free"
         /\ v[openupval[t][i]] \in Address /\ v[openupval[t][i]].block = stack[t]
         /\ v[openupval[t][i]].level \in 0..(top[t] - 1)
         /\ v[openupval[t][i]] = AddressOf(t, v[openupval[t][i]].level)
<1>1. openupval[t] \in Seq(UpVal) BY DEF TypeOK
<1>2. openupval[t][i] \in UpVal /\ i \in DOMAIN openupval[t] BY <1>1
<1>3. PICK l \in 0..(top[t] - 1) : v[openupval[t][i]] = AddressOf(t, l) BY <1>2 DEF OpenListed
<1>4. MaxLevel \in Nat /\ top[t] \in 0..MaxLevel BY DEF TypeOK, UpvalAssumption
<1>5. top[t] # 0 /\ l \in Level BY <1>3, <1>4 DEF Level
<1>6. marked[t] # "free" /\ stack[t] # NULL BY <1>5 DEF Stacks
<1>7. stack[t] \in Block BY <1>6 DEF TypeOK
<1> QED BY <1>2, <1>3, <1>5, <1>6, <1>7 DEF AddressOf, Address

\* It is in one place of one list.
LEMMA OneList ==
  ASSUME UpvalAssumption, TypeOK, OpenListed, Stacks, NEW s \in Thread, NEW t \in Thread,
         NEW i \in 1..Len(openupval[s]), NEW j \in 1..Len(openupval[t]),
         openupval[s][i] = openupval[t][j]
  PROVE  s = t /\ i = j
<1>1. /\ v[openupval[s][i]].block = stack[s] /\ v[openupval[t][j]].block = stack[t]
      /\ stack[s] \in Block /\ v[openupval[s][i]].level \in Nat
  <2>1. /\ v[openupval[s][i]].block = stack[s] /\ stack[s] \in Block
        /\ v[openupval[s][i]].level \in 0..(top[s] - 1)
    BY Listed
  <2>2. v[openupval[t][j]].block = stack[t] BY Listed
  <2> QED BY <2>1, <2>2
<1>2. s = t BY <1>1 DEF Stacks, UpvalAssumption
<1>3. openupval[s] \in Seq(UpVal) BY DEF TypeOK
<1>4. i \in DOMAIN openupval[s] /\ j \in DOMAIN openupval[s] BY <1>2, <1>3
<1>5. \A k, l \in DOMAIN openupval[s] : k < l => v[openupval[s][k]].level > v[openupval[s][l]].level
  BY DEF OpenListed
<1>6. ~(i < j) /\ ~(j < i) BY <1>1, <1>2, <1>4, <1>5
<1> QED BY <1>2, <1>3, <1>6

\* An open upvalue is in the list of some thread.
LEMMA Open ==
  ASSUME UpvalAssumption, TypeOK, OpenListed, NEW u \in UpVal, upisopen(u)
  PROVE  \E t \in Thread : \E i \in 1..Len(openupval[t]) : openupval[t][i] = u
<1>1. PICK t \in Thread : u \in ToSet(openupval[t]) BY DEF OpenListed
<1>2. openupval[t] \in Seq(UpVal) BY DEF TypeOK
<1> QED BY <1>1, <1>2 DEF ToSet

\* Where the walk ends: before it are the upvalues at the level or above, after it the rest.
LEMMA Walk ==
  ASSUME UpvalAssumption, TypeOK, OpenListed, Stacks, NEW t \in Thread, NEW l \in Level
  PROVE  /\ Position(t, l) \in 1..(Len(openupval[t]) + 1)
         /\ \A i \in 1..Len(openupval[t]) :
              i < Position(t, l) <=> v[openupval[t][i]].level >= l
<1>1. openupval[t] \in Seq(UpVal) /\ Len(openupval[t]) \in Nat /\ l \in Nat
  BY DEF TypeOK, Level
<1>2. \A i \in 1..Len(openupval[t]) : v[openupval[t][i]].level \in Nat
  <2>1. ASSUME NEW i \in 1..Len(openupval[t]) PROVE v[openupval[t][i]].level \in Nat
    <3>1. v[openupval[t][i]].level \in 0..(top[t] - 1) BY Listed
    <3> QED BY <3>1
  <2> QED BY <2>1
<1> DEFINE p == Position(t, l)
<1>3. /\ p \in 1..(Len(openupval[t]) + 1)
      /\ \A i \in 1..(p - 1) : v[openupval[t][i]].level >= l
      /\ p <= Len(openupval[t]) => v[openupval[t][p]].level < l
  BY <1>1, <1>2, PositionRight DEF Position
<1>4. DOMAIN openupval[t] = 1..Len(openupval[t]) BY <1>1
<1>5. \A i, j \in 1..Len(openupval[t]) : i < j => v[openupval[t][i]].level > v[openupval[t][j]].level
  BY <1>4 DEF OpenListed
<1> HIDE DEF p
<1>6. ASSUME NEW i \in 1..Len(openupval[t]) PROVE i < p <=> v[openupval[t][i]].level >= l
  <2>1. CASE i < p
    <3>1. i \in 1..(p - 1) BY <1>3, <2>1
    <3> QED BY <1>3, <2>1, <3>1
  <2>2. CASE ~(i < p)
    <3>1. p \in 1..Len(openupval[t]) BY <1>1, <1>3, <2>2
    <3>2. v[openupval[t][p]].level < l BY <1>3, <3>1
    <3>3. CASE i = p BY <1>1, <1>2, <2>2, <3>2, <3>3
    <3>4. CASE p < i
      <4>1. v[openupval[t][p]].level > v[openupval[t][i]].level BY <1>5, <3>1, <3>4
      <4> QED BY <1>1, <1>2, <2>2, <3>1, <3>2, <4>1
    <3> QED BY <1>3, <2>2, <3>3, <3>4
  <2> QED BY <2>1, <2>2
<1> QED BY <1>3, <1>6 DEF p

(***************************************************************************)
(* Counting the users of an upvalue                                        *)
(***************************************************************************)
\* The next slot to fill is empty.
LEMMA NextSlot ==
  ASSUME UpvalAssumption, ~Complete(ncl)
  PROVE  Next_i \in Index /\ upvals[ncl][Next_i] = NULL
<1> DEFINE Empty == {i \in Index : upvals[ncl][i] = NULL}
<1>1. PICK i \in Index : upvals[ncl][i] = NULL BY DEF Complete
<1>2. Empty \in SUBSET Nat /\ i \in Empty BY <1>1 DEF Index, UpvalAssumption
<1>3. PICK n \in Empty : \A m \in Empty : n <= m
  <2> HIDE DEF Empty
  <2> QED BY <1>2, Smallest
<1>4. n \in Index /\ upvals[ncl][n] = NULL /\ \A j \in 1..(n - 1) : upvals[ncl][j] # NULL
  <2>1. ASSUME NEW j \in 1..(n - 1) PROVE upvals[ncl][j] # NULL
    <3>1. j \in Index /\ ~(n <= j) BY DEF Index, UpvalAssumption
    <3> QED BY <3>1, <1>3
  <2> QED BY <2>1
<1> QED BY <1>4 DEF Next_i

\* A closure gets its next upvalue: u has one user more, the others have the same.
LEMMA SetUpCounts ==
  ASSUME UpvalAssumption, TypeOK, ncl \in Closure, ~Complete(ncl), NEW u \in UpVal, SetUp(u)
  PROVE  /\ upvals' \in [Closure -> [Index -> UpVal \cup {NULL}]]
         /\ \A w \in UpVal : w # u => Users(w)' = Users(w)
         /\ Cardinality(Users(u)') = Cardinality(Users(u)) + 1
         /\ \A c \in Closure : Complete(c) => Complete(c)'
<1>1. Next_i \in Index /\ upvals[ncl][Next_i] = NULL BY NextSlot
<1> DEFINE k == Next_i
<1>2. upvals' = [upvals EXCEPT ![ncl][k] = u] BY DEF SetUp
<1>3. k \in Index /\ upvals[ncl][k] = NULL BY <1>1
<1> HIDE DEF k
<1>4. upvals \in [Closure -> [Index -> UpVal \cup {NULL}]] /\ u # NULL /\ NULL \notin UpVal
  BY DEF TypeOK, UpvalAssumption
<1>5. upvals' \in [Closure -> [Index -> UpVal \cup {NULL}]] BY <1>2, <1>3, <1>4
<1>6. upvals'[ncl][k] = u BY <1>2, <1>3, <1>4
<1>7. \A c \in Closure, i \in Index : <<c, i>> # <<ncl, k>> => upvals'[c][i] = upvals[c][i]
  BY <1>2, <1>3, <1>4
<1>8. \A p \in Closure \X Index : p # <<ncl, k>> => upvals'[p[1]][p[2]] = upvals[p[1]][p[2]]
  BY <1>7
<1>9. <<ncl, k>> \in Closure \X Index BY <1>3
<1>10. \A w \in UpVal : w # u => Users(w)' = Users(w) BY <1>3, <1>4, <1>6, <1>8, <1>9 DEF Users
<1>11. Users(u)' = Users(u) \cup {<<ncl, k>>} /\ <<ncl, k>> \notin Users(u)
  BY <1>3, <1>4, <1>6, <1>8, <1>9 DEF Users
<1>12. Cardinality(Users(u)') = Cardinality(Users(u)) + 1
  <2>1. IsFiniteSet(Users(u)) BY UsersFinite DEF Users
  <2>2. Cardinality(Users(u) \cup {<<ncl, k>>}) = Cardinality(Users(u)) + 1
    BY <1>11, <2>1, FS_AddElement
  <2> QED BY <1>11, <2>2
<1>13. \A c \in Closure : Complete(c) => Complete(c)' BY <1>4, <1>6, <1>7 DEF Complete
<1> QED BY <1>5, <1>10, <1>12, <1>13

\* The slots of a closure that hold an upvalue, as users.
LEMMA SlotsOfClosure ==
  ASSUME UpvalAssumption, NEW c \in Closure, NEW S \in SUBSET Index
  PROVE  IsFiniteSet(S) /\ Cardinality({c} \X S) = Cardinality(S)
<1>1. IsFiniteSet(S)
  <2>1. 1 \in Int /\ NUp \in Int BY DEF UpvalAssumption
  <2> QED BY <2>1, FS_Interval, FS_Subset DEF Index
<1>2. IsFiniteSet({c}) /\ Cardinality({c}) = 1 BY FS_Singleton
<1>3. Cardinality({c} \X S) = 1 * Cardinality(S) BY <1>1, <1>2, FS_Product
<1>4. Cardinality(S) \in Nat BY <1>1, FS_CardinalityType
<1> QED BY <1>1, <1>3, <1>4

\* A closure is freed: its slots are taken from the users.
LEMMA FreeCounts ==
  ASSUME UpvalAssumption, TypeOK, NEW c \in Closure, NEW u \in UpVal,
         upvals' = [upvals EXCEPT ![c] = [i \in Index |-> NULL]]
  PROVE  /\ Cardinality({i \in Index : upvals[c][i] = u}) \in 0..Cardinality(Users(u))
         /\ Cardinality(Users(u)') = Cardinality(Users(u)) - Cardinality({i \in Index : upvals[c][i] = u})
<1> DEFINE S == {i \in Index : upvals[c][i] = u}
           T == {c} \X S
<1>1. IsFiniteSet(S) /\ Cardinality(T) = Cardinality(S)
  <2>1. S \in SUBSET Index OBVIOUS
  <2> QED BY <2>1, SlotsOfClosure
<1>2. upvals \in [Closure -> [Index -> UpVal \cup {NULL}]] /\ u # NULL BY DEF TypeOK, UpvalAssumption
<1>3. T \subseteq Users(u) BY DEF Users
<1>4. Users(u)' = Users(u) \ T
  <2>1. \A p \in Closure \X Index : p[1] = c => upvals'[p[1]][p[2]] = NULL BY <1>2
  <2>2. \A p \in Closure \X Index : p[1] # c => upvals'[p[1]][p[2]] = upvals[p[1]][p[2]] BY <1>2
  <2>3. \A p \in Closure \X Index : p \in T <=> p[1] = c /\ upvals[p[1]][p[2]] = u BY <1>2
  <2> HIDE DEF T
  <2> QED BY <1>2, <2>1, <2>2, <2>3 DEF Users
<1>5. IsFiniteSet(Users(u)) /\ Cardinality(Users(u)) \in Nat BY UsersFinite DEF Users
<1> HIDE DEF S, T
<1>6. Cardinality(Users(u) \ T) = Cardinality(Users(u)) - Cardinality(Users(u) \cap T)
  BY <1>5, FS_Difference
<1>7. Users(u) \cap T = T BY <1>3
<1>8. Cardinality(T) <= Cardinality(Users(u)) /\ Cardinality(T) \in Nat
  <2>1. IsFiniteSet(T) BY <1>3, <1>5, FS_Subset
  <2> QED BY <1>3, <1>5, <2>1, FS_Subset, FS_CardinalityType
<1>9. Cardinality(S) \in 0..Cardinality(Users(u)) BY <1>1, <1>5, <1>8
<1>10. Cardinality(Users(u)') = Cardinality(Users(u)) - Cardinality(S)
  BY <1>1, <1>4, <1>6, <1>7
<1> QED BY <1>9, <1>10 DEF S

(***************************************************************************)
(* Closing upvalues                                                        *)
(***************************************************************************)
\* luaF_close keeps the upvalues of t below the level, closes or frees the others, and
\* leaves those of other threads alone.
LEMMA Closing ==
  ASSUME UpvalAssumption, UInv, NEW t \in Thread, NEW l \in Level, luaF_close(t, l)
  PROVE  /\ openupval' \in [Thread -> Seq(UpVal)]
         /\ v' \in [UpVal -> Address \cup {Own, Free}] /\ value' \in [UpVal -> Value]
         /\ \A s \in Thread : s # t => openupval'[s] = openupval[s]
         /\ \E d \in Nat : /\ d + Len(openupval'[t]) = Len(openupval[t])
                           /\ \A i \in 1..Len(openupval'[t]) : openupval'[t][i] = openupval[t][i + d]
                           /\ \A i \in 1..d : v[openupval[t][i]].level >= l
         /\ \A i \in 1..Len(openupval'[t]) : v[openupval'[t][i]].level < l
         /\ \A s \in Thread : \A i \in 1..Len(openupval'[s]) : v'[openupval'[s][i]] = v[openupval'[s][i]]
         /\ \A u \in UpVal : \/ v'[u] = v[u]
                             \/ /\ v[u] \in Address
                                /\ v'[u] = IF refcount[u] = 0 THEN Free ELSE Own
                                /\ \E i \in 1..Len(openupval[t]) :
                                     openupval[t][i] = u /\ v[u].level >= l
         /\ \A i \in 1..Len(openupval[t]) :
              \/ \E j \in 1..Len(openupval'[t]) : openupval'[t][j] = openupval[t][i]
              \/ v'[openupval[t][i]] \in {Own, Free}
<1> USE DEF UInv
<1> DEFINE s == openupval[t]
           p == Position(t, l)
           n == Len(openupval[t])
<1>1. s \in Seq(UpVal) /\ n \in Nat /\ openupval \in [Thread -> Seq(UpVal)] BY DEF TypeOK
<1>2. p \in 1..(n + 1) /\ \A i \in 1..n : i < p <=> v[s[i]].level >= l BY Walk
<1>3. openupval'[t] = SubSeq(s, p, n) /\ \A r \in Thread : r # t => openupval'[r] = openupval[r]
  BY <1>1 DEF luaF_close
<1>4. \A i \in 1..n : s[i] \in UpVal /\ v[s[i]] \in Address /\ v[s[i]].level \in Nat
  <2>1. ASSUME NEW i \in 1..n PROVE s[i] \in UpVal /\ v[s[i]] \in Address /\ v[s[i]].level \in Nat
    <3>1. s[i] \in UpVal /\ v[s[i]] \in Address /\ v[s[i]].level \in 0..(top[t] - 1) BY Listed
    <3> QED BY <3>1
  <2> QED BY <2>1
<1>5. Above(t, l) = {s[i] : i \in 1..(p - 1)} BY DEF Above
<1>6. \A u \in UpVal : u \in Above(t, l) <=> \E i \in 1..n : i < p /\ s[i] = u
  <2>1. \A i : i \in 1..(p - 1) <=> i \in 1..n /\ i < p BY <1>1, <1>2
  <2> QED BY <1>5, <2>1
<1> HIDE DEF s, p, n
<1>7. /\ openupval'[t] \in Seq(UpVal) /\ Len(openupval'[t]) = n - p + 1
      /\ \A i \in 1..(n - p + 1) : openupval'[t][i] = s[p + i - 1]
  <2>1. p \in Int /\ n \in Int /\ \A i \in p..n : s[i] \in UpVal
    <3>1. \A i \in p..n : i \in 1..n BY <1>1, <1>2
    <3> QED BY <1>1, <1>2, <1>4, <3>1
  <2>2. /\ SubSeq(s, p, n) \in Seq(UpVal) /\ Len(SubSeq(s, p, n)) = IF p <= n THEN n - p + 1 ELSE 0
        /\ \A i \in 1..(n - p + 1) : SubSeq(s, p, n)[i] = s[p + i - 1]
    BY <2>1, SubSeqProperties
  <2>3. Len(SubSeq(s, p, n)) = n - p + 1 BY <1>1, <1>2, <2>2
  <2> QED BY <1>3, <2>2, <2>3
<1>8. openupval' \in [Thread -> Seq(UpVal)]
  <2>1. DOMAIN openupval' = Thread /\ openupval' = [r \in Thread |-> openupval'[r]]
    BY <1>1 DEF luaF_close
  <2>2. \A r \in Thread : openupval'[r] \in Seq(UpVal) BY <1>1, <1>3, <1>7
  <2> QED BY <2>1, <2>2
<1>9. \A u \in UpVal : v'[u] = IF u \notin Above(t, l) THEN v[u] ELSE IF refcount[u] = 0 THEN Free ELSE Own
  BY DEF luaF_close
<1>10. v' \in [UpVal -> Address \cup {Own, Free}] BY DEF luaF_close, TypeOK
<1>11. value' \in [UpVal -> Value]
  <2>1. ASSUME NEW u \in Above(t, l), u \in UpVal PROVE Deref(u) \in Value
    <3>1. PICK i \in 1..n : s[i] = u BY <1>6, <2>1
    <3>2. v[u] \in Address /\ v[u].block = stack[t] /\ stack[t] \in Block BY <3>1, Listed DEF s, n
    <3>3. v[u].level \in Level BY <3>2 DEF Address
    <3>4. stack[t] # NULL BY <3>2 DEF UpvalAssumption
    <3> QED BY <3>2, <3>3, <3>4 DEF Deref, upisopen, Stacks
  <2>2. value' = [u \in UpVal |-> IF u \in Above(t, l) /\ refcount[u] # 0 THEN Deref(u) ELSE value[u]]
    BY DEF luaF_close
  <2>3. \A u \in UpVal : value[u] \in Value BY DEF TypeOK
  <2> QED BY <2>1, <2>2, <2>3
<1>12. \E d \in Nat : /\ d + Len(openupval'[t]) = n
                      /\ \A i \in 1..Len(openupval'[t]) : openupval'[t][i] = s[i + d]
                      /\ \A i \in 1..d : v[s[i]].level >= l
  <2>0. p - 1 \in Nat BY <1>1, <1>2
  <2>1. (p - 1) + Len(openupval'[t]) = n BY <1>1, <1>2, <1>7
  <2>2. ASSUME NEW i \in 1..Len(openupval'[t]) PROVE openupval'[t][i] = s[i + (p - 1)]
    <3>1. i \in 1..(n - p + 1) /\ i + (p - 1) = p + i - 1 BY <1>1, <1>2, <1>7
    <3> QED BY <1>7, <3>1
  <2>3. ASSUME NEW i \in 1..(p - 1) PROVE v[s[i]].level >= l
    <3>1. i \in 1..n /\ i < p BY <1>1, <1>2
    <3> QED BY <1>2, <3>1
  <2> QED BY <2>0, <2>1, <2>2, <2>3
<1>13. \A i \in 1..Len(openupval'[t]) : /\ (i + p - 1) \in 1..n /\ openupval'[t][i] = s[i + p - 1]
                                        /\ ~(i + p - 1 < p)
  <2>1. ASSUME NEW i \in 1..Len(openupval'[t])
        PROVE  /\ (i + p - 1) \in 1..n /\ openupval'[t][i] = s[i + p - 1] /\ ~(i + p - 1 < p)
    <3>1. i \in 1..(n - p + 1) /\ i + p - 1 = p + i - 1 BY <1>1, <1>2, <1>7
    <3> QED BY <1>1, <1>2, <1>7, <3>1
  <2> QED BY <2>1
<1>14. \A i \in 1..Len(openupval'[t]) : v[openupval'[t][i]].level < l
  <2>1. ASSUME NEW i \in 1..Len(openupval'[t]) PROVE v[openupval'[t][i]].level < l
    <3>1. ~(v[s[i + p - 1]].level >= l) /\ v[s[i + p - 1]].level \in Nat BY <1>2, <1>4, <1>13
    <3>2. l \in Nat BY DEF Level
    <3> QED BY <1>13, <3>1, <3>2
  <2> QED BY <2>1
<1>15. ASSUME NEW r \in Thread, NEW i \in 1..Len(openupval'[r])
       PROVE  v'[openupval'[r][i]] = v[openupval'[r][i]]
  <2> DEFINE w == openupval'[r][i]
  <2>1. w \in UpVal BY <1>8
  <2>2. ASSUME NEW j \in 1..n, j < p, s[j] = w PROVE FALSE
    <3>1. CASE r = t
      <4>1. (i + p - 1) \in 1..n /\ w = s[i + p - 1] /\ ~(i + p - 1 < p) BY <1>13, <3>1
      <4>2. i + p - 1 = j BY <2>2, <4>1, OneList DEF s, n
      <4> QED BY <2>2, <4>1, <4>2
    <3>2. CASE r # t
      <4>1. w = openupval[r][i] /\ i \in 1..Len(openupval[r]) BY <1>3, <3>2
      <4> QED BY <2>2, <3>2, <4>1, OneList DEF s, n
    <3> QED BY <3>1, <3>2
  <2> HIDE DEF w
  <2>3. w \notin Above(t, l) BY <1>6, <2>1, <2>2
  <2>4. v'[w] = v[w] BY <1>9, <2>1, <2>3
  <2> QED BY <2>4 DEF w
<1>16. ASSUME NEW u \in UpVal
       PROVE  \/ v'[u] = v[u]
              \/ /\ v[u] \in Address
                 /\ v'[u] = IF refcount[u] = 0 THEN Free ELSE Own
                 /\ \E i \in 1..n : s[i] = u /\ v[u].level >= l
  BY <1>2, <1>4, <1>6, <1>9
<1>17. ASSUME NEW i \in 1..n
       PROVE  \/ \E j \in 1..Len(openupval'[t]) : openupval'[t][j] = s[i]
              \/ v'[s[i]] \in {Own, Free}
  <2>1. CASE i < p BY <1>4, <1>6, <1>9, <2>1
  <2>2. CASE ~(i < p)
    <3>1. (i - p + 1) \in 1..(n - p + 1) /\ p + (i - p + 1) - 1 = i BY <1>1, <1>2, <2>2
    <3> QED BY <1>7, <3>1
  <2> QED BY <2>1, <2>2
<1> QED BY <1>3, <1>8, <1>10, <1>11, <1>12, <1>14, <1>15, <1>16, <1>17 DEF s, n

\* No upvalue loses its count.
LEMMA ClosingCounts ==
  ASSUME UpvalAssumption, UInv, NEW t \in Thread, NEW l \in Level, luaF_close(t, l),
         UNCHANGED <<refcount, upvals>>
  PROVE  RefCounted'
<1> SUFFICES ASSUME NEW u \in UpVal
             PROVE  /\ v'[u] = Free => Users(u) = {}
                    /\ v'[u] # Free => refcount[u] = Cardinality(Users(u))
                    /\ v'[u] = Own => Users(u) # {}
  <2>1. \A u \in UpVal : Users(u)' = Users(u) /\ refcount' = refcount BY DEF Users
  <2> QED BY <2>1 DEF RefCounted
<1>1. \/ v'[u] = v[u]
      \/ v[u] \in Address /\ v'[u] = IF refcount[u] = 0 THEN Free ELSE Own
  BY Closing
<1>2. CASE v'[u] = v[u] BY <1>2 DEF UInv, RefCounted
<1>3. CASE v[u] \in Address /\ v'[u] = IF refcount[u] = 0 THEN Free ELSE Own
  <2>1. refcount[u] = Cardinality(Users(u)) BY <1>3 DEF UInv, RefCounted, UpvalAssumption
  <2>2. IsFiniteSet(Users(u)) BY UsersFinite DEF Users
  <2>3. Cardinality(Users(u)) = 0 <=> Users(u) = {} BY <2>2, FS_EmptySet
  <2> QED BY <1>3, <2>1, <2>3 DEF UpvalAssumption
<1> QED BY <1>1, <1>2, <1>3

\* What makes the lists sound after a step.
LEMMA ListsSound ==
  ASSUME openupval' \in [Thread -> Seq(UpVal)],
         \A u \in UpVal : v'[u] \in Address =>
           \E t \in Thread : \E i \in 1..Len(openupval'[t]) : openupval'[t][i] = u,
         \A t \in Thread : \A i \in 1..Len(openupval'[t]) :
           \E l \in 0..(top'[t] - 1) : v'[openupval'[t][i]] = AddressOf(t, l)',
         \A t \in Thread : \A i, j \in 1..Len(openupval'[t]) :
           i < j => v'[openupval'[t][i]].level > v'[openupval'[t][j]].level
  PROVE  OpenListed'
<1>1. \A t \in Thread : DOMAIN openupval'[t] = 1..Len(openupval'[t]) OBVIOUS
<1>2. \A u \in UpVal : upisopen(u)' => \E t \in Thread : u \in ToSet(openupval[t])'
  BY <1>1 DEF upisopen, ToSet
<1> QED BY <1>1, <1>2 DEF OpenListed

\* Closing keeps the lists sound, when the locals at the level and above are gone.
LEMMA ClosingLists ==
  ASSUME UpvalAssumption, UInv, NEW t \in Thread, NEW l \in Level, luaF_close(t, l),
         top' = [top EXCEPT ![t] = l],
         \A s \in Thread : s # t \/ l > 0 => stack'[s] = stack[s]
  PROVE  OpenListed'
<1> USE DEF UInv
<1>1. /\ openupval' \in [Thread -> Seq(UpVal)]
      /\ \A s \in Thread : s # t => openupval'[s] = openupval[s]
      /\ \A i \in 1..Len(openupval'[t]) : v[openupval'[t][i]].level < l
      /\ \A s \in Thread : \A i \in 1..Len(openupval'[s]) : v'[openupval'[s][i]] = v[openupval'[s][i]]
      /\ \A u \in UpVal : v'[u] = v[u] \/ v'[u] \in {Free, Own}
      /\ \A i \in 1..Len(openupval[t]) :
           \/ \E j \in 1..Len(openupval'[t]) : openupval'[t][j] = openupval[t][i]
           \/ v'[openupval[t][i]] \in {Own, Free}
  BY Closing
<1>2. PICK d \in Nat : /\ d + Len(openupval'[t]) = Len(openupval[t])
                       /\ \A i \in 1..Len(openupval'[t]) : openupval'[t][i] = openupval[t][i + d]
  BY Closing
<1>3. l \in Nat /\ Own \notin Address /\ Free \notin Address BY DEF Level, UpvalAssumption
<1>4. \A s \in Thread : openupval[s] \in Seq(UpVal) /\ Len(openupval[s]) \in Nat BY DEF TypeOK
<1>5. \A s \in Thread : Len(openupval'[s]) \in Nat BY <1>1
<1>6. ASSUME NEW u \in UpVal, v'[u] \in Address
      PROVE  \E s \in Thread : \E i \in 1..Len(openupval'[s]) : openupval'[s][i] = u
  <2>1. v'[u] = v[u] BY <1>1, <1>3, <1>6
  <2>2. PICK s \in Thread : \E i \in 1..Len(openupval[s]) : openupval[s][i] = u
    BY <1>6, <2>1, Open DEF upisopen
  <2>3. CASE s # t BY <1>1, <2>2, <2>3
  <2>4. CASE s = t
    <3>1. PICK i \in 1..Len(openupval[t]) : openupval[t][i] = u BY <2>2, <2>4
    <3>2. \E j \in 1..Len(openupval'[t]) : openupval'[t][j] = u BY <1>1, <1>3, <1>6, <3>1
    <3> QED BY <3>2
  <2> QED BY <2>3, <2>4
\* Each element of a new list is one of the old list of the thread.
<1>7. ASSUME NEW s \in Thread, NEW i \in 1..Len(openupval'[s])
      PROVE  \E k \in 1..Len(openupval[s]) : openupval'[s][i] = openupval[s][k]
  <2>1. CASE s # t BY <1>1, <2>1
  <2>2. CASE s = t
    <3>1. i + d \in 1..Len(openupval[t]) BY <1>2, <1>4, <1>5, <2>2
    <3> QED BY <1>2, <2>2, <3>1
  <2> QED BY <2>1, <2>2
<1>8. ASSUME NEW s \in Thread, NEW i \in 1..Len(openupval'[s])
      PROVE  \E k \in 0..(top'[s] - 1) : v'[openupval'[s][i]] = AddressOf(s, k)'
  <2>1. PICK m \in 1..Len(openupval[s]) : openupval'[s][i] = openupval[s][m] BY <1>7
  <2>2. PICK u : u = openupval[s][m] OBVIOUS
  <2>3. PICK k : k = v[u].level OBVIOUS
  <2>4. v[u] = AddressOf(s, k) /\ k \in 0..(top[s] - 1) BY <2>2, <2>3, Listed
  <2>5. v'[u] = v[u] /\ u = openupval'[s][i] BY <1>1, <2>1, <2>2
  <2>6. top \in [Thread -> 0..MaxLevel] /\ MaxLevel \in Nat BY DEF TypeOK, UpvalAssumption
  <2>7. CASE s # t
    <3>1. top'[s] = top[s] /\ stack'[s] = stack[s] BY <2>6, <2>7
    <3>2. v'[u] = AddressOf(s, k)' BY <2>4, <2>5, <3>1 DEF AddressOf
    <3> QED BY <2>4, <2>5, <3>1, <3>2
  <2>8. CASE s = t
    <3>1. k < l BY <1>1, <2>3, <2>5, <2>8
    <3>2. l > 0 /\ k \in 0..(l - 1) BY <1>3, <2>4, <2>6, <3>1
    <3>3. top'[s] = l /\ stack'[s] = stack[s] BY <2>6, <2>8, <3>2
    <3>4. v'[u] = AddressOf(s, k)' BY <2>4, <2>5, <3>3 DEF AddressOf
    <3> QED BY <2>5, <3>2, <3>3, <3>4
  <2> QED BY <2>7, <2>8
<1>9. ASSUME NEW s \in Thread, NEW i \in 1..Len(openupval'[s]), NEW j \in 1..Len(openupval'[s]), i < j
      PROVE  v'[openupval'[s][i]].level > v'[openupval'[s][j]].level
  <2>1. \A m, k \in 1..Len(openupval[s]) : m < k => v[openupval[s][m]].level > v[openupval[s][k]].level
    BY <1>4 DEF OpenListed
  <2>2. v'[openupval'[s][i]] = v[openupval'[s][i]] /\ v'[openupval'[s][j]] = v[openupval'[s][j]] BY <1>1
  <2>3. CASE s # t BY <1>1, <1>9, <2>1, <2>2, <2>3
  <2>4. CASE s = t
    <3>1. i + d \in 1..Len(openupval[t]) /\ j + d \in 1..Len(openupval[t]) /\ i + d < j + d
      BY <1>2, <1>4, <1>5, <1>9, <2>4
    <3>2. openupval'[s][i] = openupval[s][i + d] /\ openupval'[s][j] = openupval[s][j + d]
      BY <1>2, <2>4
    <3> QED BY <2>1, <2>2, <2>4, <3>1, <3>2
  <2> QED BY <2>3, <2>4
<1> QED BY <1>1, <1>6, <1>8, <1>9, ListsSound

(***************************************************************************)
(* What most steps leave alone                                             *)
(***************************************************************************)
LEMMA CountsStay == ASSUME RefCounted, UNCHANGED <<v, refcount, upvals>> PROVE RefCounted'
<1>1. \A u \in UpVal : Users(u)' = Users(u) BY DEF Users
<1> QED BY <1>1 DEF RefCounted

LEMMA ListsStay == ASSUME OpenListed, UNCHANGED <<openupval, v, stack, top>> PROVE OpenListed'
BY DEF OpenListed, upisopen, AddressOf

\* They are sound as long as the open upvalues are the same and no local is gone.
LEMMA OpenStay ==
  ASSUME UpvalAssumption, UInv, UNCHANGED <<openupval, stack>>,
         \A t \in Thread : top'[t] \in Nat /\ top'[t] >= top[t],
         \A u \in UpVal : v[u] \in Address => v'[u] = v[u],
         \A u \in UpVal : v'[u] \in Address => v'[u] = v[u]
  PROVE  OpenListed'
<1> USE DEF UInv
<1>1. openupval \in [Thread -> Seq(UpVal)] /\ openupval' = openupval BY DEF TypeOK
<1>2. ASSUME NEW t \in Thread, NEW i \in 1..Len(openupval[t])
      PROVE  /\ v'[openupval[t][i]] = v[openupval[t][i]]
             /\ \E l \in 0..(top'[t] - 1) : v'[openupval[t][i]] = AddressOf(t, l)'
  <2>1. PICK u : u = openupval[t][i] OBVIOUS
  <2>2. PICK l : l = v[u].level OBVIOUS
  <2>3. u \in UpVal /\ v[u] \in Address /\ v[u] = AddressOf(t, l) /\ l \in 0..(top[t] - 1)
    BY <2>1, <2>2, Listed
  <2>4. v'[u] = v[u] BY <2>3
  <2>5. v'[u] = AddressOf(t, l)' BY <2>3, <2>4 DEF AddressOf
  <2>6. l \in 0..(top'[t] - 1)
    <3>1. top[t] \in Nat BY DEF TypeOK, UpvalAssumption
    <3>2. top'[t] \in Nat /\ top'[t] >= top[t] OBVIOUS
    <3> QED BY <2>3, <3>1, <3>2
  <2> QED BY <2>1, <2>4, <2>5, <2>6
<1>3. \A u \in UpVal : v'[u] \in Address =>
        \E t \in Thread : \E i \in 1..Len(openupval'[t]) : openupval'[t][i] = u
  BY <1>1, Open DEF upisopen
<1>4. \A t \in Thread : \A i, j \in 1..Len(openupval[t]) :
        i < j => v[openupval[t][i]].level > v[openupval[t][j]].level
  <2>1. \A t \in Thread : DOMAIN openupval[t] = 1..Len(openupval[t]) BY <1>1
  <2> QED BY <2>1 DEF OpenListed
<1>5. \A t \in Thread : \A i, j \in 1..Len(openupval'[t]) :
        i < j => v'[openupval'[t][i]].level > v'[openupval'[t][j]].level
  BY <1>1, <1>2, <1>4
<1>6. \A t \in Thread : \A i \in 1..Len(openupval'[t]) :
        \E l \in 0..(top'[t] - 1) : v'[openupval'[t][i]] = AddressOf(t, l)'
  BY <1>1, <1>2
<1>7. openupval' \in [Thread -> Seq(UpVal)] BY <1>1
<1> QED BY <1>3, <1>5, <1>6, <1>7, ListsSound

\* The place found before an allocation is right as long as the list is the same.
LEMMA PlaceStays ==
  ASSUME UpvalAssumption, UInv, pc = "link", UNCHANGED <<th, level, pp>>,
         openupval'[th] = openupval[th],
         \A i \in 1..Len(openupval[th]) : v'[openupval[th][i]] = v[openupval[th][i]]
  PROVE  PlaceValid'
<1> USE DEF UInv
<1> DEFINE s == openupval[th]
<1>1. th \in Thread /\ level \in Level /\ level \in Nat BY DEF Busy, TypeOK, Level
<1>2. s \in Seq(UpVal) /\ Len(s) \in Nat BY <1>1 DEF TypeOK
<1>3. pp = Position(th, level) BY DEF PlaceValid
<1>4. pp \in 1..(Len(s) + 1) /\ \A i \in 1..Len(s) : i < pp <=> v[s[i]].level >= level
  BY <1>1, <1>3, Walk
<1>5. \A i \in 1..Len(s) : v[s[i]].level \in Nat
  <2>1. ASSUME NEW i \in 1..Len(s) PROVE v[s[i]].level \in Nat
    <3>1. v[s[i]].level \in 0..(top[th] - 1) BY <1>1, Listed
    <3> QED BY <3>1
  <2> QED BY <2>1
<1> HIDE DEF s
<1>6. \A i \in 1..Len(s) : v'[s[i]].level \in Nat /\ (i < pp <=> v'[s[i]].level >= level)
  BY <1>4, <1>5 DEF s
<1>7. \A i \in 1..(pp - 1) : v'[s[i]].level >= level
  <2>1. \A i \in 1..(pp - 1) : i \in 1..Len(s) /\ i < pp BY <1>2, <1>4
  <2> QED BY <1>6, <2>1
<1>8. pp <= Len(s) => v'[s[pp]].level < level
  <2> SUFFICES ASSUME pp <= Len(s) PROVE v'[s[pp]].level < level OBVIOUS
  <2>1. pp \in 1..Len(s) /\ ~(pp < pp) BY <1>2, <1>4
  <2>2. v'[s[pp]].level \in Nat /\ ~(v'[s[pp]].level >= level) BY <1>6, <2>1
  <2> QED BY <1>1, <2>2
<1>9. \A i \in 1..Len(s) : v'[s[i]].level \in Nat BY <1>6
<1>10. pp = PositionIn(s, v', level) BY <1>1, <1>2, <1>4, <1>7, <1>8, <1>9, PositionOnly
<1>11. Position(th, level)' = PositionIn(s, v', level) BY DEF Position, s
<1> QED BY <1>10, <1>11 DEF PlaceValid

\* A step of the collector that frees nothing changes colours and the cache only.
LEMMA ColoursOnly ==
  ASSUME UpvalAssumption, UInv,
         UNCHANGED <<mem, stack, top, openupval, v, value, refcount, upvals>>,
         UNCHANGED <<pc, ncl, th, encup, level, pp>>,
         marked' \in [Object -> {"free", "white", "black", "dead"}],
         \A o \in Object : marked'[o] = "free" <=> marked[o] = "free",
         \A o \in Object \cap {ncl, th, encup} : Live(o) => Live(o)',
         cache' \in Closure \cup {NULL}, proto' \in {"white", "black"},
         gcphase' \in {"marking", "sweeping"}, sweeps' \in 0..2
  PROVE  TypeOK' /\ RefCounted' /\ OpenListed' /\ PlaceValid' /\ Stacks' /\ Busy'
<1> USE DEF UInv
<1>1. TypeOK' BY DEF TypeOK
<1>2. RefCounted' /\ OpenListed' BY CountsStay, ListsStay
<1>3. PlaceValid' BY DEF PlaceValid, Position
<1>4. Stacks' BY DEF Stacks, Object
<1>5. Busy'
  <2>1. \A c \in Closure : Complete(c) => Complete(c)' BY DEF Complete
  <2>2. encup # NULL => encup \in Closure BY DEF TypeOK
  <2>3. pc # "idle" => /\ ncl \in Closure /\ Live(ncl)' /\ th \in Thread /\ Live(th)'
                       /\ encup # NULL => Callable(encup)'
    BY <2>1, <2>2 DEF Busy, Object, Callable
  <2> QED BY <2>1, <2>3 DEF Busy, AddressOf, Complete
<1> QED BY <1>1, <1>2, <1>3, <1>4, <1>5

(***************************************************************************)
(* The steps of the collector                                              *)
(***************************************************************************)
LEMMA MarkSound == ASSUME UpvalAssumption, UInv, NEW o \in Object, Mark(o) PROVE UInv'
<1> USE DEF UInv
<1>1. /\ UNCHANGED <<mem, stack, top, openupval, v, value, refcount, upvals>>
      /\ UNCHANGED <<pc, ncl, th, encup, level, pp, cache, proto, gcphase, sweeps>>
      /\ marked[o] = "white" /\ marked' = [marked EXCEPT ![o] = "black"]
  BY DEF Mark, threads, pools, locals
<1>2. marked \in [Object -> {"free", "white", "black", "dead"}] BY DEF TypeOK
<1>3. /\ marked' \in [Object -> {"free", "white", "black", "dead"}] /\ marked'[o] = "black"
      /\ \A p \in Object : p # o => marked'[p] = marked[p]
  BY <1>1, <1>2
<1>4. TypeOK' /\ RefCounted' /\ OpenListed' /\ PlaceValid' /\ Stacks' /\ Busy'
  <2>1. \A p \in Object : (marked'[p] = "free" <=> marked[p] = "free") /\ (Live(p) => Live(p)')
    BY <1>1, <1>3 DEF Live
  <2>2. /\ cache' \in Closure \cup {NULL} /\ proto' \in {"white", "black"}
        /\ gcphase' \in {"marking", "sweeping"} /\ sweeps' \in 0..2
    BY <1>1 DEF TypeOK
  <2> QED BY <1>1, <1>3, <2>1, <2>2, ColoursOnly
<1>5. CacheKept'
  <2>1. cache # NULL => cache \in Object BY DEF TypeOK, Object
  <2>2. \A c \in Closure : Complete(c)' <=> Complete(c) BY <1>1 DEF Complete
  <2>3. cache # NULL => cache \in Closure BY DEF TypeOK
  <2> QED BY <1>1, <1>3, <2>1, <2>2, <2>3 DEF CacheKept, CacheLive, Callable, Live
<1> QED BY <1>4, <1>5

LEMMA SweepLiveSound == ASSUME UpvalAssumption, UInv, NEW o \in Object, SweepLive(o) PROVE UInv'
<1> USE DEF UInv
<1>1. /\ UNCHANGED <<mem, stack, top, openupval, v, value, refcount, upvals>>
      /\ UNCHANGED <<pc, ncl, th, encup, level, pp, cache, proto, gcphase, sweeps>>
      /\ gcphase = "sweeping" /\ marked[o] = "black" /\ marked' = [marked EXCEPT ![o] = "white"]
  BY DEF SweepLive, Sweeping, threads, pools, locals
<1>2. marked \in [Object -> {"free", "white", "black", "dead"}] BY DEF TypeOK
<1>3. /\ marked' \in [Object -> {"free", "white", "black", "dead"}] /\ marked'[o] = "white"
      /\ \A p \in Object : p # o => marked'[p] = marked[p]
  BY <1>1, <1>2
<1>4. TypeOK' /\ RefCounted' /\ OpenListed' /\ PlaceValid' /\ Stacks' /\ Busy'
  <2>1. \A p \in Object : (marked'[p] = "free" <=> marked[p] = "free") /\ (Live(p) => Live(p)')
    BY <1>1, <1>3 DEF Live
  <2>2. /\ cache' \in Closure \cup {NULL} /\ proto' \in {"white", "black"}
        /\ gcphase' \in {"marking", "sweeping"} /\ sweeps' \in 0..2
    BY <1>1 DEF TypeOK
  <2> QED BY <1>1, <1>3, <2>1, <2>2, ColoursOnly
<1>5. CacheKept'
  <2>1. cache # NULL => cache \in Object BY DEF TypeOK, Object
  <2>2. \A c \in Closure : Complete(c)' <=> Complete(c) BY <1>1 DEF Complete
  <2>3. cache # NULL => cache \in Closure BY DEF TypeOK
  <2> QED BY <1>1, <1>3, <2>1, <2>2, <2>3 DEF CacheKept, CacheLive, Callable, Live
<1> QED BY <1>4, <1>5

\* Marking the prototype drops a closure that is not marked.
LEMMA TraverseProtoSound == ASSUME UpvalAssumption, UInv, TraverseProto PROVE UInv'
<1> USE DEF UInv
<1>1. /\ UNCHANGED <<mem, stack, top, openupval, v, value, refcount, upvals>>
      /\ UNCHANGED <<pc, ncl, th, encup, level, pp, marked, gcphase, sweeps>>
      /\ cache' = IF cache # NULL /\ marked[cache] = "white" THEN NULL ELSE cache
      /\ proto' = "black"
  BY DEF TraverseProto, threads, pools, locals
<1>2. /\ cache' \in Closure \cup {NULL} /\ proto' \in {"white", "black"}
      /\ gcphase' \in {"marking", "sweeping"} /\ sweeps' \in 0..2
      /\ marked' \in [Object -> {"free", "white", "black", "dead"}]
  BY <1>1 DEF TypeOK
<1>3. \A p \in Object : (marked'[p] = "free" <=> marked[p] = "free") /\ (Live(p) => Live(p)')
  BY <1>1 DEF Live
<1>4. TypeOK' /\ RefCounted' /\ OpenListed' /\ PlaceValid' /\ Stacks' /\ Busy'
  BY <1>1, <1>2, <1>3, ColoursOnly
<1>5. CacheKept'
  <2>1. \A c \in Closure : Complete(c)' <=> Complete(c) BY <1>1 DEF Complete
  <2>2. cache # NULL => cache \in Closure BY DEF TypeOK
  <2> QED BY <1>1, <2>1, <2>2 DEF CacheKept, CacheLive, Callable, Live
<1> QED BY <1>4, <1>5

\* The atomic phase condemns what is not marked: not the cache, since the prototype is.
LEMMA AtomicSound == ASSUME UpvalAssumption, UInv, NEW S \in SUBSET Object, Atomic(S) PROVE UInv'
<1> USE DEF UInv
<1>1. /\ UNCHANGED <<mem, stack, top, openupval, v, value, refcount, upvals>>
      /\ UNCHANGED <<pc, ncl, th, encup, level, pp, cache, proto, sweeps>>
      /\ gcphase = "marking" /\ gcphase' = "sweeping" /\ proto = "black"
      /\ \A o \in S : marked[o] = "white"
      /\ S \cap {mainthread, ncl, th, encup} = {}
  BY DEF Atomic, threads, pools, locals
<1>2. /\ marked' \in [Object -> {"free", "white", "black", "dead"}]
      /\ \A o \in Object : marked'[o] = IF o \in S THEN "dead"
                                        ELSE IF marked[o] = "white" THEN "black" ELSE marked[o]
  BY DEF Atomic, TypeOK
<1>3. \A o \in Object : /\ marked'[o] = "free" <=> marked[o] = "free"
                        /\ o \notin S => (Live(o) => Live(o)')
  BY <1>1, <1>2 DEF Live
<1>4. /\ cache' \in Closure \cup {NULL} /\ proto' \in {"white", "black"}
      /\ gcphase' \in {"marking", "sweeping"} /\ sweeps' \in 0..2
  BY <1>1 DEF TypeOK
<1>5. TypeOK' /\ RefCounted' /\ OpenListed' /\ PlaceValid' /\ Stacks' /\ Busy'
  <2>1. \A o \in Object \cap {ncl, th, encup} : Live(o) => Live(o)' BY <1>1, <1>3
  <2> QED BY <1>1, <1>2, <1>3, <1>4, <2>1, ColoursOnly
<1>6. CacheKept'
  <2>1. \A c \in Closure : Complete(c)' <=> Complete(c) BY <1>1 DEF Complete
  <2>2. cache # NULL => cache \in Closure /\ cache \in Object BY DEF TypeOK, Object
  <2>3. cache # NULL => marked[cache] = "black" /\ cache \notin S BY <1>1 DEF CacheKept
  <2> QED BY <1>1, <1>2, <2>1, <2>2, <2>3 DEF CacheKept, CacheLive, Callable, Live
<1> QED BY <1>5, <1>6

\* The prototype is swept, a sweep ends or an emergency begins: a marked prototype is
\* swept before the next cycle marks.
LEMMA PhaseSound ==
  ASSUME UpvalAssumption, UInv, SweepProto \/ SweepEnd \/ Emergency
  PROVE  UInv'
<1> USE DEF UInv
<1>1. /\ UNCHANGED <<mem, stack, top, openupval, v, value, refcount, upvals>>
      /\ UNCHANGED <<pc, ncl, th, encup, level, pp, cache, marked>>
      /\ gcphase' = "marking" => proto' = "white"
  BY DEF SweepProto, SweepEnd, Emergency, Sweeping, threads, pools, locals
<1>2. /\ cache' \in Closure \cup {NULL} /\ proto' \in {"white", "black"}
      /\ gcphase' \in {"marking", "sweeping"} /\ sweeps' \in 0..2
      /\ marked' \in [Object -> {"free", "white", "black", "dead"}]
  BY <1>1 DEF TypeOK, SweepProto, SweepEnd, Emergency
<1>3. \A p \in Object : (marked'[p] = "free" <=> marked[p] = "free") /\ (Live(p) => Live(p)')
  BY <1>1 DEF Live
<1>4. TypeOK' /\ RefCounted' /\ OpenListed' /\ PlaceValid' /\ Stacks' /\ Busy'
  BY <1>1, <1>2, <1>3, ColoursOnly
<1>5. CacheKept'
  <2>1. \A c \in Closure : Complete(c)' <=> Complete(c) BY <1>1 DEF Complete
  <2>2. cache # NULL => cache \in Closure BY DEF TypeOK
  <2> QED BY <1>1, <2>1, <2>2 DEF CacheKept, CacheLive, Callable, Live
<1> QED BY <1>4, <1>5

\* A closure that is freed releases its upvalues: those that are closed and have no other
\* user are freed, the open ones stay in their lists.
LEMMA FreeLClosureSound ==
  ASSUME UpvalAssumption, UInv, NEW c \in Closure, FreeLClosure(c) PROVE UInv'
<1> USE DEF UInv
<1> DEFINE n(u) == Cardinality({i \in Index : upvals[c][i] = u})
<1>1. /\ UNCHANGED <<mem, stack, top, openupval, value, cache, proto, gcphase, sweeps>>
      /\ UNCHANGED <<pc, ncl, th, encup, level, pp>>
      /\ marked[c] = "dead" /\ marked' = [marked EXCEPT ![c] = "free"]
      /\ upvals' = [upvals EXCEPT ![c] = [i \in Index |-> NULL]]
      /\ v' = [u \in UpVal |-> Deccount(u, n(u))]
      /\ refcount' = [u \in UpVal |-> refcount[u] - n(u)]
  BY DEF FreeLClosure, threads, locals
<1>2. \A u \in UpVal : /\ n(u) \in 0..Cardinality(Users(u)) /\ n(u) \in Nat
                       /\ Cardinality(Users(u)) \in Nat
                       /\ Cardinality(Users(u)') = Cardinality(Users(u)) - n(u)
  <2>1. ASSUME NEW u \in UpVal
        PROVE  /\ n(u) \in 0..Cardinality(Users(u)) /\ Cardinality(Users(u)) \in Nat
               /\ Cardinality(Users(u)') = Cardinality(Users(u)) - n(u)
    <3>1. Cardinality(Users(u)) \in Nat BY UsersFinite DEF Users
    <3> QED BY <1>1, <3>1, FreeCounts
  <2> QED BY <2>1
<1> HIDE DEF n
<1>3. marked \in [Object -> {"free", "white", "black", "dead"}] /\ c \in Object BY DEF TypeOK, Object
<1>4. /\ marked' \in [Object -> {"free", "white", "black", "dead"}] /\ marked'[c] = "free"
      /\ \A o \in Object : o # c => marked'[o] = marked[o]
  BY <1>1, <1>3
<1>5. \A o \in Object : Live(o) => o # c /\ Live(o)' BY <1>1, <1>4 DEF Live
<1>6. \A t \in Thread : t \in Object /\ marked'[t] = marked[t] BY <1>4 DEF Object, UpvalAssumption
<1>7. /\ upvals' \in [Closure -> [Index -> UpVal \cup {NULL}]]
      /\ \A b \in Closure : b # c => upvals'[b] = upvals[b]
  BY <1>1 DEF TypeOK
<1>8. \A u \in UpVal : \/ v'[u] = v[u]
                       \/ v'[u] = Free /\ v[u] \notin Address /\ n(u) > 0 /\ refcount[u] = n(u)
  BY <1>1 DEF Deccount, upisopen
<1>9. \A u \in UpVal : v'[u] = v[u] => ~(n(u) > 0 /\ refcount[u] = n(u) /\ v[u] = Own)
  BY <1>1 DEF Deccount, upisopen, UpvalAssumption
<1>10. ASSUME NEW u \in UpVal
       PROVE  /\ refcount'[u] \in Nat
              /\ v'[u] = Free => Users(u)' = {}
              /\ v'[u] # Free => refcount'[u] = Cardinality(Users(u)')
              /\ v'[u] = Own => Users(u)' # {}
  <2>1. refcount'[u] = refcount[u] - n(u) /\ refcount[u] \in Nat BY <1>1 DEF TypeOK
  <2>2. IsFiniteSet(Users(u)) /\ IsFiniteSet(Users(u)')
    <3>1. \A p \in Users(u)' : p \in Closure \X Index BY DEF Users
    <3>2. Users(u)' \subseteq Closure \X Index BY <3>1
    <3> QED BY <3>2, UsersFinite DEF Users
  <2>3. /\ Cardinality(Users(u)) = 0 <=> Users(u) = {}
        /\ Cardinality(Users(u)') = 0 <=> Users(u)' = {}
    BY <2>2, FS_EmptySet
  <2>4. /\ v[u] = Free => Users(u) = {}
        /\ v[u] # Free => refcount[u] = Cardinality(Users(u))
        /\ v[u] = Own => Users(u) # {}
    BY DEF RefCounted
  <2>5. CASE v[u] = Free
    <3>0. Cardinality(Users(u)) = 0 BY <2>3, <2>4, <2>5
    <3>1. n(u) = 0 /\ v'[u] = Free
      <4>1. n(u) \in 0..0 BY <1>2, <3>0
      <4>2. n(u) = 0 BY <4>1
      <4> QED BY <1>8, <2>5, <4>2
    <3>2. Cardinality(Users(u)') = 0 BY <1>2, <2>3, <2>4, <2>5, <3>1
    <3>3. Users(u)' = {} BY <2>3, <3>2
    <3>4. refcount'[u] \in Nat BY <2>1, <3>1
    <3> QED BY <3>1, <3>3, <3>4 DEF UpvalAssumption
  <2>6. CASE v[u] # Free
    <3>1. refcount'[u] = Cardinality(Users(u)') /\ refcount'[u] \in Nat
      BY <1>2, <2>1, <2>4, <2>6
    <3>2. CASE v'[u] = v[u]
      <4>1. v[u] = Own => Cardinality(Users(u)') # 0 BY <1>2, <1>9, <2>3, <2>4, <2>6, <3>2
      <4> QED BY <2>3, <2>6, <3>1, <3>2, <4>1
    <3>3. CASE v'[u] # v[u]
      <4>1. v'[u] = Free /\ refcount[u] = n(u) BY <1>8, <3>3
      <4>2. Cardinality(Users(u)') = 0 BY <1>2, <2>4, <2>6, <4>1
      <4> QED BY <2>3, <3>1, <4>1, <4>2 DEF UpvalAssumption
    <3> QED BY <3>2, <3>3
  <2> QED BY <2>5, <2>6
<1>11. RefCounted' BY <1>10 DEF RefCounted
<1>12. \A u \in UpVal : v[u] \in Address => v'[u] = v[u] BY <1>8
<1>13. \A u \in UpVal : v'[u] \in Address => v'[u] = v[u] BY <1>8 DEF UpvalAssumption
<1>15. \A t \in Thread : \A i \in 1..Len(openupval[t]) : v'[openupval[t][i]] = v[openupval[t][i]]
  BY <1>12, Listed
<1>16. OpenListed'
  <2>1. \A t \in Thread : top'[t] \in Nat /\ top'[t] >= top[t] BY <1>1 DEF TypeOK, UpvalAssumption
  <2> QED BY <1>1, <1>12, <1>13, <2>1, OpenStay
<1>17. PlaceValid'
  <2>1. CASE pc = "link"
    <3>1. th \in Thread BY <2>1 DEF Busy
    <3> QED BY <1>1, <1>15, <2>1, <3>1, PlaceStays
  <2>2. CASE pc # "link" BY <1>1, <2>2 DEF PlaceValid
  <2> QED BY <2>1, <2>2
<1>18. TypeOK'
  <2>1. v' \in [UpVal -> Address \cup {Own, Free}]
    <3>1. \A u \in UpVal : v'[u] \in Address \cup {Own, Free} BY <1>8 DEF TypeOK
    <3>2. v' = [u \in UpVal |-> v'[u]] BY <1>1
    <3> QED BY <3>1, <3>2
  <2>2. refcount' \in [UpVal -> Nat]
    <3>1. refcount' = [u \in UpVal |-> refcount'[u]] BY <1>1
    <3> QED BY <1>10, <3>1
  <2> QED BY <1>1, <1>4, <1>7, <2>1, <2>2 DEF TypeOK
<1>19. Stacks' BY <1>1, <1>6 DEF Stacks
<1>20. \A b \in Closure : Live(b) /\ Complete(b) => Complete(b)'
  BY <1>5, <1>7 DEF Complete, Object
<1>21. Busy'
  <2>1. pc # "idle" => ncl \in Closure /\ Live(ncl)' /\ th \in Thread /\ Live(th)'
    BY <1>1, <1>5 DEF Busy, Object
  <2>2. pc # "idle" /\ encup # NULL => Callable(encup)'
    <3>1. encup # NULL => encup \in Closure /\ encup \in Object BY DEF TypeOK, Object
    <3> QED BY <1>1, <1>5, <1>20, <3>1 DEF Busy, Callable
  <2>3. ASSUME pc = "link"
        PROVE  /\ ~Complete(ncl)' /\ \A u \in UpVal : v'[u] # AddressOf(th, level)'
    <3>1. ncl # c BY <1>5, <2>3 DEF Busy, Object
    <3>2. ~Complete(ncl)' BY <1>1, <1>7, <2>3, <3>1 DEF Busy, Complete
    <3>3. AddressOf(th, level)' = AddressOf(th, level) BY <1>1 DEF AddressOf
    <3>4. AddressOf(th, level) \in Address
      <4>1. th \in Thread /\ marked[th] # "free" /\ level \in Level BY <2>3 DEF Busy, Live, TypeOK
      <4>2. stack[th] \in Block BY <4>1 DEF Stacks, TypeOK
      <4> QED BY <4>1, <4>2 DEF AddressOf, Address
    <3>5. \A u \in UpVal : v'[u] # AddressOf(th, level) BY <1>13, <2>3, <3>4 DEF Busy
    <3> QED BY <3>2, <3>3, <3>5
  <2> QED BY <1>1, <2>1, <2>2, <2>3 DEF Busy
<1>22. CacheKept'
  <2>1. cache # NULL => cache \in Closure /\ cache \in Object BY DEF TypeOK, Object
  <2>2. cache # NULL => cache # c /\ Callable(cache)' BY <1>1, <1>5, <1>20, <2>1 DEF CacheKept, CacheLive, Callable
  <2> QED BY <1>1, <1>4, <2>1, <2>2 DEF CacheKept, CacheLive
<1> QED BY <1>11, <1>16, <1>17, <1>18, <1>19, <1>21, <1>22

\* A thread that is freed closes its upvalues first.
LEMMA FreeThreadSound ==
  ASSUME UpvalAssumption, UInv, NEW t \in Thread, FreeThread(t) PROVE UInv'
<1> USE DEF UInv
<1>1. /\ UNCHANGED <<refcount, upvals, cache, proto, gcphase, sweeps>>
      /\ UNCHANGED <<pc, ncl, th, encup, level, pp>>
      /\ marked[t] = "dead" /\ marked' = [marked EXCEPT ![t] = "free"]
      /\ stack' = [stack EXCEPT ![t] = NULL] /\ top' = [top EXCEPT ![t] = 0]
      /\ mem' = [mem EXCEPT ![stack[t]] = [l \in Level |-> Junk]]
      /\ luaF_close(t, 0)
  BY DEF FreeThread, locals
<1>2. 0 \in Level /\ MaxLevel \in Nat BY DEF Level, UpvalAssumption
<1>3. /\ openupval' \in [Thread -> Seq(UpVal)]
      /\ v' \in [UpVal -> Address \cup {Own, Free}] /\ value' \in [UpVal -> Value]
      /\ \A s \in Thread : s # t => openupval'[s] = openupval[s]
      /\ \A s \in Thread : \A i \in 1..Len(openupval'[s]) : v'[openupval'[s][i]] = v[openupval'[s][i]]
      /\ \A u \in UpVal : v'[u] = v[u] \/ v'[u] \in {Free, Own}
  BY <1>1, <1>2, Closing
<1>4. RefCounted' BY <1>1, <1>2, ClosingCounts
<1>5. OpenListed'
  <2>1. \A s \in Thread : s # t \/ 0 > 0 => stack'[s] = stack[s] BY <1>1 DEF TypeOK
  <2> QED BY <1>1, <1>2, <2>1, ClosingLists
<1>6. marked \in [Object -> {"free", "white", "black", "dead"}] /\ t \in Object BY DEF TypeOK, Object
<1>7. /\ marked' \in [Object -> {"free", "white", "black", "dead"}] /\ marked'[t] = "free"
      /\ \A o \in Object : o # t => marked'[o] = marked[o]
  BY <1>1, <1>6
<1>8. \A o \in Object : Live(o) => o # t /\ Live(o)' BY <1>1, <1>7 DEF Live
<1>9. \A c \in Closure : Complete(c)' <=> Complete(c) BY <1>1 DEF Complete
<1>10. stack[t] \in Block BY <1>1 DEF Stacks, TypeOK
<1>11. TypeOK'
  <2>1. mem' \in [Block -> [Level -> Value \cup {Junk}]] BY <1>1, <1>10 DEF TypeOK
  <2>2. stack' \in [Thread -> Block \cup {NULL}] /\ top' \in [Thread -> 0..MaxLevel]
    BY <1>1, <1>2 DEF TypeOK
  <2> QED BY <1>1, <1>3, <1>7, <2>1, <2>2 DEF TypeOK
<1>12. Stacks'
  <2>1. \A s \in Thread : s # t => stack'[s] = stack[s] /\ top'[s] = top[s] /\ marked'[s] = marked[s]
    BY <1>1, <1>7 DEF TypeOK, Object
  <2>2. stack'[t] = NULL /\ top'[t] = 0 BY <1>1 DEF TypeOK
  <2>3. \A s \in Thread : s # t /\ stack[s] # NULL => stack[s] \in Block /\ mem'[stack[s]] = mem[stack[s]]
    BY <1>1, <1>10 DEF Stacks, TypeOK
  <2> QED BY <1>7, <2>1, <2>2, <2>3 DEF Stacks
<1>13. Busy'
  <2>1. pc # "idle" => ncl \in Closure /\ Live(ncl)' /\ th \in Thread /\ th # t /\ Live(th)'
    BY <1>1, <1>8 DEF Busy, Object
  <2>2. pc # "idle" /\ encup # NULL => Callable(encup)'
    <3>1. encup # NULL => encup \in Closure /\ encup \in Object BY DEF TypeOK, Object
    <3> QED BY <1>1, <1>8, <1>9, <3>1 DEF Busy, Callable
  <2>3. ASSUME pc = "link"
        PROVE  /\ ~Complete(ncl)' /\ level < top'[th] /\ \A u \in UpVal : v'[u] # AddressOf(th, level)'
    <3>1. ~Complete(ncl)' BY <1>1, <1>9, <2>3 DEF Busy
    <3>2. th \in Thread /\ th # t BY <2>1, <2>3
    <3>3. stack'[th] = stack[th] /\ top'[th] = top[th] BY <1>1, <3>2 DEF TypeOK
    <3>4. AddressOf(th, level)' = AddressOf(th, level) BY <1>1, <3>3 DEF AddressOf
    <3>5. AddressOf(th, level) \in Address
      <4>1. th \in Thread /\ marked[th] # "free" /\ level \in Level BY <2>3 DEF Busy, Live, TypeOK
      <4>2. stack[th] \in Block BY <4>1 DEF Stacks, TypeOK
      <4> QED BY <4>1, <4>2 DEF AddressOf, Address
    <3>6. \A u \in UpVal : v'[u] # AddressOf(th, level)
      BY <1>3, <2>3, <3>5 DEF Busy, UpvalAssumption
    <3> QED BY <2>3, <3>1, <3>3, <3>4, <3>6 DEF Busy
  <2> QED BY <1>1, <2>1, <2>2, <2>3 DEF Busy
<1>14. PlaceValid'
  <2>1. CASE pc = "link"
    <3>1. th \in Thread /\ th # t BY <1>8, <2>1 DEF Busy, Object
    <3>2. openupval'[th] = openupval[th] BY <1>3, <3>1
    <3> QED BY <1>1, <1>3, <2>1, <3>1, <3>2, PlaceStays
  <2>2. CASE pc # "link" BY <1>1, <2>2 DEF PlaceValid
  <2> QED BY <2>1, <2>2
<1>15. CacheKept'
  <2>1. cache # NULL => cache \in Closure /\ cache \in Object BY DEF TypeOK, Object
  <2>2. cache # NULL => cache # t /\ Callable(cache)' BY <1>1, <1>8, <1>9, <2>1 DEF CacheKept, CacheLive, Callable
  <2> QED BY <1>1, <1>7, <2>1, <2>2 DEF CacheKept, CacheLive
<1> QED BY <1>4, <1>5, <1>11, <1>12, <1>13, <1>14, <1>15

(***************************************************************************)
(* The steps of the program outside of pushclosure                         *)
(***************************************************************************)
LEMMA IdleStays ==
  ASSUME pc = "idle", UNCHANGED pc PROVE Busy' /\ PlaceValid'
BY DEF Busy, PlaceValid

\* The cached closure stays what it is when no slot is emptied and nothing changes colour.
LEMMA CacheStays ==
  ASSUME UInv, UNCHANGED <<cache, proto, gcphase>>,
         \A c \in Closure : Complete(c) => Complete(c)',
         \A o \in Object : marked[o] # "free" => marked'[o] = marked[o]
  PROVE  CacheKept'
<1> USE DEF UInv
<1>1. CASE cache = NULL BY <1>1 DEF CacheKept, CacheLive
<1>2. CASE cache # NULL
  <2>1. cache \in Closure /\ cache \in Object BY <1>2 DEF TypeOK, Object
  <2>2. Live(cache) /\ Complete(cache) BY <1>2 DEF CacheKept, CacheLive, Callable
  <2>3. marked'[cache] = marked[cache] BY <2>1, <2>2 DEF Live
  <2>4. Complete(cache)'
    <3>1. PICK c \in Closure : c = cache BY <2>1
    <3>2. Complete(c)' BY <2>2, <3>1
    <3> QED BY <3>1, <3>2
  <2>5. Live(cache)' BY <2>2, <2>3 DEF Live
  <2> QED BY <2>3, <2>4, <2>5 DEF CacheKept, CacheLive, Callable
<1> QED BY <1>1, <1>2

\* A thread that runs has a stack.
LEMMA HasStack ==
  ASSUME UpvalAssumption, UInv, NEW t \in Thread, Live(t)
  PROVE  stack[t] \in Block /\ stack[t] # NULL /\ top[t] \in Nat /\ top[t] <= MaxLevel
<1>1. stack[t] # NULL BY DEF UInv, Stacks, Live
<1>2. stack[t] \in Block /\ top[t] \in 0..MaxLevel BY <1>1 DEF UInv, TypeOK
<1> QED BY <1>1, <1>2 DEF UpvalAssumption

\* A value is written to a local, of which there may be one more.
LEMMA LocalSound ==
  ASSUME UpvalAssumption, UInv, pc = "idle", NEW b \in Block, NEW l \in Level, NEW x \in Value,
         mem' = [mem EXCEPT ![b][l] = x],
         UNCHANGED <<stack, openupval, v, value, refcount, upvals>>,
         UNCHANGED <<cache, proto, marked, gcphase, sweeps, pc, ncl, th, encup, level, pp>>,
         top' \in [Thread -> 0..MaxLevel],
         \A t \in Thread : top'[t] # top[t] => Live(t) /\ top'[t] >= top[t]
  PROVE  UInv'
<1> USE DEF UInv
<1>1. mem' \in [Block -> [Level -> Value \cup {Junk}]] BY DEF TypeOK
<1>2. \A c \in Block, k \in Level : mem'[c][k] = x \/ mem'[c][k] = mem[c][k] BY DEF TypeOK
<1>3. TypeOK' BY <1>1 DEF TypeOK
<1>4. RefCounted' BY CountsStay
<1>5. OpenListed'
  <2>1. \A t \in Thread : top'[t] \in Nat /\ top'[t] >= top[t]
    <3>1. \A t \in Thread : top'[t] \in Nat /\ top[t] \in Nat BY DEF TypeOK, UpvalAssumption
    <3> QED BY <3>1
  <2> QED BY <2>1, OpenStay
<1>6. Stacks'
  <2>1. \A t \in Thread : marked[t] = "free" => top'[t] = 0 BY DEF Stacks, Live
  <2>2. \A t \in Thread, k \in Level : stack[t] # NULL => mem'[stack[t]][k] \in Value
    BY <1>2 DEF Stacks, TypeOK
  <2> QED BY <2>1, <2>2 DEF Stacks
<1>7. Busy' /\ PlaceValid' BY IdleStays
<1>8. CacheKept'
  <2>1. \A c \in Closure : Complete(c) => Complete(c)' BY DEF Complete
  <2> QED BY <2>1, CacheStays
<1> QED BY <1>3, <1>4, <1>5, <1>6, <1>7, <1>8

LEMMA NewLocalSound ==
  ASSUME UpvalAssumption, UInv, NEW t \in Thread, NEW x \in Value, NewLocal(t, x) PROVE UInv'
<1>1. /\ pc = "idle" /\ Live(t) /\ top[t] < MaxLevel
      /\ mem' = [mem EXCEPT ![stack[t]][top[t]] = x] /\ top' = [top EXCEPT ![t] = @ + 1]
      /\ UNCHANGED <<stack, openupval, v, value, refcount, upvals>>
      /\ UNCHANGED <<cache, proto, marked, gcphase, sweeps, pc, ncl, th, encup, level, pp>>
  BY DEF NewLocal, Running, pools, collector, locals
<1>2. stack[t] \in Block /\ top[t] \in Nat BY <1>1, HasStack
<1>3. top[t] \in Level /\ top[t] + 1 \in 0..MaxLevel /\ top[t] + 1 >= top[t]
  BY <1>1, <1>2 DEF Level, UpvalAssumption
<1>4. top' \in [Thread -> 0..MaxLevel] BY <1>1, <1>3 DEF UInv, TypeOK
<1>5. \A s \in Thread : top'[s] # top[s] => Live(s) /\ top'[s] >= top[s]
  BY <1>1, <1>3 DEF UInv, TypeOK
<1> QED BY <1>1, <1>2, <1>3, <1>4, <1>5, LocalSound

LEMMA SetLocalSound ==
  ASSUME UpvalAssumption, UInv, NEW t \in Thread, NEW l \in Level, NEW x \in Value,
         SetLocal(t, l, x)
  PROVE  UInv'
<1>1. /\ pc = "idle" /\ Live(t) /\ mem' = [mem EXCEPT ![stack[t]][l] = x]
      /\ UNCHANGED <<stack, openupval, v, value, refcount, upvals>>
      /\ UNCHANGED <<cache, proto, marked, gcphase, sweeps, pc, ncl, th, encup, level, pp>>
      /\ UNCHANGED top
  BY DEF SetLocal, Running, pools, collector, locals
<1>2. stack[t] \in Block BY <1>1, HasStack
<1>3. top' \in [Thread -> 0..MaxLevel] BY <1>1 DEF UInv, TypeOK
<1> QED BY <1>1, <1>2, <1>3, LocalSound

\* Through an open upvalue a local is written, and a closed one has a value of its own.
LEMMA SetUpvalSound ==
  ASSUME UpvalAssumption, UInv, NEW c \in Closure, NEW i \in Index, NEW x \in Value,
         SetUpval(c, i, x)
  PROVE  UInv'
<1> DEFINE u == upvals[c][i]
<1>1. /\ pc = "idle" /\ Callable(c)
      /\ IF upisopen(u)
         THEN mem' = [mem EXCEPT ![v[u].block][v[u].level] = x] /\ UNCHANGED value
         ELSE value' = [value EXCEPT ![u] = x] /\ UNCHANGED mem
      /\ UNCHANGED <<stack, top, openupval, v, refcount, upvals>>
      /\ UNCHANGED <<cache, proto, marked, gcphase, sweeps, pc, ncl, th, encup, level, pp>>
  BY DEF SetUpval, collector, locals
<1> HIDE DEF u
<1>2. top' \in [Thread -> 0..MaxLevel] BY <1>1 DEF UInv, TypeOK
<1>3. CASE upisopen(u)
  <2>1. v[u].block \in Block /\ v[u].level \in Level BY <1>3 DEF upisopen, Address
  <2> QED BY <1>1, <1>2, <1>3, <2>1, LocalSound
<1>4. CASE ~upisopen(u)
  <2> USE DEF UInv
  <2>1. value' = [value EXCEPT ![u] = x] /\ UNCHANGED mem BY <1>1, <1>4
  <2>2. TypeOK' BY <1>1, <2>1 DEF TypeOK
  <2>3. RefCounted' /\ OpenListed' BY <1>1, CountsStay, ListsStay
  <2>4. Stacks' BY <1>1, <2>1 DEF Stacks
  <2>5. Busy' /\ PlaceValid' BY <1>1, IdleStays
  <2>6. CacheKept'
    <3>1. \A d \in Closure : Complete(d) => Complete(d)' BY <1>1 DEF Complete
    <3> QED BY <1>1, <3>1, CacheStays
  <2> QED BY <2>2, <2>3, <2>4, <2>5, <2>6
<1> QED BY <1>3, <1>4

LEMMA LeaveSound ==
  ASSUME UpvalAssumption, UInv, NEW t \in Thread, NEW l \in Level, Leave(t, l) PROVE UInv'
<1> USE DEF UInv
<1>1. /\ pc = "idle" /\ Live(t) /\ l < top[t]
      /\ luaF_close(t, l) /\ top' = [top EXCEPT ![t] = l]
      /\ UNCHANGED <<mem, stack, refcount, upvals>>
      /\ UNCHANGED <<cache, proto, marked, gcphase, sweeps, pc, ncl, th, encup, level, pp>>
  BY DEF Leave, Running, collector, locals
<1>2. /\ openupval' \in [Thread -> Seq(UpVal)]
      /\ v' \in [UpVal -> Address \cup {Own, Free}] /\ value' \in [UpVal -> Value]
  BY <1>1, Closing
<1>3. l \in 0..MaxLevel BY DEF Level, UpvalAssumption
<1>4. TypeOK' BY <1>1, <1>2, <1>3 DEF TypeOK
<1>5. RefCounted' BY <1>1, ClosingCounts
<1>6. OpenListed' BY <1>1, ClosingLists
<1>7. Stacks'
  <2>1. \A s \in Thread : marked[s] = "free" => top'[s] = 0 BY <1>1 DEF Stacks, Live, TypeOK
  <2> QED BY <1>1, <2>1 DEF Stacks
<1>8. Busy' /\ PlaceValid' BY <1>1, IdleStays
<1>9. CacheKept'
  <2>1. \A c \in Closure : Complete(c) => Complete(c)' BY <1>1 DEF Complete
  <2> QED BY <1>1, <2>1, CacheStays
<1> QED BY <1>4, <1>5, <1>6, <1>7, <1>8, <1>9

\* A stack moves, and the upvalues in the list of its thread move with it.
LEMMA ReallocateSound ==
  ASSUME UpvalAssumption, UInv, NEW t \in Thread, NEW b \in Block, Reallocate(t, b) PROVE UInv'
<1> USE DEF UInv
<1>1. /\ pc = "idle" /\ Live(t) /\ b \notin {stack[s] : s \in Thread \ {t}}
      /\ stack' = [stack EXCEPT ![t] = b]
      /\ mem' = [mem EXCEPT ![stack[t]] = [l \in Level |-> Junk], ![b] = mem[stack[t]]]
      /\ v' = [u \in UpVal |-> IF u \in ToSet(openupval[t]) THEN [v[u] EXCEPT !.block = b]
                               ELSE v[u]]
      /\ UNCHANGED <<top, openupval, value, refcount, upvals>>
      /\ UNCHANGED <<cache, proto, marked, gcphase, sweeps, pc, ncl, th, encup, level, pp>>
  BY DEF Reallocate, Running, collector, locals
<1>2. stack[t] \in Block /\ stack[t] # NULL /\ b # NULL BY <1>1, HasStack DEF UpvalAssumption
<1>3. openupval \in [Thread -> Seq(UpVal)] /\ stack \in [Thread -> Block \cup {NULL}] BY DEF TypeOK
<1>4. \A u \in UpVal : u \in ToSet(openupval[t]) <=> \E i \in 1..Len(openupval[t]) : openupval[t][i] = u
  BY <1>3 DEF ToSet
<1>5. stack'[t] = b /\ \A s \in Thread : s # t => stack'[s] = stack[s] BY <1>1, <1>3
\* A listed upvalue of t points to the same local in the new block, the others stay.
<1>6. ASSUME NEW u \in UpVal, u \in ToSet(openupval[t])
      PROVE  /\ v[u] \in Address /\ v'[u] \in Address /\ v'[u].level = v[u].level
             /\ v[u].level \in 0..(top[t] - 1) /\ v'[u].block = b
  <2>1. PICK i \in 1..Len(openupval[t]) : openupval[t][i] = u BY <1>4, <1>6
  <2>2. v[u] \in Address /\ v[u].level \in 0..(top[t] - 1) BY <2>1, Listed
  <2>3. v'[u] = [v[u] EXCEPT !.block = b] BY <1>1, <1>6
  <2>4. v'[u] \in Address /\ v'[u].level = v[u].level /\ v'[u].block = b BY <2>2, <2>3 DEF Address
  <2> QED BY <2>2, <2>4
<1>7. \A u \in UpVal : u \notin ToSet(openupval[t]) => v'[u] = v[u] BY <1>1
<1>8. TypeOK'
  <2>1. v' \in [UpVal -> Address \cup {Own, Free}]
    <3>1. \A u \in UpVal : v'[u] \in Address \cup {Own, Free} BY <1>6, <1>7 DEF TypeOK
    <3>2. DOMAIN v' = UpVal /\ v' = [u \in UpVal |-> v'[u]] BY <1>1
    <3> QED BY <3>1, <3>2
  <2>2. mem' \in [Block -> [Level -> Value \cup {Junk}]] BY <1>1, <1>2 DEF TypeOK
  <2>3. stack' \in [Thread -> Block \cup {NULL}] BY <1>1, <1>3
  <2> QED BY <1>1, <2>1, <2>2, <2>3 DEF TypeOK
<1>9. RefCounted'
  <2>1. \A u \in UpVal : (v'[u] = Free <=> v[u] = Free) /\ (v'[u] = Own <=> v[u] = Own)
    BY <1>6, <1>7 DEF UpvalAssumption
  <2>2. \A u \in UpVal : Users(u)' = Users(u) BY <1>1 DEF Users
  <2> QED BY <1>1, <2>1, <2>2 DEF RefCounted
<1>10. OpenListed'
  <2>1. \A u \in UpVal : v'[u] \in Address => v[u] \in Address BY <1>6, <1>7
  <2>2. \A u \in UpVal : v'[u] \in Address =>
          \E s \in Thread : \E i \in 1..Len(openupval'[s]) : openupval'[s][i] = u
    BY <1>1, <2>1, Open DEF upisopen
  <2>3. ASSUME NEW s \in Thread, NEW i \in 1..Len(openupval[s])
        PROVE  /\ v'[openupval[s][i]].level = v[openupval[s][i]].level
               /\ \E l \in 0..(top'[s] - 1) : v'[openupval[s][i]] = AddressOf(s, l)'
    <3>1. PICK u : u = openupval[s][i] OBVIOUS
    <3>2. PICK l : l = v[u].level OBVIOUS
    <3>3. u \in UpVal /\ v[u] = AddressOf(s, l) /\ l \in 0..(top[s] - 1) BY <3>1, <3>2, Listed
    <3>4. CASE s = t
      <4>1. u \in ToSet(openupval[t]) BY <1>4, <3>1, <3>3, <3>4
      <4>2. v'[u] \in Address /\ v'[u].level = l /\ v'[u].block = b BY <1>6, <3>2, <3>3, <4>1
      <4>3. v'[u] = AddressOf(t, l)' BY <1>5, <4>2 DEF AddressOf, Address
      <4> QED BY <1>1, <3>1, <3>2, <3>3, <3>4, <4>2, <4>3
    <3>5. CASE s # t
      <4>1. u \notin ToSet(openupval[t])
        <5> SUFFICES ASSUME NEW j \in 1..Len(openupval[t]), openupval[t][j] = u PROVE FALSE
          BY <1>4, <3>3
        <5> QED BY <3>1, <3>5, OneList
      <4>2. v'[u] = v[u] BY <1>7, <3>3, <4>1
      <4>3. v'[u] = AddressOf(s, l)' BY <1>5, <3>3, <3>5, <4>2 DEF AddressOf
      <4> QED BY <1>1, <3>1, <3>3, <4>2, <4>3
    <3> QED BY <3>4, <3>5
  <2>4. \A s \in Thread : \A i, j \in 1..Len(openupval[s]) :
          i < j => v[openupval[s][i]].level > v[openupval[s][j]].level
    <3>1. \A s \in Thread : DOMAIN openupval[s] = 1..Len(openupval[s]) BY <1>3
    <3> QED BY <3>1 DEF OpenListed
  <2>5. \A s \in Thread : \A i, j \in 1..Len(openupval'[s]) :
          i < j => v'[openupval'[s][i]].level > v'[openupval'[s][j]].level
    <3>1. \A s \in Thread : \A i \in 1..Len(openupval[s]) :
            v'[openupval[s][i]].level = v[openupval[s][i]].level
      BY <2>3
    <3> QED BY <1>1, <2>4, <3>1
  <2>6. \A s \in Thread : \A i \in 1..Len(openupval'[s]) :
          \E l \in 0..(top'[s] - 1) : v'[openupval'[s][i]] = AddressOf(s, l)'
    <3>1. ASSUME NEW s \in Thread, NEW i \in 1..Len(openupval'[s])
          PROVE  \E l \in 0..(top'[s] - 1) : v'[openupval'[s][i]] = AddressOf(s, l)'
      <4>1. openupval' = openupval /\ i \in 1..Len(openupval[s]) BY <1>1
      <4> QED BY <2>3, <4>1
    <3> QED BY <3>1
  <2>7. openupval' \in [Thread -> Seq(UpVal)] BY <1>1, <1>3
  <2> QED BY <2>2, <2>5, <2>6, <2>7, ListsSound
<1>11. Stacks'
  <2>1. \A s \in Thread : stack'[s] # NULL <=> marked[s] # "free" BY <1>1, <1>2, <1>5 DEF Stacks, Live
  <2>2. \A s \in Thread : s # t => stack[s] # b BY <1>1
  <2>3. \A r, s \in Thread : r # s /\ stack'[r] # NULL => stack'[r] # stack'[s]
    BY <1>5, <2>2 DEF Stacks
  <2>4. ASSUME NEW s \in Thread, NEW l \in Level, stack'[s] # NULL PROVE mem'[stack'[s]][l] \in Value
    <3>1. mem \in [Block -> [Level -> Value \cup {Junk}]] BY DEF TypeOK
    <3>2. CASE s = t
      <4>1. mem'[b] = mem[stack[t]] BY <1>1, <1>2, <3>1
      <4>2. mem[stack[t]][l] \in Value BY <1>2 DEF Stacks
      <4> QED BY <1>5, <3>2, <4>1, <4>2
    <3>3. CASE s # t
      <4>1. stack'[s] = stack[s] /\ stack[s] # stack[t] /\ stack[s] # b /\ stack[s] \in Block
        BY <1>3, <1>5, <2>2, <2>4, <3>3 DEF Stacks
      <4>2. mem'[stack[s]] = mem[stack[s]] BY <1>1, <1>2, <3>1, <4>1
      <4> QED BY <2>4, <4>1, <4>2 DEF Stacks
    <3> QED BY <3>2, <3>3
  <2> QED BY <1>1, <2>1, <2>3, <2>4 DEF Stacks
<1>12. Busy' /\ PlaceValid' BY <1>1, IdleStays
<1>13. CacheKept'
  <2>1. \A c \in Closure : Complete(c) => Complete(c)' BY <1>1 DEF Complete
  <2> QED BY <1>1, <2>1, CacheStays
<1> QED BY <1>8, <1>9, <1>10, <1>11, <1>12, <1>13

LEMMA NewThreadSound ==
  ASSUME UpvalAssumption, UInv, NEW t \in Thread, NEW b \in Block, NewThread(t, b) PROVE UInv'
<1> USE DEF UInv
<1>1. /\ pc = "idle" /\ marked[t] = "free" /\ b \notin {stack[s] : s \in Thread}
      /\ stack' = [stack EXCEPT ![t] = b] /\ top' = [top EXCEPT ![t] = 0]
      /\ mem' = [mem EXCEPT ![b] = [l \in Level |-> Nil]]
      /\ marked' = [marked EXCEPT ![t] = "white"]
      /\ UNCHANGED <<openupval, v, value, refcount, upvals>>
      /\ UNCHANGED <<cache, proto, gcphase, sweeps, pc, ncl, th, encup, level, pp>>
  BY DEF NewThread, Running, pools, locals
<1>2. b # NULL /\ Nil \in Value /\ MaxLevel \in Nat BY DEF UpvalAssumption
<1>3. /\ stack'[t] = b /\ top'[t] = 0
      /\ \A s \in Thread : s # t => stack'[s] = stack[s] /\ top'[s] = top[s]
  BY <1>1 DEF TypeOK
<1>4. t \in Object /\ marked \in [Object -> {"free", "white", "black", "dead"}]
  BY DEF TypeOK, Object
<1>5. marked'[t] = "white" /\ \A o \in Object : o # t => marked'[o] = marked[o] BY <1>1, <1>4
<1>6. TypeOK'
  <2>1. stack' \in [Thread -> Block \cup {NULL}] /\ top' \in [Thread -> 0..MaxLevel]
    BY <1>1, <1>2 DEF TypeOK
  <2>2. mem' \in [Block -> [Level -> Value \cup {Junk}]] BY <1>1, <1>2 DEF TypeOK
  <2>3. marked' \in [Object -> {"free", "white", "black", "dead"}] BY <1>1, <1>4
  <2> QED BY <1>1, <2>1, <2>2, <2>3 DEF TypeOK
<1>7. RefCounted' BY <1>1, CountsStay
<1>8. OpenListed'
  <2>1. ASSUME NEW i \in 1..Len(openupval[t]) PROVE FALSE BY <1>1, Listed
  <2>2. openupval \in [Thread -> Seq(UpVal)] BY DEF TypeOK
  <2>3. \A u \in UpVal : v'[u] \in Address =>
          \E s \in Thread : \E i \in 1..Len(openupval'[s]) : openupval'[s][i] = u
    BY <1>1, Open DEF upisopen
  <2>4. ASSUME NEW s \in Thread, NEW i \in 1..Len(openupval'[s])
        PROVE  \E l \in 0..(top'[s] - 1) : v'[openupval'[s][i]] = AddressOf(s, l)'
    <3>1. s # t /\ i \in 1..Len(openupval[s]) BY <1>1, <2>1, <2>4
    <3>2. PICK u : u = openupval[s][i] OBVIOUS
    <3>3. PICK l : l = v[u].level OBVIOUS
    <3>4. v[u] = AddressOf(s, l) /\ l \in 0..(top[s] - 1) BY <3>1, <3>2, <3>3, Listed
    <3>5. v'[u] = AddressOf(s, l)' BY <1>1, <1>3, <3>1, <3>4 DEF AddressOf
    <3> QED BY <1>1, <1>3, <3>1, <3>2, <3>4, <3>5
  <2>5. \A s \in Thread : \A i, j \in 1..Len(openupval'[s]) :
          i < j => v'[openupval'[s][i]].level > v'[openupval'[s][j]].level
    <3>1. \A s \in Thread : DOMAIN openupval[s] = 1..Len(openupval[s]) BY <2>2
    <3> QED BY <1>1, <3>1 DEF OpenListed
  <2>6. openupval' \in [Thread -> Seq(UpVal)] BY <1>1, <2>2
  <2> QED BY <2>3, <2>4, <2>5, <2>6, ListsSound
<1>9. Stacks'
  <2>1. \A s \in Thread : s # t => marked'[s] = marked[s] BY <1>5 DEF Object
  <2>2. \A s \in Thread : stack'[s] # NULL <=> marked'[s] # "free" BY <1>2, <1>3, <1>5, <2>1 DEF Stacks
  <2>3. \A s \in Thread : marked'[s] = "free" => top'[s] = 0 BY <1>3, <2>1 DEF Stacks
  <2>4. \A s \in Thread : stack[s] # b BY <1>1
  <2>5. \A r, s \in Thread : r # s /\ stack'[r] # NULL => stack'[r] # stack'[s]
    BY <1>3, <2>4 DEF Stacks
  <2>6. ASSUME NEW s \in Thread, NEW l \in Level, stack'[s] # NULL PROVE mem'[stack'[s]][l] \in Value
    <3>1. mem \in [Block -> [Level -> Value \cup {Junk}]] BY DEF TypeOK
    <3>2. CASE s = t
      <4>1. mem'[b][l] = Nil BY <1>1, <3>1
      <4> QED BY <1>2, <1>3, <3>2, <4>1
    <3>3. CASE s # t
      <4>1. stack'[s] = stack[s] /\ mem'[stack[s]] = mem[stack[s]]
        BY <1>1, <1>3, <2>4, <3>1, <3>3 DEF TypeOK
      <4> QED BY <2>6, <4>1 DEF Stacks
    <3> QED BY <3>2, <3>3
  <2> QED BY <2>2, <2>3, <2>5, <2>6 DEF Stacks
<1>10. Busy' /\ PlaceValid' BY <1>1, IdleStays
<1>11. CacheKept'
  <2>1. \A c \in Closure : Complete(c) => Complete(c)' BY <1>1 DEF Complete
  <2>2. \A o \in Object : marked[o] # "free" => marked'[o] = marked[o] BY <1>1, <1>5
  <2> QED BY <1>1, <2>1, <2>2, CacheStays
<1> QED BY <1>6, <1>7, <1>8, <1>9, <1>10, <1>11

\* A slot takes an upvalue and releases another: with two slots for one upvalue it keeps a
\* user, else the old one is freed if it is closed and has no other.
LEMMA UpvalueJoinSound ==
  ASSUME UpvalAssumption, ~SelfJoin, UInv, NEW c1 \in Closure, NEW i1 \in Index,
         NEW c2 \in Closure, NEW i2 \in Index, UpvalueJoin(c1, i1, c2, i2)
  PROVE  UInv'
<1> USE DEF UInv
<1>1. PICK old, new : old = upvals[c1][i1] /\ new = upvals[c2][i2] OBVIOUS
<1>2. /\ pc = "idle" /\ Complete(c1) /\ Complete(c2) /\ <<c1, i1>> # <<c2, i2>>
      /\ v' = [v EXCEPT ![old] = Deccount(old, 1)]
      /\ refcount' = [u \in UpVal |-> (IF u = new THEN refcount[u] + 1 ELSE refcount[u])
                                      - (IF u = old THEN 1 ELSE 0)]
      /\ upvals' = [upvals EXCEPT ![c1][i1] = new]
      /\ UNCHANGED <<mem, stack, top, openupval, value, cache, proto, marked, gcphase, sweeps>>
      /\ UNCHANGED <<pc, ncl, th, encup, level, pp>>
  BY <1>1 DEF UpvalueJoin, Callable, threads, collector, locals
<1>3. old \in UpVal /\ new \in UpVal /\ NULL \notin UpVal
  BY <1>1, <1>2 DEF Complete, TypeOK, UpvalAssumption
<1>4. /\ upvals' \in [Closure -> [Index -> UpVal \cup {NULL}]]
      /\ \A c \in Closure : Complete(c) => Complete(c)'
  <2>1. upvals \in [Closure -> [Index -> UpVal \cup {NULL}]] BY DEF TypeOK
  <2>2. upvals' \in [Closure -> [Index -> UpVal \cup {NULL}]] BY <1>2, <1>3, <2>1
  <2>3. \A c \in Closure, i \in Index : upvals'[c][i] = upvals[c][i] \/ upvals'[c][i] = new
    BY <1>2, <2>1
  <2> QED BY <1>3, <2>2, <2>3 DEF Complete
<1>5. ASSUME NEW w \in UpVal
      PROVE  /\ w # old /\ w # new => Users(w)' = Users(w)
             /\ old = new => Users(w)' = Users(w)
             /\ old # new /\ w = old => Cardinality(Users(w)') = Cardinality(Users(w)) - 1
             /\ old # new /\ w = new => Cardinality(Users(w)') = Cardinality(Users(w)) + 1
             /\ w = old => <<c1, i1>> \in Users(w)
             /\ w = new => <<c1, i1>> \in Users(w)'
  <2>1. upvals[c1][i1] = old /\ upvals'[c1][i1] = new BY <1>1, <1>2 DEF TypeOK
  <2>2. \A p \in Closure \X Index : p # <<c1, i1>> => upvals'[p[1]][p[2]] = upvals[p[1]][p[2]]
    BY <1>2 DEF TypeOK
  <2>3. <<c1, i1>> \in Closure \X Index OBVIOUS
  <2>4. w # old /\ w # new => Users(w)' = Users(w) BY <2>1, <2>2, <2>3 DEF Users
  <2>5. old = new => Users(w)' = Users(w) BY <2>1, <2>2, <2>3 DEF Users
  <2>6. (w = old => <<c1, i1>> \in Users(w)) /\ (w = new => <<c1, i1>> \in Users(w)')
    BY <2>1, <2>3 DEF Users
  <2>7. IsFiniteSet(Users(w)) BY UsersFinite DEF Users
  <2>8. old # new /\ w = old => Cardinality(Users(w)') = Cardinality(Users(w)) - 1
    <3> SUFFICES ASSUME old # new, w = old PROVE Cardinality(Users(w)') = Cardinality(Users(w)) - 1
      OBVIOUS
    <3>1. Users(w)' = Users(w) \ {<<c1, i1>>} BY <2>1, <2>2, <2>3 DEF Users
    <3> QED BY <2>6, <2>7, <3>1, FS_RemoveElement
  <2>9. old # new /\ w = new => Cardinality(Users(w)') = Cardinality(Users(w)) + 1
    <3> SUFFICES ASSUME old # new, w = new PROVE Cardinality(Users(w)') = Cardinality(Users(w)) + 1
      OBVIOUS
    <3>1. Users(w)' = Users(w) \cup {<<c1, i1>>} /\ <<c1, i1>> \notin Users(w)
      BY <2>1, <2>2, <2>3 DEF Users
    <3> QED BY <2>7, <3>1, FS_AddElement
  <2> QED BY <2>4, <2>5, <2>6, <2>8, <2>9
<1>6. <<c2, i2>> \in Users(new) BY <1>1 DEF Users
<1>7. /\ v[old] # Free /\ refcount[old] = Cardinality(Users(old))
      /\ v[new] # Free /\ refcount[new] = Cardinality(Users(new))
  BY <1>3, <1>5, <1>6 DEF RefCounted
<1>8. \A u \in UpVal : IsFiniteSet(Users(u)) /\ Cardinality(Users(u)) \in Nat
  BY UsersFinite DEF Users
<1>9. \A u \in UpVal : Cardinality(Users(u)') = 0 <=> Users(u)' = {}
  <2>1. ASSUME NEW u \in UpVal PROVE Cardinality(Users(u)') = 0 <=> Users(u)' = {}
    <3>1. \A p \in Users(u)' : p \in Closure \X Index BY DEF Users
    <3>2. IsFiniteSet(Users(u)')
      <4>1. Users(u)' \subseteq Closure \X Index BY <3>1
      <4> QED BY <4>1, UsersFinite
    <3> QED BY <3>2, FS_EmptySet
  <2> QED BY <2>1
<1>10. Cardinality(Users(old)) > 0
  <2>1. Cardinality(Users(old)) # 0 BY <1>3, <1>5, <1>8, FS_EmptySet
  <2> QED BY <1>3, <1>8, <2>1
<1>11. old = new => Cardinality(Users(old)) # 1
  <2> SUFFICES ASSUME old = new, Cardinality(Users(old)) = 1 PROVE FALSE OBVIOUS
  <2>1. Cardinality(Users(old) \ {<<c1, i1>>}) = 0
    <3>1. Cardinality(Users(old) \ {<<c1, i1>>}) = Cardinality(Users(old)) - 1
      BY <1>3, <1>5, <1>8, FS_RemoveElement
    <3> QED BY <3>1
  <2>2. IsFiniteSet(Users(old) \ {<<c1, i1>>}) BY <1>3, <1>8, FS_Subset
  <2>3. Users(old) \ {<<c1, i1>>} = {} BY <2>1, <2>2, FS_EmptySet
  <2> QED BY <1>2, <1>6, <2>3
<1>12. /\ \A u \in UpVal : u # old => v'[u] = v[u]
       /\ v'[old] = IF refcount[old] = 1 /\ v[old] \notin Address THEN Free ELSE v[old]
  BY <1>2, <1>3 DEF Deccount, upisopen, TypeOK
<1>13. \A u \in UpVal : refcount[u] \in Nat BY DEF TypeOK
<1>14. ASSUME NEW u \in UpVal
       PROVE  /\ refcount'[u] \in Nat
              /\ v'[u] = Free => Users(u)' = {}
              /\ v'[u] # Free => refcount'[u] = Cardinality(Users(u)')
              /\ v'[u] = Own => Users(u)' # {}
  <2>0. /\ v[u] = Free => Users(u) = {}
        /\ v[u] # Free => refcount[u] = Cardinality(Users(u))
        /\ v[u] = Own => Users(u) # {}
    BY DEF RefCounted
  <2>1. CASE u \notin {old, new}
    <3>1. refcount'[u] = refcount[u] BY <1>2, <1>13, <2>1
    <3> QED BY <1>5, <1>12, <1>13, <2>0, <2>1, <3>1
  <2>2. CASE u = old /\ old = new
    <3>1. refcount'[u] = refcount[u] BY <1>2, <1>13, <2>2
    <3>2. v'[u] = v[u] BY <1>7, <1>11, <1>12, <2>2
    <3> QED BY <1>5, <1>13, <2>0, <2>2, <3>1, <3>2
  <2>3. CASE u = old /\ old # new
    <3>1. refcount'[u] = refcount[u] - 1 BY <1>2, <1>13, <2>3
    <3>2. refcount'[u] = Cardinality(Users(u)') BY <1>5, <1>7, <2>3, <3>1
    <3>3. refcount'[u] \in Nat BY <1>7, <1>8, <1>10, <2>3, <3>1
    <3>4. refcount[u] = 1 <=> Users(u)' = {} BY <1>9, <1>13, <3>1, <3>2
    <3>5. v'[u] = Free => refcount[u] = 1 BY <1>7, <1>12, <2>3
    <3>6. v'[u] = Own => refcount[u] # 1
      BY <1>12, <2>3 DEF UpvalAssumption
    <3> QED BY <3>2, <3>3, <3>4, <3>5, <3>6
  <2>4. CASE u = new /\ old # new
    <3>1. refcount'[u] = refcount[u] + 1 BY <1>2, <1>13, <2>4
    <3>2. v'[u] = v[u] /\ v[u] # Free BY <1>7, <1>12, <2>4
    <3>3. refcount'[u] = Cardinality(Users(u)') BY <1>5, <1>7, <2>4, <3>1
    <3>4. Users(u)' # {} BY <1>5, <2>4
    <3>5. refcount'[u] \in Nat BY <1>13, <3>1
    <3> QED BY <3>2, <3>3, <3>4, <3>5
  <2> QED BY <2>1, <2>2, <2>3, <2>4
<1>15. RefCounted' BY <1>14 DEF RefCounted
<1>16. TypeOK'
  <2>1. v' \in [UpVal -> Address \cup {Own, Free}]
    <3>1. \A u \in UpVal : v'[u] \in Address \cup {Own, Free} BY <1>3, <1>12 DEF TypeOK
    <3>2. DOMAIN v' = UpVal /\ v' = [u \in UpVal |-> v'[u]] BY <1>2 DEF TypeOK
    <3> QED BY <3>1, <3>2
  <2>2. refcount' \in [UpVal -> Nat]
    <3>1. refcount' = [u \in UpVal |-> refcount'[u]] BY <1>2
    <3> QED BY <1>14, <3>1
  <2> QED BY <1>2, <1>4, <2>1, <2>2 DEF TypeOK
<1>17. OpenListed'
  <2>1. \A t \in Thread : top'[t] \in Nat /\ top'[t] >= top[t] BY <1>2 DEF TypeOK, UpvalAssumption
  <2>2. \A u \in UpVal : v[u] \in Address => v'[u] = v[u] BY <1>12
  <2>3. \A u \in UpVal : v'[u] \in Address => v'[u] = v[u] BY <1>12 DEF UpvalAssumption
  <2> QED BY <1>2, <2>1, <2>2, <2>3, OpenStay
<1>18. Stacks' BY <1>2 DEF Stacks
<1>19. Busy' /\ PlaceValid' BY <1>2, IdleStays
<1>20. CacheKept' BY <1>2, <1>4, CacheStays
<1> QED BY <1>15, <1>16, <1>17, <1>18, <1>19, <1>20

(***************************************************************************)
(* The steps of pushclosure                                                *)
(***************************************************************************)
LEMMA NewLClosureSound ==
  ASSUME UpvalAssumption, UInv, NEW t \in Thread, NEW c \in Closure, NEW e \in Closure \cup {NULL},
         NewLClosure(t, c, e)
  PROVE  UInv'
<1> USE DEF UInv
<1>1. /\ Live(t) /\ marked[c] = "free" /\ (e # NULL => Callable(e))
      /\ marked' = [marked EXCEPT ![c] = "white"] /\ pc' \in {"fill", "init"}
      /\ ncl' = c /\ th' = t /\ encup' = e
      /\ UNCHANGED <<mem, stack, top, openupval, v, value, refcount, upvals>>
      /\ UNCHANGED <<cache, proto, gcphase, sweeps, level, pp>>
  BY DEF NewLClosure, Running, threads, pools
<1>2. c \in Object /\ t \in Object /\ marked \in [Object -> {"free", "white", "black", "dead"}]
  BY DEF TypeOK, Object
<1>3. marked'[c] = "white" /\ \A o \in Object : o # c => marked'[o] = marked[o] BY <1>1, <1>2
<1>4. TypeOK'
  <2>1. marked' \in [Object -> {"free", "white", "black", "dead"}] BY <1>1, <1>2
  <2> QED BY <1>1, <2>1 DEF TypeOK
<1>5. RefCounted' /\ OpenListed' BY <1>1, CountsStay, ListsStay
<1>6. PlaceValid' BY <1>1 DEF PlaceValid
<1>7. Stacks'
  <2>1. \A s \in Thread : marked'[s] = marked[s] BY <1>3 DEF Object, UpvalAssumption
  <2> QED BY <1>1, <2>1 DEF Stacks
<1>8. Busy'
  <2>1. Live(c)' /\ Live(t)' BY <1>1, <1>2, <1>3 DEF Live
  <2>2. e # NULL => e \in Closure /\ e \in Object BY DEF Object
  <2>3. e # NULL => Callable(e)' BY <1>1, <1>3, <2>2 DEF Callable, Live, Complete
  <2> QED BY <1>1, <2>1, <2>3 DEF Busy, Callable, Live, Complete
<1>9. CacheKept'
  <2>1. \A d \in Closure : Complete(d) => Complete(d)' BY <1>1 DEF Complete
  <2>2. \A o \in Object : marked[o] # "free" => marked'[o] = marked[o] BY <1>1, <1>3
  <2> QED BY <1>1, <2>1, <2>2, CacheStays
<1> QED BY <1>4, <1>5, <1>6, <1>7, <1>8, <1>9

\* An upvalue that exists is taken once more.
LEMMA TakenCounts ==
  ASSUME UpvalAssumption, UInv, ncl \in Closure, ~Complete(ncl), NEW u \in UpVal, v[u] # Free,
         SetUp(u), UNCHANGED v, refcount' = [refcount EXCEPT ![u] = @ + 1]
  PROVE  RefCounted' /\ refcount' \in [UpVal -> Nat]
<1> USE DEF UInv
<1>1. /\ \A w \in UpVal : w # u => Users(w)' = Users(w)
      /\ Cardinality(Users(u)') = Cardinality(Users(u)) + 1
  BY SetUpCounts
<1>2. IsFiniteSet(Users(u)) /\ Cardinality(Users(u)) \in Nat BY UsersFinite DEF Users
<1>3. refcount \in [UpVal -> Nat] BY DEF TypeOK
<1>4. refcount'[u] = refcount[u] + 1 /\ \A w \in UpVal : w # u => refcount'[w] = refcount[w]
  BY <1>3
<1>5. refcount[u] = Cardinality(Users(u)) BY DEF RefCounted
<1>6. refcount'[u] = Cardinality(Users(u)') BY <1>1, <1>4, <1>5
<1>7. Users(u)' # {}
  <2>1. Cardinality(Users(u)') # 0 BY <1>1, <1>2
  <2> QED BY <2>1, FS_EmptySet
<1>8. ASSUME NEW w \in UpVal
      PROVE  /\ v'[w] = Free => Users(w)' = {}
             /\ v'[w] # Free => refcount'[w] = Cardinality(Users(w)')
             /\ v'[w] = Own => Users(w)' # {}
  <2>1. CASE w = u BY <1>6, <1>7, <2>1
  <2>2. CASE w # u
    <3>1. Users(w)' = Users(w) /\ refcount'[w] = refcount[w] /\ v'[w] = v[w] BY <1>1, <1>4, <2>2
    <3> QED BY <3>1 DEF RefCounted
  <2> QED BY <2>1, <2>2
<1>9. RefCounted' BY <1>8 DEF RefCounted
<1>10. refcount' \in [UpVal -> Nat] BY <1>3
<1> QED BY <1>9, <1>10

\* A new upvalue has one user.
LEMMA NewCounts ==
  ASSUME UpvalAssumption, UInv, ncl \in Closure, ~Complete(ncl), NEW u \in UpVal, v[u] = Free,
         SetUp(u), v'[u] # Free, \A w \in UpVal : w # u => v'[w] = v[w],
         refcount' = [refcount EXCEPT ![u] = 1]
  PROVE  RefCounted' /\ refcount' \in [UpVal -> Nat]
<1> USE DEF UInv
<1>1. /\ \A w \in UpVal : w # u => Users(w)' = Users(w)
      /\ Cardinality(Users(u)') = Cardinality(Users(u)) + 1
  BY SetUpCounts
<1>2. refcount \in [UpVal -> Nat] BY DEF TypeOK
<1>3. refcount'[u] = 1 /\ \A w \in UpVal : w # u => refcount'[w] = refcount[w]
  BY <1>2
<1>4. Cardinality(Users(u)) = 0
  <2>1. Users(u) = {} BY DEF RefCounted
  <2> QED BY <2>1, FS_EmptySet
<1>5. refcount'[u] = Cardinality(Users(u)') BY <1>1, <1>3, <1>4
<1>6. Users(u)' # {}
  <2>1. Cardinality(Users(u)') # 0 BY <1>1, <1>4
  <2> QED BY <2>1, FS_EmptySet
<1>7. ASSUME NEW w \in UpVal
      PROVE  /\ v'[w] = Free => Users(w)' = {}
             /\ v'[w] # Free => refcount'[w] = Cardinality(Users(w)')
             /\ v'[w] = Own => Users(w)' # {}
  <2>1. CASE w = u BY <1>5, <1>6, <2>1
  <2>2. CASE w # u
    <3>1. Users(w)' = Users(w) /\ refcount'[w] = refcount[w] /\ v'[w] = v[w] BY <1>1, <1>3, <2>2
    <3> QED BY <3>1 DEF RefCounted
  <2> QED BY <2>1, <2>2
<1>8. RefCounted' BY <1>7 DEF RefCounted
<1>9. refcount' \in [UpVal -> Nat] BY <1>2
<1> QED BY <1>8, <1>9

\* While a slot is filled, pushclosure keeps what it works with.
LEMMA FillingStays ==
  ASSUME UInv, pc # "idle", pc' # "link", UNCHANGED <<cache, proto, marked, gcphase, ncl, th, encup>>,
         \A c \in Closure : Complete(c) => Complete(c)'
  PROVE  Busy' /\ CacheKept' /\ PlaceValid'
<1> USE DEF UInv
<1>1. ncl \in Closure /\ Live(ncl)' /\ th \in Thread /\ Live(th)' BY DEF Busy, Live
<1>2. encup # NULL => Callable(encup)'
  <2> SUFFICES ASSUME encup # NULL PROVE Callable(encup)' OBVIOUS
  <2>1. PICK c \in Closure : c = encup BY DEF TypeOK
  <2>2. Live(c) /\ Complete(c) BY <2>1 DEF Busy, Callable
  <2>3. Live(c)' /\ Complete(c)' BY <2>2 DEF Live
  <2> QED BY <2>1, <2>3 DEF Callable
<1>3. Busy' BY <1>1, <1>2 DEF Busy
<1>4. CacheKept' BY CacheStays
<1>5. PlaceValid' BY DEF PlaceValid
<1> QED BY <1>3, <1>4, <1>5

\* FillEnclosing and FillFound: an upvalue that exists goes into the slot.
LEMMA FillSound ==
  ASSUME UpvalAssumption, UInv, pc = "fill", ~Complete(ncl), NEW u \in UpVal, v[u] # Free, SetUp(u),
         refcount' = [refcount EXCEPT ![u] = @ + 1],
         UNCHANGED <<mem, stack, top, openupval, v, value>>,
         UNCHANGED <<cache, proto, marked, gcphase, sweeps, pc, ncl, th, encup, level, pp>>
  PROVE  UInv'
<1> USE DEF UInv
<1>1. ncl \in Closure BY DEF Busy
<1>2. RefCounted' /\ refcount' \in [UpVal -> Nat] BY <1>1, TakenCounts
<1>3. /\ upvals' \in [Closure -> [Index -> UpVal \cup {NULL}]]
      /\ \A c \in Closure : Complete(c) => Complete(c)'
  BY <1>1, SetUpCounts
<1>4. TypeOK' BY <1>2, <1>3 DEF TypeOK
<1>5. OpenListed' /\ Stacks' BY ListsStay DEF Stacks
<1>6. Busy' /\ CacheKept' /\ PlaceValid' BY <1>3, FillingStays
<1> QED BY <1>2, <1>4, <1>5, <1>6

LEMMA FillEnclosingSound ==
  ASSUME UpvalAssumption, UInv, NEW j \in Index, FillEnclosing(j) PROVE UInv'
<1> DEFINE u == upvals[encup][j]
<1>1. /\ pc = "fill" /\ ~Complete(ncl) /\ encup # NULL /\ SetUp(u)
      /\ refcount' = [refcount EXCEPT ![u] = @ + 1]
      /\ UNCHANGED <<mem, stack, top, openupval, v, value>>
      /\ UNCHANGED <<cache, proto, marked, gcphase, sweeps, pc, ncl, th, encup, level, pp>>
  BY DEF FillEnclosing, threads, collector, locals
<1>2. encup \in Closure /\ Complete(encup) BY <1>1 DEF UInv, TypeOK, Busy, Callable
<1>3. u \in UpVal BY <1>2 DEF UInv, TypeOK, Complete
<1>4. <<encup, j>> \in Users(u) BY <1>2 DEF Users
<1> HIDE DEF u
<1>5. v[u] # Free BY <1>3, <1>4 DEF UInv, RefCounted
<1> QED BY <1>1, <1>3, <1>5, FillSound

LEMMA FillFoundSound ==
  ASSUME UpvalAssumption, UInv, NEW l \in Level, FillFound(l) PROVE UInv'
<1>1. PICK u \in Above(th, l) :
        v[u] = AddressOf(th, l) /\ SetUp(u) /\ refcount' = [refcount EXCEPT ![u] = @ + 1]
  BY DEF FillFound
<1>2. /\ pc = "fill" /\ ~Complete(ncl)
      /\ UNCHANGED <<mem, stack, top, openupval, v, value>>
      /\ UNCHANGED <<cache, proto, marked, gcphase, sweeps, pc, ncl, th, encup, level, pp>>
  BY DEF FillFound, threads, collector, locals
<1>3. th \in Thread BY <1>2 DEF UInv, Busy
<1>4. u \in UpVal /\ v[u] # Free
  <2>1. PICK i \in 1..(Position(th, l) - 1) : u = openupval[th][i] BY DEF Above
  <2>2. openupval[th] \in Seq(UpVal) /\ Len(openupval[th]) \in Nat BY <1>3 DEF UInv, TypeOK
  <2>3. Position(th, l) \in 1..(Len(openupval[th]) + 1) BY <1>3, Walk DEF UInv
  <2>4. i \in 1..Len(openupval[th]) BY <2>2, <2>3
  <2>5. u \in UpVal /\ v[u] \in Address BY <1>3, <2>1, <2>4, Listed DEF UInv
  <2> QED BY <2>5 DEF UpvalAssumption
<1> QED BY <1>1, <1>2, <1>4, FillSound

\* The walk finds no upvalue: there is none for the local, and one has to be made.
LEMMA FillNewSound ==
  ASSUME UpvalAssumption, UInv, NEW l \in Level, FillNew(l) PROVE UInv'
<1> USE DEF UInv
<1>1. /\ pc = "fill" /\ ~Complete(ncl) /\ l < top[th]
      /\ \A u \in Above(th, l) : v[u] # AddressOf(th, l)
      /\ pc' = "link" /\ level' = l /\ pp' = Position(th, l)
      /\ UNCHANGED <<mem, stack, top, openupval, v, value, refcount, upvals>>
      /\ UNCHANGED <<cache, proto, marked, gcphase, sweeps, ncl, th, encup>>
  BY DEF FillNew, threads, pools, collector
<1>2. ncl \in Closure /\ Live(ncl) /\ th \in Thread /\ Live(th) BY <1>1 DEF Busy
<1>3. openupval[th] \in Seq(UpVal) /\ Len(openupval[th]) \in Nat BY <1>2 DEF TypeOK
<1>4. /\ Position(th, l) \in 1..(Len(openupval[th]) + 1)
      /\ \A i \in 1..Len(openupval[th]) : i < Position(th, l) <=> v[openupval[th][i]].level >= l
  BY <1>2, Walk
<1>5. TypeOK'
  <2>1. Position(th, l) \in Nat BY <1>3, <1>4
  <2> QED BY <1>1, <2>1 DEF TypeOK
<1>6. RefCounted' /\ OpenListed' /\ Stacks' BY <1>1, CountsStay, ListsStay DEF Stacks
<1>7. PlaceValid' BY <1>1 DEF PlaceValid, Position
<1>8. ASSUME NEW u \in UpVal, v[u] = AddressOf(th, l) PROVE FALSE
  <2>1. stack[th] \in Block /\ stack[th] # NULL BY <1>2, HasStack
  <2>2. v[u] \in Address /\ v[u].block = stack[th] /\ v[u].level = l
    BY <1>8, <2>1 DEF AddressOf, Address
  <2>3. PICK s \in Thread : \E i \in 1..Len(openupval[s]) : openupval[s][i] = u
    BY <2>2, Open DEF upisopen
  <2> PICK i \in 1..Len(openupval[s]) : openupval[s][i] = u BY <2>3
  <2>4. v[u].block = stack[s] BY Listed
  <2>5. s = th BY <1>2, <2>1, <2>2, <2>4 DEF Stacks
  <2>6. l \in Nat BY DEF Level
  <2>7. i < Position(th, l) /\ i \in 1..(Position(th, l) - 1) BY <1>3, <1>4, <2>2, <2>5, <2>6
  <2>8. u \in Above(th, l) BY <2>5, <2>7 DEF Above
  <2> QED BY <1>1, <1>8, <2>8
<1>9. Busy'
  <2>1. encup # NULL => Callable(encup)' BY <1>1 DEF Busy, Callable, Live, Complete
  <2>2. Live(ncl)' /\ Live(th)' /\ ~Complete(ncl)' BY <1>1, <1>2 DEF Live, Complete
  <2>3. \A u \in UpVal : v'[u] # AddressOf(th, level)' BY <1>1, <1>8 DEF AddressOf
  <2> QED BY <1>1, <1>2, <2>1, <2>2, <2>3 DEF Busy
<1>10. CacheKept'
  <2>1. \A c \in Closure : Complete(c) => Complete(c)' BY <1>1 DEF Complete
  <2> QED BY <1>1, <2>1, CacheStays
<1> QED BY <1>5, <1>6, <1>7, <1>9, <1>10

\* After the allocation the new upvalue is linked between those of higher and of lower
\* locals: a collection in between has not touched the list.
LEMMA LinkSound == ASSUME UpvalAssumption, UInv, NEW u \in UpVal, Link(u) PROVE UInv'
<1> USE DEF UInv
<1>1. /\ pc = "link" /\ v[u] = Free /\ pc' = "fill" /\ level' = 0 /\ pp' = 0
      /\ v' = [v EXCEPT ![u] = AddressOf(th, level)]
      /\ openupval' = [openupval EXCEPT ![th] = InsertAt(@, pp, u)]
      /\ refcount' = [refcount EXCEPT ![u] = 1] /\ SetUp(u)
      /\ UNCHANGED <<mem, stack, top, value>>
      /\ UNCHANGED <<cache, proto, marked, gcphase, sweeps, ncl, th, encup>>
  BY DEF Link, threads, collector
<1>2. /\ ncl \in Closure /\ ~Complete(ncl) /\ th \in Thread /\ Live(th) /\ level < top[th]
      /\ \A w \in UpVal : v[w] # AddressOf(th, level)
  BY <1>1 DEF Busy
<1>3. stack[th] \in Block /\ level \in Level /\ level \in Nat /\ top[th] \in Nat
  BY <1>2, HasStack DEF TypeOK, Level
<1> DEFINE s == openupval[th]
           a == AddressOf(th, level)
<1>4. a \in Address /\ a.level = level /\ a # Free BY <1>3 DEF AddressOf, Address, UpvalAssumption
<1>5. v'[u] = a /\ \A w \in UpVal : w # u => v'[w] = v[w] BY <1>1 DEF TypeOK
<1>6. s \in Seq(UpVal) /\ Len(s) \in Nat /\ openupval \in [Thread -> Seq(UpVal)] BY <1>2 DEF TypeOK
<1>7. pp \in 1..(Len(s) + 1) /\ \A i \in 1..Len(s) : i < pp <=> v[s[i]].level >= level
  BY <1>1, <1>2, <1>3, Walk DEF PlaceValid
<1>8. openupval'[th] = InsertAt(s, pp, u) /\ \A t \in Thread : t # th => openupval'[t] = openupval[t]
  BY <1>1, <1>2, <1>6
\* No list holds u, which was not allocated.
<1>9. \A t \in Thread : \A i \in 1..Len(openupval[t]) : openupval[t][i] \in UpVal /\ openupval[t][i] # u
  BY <1>1, Listed DEF UpvalAssumption
<1>10. \A i \in 1..Len(s) : v[s[i]].level \in Nat /\ v[s[i]].level # level
  <2>1. ASSUME NEW i \in 1..Len(s) PROVE v[s[i]].level \in Nat /\ v[s[i]].level # level
    <3>1. PICK w : w = s[i] OBVIOUS
    <3>2. PICK l : l = v[w].level OBVIOUS
    <3>3. w \in UpVal /\ v[w] = AddressOf(th, l) /\ l \in 0..(top[th] - 1) BY <1>2, <3>1, <3>2, Listed
    <3>4. l # level BY <1>2, <3>3
    <3> QED BY <3>1, <3>2, <3>3, <3>4
  <2> QED BY <2>1
<1> DEFINE n == openupval'[th]
<1>11. /\ n \in Seq(UpVal) /\ Len(n) = Len(s) + 1
       /\ \A i \in 1..(Len(s) + 1) : n[i] = IF i < pp THEN s[i] ELSE IF i = pp THEN u ELSE s[i - 1]
  <2> HIDE DEF s
  <2>1. s \in Seq(UpVal) /\ u \in UpVal /\ pp \in 1..(Len(s) + 1) BY <1>6, <1>7
  <2>2. /\ InsertAt(s, pp, u) \in Seq(UpVal) /\ Len(InsertAt(s, pp, u)) = Len(s) + 1
        /\ \A i \in 1..(Len(s) + 1) :
             InsertAt(s, pp, u)[i] = IF i < pp THEN s[i] ELSE IF i = pp THEN u ELSE s[i - 1]
    BY <2>1, Inserted
  <2>3. n = InsertAt(s, pp, u) BY <1>8
  <2> QED BY <2>2, <2>3
<1> HIDE DEF s, a, n
\* Before the place are higher levels, after it lower ones.
<1>12. \A i \in 1..Len(n) : \/ i < pp /\ i \in 1..Len(s) /\ n[i] = s[i] /\ v[s[i]].level > level
                            \/ i = pp /\ n[i] = u
                            \/ /\ i > pp /\ i - 1 \in 1..Len(s) /\ n[i] = s[i - 1]
                               /\ v[s[i - 1]].level < level
  <2>1. ASSUME NEW i \in 1..Len(n)
        PROVE  \/ i < pp /\ i \in 1..Len(s) /\ n[i] = s[i] /\ v[s[i]].level > level
               \/ i = pp /\ n[i] = u
               \/ i > pp /\ i - 1 \in 1..Len(s) /\ n[i] = s[i - 1] /\ v[s[i - 1]].level < level
    <3>1. n[i] = IF i < pp THEN s[i] ELSE IF i = pp THEN u ELSE s[i - 1] BY <1>11
    <3>2. CASE i < pp
      <4>1. i \in 1..Len(s) BY <1>6, <1>7, <1>11, <3>2
      <4>2. v[s[i]].level >= level /\ v[s[i]].level \in Nat /\ v[s[i]].level # level
        BY <1>7, <1>10, <3>2, <4>1
      <4>3. v[s[i]].level > level BY <1>3, <4>2
      <4> QED BY <3>1, <3>2, <4>1, <4>3
    <3>3. CASE i = pp BY <3>1, <3>3
    <3>4. CASE i > pp
      <4>1. i - 1 \in 1..Len(s) /\ ~(i - 1 < pp) /\ ~(i < pp) /\ i # pp BY <1>6, <1>7, <1>11, <3>4
      <4>2. ~(v[s[i - 1]].level >= level) /\ v[s[i - 1]].level \in Nat BY <1>7, <1>10, <4>1
      <4>3. v[s[i - 1]].level < level BY <1>3, <4>2
      <4> QED BY <3>1, <3>4, <4>1, <4>3
    <3> QED BY <1>7, <1>11, <3>2, <3>3, <3>4
  <2> QED BY <2>1
<1>13. openupval' \in [Thread -> Seq(UpVal)]
  <2>1. \A t \in Thread : openupval'[t] \in Seq(UpVal) BY <1>6, <1>8, <1>11 DEF n
  <2>2. DOMAIN openupval' = Thread /\ openupval' = [t \in Thread |-> openupval'[t]] BY <1>1, <1>6
  <2> QED BY <2>1, <2>2
<1>14. /\ upvals' \in [Closure -> [Index -> UpVal \cup {NULL}]]
       /\ \A c \in Closure : Complete(c) => Complete(c)'
  BY <1>1, <1>2, SetUpCounts
<1>15. RefCounted' /\ refcount' \in [UpVal -> Nat] BY <1>1, <1>2, <1>4, <1>5, NewCounts
<1>16. TypeOK'
  <2>1. v' \in [UpVal -> Address \cup {Own, Free}] BY <1>1, <1>4 DEF TypeOK, a
  <2>2. 0 \in Level BY DEF Level, UpvalAssumption
  <2> QED BY <1>1, <1>13, <1>14, <1>15, <2>1, <2>2 DEF TypeOK
<1>17. OpenListed'
  <2>1. \A i \in 1..Len(s) : \E j \in 1..Len(n) : n[j] = s[i]
    <3>1. ASSUME NEW i \in 1..Len(s) PROVE \E j \in 1..Len(n) : n[j] = s[i]
      <4>1. CASE i < pp BY <1>6, <1>7, <1>11, <4>1
      <4>2. CASE ~(i < pp)
        <5>1. i + 1 \in 1..Len(n) /\ ~(i + 1 < pp) /\ i + 1 # pp /\ (i + 1) - 1 = i
          BY <1>6, <1>7, <1>11, <4>2
        <5>2. n[i + 1] = s[i] BY <1>11, <5>1
        <5> QED BY <5>1, <5>2
      <4> QED BY <4>1, <4>2
    <3> QED BY <3>1
  <2>2. ASSUME NEW w \in UpVal, v'[w] \in Address
        PROVE  \E t \in Thread : \E i \in 1..Len(openupval'[t]) : openupval'[t][i] = w
    <3>1. CASE w = u
      <4>1. pp \in 1..Len(n) /\ n[pp] = u BY <1>7, <1>11
      <4> QED BY <1>2, <3>1, <4>1 DEF n
    <3>2. CASE w # u
      <4>1. v[w] \in Address BY <1>5, <2>2, <3>2
      <4>2. PICK t \in Thread : \E i \in 1..Len(openupval[t]) : openupval[t][i] = w
        BY <4>1, Open DEF upisopen
      <4>3. CASE t # th BY <1>8, <4>2, <4>3
      <4>4. CASE t = th BY <2>1, <4>2, <4>4 DEF s, n
      <4> QED BY <4>3, <4>4
    <3> QED BY <3>1, <3>2
  <2>3. ASSUME NEW t \in Thread, NEW i \in 1..Len(openupval[t])
        PROVE  \E l \in 0..(top'[t] - 1) : v'[openupval[t][i]] = AddressOf(t, l)'
    <3>1. PICK w : w = openupval[t][i] OBVIOUS
    <3>2. PICK l : l = v[w].level OBVIOUS
    <3>3. v[w] = AddressOf(t, l) /\ l \in 0..(top[t] - 1) BY <3>1, <3>2, Listed
    <3>4. v'[w] = v[w] BY <1>5, <1>9, <3>1
    <3>5. v'[w] = AddressOf(t, l)' BY <1>1, <3>3, <3>4 DEF AddressOf
    <3> QED BY <1>1, <3>1, <3>3, <3>5
  <2>4. ASSUME NEW t \in Thread, NEW i \in 1..Len(openupval'[t])
        PROVE  \E l \in 0..(top'[t] - 1) : v'[openupval'[t][i]] = AddressOf(t, l)'
    <3>1. CASE t # th
      <4>1. i \in 1..Len(openupval[t]) /\ openupval'[t][i] = openupval[t][i] BY <1>8, <3>1
      <4> QED BY <2>3, <4>1
    <3>2. CASE t = th
      <4>1. \/ \E j \in 1..Len(openupval[t]) : openupval'[t][i] = openupval[t][j]
            \/ openupval'[t][i] = u
        BY <1>12, <3>2 DEF n, s
      <4>2. CASE openupval'[t][i] = u
        <5>1. level \in 0..(top'[t] - 1) BY <1>1, <1>2, <1>3, <3>2
        <5>2. v'[u] = AddressOf(t, level) BY <1>5, <3>2 DEF a
        <5>3. PICK l : l = level OBVIOUS
        <5>4. v'[u] = AddressOf(t, l)' BY <1>1, <5>2, <5>3 DEF AddressOf
        <5> QED BY <4>2, <5>1, <5>3, <5>4
      <4>3. CASE openupval'[t][i] # u
        <5>1. PICK j \in 1..Len(openupval[t]) : openupval'[t][i] = openupval[t][j] BY <4>1, <4>3
        <5> QED BY <2>3, <5>1
      <4> QED BY <4>2, <4>3
    <3> QED BY <3>1, <3>2
  <2>5. ASSUME NEW i \in 1..Len(n), NEW j \in 1..Len(n), i < j
        PROVE  v'[n[i]].level > v'[n[j]].level
    <3>1. \A k, m \in 1..Len(s) : k < m => v[s[k]].level > v[s[m]].level
      <4>1. DOMAIN s = 1..Len(s) BY <1>6
      <4> QED BY <1>2, <4>1 DEF OpenListed, s
    <3>2. \A k \in 1..Len(s) : v'[s[k]] = v[s[k]] BY <1>2, <1>5, <1>9 DEF s
    <3>3. v'[u].level = level BY <1>4, <1>5
    <3>4. i \in Nat /\ j \in Nat /\ pp \in Nat BY <1>7
    <3>5. CASE j < pp
      <4>1. i < pp BY <2>5, <3>4, <3>5
      <4>2. i \in 1..Len(s) /\ n[i] = s[i] BY <1>12, <3>4, <4>1
      <4>3. j \in 1..Len(s) /\ n[j] = s[j] BY <1>12, <3>4, <3>5
      <4> QED BY <2>5, <3>1, <3>2, <4>2, <4>3
    <3>6. CASE j = pp
      <4>1. i < pp BY <2>5, <3>6
      <4>2. i \in 1..Len(s) /\ n[i] = s[i] /\ v[s[i]].level > level BY <1>12, <3>4, <4>1
      <4>3. n[j] = u BY <1>12, <3>4, <3>6
      <4> QED BY <3>2, <3>3, <4>2, <4>3
    <3>7. CASE j > pp
      <4>1. j - 1 \in 1..Len(s) /\ n[j] = s[j - 1] /\ v[s[j - 1]].level < level BY <1>12, <3>4, <3>7
      <4>2. CASE i < pp
        <5>1. i \in 1..Len(s) /\ n[i] = s[i] BY <1>12, <3>4, <4>2
        <5>2. i < j - 1 BY <3>4, <3>7, <4>2
        <5> QED BY <3>1, <3>2, <4>1, <5>1, <5>2
      <4>3. CASE i = pp
        <5>1. n[i] = u BY <1>12, <3>4, <4>3
        <5>2. v[s[j - 1]].level \in Nat BY <1>10, <4>1
        <5> QED BY <1>3, <3>2, <3>3, <4>1, <5>1, <5>2
      <4>4. CASE i > pp
        <5>1. i - 1 \in 1..Len(s) /\ n[i] = s[i - 1] /\ i - 1 < j - 1 BY <1>12, <2>5, <3>4, <4>4
        <5> QED BY <3>1, <3>2, <4>1, <5>1
      <4> QED BY <3>4, <4>2, <4>3, <4>4
    <3> QED BY <3>4, <3>5, <3>6, <3>7
  <2>6. ASSUME NEW t \in Thread, NEW i \in 1..Len(openupval'[t]), NEW j \in 1..Len(openupval'[t]), i < j
        PROVE  v'[openupval'[t][i]].level > v'[openupval'[t][j]].level
    <3>1. CASE t # th
      <4>1. DOMAIN openupval[t] = 1..Len(openupval[t]) BY <1>6
      <4>2. openupval'[t] = openupval[t] BY <1>8, <3>1
      <4>3. i \in 1..Len(openupval[t]) /\ j \in 1..Len(openupval[t]) BY <4>2
      <4>4. v[openupval[t][i]].level > v[openupval[t][j]].level BY <2>6, <4>1, <4>3 DEF OpenListed
      <4>5. /\ v'[openupval[t][i]] = v[openupval[t][i]]
            /\ v'[openupval[t][j]] = v[openupval[t][j]]
        BY <1>5, <1>9, <4>3
      <4> QED BY <4>2, <4>4, <4>5
    <3>2. CASE t = th BY <2>5, <2>6, <3>2 DEF n
    <3> QED BY <3>1, <3>2
  <2> QED BY <1>13, <2>2, <2>4, <2>6, ListsSound
<1>18. Stacks' BY <1>1 DEF Stacks
<1>19. Busy' /\ CacheKept' /\ PlaceValid' BY <1>1, <1>14, FillingStays
<1> QED BY <1>15, <1>16, <1>17, <1>18, <1>19

LEMMA InitUpvalSound == ASSUME UpvalAssumption, UInv, NEW u \in UpVal, InitUpval(u) PROVE UInv'
<1> USE DEF UInv
<1>1. /\ pc = "init" /\ ~Complete(ncl) /\ v[u] = Free /\ SetUp(u)
      /\ v' = [v EXCEPT ![u] = Own] /\ value' = [value EXCEPT ![u] = Nil]
      /\ refcount' = [refcount EXCEPT ![u] = 1]
      /\ UNCHANGED <<mem, stack, top, openupval>>
      /\ UNCHANGED <<cache, proto, marked, gcphase, sweeps, pc, ncl, th, encup, level, pp>>
  BY DEF InitUpval, threads, collector, locals
<1>2. ncl \in Closure BY <1>1 DEF Busy
<1>3. v'[u] = Own /\ \A w \in UpVal : w # u => v'[w] = v[w] BY <1>1 DEF TypeOK
<1>4. RefCounted' /\ refcount' \in [UpVal -> Nat] BY <1>1, <1>2, <1>3, NewCounts DEF UpvalAssumption
<1>5. /\ upvals' \in [Closure -> [Index -> UpVal \cup {NULL}]]
      /\ \A c \in Closure : Complete(c) => Complete(c)'
  BY <1>1, <1>2, SetUpCounts
<1>6. TypeOK'
  <2>1. v' \in [UpVal -> Address \cup {Own, Free}] /\ value' \in [UpVal -> Value]
    BY <1>1 DEF TypeOK, UpvalAssumption
  <2> QED BY <1>1, <1>4, <1>5, <2>1 DEF TypeOK
<1>7. OpenListed'
  <2>1. \A t \in Thread : top'[t] \in Nat /\ top'[t] >= top[t] BY <1>1 DEF TypeOK, UpvalAssumption
  <2>2. \A w \in UpVal : (v[w] \in Address => v'[w] = v[w]) /\ (v'[w] \in Address => v'[w] = v[w])
    BY <1>1, <1>3 DEF UpvalAssumption
  <2> QED BY <1>1, <2>1, <2>2, OpenStay
<1>8. Stacks' BY <1>1 DEF Stacks
<1>9. Busy' /\ CacheKept' /\ PlaceValid' BY <1>1, <1>5, FillingStays
<1> QED BY <1>4, <1>6, <1>7, <1>8, <1>9

\* The finished closure is cached if the prototype is not marked yet.
LEMMA FinishSound == ASSUME UpvalAssumption, UInv, Finish PROVE UInv'
<1> USE DEF UInv
<1>1. /\ pc \in {"fill", "init"} /\ Complete(ncl) /\ pc' = "idle" /\ ncl' = NULL /\ th' = NULL
      /\ encup' = NULL /\ level' = 0 /\ pp' = 0
      /\ cache' = IF pc = "fill" THEN (IF proto = "black" THEN cache ELSE ncl) ELSE cache
      /\ UNCHANGED <<mem, stack, top, openupval, v, value, refcount, upvals>>
      /\ UNCHANGED <<proto, marked, gcphase, sweeps>>
  BY DEF Finish, Idle, Cached, threads, pools, collector
<1>2. ncl \in Closure /\ Live(ncl) BY <1>1 DEF Busy
<1>3. TypeOK'
  <2>1. 0 \in Level BY DEF Level, UpvalAssumption
  <2>2. cache' \in Closure \cup {NULL} BY <1>1, <1>2 DEF TypeOK
  <2> QED BY <1>1, <2>1, <2>2 DEF TypeOK
<1>4. RefCounted' /\ OpenListed' /\ Stacks' BY <1>1, CountsStay, ListsStay DEF Stacks
<1>5. Busy' /\ PlaceValid' BY <1>1 DEF Busy, PlaceValid
<1>6. CacheKept'
  <2>1. CASE cache' = cache
    <3>1. \A c \in Closure : Complete(c) => Complete(c)' BY <1>1 DEF Complete
    <3> QED BY <1>1, <2>1, <3>1, CacheStays
  <2>2. CASE cache' = ncl /\ proto # "black"
    <3>1. PICK c \in Closure : c = ncl BY <1>2
    <3>2. Live(c)' /\ Complete(c)' BY <1>1, <1>2, <3>1 DEF Live, Complete
    <3>3. Callable(cache)' BY <2>2, <3>1, <3>2 DEF Callable
    <3> QED BY <1>1, <2>2, <3>3 DEF CacheKept, CacheLive
  <2> QED BY <1>1, <2>1, <2>2
<1> QED BY <1>3, <1>4, <1>5, <1>6

LEMMA MemoryErrorSound == ASSUME UpvalAssumption, UInv, MemoryError PROVE UInv'
<1> USE DEF UInv
<1>1. /\ pc' = "idle" /\ ncl' = NULL /\ th' = NULL /\ encup' = NULL /\ level' = 0 /\ pp' = 0
      /\ UNCHANGED <<mem, stack, top, openupval, v, value, refcount, upvals>>
      /\ UNCHANGED <<cache, proto, marked, gcphase, sweeps>>
  BY DEF MemoryError, Idle, threads, pools, collector
<1>2. TypeOK'
  <2>1. 0 \in Level BY DEF Level, UpvalAssumption
  <2> QED BY <1>1, <2>1 DEF TypeOK
<1>3. RefCounted' /\ OpenListed' /\ Stacks' BY <1>1, CountsStay, ListsStay DEF Stacks
<1>4. Busy' /\ PlaceValid' BY <1>1 DEF Busy, PlaceValid
<1>5. CacheKept'
  <2>1. \A c \in Closure : Complete(c) => Complete(c)' BY <1>1 DEF Complete
  <2> QED BY <1>1, <2>1, CacheStays
<1> QED BY <1>2, <1>3, <1>4, <1>5

(***************************************************************************)
(* The invariant                                                           *)
(***************************************************************************)
LEMMA InitSound == ASSUME UpvalAssumption, Init PROVE UInv
<1>1. PICK b \in Block :
        /\ stack = [t \in Thread |-> IF t = mainthread THEN b ELSE NULL]
        /\ mem = [c \in Block |-> [l \in Level |-> IF c = b THEN Nil ELSE Junk]]
  BY DEF Init
<1>2. /\ mainthread \in Thread /\ Nil \in Value /\ MaxLevel \in Nat /\ 0 \in Level
      /\ b # NULL /\ NULL \notin UpVal
  BY DEF UpvalAssumption, Level
<1>3. TypeOK
  <2>1. openupval \in [Thread -> Seq(UpVal)] BY DEF Init
  <2>2. /\ mem \in [Block -> [Level -> Value \cup {Junk}]]
        /\ stack \in [Thread -> Block \cup {NULL}] /\ top \in [Thread -> 0..MaxLevel]
    BY <1>1, <1>2 DEF Init
  <2>3. marked \in [Object -> {"free", "white", "black", "dead"}] BY DEF Init
  <2>4. upvals \in [Closure -> [Index -> UpVal \cup {NULL}]] BY DEF Init
  <2> QED BY <1>2, <2>1, <2>2, <2>3, <2>4 DEF Init, TypeOK
<1>4. RefCounted
  <2>1. \A u \in UpVal : Users(u) = {} BY <1>2 DEF Init, Users
  <2> QED BY <2>1 DEF Init, RefCounted, UpvalAssumption
<1>5. OpenListed
  <2>1. \A t \in Thread : DOMAIN openupval[t] = {} BY DEF Init
  <2> QED BY <2>1 DEF Init, OpenListed, upisopen, UpvalAssumption
<1>6. Stacks BY <1>1, <1>2 DEF Init, Stacks, Object
<1>7. PlaceValid /\ Busy BY DEF Init, PlaceValid, Busy
<1>8. CacheKept BY DEF Init, CacheKept, CacheLive
<1> QED BY <1>3, <1>4, <1>5, <1>6, <1>7, <1>8 DEF UInv

LEMMA StepSound == ASSUME UpvalAssumption, ~SelfJoin, UInv, [Next]_vars PROVE UInv'
<1>1. CASE Program
  <2>1. CASE \E t \in Thread, x \in Value : NewLocal(t, x) \/ (\E l \in Level : SetLocal(t, l, x))
    BY <2>1, NewLocalSound, SetLocalSound
  <2>2. CASE \E t \in Thread, l \in Level : Leave(t, l) BY <2>2, LeaveSound
  <2>3. CASE \E t \in Thread, b \in Block : Reallocate(t, b) \/ NewThread(t, b)
    BY <2>3, ReallocateSound, NewThreadSound
  <2>4. CASE \E c \in Closure, i \in Index, x \in Value : SetUpval(c, i, x) BY <2>4, SetUpvalSound
  <2>5. CASE \E t \in Thread, c \in Closure, e \in Closure \cup {NULL} : NewLClosure(t, c, e)
    BY <2>5, NewLClosureSound
  <2>6. CASE \E j \in Index : FillEnclosing(j) BY <2>6, FillEnclosingSound
  <2>7. CASE \E l \in Level : FillFound(l) \/ FillNew(l) BY <2>7, FillFoundSound, FillNewSound
  <2>8. CASE \E u \in UpVal : Link(u) \/ InitUpval(u) BY <2>8, LinkSound, InitUpvalSound
  <2>9. CASE Finish \/ MemoryError BY <2>9, FinishSound, MemoryErrorSound
  <2>10. CASE \E c1, c2 \in Closure, i1, i2 \in Index : UpvalueJoin(c1, i1, c2, i2)
    BY <2>10, UpvalueJoinSound
  <2> QED BY <1>1, <2>1, <2>2, <2>3, <2>4, <2>5, <2>6, <2>7, <2>8, <2>9, <2>10 DEF Program
<1>2. CASE Collector
  <2>1. CASE \E o \in Object : Mark(o) \/ SweepLive(o) BY <2>1, MarkSound, SweepLiveSound
  <2>2. CASE TraverseProto BY <2>2, TraverseProtoSound
  <2>3. CASE SweepProto \/ SweepEnd \/ Emergency BY <2>3, PhaseSound
  <2>4. CASE \E S \in SUBSET Object : Atomic(S) BY <2>4, AtomicSound
  <2>5. CASE \E c \in Closure : FreeLClosure(c) BY <2>5, FreeLClosureSound
  <2>6. CASE \E t \in Thread : FreeThread(t) BY <2>6, FreeThreadSound
  <2> QED BY <1>2, <2>1, <2>2, <2>3, <2>4, <2>5, <2>6 DEF Collector
<1>3. CASE UNCHANGED vars
  <2> USE DEF UInv
  <2>1. /\ UNCHANGED <<mem, stack, top, openupval, v, value, refcount, upvals>>
        /\ UNCHANGED <<cache, proto, marked, gcphase, sweeps, pc, ncl, th, encup, level, pp>>
    BY <1>3 DEF vars
  <2>2. /\ marked' \in [Object -> {"free", "white", "black", "dead"}]
        /\ cache' \in Closure \cup {NULL} /\ proto' \in {"white", "black"}
        /\ gcphase' \in {"marking", "sweeping"} /\ sweeps' \in 0..2
    BY <2>1 DEF TypeOK
  <2>3. \A p \in Object : (marked'[p] = "free" <=> marked[p] = "free") /\ (Live(p) => Live(p)')
    BY <2>1 DEF Live
  <2>4. TypeOK' /\ RefCounted' /\ OpenListed' /\ PlaceValid' /\ Stacks' /\ Busy'
    BY <2>1, <2>2, <2>3, ColoursOnly
  <2>5. CacheKept'
    <3>1. \A c \in Closure : Complete(c) => Complete(c)' BY <2>1 DEF Complete
    <3> QED BY <2>1, <3>1, CacheStays
  <2> QED BY <2>4, <2>5
<1> QED BY <1>1, <1>2, <1>3 DEF Next

\* In every state counts are right, lists are sound and the place for a new upvalue is valid
\* (luaF_findupval, luaF_close, luaC_upvdeccount, luaD_reallocstack, freeLclosure), whatever
\* the program and the collector do, if lua_upvaluejoin never joins a slot to itself.
THEOREM UpvalsSoundAlways == ASSUME UpvalAssumption, ~SelfJoin PROVE Spec => []UpvalsSound
<1>1. Init => UInv BY InitSound
<1>2. UInv /\ [Next]_vars => UInv' BY StepSound
<1>3. UInv => UpvalsSound BY DEF UInv, UpvalsSound
<1> QED BY <1>1, <1>2, <1>3, PTL DEF Spec

\* The closure in the cache of a prototype is finished and will not be freed before the
\* prototype is marked again (traverseproto, getcached, pushclosure).
THEOREM CacheLiveAlways == ASSUME UpvalAssumption, ~SelfJoin PROVE Spec => []CacheLive
<1>1. Init => UInv BY InitSound
<1>2. UInv /\ [Next]_vars => UInv' BY StepSound
<1>3. UInv => CacheLive BY DEF UInv, CacheKept
<1> QED BY <1>1, <1>2, <1>3, PTL DEF Spec

(***************************************************************************)
(* Upvalues and locals are variables                                       *)
(***************************************************************************)
\* The upvalue that a reference of a closure names, and the references of one variable.
Slot(r) == upvals[r[1]][r[2]]
Alike(r, s) == InUse(r) /\ InUse(s) /\ Place(r) = Place(s)
\* What is at a place.
At(p) == IF p \in Address THEN mem[p.block][p.level] ELSE value[p]
LocalRef == Thread \X Level
SlotRef == Closure \X Index

\* What two references in use have in common.
Places ==
  /\ \A r \in SlotRef : InUse(r) => Slot(r) \in UpVal /\ v[Slot(r)] # Free
                                    /\ r \in Users(Slot(r))
  /\ \A r \in LocalRef : InUse(r) => /\ stack[r[1]] \in Block
                                     /\ Place(r) = AddressOf(r[1], r[2]) /\ Place(r) \in Address
  /\ \A r \in SlotRef : InUse(r) => Place(r) = IF v[Slot(r)] \in Address THEN v[Slot(r)] ELSE Slot(r)
  /\ \A r, s \in LocalRef : InUse(r) /\ InUse(s) => (Place(r) = Place(s) <=> r = s)
  /\ \A r, s \in SlotRef : InUse(r) /\ InUse(s) => (Place(r) = Place(s) <=> Slot(r) = Slot(s))
  /\ \A r \in SlotRef, s \in LocalRef :
       InUse(r) /\ InUse(s) => (Place(r) = Place(s) <=> v[Slot(r)] = AddressOf(s[1], s[2]))
  /\ \A r \in Ref : InUse(r) => Contents(r) = At(Place(r))
\* A closure that is not allocated has no upvalues.
Blank == \A c \in Closure : marked[c] = "free" => \A i \in Index : upvals[c][i] = NULL

LEMMA Refs ==
  ASSUME UpvalAssumption
  PROVE  /\ Ref = LocalRef \cup SlotRef
         /\ \A r \in LocalRef : r \in Ref /\ r[1] \in Thread /\ r[2] \in Level /\ r = <<r[1], r[2]>>
                                /\ r[2] \in Nat /\ r \notin SlotRef
         /\ \A r \in SlotRef : r \in Ref /\ r[1] \in Closure /\ r[2] \in Index /\ r = <<r[1], r[2]>>
                               /\ r[1] \notin Thread
BY DEF Ref, LocalRef, SlotRef, UpvalAssumption, Level

\* An open upvalue points into the stack of the thread in whose list it is.
LEMMA OpenPlace ==
  ASSUME UpvalAssumption, UInv, NEW u \in UpVal, v[u] \in Address
  PROVE  \E t \in Thread : \E i \in 1..Len(openupval[t]) :
           /\ openupval[t][i] = u /\ stack[t] \in Block /\ v[u] = AddressOf(t, v[u].level)
           /\ v[u].level \in 0..(top[t] - 1) /\ v[u].block = stack[t] /\ marked[t] # "free"
<1> USE DEF UInv
<1>1. PICK t \in Thread : \E i \in 1..Len(openupval[t]) : openupval[t][i] = u BY Open DEF upisopen
<1>2. PICK i \in 1..Len(openupval[t]) : openupval[t][i] = u BY <1>1
<1> QED BY <1>2, Listed

\* Two open upvalues have two addresses.
LEMMA OpenApart ==
  ASSUME UpvalAssumption, UInv, NEW u \in UpVal, NEW w \in UpVal, v[u] \in Address, v[u] = v[w]
  PROVE  u = w
<1>1. PICK t \in Thread : \E i \in 1..Len(openupval[t]) :
        openupval[t][i] = u /\ stack[t] \in Block /\ v[u].block = stack[t]
        /\ v[u].level \in 0..(top[t] - 1)
  BY OpenPlace
<1>2. PICK i \in 1..Len(openupval[t]) : openupval[t][i] = u BY <1>1
<1>3. PICK s \in Thread : \E j \in 1..Len(openupval[s]) :
        openupval[s][j] = w /\ stack[s] \in Block /\ v[w].block = stack[s]
  BY OpenPlace
<1>4. PICK j \in 1..Len(openupval[s]) : openupval[s][j] = w BY <1>3
<1>5. s = t BY <1>1, <1>3 DEF UInv, Stacks, UpvalAssumption
<1>6. openupval[t] \in Seq(UpVal) BY DEF UInv, TypeOK
<1>7. i \in DOMAIN openupval[t] /\ j \in DOMAIN openupval[t] BY <1>2, <1>4, <1>5, <1>6
<1>8. \A k, l \in DOMAIN openupval[t] : k < l => v[openupval[t][k]].level > v[openupval[t][l]].level
  BY DEF UInv, OpenListed
<1>9. v[u].level \in Nat
  <2>1. top[t] \in 0..MaxLevel /\ MaxLevel \in Nat BY DEF UInv, TypeOK, UpvalAssumption
  <2> QED BY <1>1, <2>1
<1>10. ~(i < j) /\ ~(j < i) BY <1>2, <1>4, <1>5, <1>7, <1>8, <1>9
<1> QED BY <1>2, <1>4, <1>5, <1>10

LEMMA PlacesNow == ASSUME UpvalAssumption, PlaceAssumption, UInv PROVE Places
<1> USE Refs
<1>1. ASSUME NEW r \in SlotRef, InUse(r)
      PROVE  /\ Slot(r) \in UpVal /\ v[Slot(r)] # Free /\ r \in Users(Slot(r))
             /\ Place(r) = IF v[Slot(r)] \in Address THEN v[Slot(r)] ELSE Slot(r)
             /\ Contents(r) = At(Place(r))
  <2>1. r[1] \in Closure /\ r[2] \in Index /\ r[1] \notin Thread OBVIOUS
  <2>2. Slot(r) # NULL BY <1>1, <2>1 DEF InUse, Slot
  <2>3. Slot(r) \in UpVal BY <2>1, <2>2 DEF UInv, TypeOK, Slot
  <2>4. r \in Users(Slot(r)) BY <2>1 DEF Users, Slot, SlotRef
  <2>5. v[Slot(r)] # Free BY <2>3, <2>4 DEF UInv, RefCounted
  <2>6. Place(r) = IF v[Slot(r)] \in Address THEN v[Slot(r)] ELSE Slot(r)
    BY <2>1 DEF Place, Slot, upisopen
  <2>7. Contents(r) = IF v[Slot(r)] \in Address THEN mem[v[Slot(r)].block][v[Slot(r)].level]
                      ELSE value[Slot(r)]
    BY <2>1 DEF Contents, Deref, Slot, upisopen
  <2>8. Slot(r) \notin Address BY <2>3 DEF PlaceAssumption
  <2>9. Contents(r) = At(Place(r)) BY <2>6, <2>7, <2>8 DEF At
  <2> QED BY <2>3, <2>4, <2>5, <2>6, <2>9
<1>2. ASSUME NEW r \in LocalRef, InUse(r)
      PROVE  /\ stack[r[1]] \in Block /\ Place(r) = AddressOf(r[1], r[2]) /\ Place(r) \in Address
             /\ Contents(r) = At(Place(r)) /\ Place(r).block = stack[r[1]] /\ Place(r).level = r[2]
             /\ stack[r[1]] # NULL
  <2>1. r[1] \in Thread /\ r[2] \in Level OBVIOUS
  <2>2. Live(r[1]) BY <1>2 DEF InUse
  <2>3. stack[r[1]] \in Block /\ stack[r[1]] # NULL BY <2>1, <2>2, HasStack
  <2>4. Place(r) = AddressOf(r[1], r[2]) BY <2>1 DEF Place
  <2>5. Place(r) \in Address /\ Place(r).block = stack[r[1]] /\ Place(r).level = r[2]
    BY <2>1, <2>3, <2>4 DEF AddressOf, Address
  <2>6. Contents(r) = mem[stack[r[1]]][r[2]] BY <2>1 DEF Contents
  <2>7. Contents(r) = At(Place(r)) BY <2>5, <2>6 DEF At
  <2> QED BY <2>3, <2>4, <2>5, <2>7
<1>3. ASSUME NEW r \in LocalRef, NEW s \in LocalRef, InUse(r), InUse(s)
      PROVE  Place(r) = Place(s) <=> r = s
  <2>1. Place(r) = Place(s) => stack[r[1]] = stack[s[1]] /\ r[2] = s[2] BY <1>2, <1>3
  <2>2. Place(r) = Place(s) => r[1] = s[1] BY <2>1, <1>2, <1>3 DEF UInv, Stacks
  <2>3. Place(r) = Place(s) => r = s BY <2>1, <2>2
  <2> QED BY <2>3
<1>4. ASSUME NEW r \in SlotRef, NEW s \in SlotRef, InUse(r), InUse(s)
      PROVE  Place(r) = Place(s) <=> Slot(r) = Slot(s)
  <2>1. /\ Slot(r) \in UpVal /\ Place(r) = IF v[Slot(r)] \in Address THEN v[Slot(r)] ELSE Slot(r)
        /\ Slot(s) \in UpVal /\ Place(s) = IF v[Slot(s)] \in Address THEN v[Slot(s)] ELSE Slot(s)
    BY <1>1, <1>4
  <2>2. Slot(r) \notin Address /\ Slot(s) \notin Address BY <2>1 DEF PlaceAssumption
  <2>3. v[Slot(r)] \in Address /\ v[Slot(r)] = v[Slot(s)] => Slot(r) = Slot(s) BY <2>1, OpenApart
  <2> QED BY <2>1, <2>2, <2>3
<1>5. ASSUME NEW r \in SlotRef, NEW s \in LocalRef, InUse(r), InUse(s)
      PROVE  Place(r) = Place(s) <=> v[Slot(r)] = AddressOf(s[1], s[2])
  <2>1. Slot(r) \in UpVal /\ Place(r) = IF v[Slot(r)] \in Address THEN v[Slot(r)] ELSE Slot(r)
    BY <1>1, <1>5
  <2>2. Place(s) = AddressOf(s[1], s[2]) /\ Place(s) \in Address BY <1>2, <1>5
  <2>3. Slot(r) \notin Address BY <2>1 DEF PlaceAssumption
  <2> QED BY <2>1, <2>2, <2>3
<1>6. \A r \in Ref : InUse(r) => Contents(r) = At(Place(r)) BY <1>1, <1>2
<1> QED BY <1>1, <1>2, <1>3, <1>4, <1>5, <1>6 DEF Places
LEMMA PlacesThen == ASSUME UpvalAssumption, PlaceAssumption, UInv' PROVE Places'
BY PlacesNow, PTL

(***************************************************************************)
(* Steps of variables                                                      *)
(***************************************************************************)
LEMMA SharingIs ==
  /\ Sharing = [r \in Ref |-> {s \in Ref : Alike(r, s)}]
  /\ Holding = [r \in Ref |-> IF InUse(r) THEN Contents(r) ELSE Junk]
<1>1. ASSUME NEW r \in Ref
      PROVE  (IF InUse(r) THEN LET p == Place(r) IN {s \in Ref : InUse(s) /\ Place(s) = p} ELSE {})
             = {s \in Ref : Alike(r, s)}
  BY DEF Alike
<1> QED BY <1>1 DEF Sharing, Holding
LEMMA SharingWillBe ==
  /\ Sharing' = [r \in Ref |-> {s \in Ref : Alike(r, s)'}]
  /\ Holding' = [r \in Ref |-> IF InUse(r)' THEN Contents(r)' ELSE Junk]
<1>1. ASSUME NEW r \in Ref
      PROVE  (IF InUse(r)' THEN LET p == Place(r)' IN {s \in Ref : InUse(s)' /\ Place(s)' = p} ELSE {})
             = {s \in Ref : Alike(r, s)'}
  BY DEF Alike
<1> QED BY <1>1 DEF Sharing, Holding

\* A step that a program does not see.
LEMMA StutterStep ==
  ASSUME \A a \in Ref : InUse(a)' <=> InUse(a),
         \A a, b \in Ref : InUse(a) /\ InUse(b) => (Place(a)' = Place(b)' <=> Place(a) = Place(b)),
         \A a \in Ref : InUse(a) => Contents(a)' = Contents(a)
  PROVE  UNCHANGED <<Sharing, Holding>>
<1>1. \A a, b \in Ref : Alike(a, b)' <=> Alike(a, b) BY DEF Alike
<1>2. Sharing' = Sharing
  <2>1. \A a \in Ref : {s \in Ref : Alike(a, s)'} = {s \in Ref : Alike(a, s)} BY <1>1
  <2> QED BY <2>1, SharingIs, SharingWillBe
<1>3. Holding' = Holding
  <2>1. \A a \in Ref : (IF InUse(a)' THEN Contents(a)' ELSE Junk) = (IF InUse(a) THEN Contents(a) ELSE Junk)
    OBVIOUS
  <2> QED BY <2>1, SharingIs, SharingWillBe
<1> QED BY <1>2, <1>3

\* What the actions of LuaVariable compare.
LEMMA VariableStep ==
  ASSUME \/ Variables!Forget(Sharing, Holding, Sharing', Holding')
         \/ Variables!Assign(Sharing, Holding, Sharing', Holding')
         \/ Variables!New(Sharing, Holding, Sharing', Holding')
         \/ Variables!Share(Sharing, Holding, Sharing', Holding')
  PROVE  Variables!Next
BY DEF Variables!Next

\* A reference gets a variable of its own.
LEMMA NewStep ==
  ASSUME NEW r \in Ref, ~InUse(r), InUse(r)', Contents(r)' \in Value,
         \A a \in Ref : a # r => (InUse(a)' <=> InUse(a)),
         \A a, b \in Ref : InUse(a) /\ InUse(b) => (Place(a)' = Place(b)' <=> Place(a) = Place(b)),
         \A a \in Ref : InUse(a) => Place(a)' # Place(r)',
         \A a \in Ref : InUse(a) => Contents(a)' = Contents(a)
  PROVE  Variables!Next
<1>1. \A b \in Ref : ~Alike(r, b) /\ (Alike(r, b)' <=> b = r) BY DEF Alike
<1>2. \A a, b \in Ref : a # r => (Alike(a, b)' <=> Alike(a, b)) BY DEF Alike
<1>3. {b \in Ref : Alike(r, b)} = {} /\ {b \in Ref : Alike(r, b)'} = {r} BY <1>1
<1>4. \A a \in Ref : a # r => {b \in Ref : Alike(a, b)'} = {b \in Ref : Alike(a, b)} BY <1>2
<1>5. Sharing[r] = {} /\ Sharing' = [Sharing EXCEPT ![r] = {r}]
  <2>1. Sharing[r] = {} BY <1>3, SharingIs
  <2>2. \A a \in Ref : Sharing'[a] = IF a = r THEN {r} ELSE Sharing[a]
    BY <1>3, <1>4, SharingIs, SharingWillBe
  <2>3. Sharing' = [a \in Ref |-> Sharing'[a]] /\ Sharing = [a \in Ref |-> Sharing[a]]
    BY SharingIs, SharingWillBe
  <2> QED BY <2>1, <2>2, <2>3
<1>6. Holding'[r] \in Value BY SharingWillBe
<1>7. Holding' = [Holding EXCEPT ![r] = Holding'[r]] BY SharingIs, SharingWillBe
<1>8. Variables!New(Sharing, Holding, Sharing', Holding') BY <1>5, <1>6, <1>7 DEF Variables!New
<1> QED BY <1>8, VariableStep

\* A variable gets a value.
LEMMA AssignStep ==
  ASSUME NEW r \in Ref, InUse(r), Contents(r)' \in Value,
         \A a \in Ref : InUse(a)' <=> InUse(a),
         \A a, b \in Ref : InUse(a) /\ InUse(b) => (Place(a)' = Place(b)' <=> Place(a) = Place(b)),
         \A a \in Ref : InUse(a) => Contents(a)' = IF Place(a) = Place(r) THEN Contents(r)' ELSE Contents(a)
  PROVE  Variables!Next
<1>1. \A a, b \in Ref : Alike(a, b)' <=> Alike(a, b) BY DEF Alike
<1>2. Sharing' = Sharing
  <2>1. \A a \in Ref : {s \in Ref : Alike(a, s)'} = {s \in Ref : Alike(a, s)} BY <1>1
  <2> QED BY <2>1, SharingIs, SharingWillBe
<1>3. \A a \in Ref : a \in Sharing[r] <=> Alike(r, a) BY SharingIs
<1>4. Sharing[r] # {} BY <1>3 DEF Alike
<1>5. Holding'[r] = Contents(r)' BY SharingWillBe
<1>6. \A a \in Ref : (IF InUse(a)' THEN Contents(a)' ELSE Junk)
                     = IF a \in Sharing[r] THEN Holding'[r] ELSE Holding[a]
  BY <1>3, <1>5, SharingIs DEF Alike
<1>7. Holding' = [s \in Ref |-> IF s \in Sharing[r] THEN Holding'[r] ELSE Holding[s]]
  BY <1>6, SharingWillBe
<1>8. Variables!Assign(Sharing, Holding, Sharing', Holding')
  BY <1>2, <1>4, <1>5, <1>7 DEF Variables!Assign
<1> QED BY <1>8, VariableStep

\* A reference takes part in the variable of another one.
LEMMA ShareStep ==
  ASSUME NEW r \in Ref, NEW s \in Ref, InUse(s), s # r, InUse(r)',
         \A a \in Ref : a # r => (InUse(a)' <=> InUse(a)),
         \A a, b \in Ref : a # r /\ b # r /\ InUse(a) /\ InUse(b) =>
                           (Place(a)' = Place(b)' <=> Place(a) = Place(b)),
         Place(r)' = Place(s)',
         \A a \in Ref : a # r /\ InUse(a) => Contents(a)' = Contents(a),
         Contents(r)' = Contents(s)
  PROVE  Variables!Next
<1> DEFINE class == Sharing[s] \cup {r}
<1>1. \A a, b \in Ref : (b \in Sharing[a] <=> Alike(a, b)) /\ (b \in Sharing'[a] <=> Alike(a, b)')
  BY SharingIs, SharingWillBe
<1>2. \A a \in Ref : Sharing[a] \subseteq Ref /\ Sharing'[a] \subseteq Ref
  BY SharingIs, SharingWillBe
<1>3. Sharing[s] # {} /\ class \subseteq Ref
  <2>1. s \in Sharing[s] BY <1>1 DEF Alike
  <2> QED BY <2>1, <1>2
<1>4. ASSUME NEW a \in Ref, NEW b \in Ref
      PROVE  b \in Sharing'[a] <=> b \in IF a \in class THEN class ELSE Sharing[a] \ {r}
  <2>1. a # r /\ b # r => (Alike(a, b)' <=> Alike(a, b)) BY DEF Alike
  <2>2. Alike(r, b)' <=> b \in class BY <1>1 DEF Alike
  <2>3. Alike(a, r)' <=> a \in class BY <1>1 DEF Alike
  <2>4. a \in Sharing[s] => (b \in Sharing[s] <=> Alike(a, b)) BY <1>1 DEF Alike
  <2>5. Alike(a, b) => (a \in Sharing[s] <=> b \in Sharing[s]) BY <1>1 DEF Alike
  <2> QED BY <1>1, <2>1, <2>2, <2>3, <2>4, <2>5
<1>5. ASSUME NEW a \in Ref PROVE Sharing'[a] = IF a \in class THEN class ELSE Sharing[a] \ {r}
  <2> DEFINE new == IF a \in class THEN class ELSE Sharing[a] \ {r}
  <2>1. new \subseteq Ref /\ Sharing'[a] \subseteq Ref BY <1>2, <1>3
  <2>2. \A b \in Ref : b \in Sharing'[a] <=> b \in new BY <1>4
  <2> HIDE DEF new
  <2>3. Sharing'[a] = new BY <2>1, <2>2
  <2> QED BY <2>3 DEF new
<1>6. r \in class OBVIOUS
<1> HIDE DEF class
<1>7. Sharing' = [a \in Ref |-> IF a \in class THEN class ELSE Sharing[a] \ {r}]
  <2>1. Sharing' = [a \in Ref |-> Sharing'[a]] BY SharingWillBe
  <2> QED BY <1>5, <2>1
<1>8. Sharing'[r] = class BY <1>5, <1>6
<1>9. Holding[s] = Contents(s) BY SharingIs
<1>10. Holding' = [Holding EXCEPT ![r] = Holding[s]] BY <1>9, SharingIs, SharingWillBe
<1>11. Variables!Share(Sharing, Holding, Sharing', Holding')
  BY <1>3, <1>7, <1>8, <1>10 DEF Variables!Share, class
<1> QED BY <1>11, VariableStep

\* Some references name nothing any more.
LEMMA ForgetStep ==
  ASSUME \A a \in Ref : InUse(a)' => InUse(a),
         \A a, b \in Ref : InUse(a)' /\ InUse(b)' => (Place(a)' = Place(b)' <=> Place(a) = Place(b)),
         \A a \in Ref : InUse(a)' => Contents(a)' = Contents(a)
  PROVE  Variables!Next
<1> DEFINE gone == {a \in Ref : Sharing[a] # {} /\ Sharing'[a] = {}}
<1>1. \A a, b \in Ref : (b \in Sharing[a] <=> Alike(a, b)) /\ (b \in Sharing'[a] <=> Alike(a, b)')
  BY SharingIs, SharingWillBe
<1>2. \A a \in Ref : Sharing[a] \subseteq Ref /\ Sharing'[a] \subseteq Ref
  BY SharingIs, SharingWillBe
<1>3. \A a \in Ref : (Sharing[a] # {} <=> InUse(a)) /\ (Sharing'[a] # {} <=> InUse(a)')
  <2>1. \A a \in Ref : (InUse(a) => a \in Sharing[a]) /\ (InUse(a)' => a \in Sharing'[a])
    BY <1>1 DEF Alike
  <2>2. ASSUME NEW a \in Ref PROVE (Sharing[a] # {} => InUse(a)) /\ (Sharing'[a] # {} => InUse(a)')
    <3>1. \A b \in Sharing[a] : InUse(a) BY <1>1, <1>2 DEF Alike
    <3>2. \A b \in Sharing'[a] : InUse(a)' BY <1>1, <1>2 DEF Alike
    <3> QED BY <3>1, <3>2
  <2> QED BY <2>1, <2>2
<1>4. \A a \in Ref : a \in gone <=> InUse(a) /\ ~InUse(a)' BY <1>3
<1>5. ASSUME NEW a \in Ref PROVE Sharing'[a] = IF a \in gone THEN {} ELSE Sharing[a] \ gone
  <2> HIDE DEF gone
  <2>1. CASE InUse(a)'
    <3>1. a \notin gone BY <2>1, <1>4
    <3>2. \A b \in Ref : Alike(a, b)' <=> Alike(a, b) /\ b \notin gone BY <2>1, <1>4 DEF Alike
    <3>3. \A b \in Ref : b \in Sharing'[a] <=> b \in Sharing[a] \ gone BY <1>1, <3>2
    <3> QED BY <1>2, <3>1, <3>3
  <2>2. CASE ~InUse(a)'
    <3>1. Sharing'[a] = {} BY <2>2, <1>3
    <3>2. a \notin gone => Sharing[a] = {} BY <2>2, <1>3, <1>4
    <3> QED BY <3>1, <3>2
  <2> QED BY <2>1, <2>2
<1>6. Sharing' = [a \in Ref |-> IF a \in gone THEN {} ELSE Sharing[a] \ gone]
  <2> HIDE DEF gone
  <2>1. Sharing' = [a \in Ref |-> Sharing'[a]] BY SharingWillBe
  <2> QED BY <1>5, <2>1
<1>7. \A a \in Ref : (IF InUse(a)' THEN Contents(a)' ELSE Junk) = IF a \in gone THEN Junk ELSE Holding[a]
  <2> HIDE DEF gone
  <2>1. \A a \in Ref : Holding[a] = IF InUse(a) THEN Contents(a) ELSE Junk BY SharingIs
  <2> QED BY <1>4, <2>1
<1>8. Holding' = [a \in Ref |-> IF a \in gone THEN Junk ELSE Holding[a]]
  <2> HIDE DEF gone
  <2> QED BY <1>7, SharingWillBe
<1>9. Variables!Forget(Sharing, Holding, Sharing', Holding') BY <1>6, <1>8 DEF Variables!Forget
<1> QED BY <1>9, VariableStep

(***************************************************************************)
(* Steps of the program                                                    *)
(***************************************************************************)
\* A step that moves no variable.
LEMMA PlaceKept ==
  ASSUME UpvalAssumption, PlaceAssumption, UInv, NEW r \in Ref, InUse(r), UNCHANGED stack,
         r \in SlotRef => Slot(r)' = Slot(r),
         r \in SlotRef /\ (v'[Slot(r)] \in Address \/ v[Slot(r)] \in Address) => v'[Slot(r)] = v[Slot(r)]
  PROVE  Place(r)' = Place(r)
<1>1. CASE r \in LocalRef
  <2>1. r[1] \in Thread BY <1>1, Refs
  <2> QED BY <2>1 DEF Place, AddressOf
<1>2. CASE r \in SlotRef
  <2>1. r[1] \notin Thread /\ Slot(r) \in UpVal BY <1>2, Refs, PlacesNow DEF Places
  <2>2. Slot(r)' = Slot(r) BY <1>2
  <2> HIDE DEF Slot
  <2>3. Place(r) = IF v[Slot(r)] \in Address THEN v[Slot(r)] ELSE Slot(r)
    BY <2>1 DEF Place, upisopen, Slot
  <2>4. Place(r)' = IF v'[Slot(r)'] \in Address THEN v'[Slot(r)'] ELSE Slot(r)'
    BY <2>1 DEF Place, upisopen, Slot
  <2> QED BY <1>2, <2>1, <2>2, <2>3, <2>4
<1> QED BY <1>1, <1>2, Refs
LEMMA PlacesStay ==
  ASSUME UpvalAssumption, PlaceAssumption, UInv, NEW r \in Ref, InUse(r), UNCHANGED stack,
         r \in SlotRef => Slot(r)' = Slot(r),
         \A u \in UpVal : (v'[u] \in Address \/ v[u] \in Address) => v'[u] = v[u]
  PROVE  Place(r)' = Place(r)
<1>1. r \in SlotRef => Slot(r) \in UpVal BY PlacesNow DEF Places
<1> QED BY <1>1, PlaceKept

\* One that changes no reference either.
LEMMA UnseenStep ==
  ASSUME UpvalAssumption, PlaceAssumption, UInv, UInv',
         UNCHANGED <<mem, stack, value>>,
         \A a \in Ref : InUse(a)' <=> InUse(a),
         \A a \in SlotRef : InUse(a) => Slot(a)' = Slot(a),
         \A u \in UpVal : (v'[u] \in Address \/ v[u] \in Address) => v'[u] = v[u]
  PROVE  UNCHANGED <<Sharing, Holding>>
<1>1. \A a \in Ref : InUse(a) => Place(a)' = Place(a) BY PlacesStay
<1>2. \A a \in Ref : InUse(a) => Contents(a)' = Contents(a)
  <2>1. \A a \in Ref : InUse(a) => Contents(a) = At(Place(a)) /\ Contents(a)' = At(Place(a))'
    BY PlacesNow, PlacesThen DEF Places
  <2>2. \A a \in Ref : InUse(a) => At(Place(a))' = At(Place(a)) BY <1>1 DEF At
  <2> QED BY <2>1, <2>2
<1> QED BY <1>1, <1>2, StutterStep

\* When the references in use are the same.
LEMMA UseStays ==
  ASSUME UpvalAssumption, UNCHANGED top,
         \A o \in Object : Live(o)' <=> Live(o),
         \A c \in Closure, i \in Index : Live(c) => upvals'[c][i] = upvals[c][i]
  PROVE  /\ \A a \in Ref : InUse(a)' <=> InUse(a)
         /\ \A a \in SlotRef : InUse(a) => Slot(a)' = Slot(a)
<1>1. ASSUME NEW a \in LocalRef PROVE InUse(a)' <=> InUse(a)
  <2>1. a[1] \in Thread BY Refs
  <2>2. a[1] \in Object BY <2>1 DEF Object
  <2> QED BY <2>1, <2>2 DEF InUse
<1>2. ASSUME NEW a \in SlotRef PROVE (InUse(a)' <=> InUse(a)) /\ (InUse(a) => Slot(a)' = Slot(a))
  <2>1. a[1] \in Closure /\ a[2] \in Index /\ a[1] \notin Thread BY Refs
  <2>2. a[1] \in Object BY <2>1 DEF Object
  <2> QED BY <2>1, <2>2 DEF InUse, Slot
<1> QED BY <1>1, <1>2, Refs

LEMMA ColoursUnseen ==
  ASSUME UpvalAssumption, PlaceAssumption, UInv, UInv',
         UNCHANGED <<mem, stack, top, v, value, upvals>>,
         \A o \in Object : Live(o)' <=> Live(o)
  PROVE  UNCHANGED <<Sharing, Holding>>
BY UseStays, UnseenStep

\* Steps of pushclosure and of the collector that change no reference.
LEMMA QuietSteps ==
  ASSUME UpvalAssumption, PlaceAssumption, UInv, UInv',
         \/ \E l \in Level : FillNew(l)
         \/ Finish \/ MemoryError \/ TraverseProto \/ SweepProto \/ SweepEnd \/ Emergency
         \/ \E o \in Object : Mark(o) \/ SweepLive(o)
         \/ UNCHANGED vars
  PROVE  UNCHANGED <<Sharing, Holding>>
<1>1. UNCHANGED <<mem, stack, top, v, value, upvals>>
  BY DEF FillNew, Finish, MemoryError, TraverseProto, SweepProto, SweepEnd, Emergency, Mark, SweepLive,
         vars, threads, pools
<1>2. ASSUME NEW o \in Object PROVE Live(o)' <=> Live(o)
  <2>1. marked \in [Object -> {"free", "white", "black", "dead"}] BY DEF UInv, TypeOK
  <2>2. CASE \E p \in Object : Mark(p) \/ SweepLive(p)
    <3>1. PICK p \in Object : Mark(p) \/ SweepLive(p) BY <2>2
    <3>2. Live(p) /\ Live(p)' BY <2>1, <3>1 DEF Mark, SweepLive, Live
    <3>3. o # p => marked'[o] = marked[o] BY <2>1, <3>1 DEF Mark, SweepLive
    <3> QED BY <3>2, <3>3 DEF Live
  <2>3. CASE ~\E p \in Object : Mark(p) \/ SweepLive(p)
    <3>1. UNCHANGED marked
      BY <2>3 DEF FillNew, Finish, MemoryError, TraverseProto, SweepProto, SweepEnd, Emergency,
                  vars, collector
    <3> QED BY <3>1 DEF Live
  <2> QED BY <2>2, <2>3
<1> QED BY <1>1, <1>2, ColoursUnseen

LEMMA FreeLClosureUnseen ==
  ASSUME UpvalAssumption, PlaceAssumption, UInv, UInv', NEW c \in Closure, FreeLClosure(c)
  PROVE  UNCHANGED <<Sharing, Holding>>
<1>1. /\ UNCHANGED <<mem, stack, top, value>> /\ marked[c] = "dead"
      /\ marked' = [marked EXCEPT ![c] = "free"]
      /\ upvals' = [upvals EXCEPT ![c] = [i \in Index |-> NULL]]
      /\ \A u \in UpVal : (v'[u] = Free /\ v[u] \notin Address) \/ v'[u] = v[u]
  BY DEF FreeLClosure, Deccount, upisopen, threads
<1>2. /\ marked \in [Object -> {"free", "white", "black", "dead"}] /\ c \in Object
      /\ upvals \in [Closure -> [Index -> UpVal \cup {NULL}]]
  BY DEF UInv, TypeOK, Object
<1>3. \A o \in Object : Live(o)' <=> Live(o) BY <1>1, <1>2 DEF Live
<1>4. \A d \in Closure, i \in Index : Live(d) => upvals'[d][i] = upvals[d][i] BY <1>1, <1>2 DEF Live
<1>5. \A u \in UpVal : (v'[u] \in Address \/ v[u] \in Address) => v'[u] = v[u]
  BY <1>1 DEF UpvalAssumption
<1> QED BY <1>1, <1>3, <1>4, <1>5, UseStays, UnseenStep

LEMMA NewLClosureUnseen ==
  ASSUME UpvalAssumption, PlaceAssumption, UInv, UInv', Blank, NEW t \in Thread, NEW c \in Closure,
         NEW e \in Closure \cup {NULL}, NewLClosure(t, c, e)
  PROVE  UNCHANGED <<Sharing, Holding>>
<1>1. /\ UNCHANGED <<mem, stack, top, v, value, upvals>> /\ marked[c] = "free"
      /\ marked' = [marked EXCEPT ![c] = "white"]
  BY DEF NewLClosure, threads, pools
<1>2. marked \in [Object -> {"free", "white", "black", "dead"}] /\ c \in Object /\ c \notin Thread
  BY DEF UInv, TypeOK, Object, UpvalAssumption
<1>3. \A o \in Object : o # c => (Live(o)' <=> Live(o)) BY <1>1, <1>2 DEF Live
<1>4. ASSUME NEW a \in LocalRef PROVE InUse(a)' <=> InUse(a)
  <2>1. a[1] \in Thread BY Refs
  <2>2. a[1] \in Object /\ a[1] # c BY <2>1, <1>2 DEF Object
  <2> QED BY <2>1, <2>2, <1>1, <1>3 DEF InUse
<1>5. ASSUME NEW a \in SlotRef PROVE InUse(a)' <=> InUse(a)
  <2>1. a[1] \in Closure /\ a[2] \in Index /\ a[1] \notin Thread BY Refs
  <2>2. a[1] \in Object BY <2>1 DEF Object
  <2>3. CASE a[1] # c BY <2>1, <2>2, <2>3, <1>1, <1>3 DEF InUse
  <2>4. CASE a[1] = c
    <3>1. upvals[a[1]][a[2]] = NULL BY <2>1, <2>4, <1>1 DEF Blank
    <3> QED BY <2>1, <3>1, <1>1 DEF InUse
  <2> QED BY <2>3, <2>4
<1>6. \A a \in Ref : InUse(a)' <=> InUse(a) BY <1>4, <1>5, Refs
<1>7. \A a \in SlotRef : Slot(a)' = Slot(a) BY <1>1 DEF Slot
<1> QED BY <1>1, <1>6, <1>7, UnseenStep

\* A value is written through a reference.
LEMMA WriteStep ==
  ASSUME UpvalAssumption, PlaceAssumption, UInv, UInv', UNCHANGED <<stack, top, v, upvals, marked>>,
         NEW r \in Ref, InUse(r), NEW x \in Value,
         \A p \in Address \cup UpVal : At(p)' = IF p = Place(r) THEN x ELSE At(p)
  PROVE  Variables!Next
<1>1. \A o \in Object : Live(o)' <=> Live(o) BY DEF Live
<1>2. \A a \in Ref : InUse(a)' <=> InUse(a) BY <1>1, UseStays
<1>3. \A a \in SlotRef : Slot(a)' = Slot(a) BY DEF Slot
<1>4. \A a \in Ref : InUse(a) => Place(a)' = Place(a) BY <1>3, PlacesStay
<1>5. \A a \in Ref : InUse(a) => Place(a) \in Address \cup UpVal BY PlacesNow, Refs DEF Places
<1>6. \A a \in Ref : InUse(a) => Contents(a) = At(Place(a)) /\ Contents(a)' = At(Place(a))'
  BY <1>2, PlacesNow, PlacesThen DEF Places
<1>7. ASSUME NEW a \in Ref, InUse(a) PROVE Contents(a)' = IF Place(a) = Place(r) THEN x ELSE Contents(a)

  <2>2. PICK p \in Address \cup UpVal : p = Place(a) BY <1>5, <1>7
  <2>3. At(Place(a))' = At(p)' BY <2>2, <1>4, <1>7 DEF At
  <2> QED BY <2>2, <2>3, <1>6, <1>7
<1>8. Contents(r)' = x BY <1>7
<1> QED BY <1>2, <1>4, <1>7, <1>8, AssignStep

LEMMA SetLocalWrites ==
  ASSUME UpvalAssumption, PlaceAssumption, UInv, UInv', NEW t \in Thread, NEW l \in Level,
         NEW x \in Value, SetLocal(t, l, x)
  PROVE  Variables!Next
<1>1. /\ Live(t) /\ l < top[t] /\ mem' = [mem EXCEPT ![stack[t]][l] = x]
      /\ UNCHANGED <<stack, top, v, value, upvals, marked>>
  BY DEF SetLocal, Running, pools, collector
<1>2. PICK r : r = <<t, l>> OBVIOUS
<1>3. r \in LocalRef /\ r[1] = t /\ r[2] = l BY <1>2 DEF LocalRef
<1>4. InUse(r) BY <1>1, <1>3 DEF InUse
<1>5. stack[t] \in Block /\ Place(r) = AddressOf(t, l) /\ Place(r) \in Address
  BY <1>3, <1>4, PlacesNow DEF Places
<1>6. mem \in [Block -> [Level -> Value \cup {Junk}]] BY DEF UInv, TypeOK
<1>7. ASSUME NEW p \in Address PROVE At(p)' = IF p = Place(r) THEN x ELSE At(p)
  <2>1. p = Place(r) <=> p.block = stack[t] /\ p.level = l BY <1>5 DEF AddressOf, Address
  <2>2. p.block \in Block /\ p.level \in Level BY DEF Address
  <2> QED BY <1>1, <1>5, <1>6, <2>1, <2>2 DEF At
<1>8. ASSUME NEW p \in UpVal PROVE At(p)' = IF p = Place(r) THEN x ELSE At(p)
  <2>1. p \notin Address BY DEF PlaceAssumption
  <2> QED BY <1>1, <1>5, <2>1 DEF At
<1>9. r \in Ref BY <1>3, Refs
<1> QED BY <1>1, <1>4, <1>7, <1>8, <1>9, WriteStep

LEMMA SetUpvalWrites ==
  ASSUME UpvalAssumption, PlaceAssumption, UInv, UInv', NEW c \in Closure, NEW i \in Index,
         NEW x \in Value, SetUpval(c, i, x)
  PROVE  Variables!Next
<1>1. PICK u : u = upvals[c][i] OBVIOUS
<1>2. /\ Live(c) /\ u # NULL /\ UNCHANGED <<stack, top, v, upvals, marked>>
      /\ v[u] \in Address => mem' = [mem EXCEPT ![v[u].block][v[u].level] = x] /\ UNCHANGED value
      /\ v[u] \notin Address => value' = [value EXCEPT ![u] = x] /\ UNCHANGED mem
  BY <1>1 DEF SetUpval, Callable, Complete, upisopen, collector
<1>3. PICK r : r = <<c, i>> OBVIOUS
<1>4. r \in SlotRef /\ r[1] = c /\ r[2] = i /\ Slot(r) = u BY <1>1, <1>3 DEF SlotRef, Slot
<1>5. InUse(r)
  <2>1. c \notin Thread BY DEF UpvalAssumption
  <2> QED BY <1>1, <1>2, <1>4, <2>1 DEF InUse
<1>6. u \in UpVal /\ Place(r) = IF v[u] \in Address THEN v[u] ELSE u
  BY <1>4, <1>5, PlacesNow DEF Places
<1>7. u \notin Address BY <1>6 DEF PlaceAssumption
<1>8. mem \in [Block -> [Level -> Value \cup {Junk}]] /\ value \in [UpVal -> Value] BY DEF UInv, TypeOK
<1>9. ASSUME NEW p \in Address PROVE At(p)' = IF p = Place(r) THEN x ELSE At(p)
  <2>1. p.block \in Block /\ p.level \in Level BY DEF Address
  <2>2. CASE v[u] \in Address
    <3>1. p = Place(r) <=> p.block = v[u].block /\ p.level = v[u].level BY <1>6, <2>2 DEF Address
    <3>2. v[u].block \in Block /\ v[u].level \in Level BY <2>2 DEF Address
    <3> QED BY <1>2, <1>8, <2>1, <2>2, <3>1, <3>2 DEF At
  <2>3. CASE v[u] \notin Address BY <1>2, <1>6, <1>7, <2>3 DEF At
  <2> QED BY <2>2, <2>3
<1>10. ASSUME NEW p \in UpVal PROVE At(p)' = IF p = Place(r) THEN x ELSE At(p)
  <2>1. p \notin Address BY DEF PlaceAssumption
  <2> QED BY <1>2, <1>6, <1>8, <2>1 DEF At
<1>11. r \in Ref BY <1>4, Refs
<1> QED BY <1>2, <1>5, <1>9, <1>10, <1>11, WriteStep

LEMMA NewLocalNew ==
  ASSUME UpvalAssumption, PlaceAssumption, UInv, UInv', NEW t \in Thread, NEW x \in Value,
         NewLocal(t, x)
  PROVE  Variables!Next
<1>1. /\ Live(t) /\ top[t] < MaxLevel /\ mem' = [mem EXCEPT ![stack[t]][top[t]] = x]
      /\ top' = [top EXCEPT ![t] = @ + 1]
      /\ UNCHANGED <<stack, v, value, upvals, marked, openupval>>
  BY DEF NewLocal, Running, pools, collector
<1>2. PICK l : l = top[t] OBVIOUS
<1>3. /\ l \in Level /\ l \in Nat /\ top \in [Thread -> 0..MaxLevel]
      /\ mem \in [Block -> [Level -> Value \cup {Junk}]]
  BY <1>1, <1>2 DEF UInv, TypeOK, Level, UpvalAssumption
<1>4. stack[t] \in Block BY <1>1, HasStack
<1>5. PICK r : r = <<t, l>> OBVIOUS
<1>6. r \in LocalRef /\ r \in Ref /\ r[1] = t /\ r[2] = l BY <1>3, <1>5, Refs DEF LocalRef
<1>7. ~InUse(r) /\ InUse(r)' BY <1>1, <1>2, <1>3, <1>6 DEF InUse, Live
<1>8. \A a \in Ref : a # r => (InUse(a)' <=> InUse(a))
  <2>1. ASSUME NEW a \in LocalRef, a # r PROVE InUse(a)' <=> InUse(a)
    <3>1. a[1] \in Thread /\ a[2] \in Nat /\ (a[1] # t \/ a[2] # l) BY <2>1, <1>5, Refs
    <3>2. top'[a[1]] = IF a[1] = t THEN l + 1 ELSE top[a[1]] BY <3>1, <1>1, <1>2, <1>3
    <3>3. a[2] < top'[a[1]] <=> a[2] < top[a[1]] BY <3>1, <3>2, <1>2, <1>3
    <3> QED BY <3>1, <3>3, <1>1 DEF InUse, Live
  <2>2. ASSUME NEW a \in SlotRef PROVE InUse(a)' <=> InUse(a)
    <3>1. a[1] \notin Thread BY Refs
    <3> QED BY <3>1, <1>1 DEF InUse, Live
  <2> QED BY <2>1, <2>2, Refs
<1>9. \A a \in Ref : InUse(a) => Place(a)' = Place(a)
  <2>1. \A a \in SlotRef : Slot(a)' = Slot(a) BY <1>1 DEF Slot
  <2> QED BY <2>1, <1>1, PlacesStay
<1>10. Place(r)' = AddressOf(t, l) /\ Place(r)' \in Address
  BY <1>1, <1>3, <1>4, <1>6 DEF Place, AddressOf, Address
<1>11. ASSUME NEW a \in Ref, InUse(a)
       PROVE  Place(a) \in Address /\ Place(a).block = stack[t] => Place(a).level # l
  <2>1. CASE a \in LocalRef
    <3>1. a[1] \in Thread /\ a[2] < top[a[1]] BY <2>1, <1>11, Refs DEF InUse
    <3>2. Place(a) = AddressOf(a[1], a[2]) /\ stack[a[1]] \in Block BY <2>1, <1>11, PlacesNow DEF Places
    <3>3. Place(a).block = stack[t] => a[1] = t
      BY <3>1, <3>2, <1>4 DEF AddressOf, UInv, Stacks, UpvalAssumption
    <3> QED BY <3>1, <3>2, <3>3, <1>2, <1>3 DEF AddressOf
  <2>2. CASE a \in SlotRef
    <3>1. Slot(a) \in UpVal /\ Place(a) = IF v[Slot(a)] \in Address THEN v[Slot(a)] ELSE Slot(a)
      BY <2>2, <1>11, PlacesNow DEF Places
    <3>2. Slot(a) \notin Address BY <3>1 DEF PlaceAssumption
    <3>3. CASE v[Slot(a)] \in Address
      <4>1. PICK s \in Thread : /\ stack[s] \in Block /\ v[Slot(a)].block = stack[s]
                                /\ v[Slot(a)].level \in 0..(top[s] - 1)
        BY <3>1, <3>3, OpenPlace
      <4>2. stack[s] = stack[t] => s = t BY <4>1, <1>4 DEF UInv, Stacks, UpvalAssumption
      <4> QED BY <3>1, <3>3, <4>1, <4>2, <1>2, <1>3
    <3> QED BY <3>1, <3>2, <3>3
  <2> QED BY <2>1, <2>2, Refs
<1>12. ASSUME NEW a \in Ref, InUse(a) PROVE Place(a)' # Place(r)'
  <2>1. AddressOf(t, l).block = stack[t] /\ AddressOf(t, l).level = l BY DEF AddressOf
  <2> QED BY <2>1, <1>9, <1>10, <1>11, <1>12
<1>13. ASSUME NEW a \in Ref, InUse(a) PROVE Contents(a)' = Contents(a)
  <2>1. Contents(a) = At(Place(a)) BY <1>13, PlacesNow DEF Places
  <2>2. InUse(a)' BY <1>7, <1>8, <1>13
  <2>3. Contents(a)' = At(Place(a))' BY <2>2, PlacesThen DEF Places
  <2>4. At(Place(a))' = IF Place(a) \in Address THEN mem'[Place(a).block][Place(a).level] ELSE value[Place(a)]
    BY <1>1, <1>9, <1>13 DEF At
  <2>5. CASE Place(a) \in Address
    <3>1. Place(a).block \in Block /\ Place(a).level \in Level BY <2>5 DEF Address
    <3>2. mem'[Place(a).block][Place(a).level] = mem[Place(a).block][Place(a).level]
      BY <3>1, <2>5, <1>1, <1>2, <1>3, <1>11, <1>13
    <3> QED BY <2>1, <2>3, <2>4, <2>5, <3>2 DEF At
  <2>6. CASE Place(a) \notin Address BY <2>1, <2>3, <2>4, <2>6 DEF At
  <2> QED BY <2>5, <2>6
<1>14. Contents(r)' \in Value
  <2>1. Contents(r)' = mem'[stack[t]][l] BY <1>1, <1>6 DEF Contents
  <2> QED BY <2>1, <1>1, <1>2, <1>3, <1>4
<1> QED BY <1>6, <1>7, <1>8, <1>9, <1>12, <1>13, <1>14, NewStep

\* What the slots other than r hold stays where it is.
OthersStay(r) ==
  \A u \in UpVal : \A q \in Users(u) :
    q # r /\ (v'[u] \in Address \/ v[u] \in Address) => v'[u] = v[u]
\* The slot r of the live closure c gets the upvalue w.
Takes(c, i, w, r) ==
  /\ c \in Closure /\ i \in Index /\ w \in UpVal /\ r = <<c, i>> /\ Live(c)
  /\ UNCHANGED <<stack, top, marked>> /\ upvals' = [upvals EXCEPT ![c][i] = w]
  /\ OthersStay(r)
Taken(r, w) ==
  /\ r \in SlotRef /\ r \in Ref /\ InUse(r)' /\ Slot(r)' = w
  /\ Place(r)' = IF v'[w] \in Address THEN v'[w] ELSE w
  /\ \A a \in Ref : a # r => (InUse(a)' <=> InUse(a))
  /\ \A a \in Ref : a # r /\ InUse(a) => Place(a)' = Place(a)
LEMMA SlotUse ==
  ASSUME UpvalAssumption, PlaceAssumption, UInv, NEW c, NEW i, NEW w, NEW r, Takes(c, i, w, r)
  PROVE  Taken(r, w)
<1>0. /\ c \in Closure /\ i \in Index /\ w \in UpVal /\ r = <<c, i>> /\ Live(c) /\ OthersStay(r)
      /\ UNCHANGED <<stack, top, marked>> /\ upvals' = [upvals EXCEPT ![c][i] = w]
  BY DEF Takes
<1>1. upvals \in [Closure -> [Index -> UpVal \cup {NULL}]] BY DEF UInv, TypeOK
<1>2. r \in SlotRef /\ r[1] = c /\ r[2] = i BY <1>0 DEF SlotRef
<1>3. upvals'[c][i] = w /\ Slot(r)' = w BY <1>0, <1>1, <1>2 DEF Slot
<1>4. InUse(r)'
  <2>1. c \notin Thread /\ w # NULL BY <1>0 DEF UpvalAssumption
  <2> QED BY <1>0, <2>1, <1>2, <1>3 DEF InUse, Live
<1>5. ASSUME NEW a \in SlotRef, a # r PROVE Slot(a)' = Slot(a) /\ (InUse(a)' <=> InUse(a))
  <2>1. a[1] \in Closure /\ a[2] \in Index /\ a[1] \notin Thread /\ ~(a[1] = c /\ a[2] = i)
    BY <1>0, <1>5, Refs
  <2>2. upvals'[a[1]][a[2]] = upvals[a[1]][a[2]] BY <1>0, <2>1, <1>1
  <2> QED BY <1>0, <2>1, <2>2 DEF Slot, InUse, Live
<1>6. ASSUME NEW a \in LocalRef PROVE InUse(a)' <=> InUse(a)
  <2>1. a[1] \in Thread BY Refs
  <2> QED BY <1>0, <2>1 DEF InUse, Live
<1>7. ASSUME NEW a \in Ref, a # r, InUse(a) PROVE Place(a)' = Place(a)
  <2>1. a \in SlotRef => Slot(a)' = Slot(a) BY <1>5, <1>7
  <2>2. a \in SlotRef /\ (v'[Slot(a)] \in Address \/ v[Slot(a)] \in Address) => v'[Slot(a)] = v[Slot(a)]
    BY <1>0, <1>7, PlacesNow DEF Places, OthersStay
  <2> QED BY <1>0, <2>1, <2>2, <1>7, PlaceKept
<1>8. Place(r)' = IF v'[w] \in Address THEN v'[w] ELSE w
  <2>1. r[1] \notin Thread BY <1>2, Refs
  <2> QED BY <2>1, <1>3 DEF Place, Slot, upisopen
<1> QED BY <1>2, <1>3, <1>4, <1>5, <1>6, <1>7, <1>8, Refs DEF Taken
LEMMA SlotShares ==
  ASSUME UpvalAssumption, PlaceAssumption, UInv, UInv', NEW c, NEW i, NEW w, NEW r, Takes(c, i, w, r),
         UNCHANGED <<mem, value>>, NEW s \in Ref, InUse(s), s # r,
         Place(s) = IF v'[w] \in Address THEN v'[w] ELSE w
  PROVE  Variables!Next
<1>0. Taken(r, w) BY SlotUse
<1>1. /\ r \in SlotRef /\ r \in Ref /\ InUse(r)' /\ Place(r)' = Place(s)
      /\ \A a \in Ref : a # r => (InUse(a)' <=> InUse(a))
      /\ \A a \in Ref : a # r /\ InUse(a) => Place(a)' = Place(a)
  BY <1>0 DEF Taken
<1>2. /\ \A a \in Ref : InUse(a) => Contents(a) = At(Place(a))
      /\ \A a \in Ref : InUse(a)' => Contents(a)' = At(Place(a))'
  BY PlacesNow, PlacesThen DEF Places
<1>3. \A a \in Ref : a # r /\ InUse(a) => Contents(a)' = Contents(a)
  <2>1. \A a \in Ref : a # r /\ InUse(a) => At(Place(a))' = At(Place(a)) BY <1>1 DEF At
  <2> QED BY <1>1, <1>2, <2>1
<1>4. Contents(r)' = Contents(s)
  <2>1. At(Place(r))' = At(Place(s)) BY <1>1 DEF At
  <2> QED BY <1>1, <1>2, <2>1
<1> QED BY <1>1, <1>3, <1>4, ShareStep

LEMMA FillEnclosingShares ==
  ASSUME UpvalAssumption, PlaceAssumption, UInv, UInv', NEW j \in Index, FillEnclosing(j)
  PROVE  Variables!Next
<1>1. PICK i, w : i = Next_i /\ w = upvals[encup][j] OBVIOUS
<1>2. /\ pc = "fill" /\ ~Complete(ncl) /\ encup # NULL /\ upvals' = [upvals EXCEPT ![ncl][i] = w]
      /\ UNCHANGED <<mem, stack, top, value, v, marked>>
  BY <1>1 DEF FillEnclosing, SetUp, threads, collector
<1>3. ncl \in Closure /\ Live(ncl) /\ encup \in Closure /\ Callable(encup)
  BY <1>2 DEF UInv, Busy, TypeOK
<1>4. i \in Index /\ upvals[ncl][i] = NULL BY <1>1, <1>2, <1>3, NextSlot
<1>5. PICK s : s = <<encup, j>> OBVIOUS
<1>6. s \in SlotRef /\ s[1] = encup /\ s[2] = j /\ Slot(s) = w BY <1>1, <1>3, <1>5 DEF SlotRef, Slot
<1>7. s \in Ref /\ w # NULL /\ InUse(s)
  <2>1. w # NULL /\ Live(encup) BY <1>1, <1>3 DEF Callable, Complete
  <2>2. encup \notin Thread BY <1>3 DEF UpvalAssumption
  <2> QED BY <1>1, <1>6, <2>1, <2>2, Refs DEF InUse
<1>8. w \in UpVal /\ Place(s) = IF v[w] \in Address THEN v[w] ELSE w
  BY <1>6, <1>7, PlacesNow DEF Places
<1>9. PICK r : r = <<ncl, i>> OBVIOUS
<1>10. s # r BY <1>1, <1>4, <1>5, <1>7, <1>9
<1>11. OthersStay(r) BY <1>2 DEF OthersStay
<1>12. Takes(ncl, i, w, r) BY <1>2, <1>3, <1>4, <1>8, <1>9, <1>11 DEF Takes
<1>13. Place(s) = IF v'[w] \in Address THEN v'[w] ELSE w BY <1>2, <1>8
<1> QED BY <1>2, <1>7, <1>10, <1>12, <1>13, SlotShares

LEMMA FillFoundShares ==
  ASSUME UpvalAssumption, PlaceAssumption, UInv, UInv', NEW l \in Level, FillFound(l)
  PROVE  Variables!Next
<1>1. PICK w \in Above(th, l) : /\ v[w] = AddressOf(th, l) /\ SetUp(w)
  BY DEF FillFound
<1>2. PICK i : i = Next_i OBVIOUS
<1>3. /\ pc = "fill" /\ ~Complete(ncl) /\ l < top[th] /\ upvals' = [upvals EXCEPT ![ncl][i] = w]
      /\ UNCHANGED <<mem, stack, top, value, v, marked>>
  BY <1>1, <1>2 DEF FillFound, SetUp, threads, collector
<1>4. ncl \in Closure /\ Live(ncl) /\ th \in Thread /\ Live(th)
  BY <1>3 DEF UInv, Busy, TypeOK
<1>5. i \in Index /\ upvals[ncl][i] = NULL BY <1>2, <1>3, <1>4, NextSlot
<1>6. w \in UpVal
  <2>1. openupval[th] \in Seq(UpVal) BY <1>4 DEF UInv, TypeOK
  <2>2. Position(th, l) \in 1..(Len(openupval[th]) + 1) BY <1>4, Walk DEF UInv
  <2> QED BY <2>1, <2>2 DEF Above
<1>7. PICK s : s = <<th, l>> OBVIOUS
<1>8. s \in LocalRef /\ s \in Ref /\ InUse(s) BY <1>3, <1>4, <1>7, Refs DEF LocalRef, InUse
<1>9. Place(s) = AddressOf(th, l) /\ Place(s) \in Address BY <1>7, <1>8, PlacesNow DEF Places
<1>10. PICK r : r = <<ncl, i>> OBVIOUS
<1>11. s # r BY <1>4, <1>7, <1>10 DEF UpvalAssumption
<1>12. OthersStay(r) BY <1>3 DEF OthersStay
<1>13. Place(s) = IF v'[w] \in Address THEN v'[w] ELSE w BY <1>1, <1>3, <1>9
<1>14. Takes(ncl, i, w, r) BY <1>3, <1>4, <1>5, <1>6, <1>10, <1>12 DEF Takes
<1> QED BY <1>3, <1>8, <1>11, <1>13, <1>14, SlotShares

LEMMA LinkShares ==
  ASSUME UpvalAssumption, PlaceAssumption, UInv, UInv', NEW u \in UpVal, Link(u)
  PROVE  Variables!Next
<1>1. PICK i : i = Next_i OBVIOUS
<1>2. /\ pc = "link" /\ v[u] = Free /\ upvals' = [upvals EXCEPT ![ncl][i] = u]
      /\ v' = [v EXCEPT ![u] = AddressOf(th, level)]
      /\ UNCHANGED <<mem, stack, top, value, marked>>
  BY <1>1 DEF Link, SetUp, threads, collector
<1>3. /\ ncl \in Closure /\ Live(ncl) /\ th \in Thread /\ Live(th) /\ ~Complete(ncl)
      /\ level < top[th] /\ level \in Level /\ v \in [UpVal -> Address \cup {Own, Free}]
  BY <1>2 DEF UInv, Busy, TypeOK
<1>4. i \in Index BY <1>1, <1>3, NextSlot
<1>5. PICK s : s = <<th, level>> OBVIOUS
<1>6. s \in LocalRef /\ s \in Ref /\ InUse(s) BY <1>3, <1>5, Refs DEF LocalRef, InUse
<1>7. Place(s) = AddressOf(th, level) /\ Place(s) \in Address BY <1>5, <1>6, PlacesNow DEF Places
<1>8. PICK r : r = <<ncl, i>> OBVIOUS
<1>9. s # r BY <1>3, <1>5, <1>8 DEF UpvalAssumption
<1>10. v'[u] = Place(s) BY <1>2, <1>3, <1>7
<1>11. \A w \in UpVal : \A q \in Users(w) : v'[w] = v[w]
  <2>1. Users(u) = {} BY <1>2 DEF UInv, RefCounted
  <2> QED BY <2>1, <1>2, <1>3
<1>12. OthersStay(r) BY <1>11 DEF OthersStay
<1>13. Place(s) = IF v'[u] \in Address THEN v'[u] ELSE u BY <1>7, <1>10
<1>14. Takes(ncl, i, u, r) BY <1>2, <1>3, <1>4, <1>8, <1>12 DEF Takes
<1> QED BY <1>2, <1>6, <1>9, <1>13, <1>14, SlotShares

LEMMA UpvalueJoinShares ==
  ASSUME UpvalAssumption, PlaceAssumption, ~SelfJoin, UInv, UInv', NEW c1 \in Closure,
         NEW i1 \in Index, NEW c2 \in Closure, NEW i2 \in Index, UpvalueJoin(c1, i1, c2, i2)
  PROVE  Variables!Next
<1>1. PICK old, w : old = upvals[c1][i1] /\ w = upvals[c2][i2] OBVIOUS
<1>2. /\ Live(c1) /\ Callable(c2) /\ <<c1, i1>> # <<c2, i2>>
      /\ v' = [v EXCEPT ![old] = Deccount(old, 1)] /\ upvals' = [upvals EXCEPT ![c1][i1] = w]
      /\ UNCHANGED <<mem, stack, top, value, marked>>
  BY <1>1 DEF UpvalueJoin, Callable, threads, collector
<1>3. PICK s : s = <<c2, i2>> OBVIOUS
<1>4. s \in SlotRef /\ s[1] = c2 /\ s[2] = i2 /\ Slot(s) = w BY <1>1, <1>3 DEF SlotRef, Slot
<1>5. s \in Ref /\ w # NULL /\ InUse(s)
  <2>1. w # NULL /\ Live(c2) BY <1>1, <1>2 DEF Callable, Complete
  <2>2. c2 \notin Thread BY DEF UpvalAssumption
  <2> QED BY <1>1, <1>4, <2>1, <2>2, Refs DEF InUse
<1>6. w \in UpVal /\ Place(s) = IF v[w] \in Address THEN v[w] ELSE w
  BY <1>4, <1>5, PlacesNow DEF Places
<1>7. \A u \in UpVal : (v'[u] \in Address \/ v[u] \in Address) => v'[u] = v[u]
  <2>1. v \in [UpVal -> Address \cup {Own, Free}] BY DEF UInv, TypeOK
  <2>2. \A u \in UpVal : v'[u] = v[u] \/ (v'[u] = Free /\ v[u] \notin Address)
    BY <1>2, <2>1 DEF Deccount, upisopen
  <2> QED BY <2>2 DEF UpvalAssumption
<1>8. (v'[w] \in Address <=> v[w] \in Address) /\ (v[w] \in Address => v'[w] = v[w]) BY <1>6, <1>7
<1>9. PICK r : r = <<c1, i1>> OBVIOUS
<1>10. s # r BY <1>2, <1>3, <1>9
<1>11. OthersStay(r) BY <1>7 DEF OthersStay
<1>12. Place(s) = IF v'[w] \in Address THEN v'[w] ELSE w BY <1>6, <1>8
<1>13. Takes(c1, i1, w, r) BY <1>2, <1>6, <1>9, <1>11 DEF Takes
<1> QED BY <1>2, <1>5, <1>10, <1>12, <1>13, SlotShares

LEMMA InitUpvalNew ==
  ASSUME UpvalAssumption, PlaceAssumption, UInv, UInv', NEW u \in UpVal, InitUpval(u)
  PROVE  Variables!Next
<1>1. PICK i : i = Next_i OBVIOUS
<1>2. /\ pc = "init" /\ ~Complete(ncl) /\ v[u] = Free /\ upvals' = [upvals EXCEPT ![ncl][i] = u]
      /\ v' = [v EXCEPT ![u] = Own] /\ value' = [value EXCEPT ![u] = Nil]
      /\ UNCHANGED <<mem, stack, top, marked>>
  BY <1>1 DEF InitUpval, SetUp, threads, collector
<1>3. /\ ncl \in Closure /\ Live(ncl) /\ v \in [UpVal -> Address \cup {Own, Free}]
      /\ value \in [UpVal -> Value] /\ Nil \in Value
  BY <1>2 DEF UInv, Busy, TypeOK, UpvalAssumption
<1>4. i \in Index /\ upvals[ncl][i] = NULL BY <1>1, <1>2, <1>3, NextSlot
<1>5. PICK r : r = <<ncl, i>> OBVIOUS
<1>6. Users(u) = {} BY <1>2 DEF UInv, RefCounted
<1>7. \A w \in UpVal : \A q \in Users(w) : v'[w] = v[w] /\ w # u BY <1>2, <1>3, <1>6
<1>8. /\ r \in SlotRef /\ r \in Ref /\ InUse(r)' /\ Slot(r)' = u
      /\ Place(r)' = IF v'[u] \in Address THEN v'[u] ELSE u
      /\ \A a \in Ref : a # r => (InUse(a)' <=> InUse(a))
      /\ \A a \in Ref : a # r /\ InUse(a) => Place(a)' = Place(a)
  <2>1. OthersStay(r) BY <1>7 DEF OthersStay
  <2>2. Takes(ncl, i, u, r) BY <2>1, <1>2, <1>3, <1>4, <1>5 DEF Takes
  <2>3. Taken(r, u) BY <2>2, SlotUse
  <2> QED BY <2>3 DEF Taken
<1>9. v'[u] = Own /\ Own \notin Address /\ u \notin Address
  BY <1>2, <1>3 DEF UpvalAssumption, PlaceAssumption
<1>10. Place(r)' = u BY <1>8, <1>9
<1>11. ~InUse(r)
  <2>1. r[1] = ncl /\ r[2] = i /\ ncl \notin Thread BY <1>3, <1>5 DEF UpvalAssumption
  <2> QED BY <2>1, <1>4 DEF InUse
<1>12. \A a \in Ref : InUse(a) => Place(a) # u
  <2>1. ASSUME NEW a \in LocalRef, InUse(a) PROVE Place(a) # u BY <2>1, <1>9, PlacesNow DEF Places
  <2>2. ASSUME NEW a \in SlotRef, InUse(a) PROVE Place(a) # u
    <3>1. /\ Slot(a) \in UpVal /\ a \in Users(Slot(a))
          /\ Place(a) = IF v[Slot(a)] \in Address THEN v[Slot(a)] ELSE Slot(a)
      BY <2>2, PlacesNow DEF Places
    <3> QED BY <3>1, <1>6, <1>9
  <2> QED BY <2>1, <2>2, Refs
<1>13. /\ \A a \in Ref : InUse(a) => Contents(a) = At(Place(a))
       /\ \A a \in Ref : InUse(a)' => Contents(a)' = At(Place(a))'
  BY PlacesNow, PlacesThen DEF Places
<1>14. ASSUME NEW p \in Address \cup UpVal, p # u PROVE At(p)' = At(p) BY <1>14, <1>2, <1>3 DEF At
<1>15. \A a \in Ref : InUse(a) => Contents(a)' = Contents(a)
  <2>1. ASSUME NEW a \in Ref, InUse(a) PROVE At(Place(a))' = At(Place(a))
    <3>1. PICK p \in Address \cup UpVal : p = Place(a) BY <2>1, PlacesNow, Refs DEF Places
    <3>2. Place(a)' = p /\ p # u BY <2>1, <3>1, <1>8, <1>11, <1>12
    <3>3. At(Place(a))' = At(p)' BY <3>2 DEF At
    <3> QED BY <3>1, <3>2, <3>3, <1>14
  <2> QED BY <2>1, <1>8, <1>11, <1>13
<1>16. Contents(r)' \in Value
  <2>1. At(Place(r))' = value'[u] BY <1>9, <1>10 DEF At
  <2> QED BY <2>1, <1>2, <1>3, <1>8, <1>13
<1> QED BY <1>8, <1>10, <1>11, <1>12, <1>15, <1>16, NewStep

\* What the atomic phase finds unreachable is forgotten.
LEMMA AtomicForgets ==
  ASSUME UpvalAssumption, UInv, NEW S \in SUBSET Object, Atomic(S)
  PROVE  Variables!Next
<1>1. /\ UNCHANGED <<mem, stack, top, v, value, upvals>>
      /\ marked' = [o \in Object |-> IF o \in S THEN "dead"
                                     ELSE IF marked[o] = "white" THEN "black" ELSE marked[o]]
  BY DEF Atomic, threads, pools
<1>2. \A o \in Object : Live(o)' => Live(o) BY <1>1 DEF Live
<1>3. ASSUME NEW a \in Ref, InUse(a)' PROVE InUse(a)
  <2>1. a[1] \in Object BY Refs DEF Object
  <2> QED BY <2>1, <1>1, <1>2, <1>3 DEF InUse
<1>4. \A a \in Ref : Place(a)' = Place(a) BY <1>1 DEF Place, AddressOf, upisopen
<1>5. \A a \in Ref : Contents(a)' = Contents(a) BY <1>1 DEF Contents, Deref, upisopen
<1> QED BY <1>3, <1>4, <1>5, ForgetStep

LEMMA NewThreadUnseen ==
  ASSUME UpvalAssumption, PlaceAssumption, UInv, UInv', NEW t \in Thread, NEW b \in Block, NewThread(t, b)
  PROVE  UNCHANGED <<Sharing, Holding>>
<1>1. /\ marked[t] = "free" /\ b \notin {stack[s] : s \in Thread} /\ stack' = [stack EXCEPT ![t] = b]
      /\ top' = [top EXCEPT ![t] = 0] /\ mem' = [mem EXCEPT ![b] = [l \in Level |-> Nil]]
      /\ marked' = [marked EXCEPT ![t] = "white"] /\ UNCHANGED <<v, value, upvals>>
  BY DEF NewThread, pools
<1>2. /\ top[t] = 0 /\ top \in [Thread -> 0..MaxLevel] /\ stack \in [Thread -> Block \cup {NULL}]
      /\ mem \in [Block -> [Level -> Value \cup {Junk}]] /\ t \notin Closure
      /\ marked \in [Object -> {"free", "white", "black", "dead"}]
  BY <1>1 DEF UInv, TypeOK, Stacks, UpvalAssumption
<1>3. ASSUME NEW a \in LocalRef PROVE (InUse(a)' <=> InUse(a)) /\ (InUse(a) => a[1] # t)
  <2>1. a[1] \in Thread /\ a[2] \in Nat BY Refs
  <2>2. CASE a[1] = t
    <3>1. top'[a[1]] = 0 /\ top[a[1]] = 0 BY <1>1, <1>2, <2>2
    <3> QED BY <2>1, <3>1 DEF InUse
  <2>3. CASE a[1] # t
    <3>1. top'[a[1]] = top[a[1]] /\ marked'[a[1]] = marked[a[1]] BY <2>1, <2>3, <1>1, <1>2
    <3> QED BY <2>1, <2>3, <3>1 DEF InUse, Live
  <2> QED BY <2>2, <2>3
<1>4. ASSUME NEW a \in SlotRef PROVE InUse(a)' <=> InUse(a)
  <2>1. a[1] \in Closure /\ a[1] \notin Thread BY Refs
  <2>2. marked'[a[1]] = marked[a[1]] BY <2>1, <1>1, <1>2
  <2> QED BY <2>1, <2>2, <1>1 DEF InUse, Live
<1>5. ASSUME NEW a \in Ref, InUse(a)
      PROVE  /\ Place(a)' = Place(a)
             /\ Place(a) \in Address => Place(a).block # b
  <2>1. CASE a \in LocalRef
    <3>1. a[1] \in Thread /\ a[1] # t BY <2>1, <1>3, <1>5, Refs
    <3>2. stack'[a[1]] = stack[a[1]] BY <3>1, <1>1, <1>2
    <3>3. Place(a)' = Place(a) /\ Place(a).block = stack[a[1]] BY <3>1, <3>2 DEF Place, AddressOf
    <3> QED BY <3>1, <3>3, <1>1
  <2>2. CASE a \in SlotRef
    <3>1. /\ Slot(a) \in UpVal /\ a[1] \notin Thread
          /\ Place(a) = IF v[Slot(a)] \in Address THEN v[Slot(a)] ELSE Slot(a)
      BY <2>2, <1>5, PlacesNow, Refs DEF Places
    <3>2. Place(a)' = Place(a) BY <3>1, <1>1 DEF Place, upisopen
    <3>3. Slot(a) \notin Address BY <3>1 DEF PlaceAssumption
    <3>4. v[Slot(a)] \in Address => v[Slot(a)].block # b
      <4>1. v[Slot(a)] \in Address => \E s \in Thread : v[Slot(a)].block = stack[s] BY <3>1, OpenPlace
      <4> QED BY <4>1, <1>1
    <3> QED BY <3>1, <3>2, <3>3, <3>4
  <2> QED BY <2>1, <2>2, Refs
<1>6. \A a \in Ref : InUse(a)' <=> InUse(a) BY <1>3, <1>4, Refs
<1>7. ASSUME NEW a \in Ref, InUse(a) PROVE Contents(a)' = Contents(a)
  <2>1. Contents(a) = At(Place(a)) /\ Contents(a)' = At(Place(a))'
    BY <1>6, <1>7, PlacesNow, PlacesThen DEF Places
  <2>2. At(Place(a))' = IF Place(a) \in Address THEN mem'[Place(a).block][Place(a).level] ELSE value[Place(a)]
    BY <1>1, <1>5, <1>7 DEF At
  <2>3. Place(a) \in Address => mem'[Place(a).block] = mem[Place(a).block]
    BY <1>1, <1>2, <1>5, <1>7 DEF Address
  <2> QED BY <2>1, <2>2, <2>3 DEF At
<1> QED BY <1>5, <1>6, <1>7, StutterStep

\* Where an upvalue in use is after luaF_close.
LEMMA CloseUsed ==
  ASSUME UpvalAssumption, UInv, NEW t \in Thread, NEW l \in Level, stack[t] \in Block, luaF_close(t, l),
         NEW u \in UpVal, NEW q \in Users(u)
  PROVE  \/ /\ v'[u] = v[u] /\ value'[u] = value[u]
            /\ v[u] \in Address => v[u].block # stack[t] \/ v[u].level < l
         \/ /\ v[u] \in Address /\ v[u].block = stack[t] /\ v[u].level >= l
            /\ v'[u] = Own /\ value'[u] = mem[v[u].block][v[u].level]
<1> USE DEF UInv
<1>1. refcount[u] # 0
  <2>1. v[u] # Free /\ refcount[u] = Cardinality(Users(u)) BY DEF RefCounted
  <2>2. IsFiniteSet(Users(u)) BY UsersFinite DEF Users
  <2>3. Cardinality(Users(u)) = 0 <=> Users(u) = {} BY <2>2, FS_EmptySet
  <2> QED BY <2>1, <2>3
<1>2. /\ Position(t, l) \in 1..(Len(openupval[t]) + 1)
      /\ \A i \in 1..Len(openupval[t]) : i < Position(t, l) <=> v[openupval[t][i]].level >= l
  BY Walk
<1>3. openupval[t] \in Seq(UpVal) /\ Len(openupval[t]) \in Nat BY DEF TypeOK
<1>4. CASE u \in Above(t, l)
  <2>1. PICK i \in 1..(Position(t, l) - 1) : u = openupval[t][i] BY <1>4 DEF Above
  <2>2. i \in 1..Len(openupval[t]) /\ i < Position(t, l) BY <1>2, <1>3
  <2>3. v[u].level >= l BY <2>1, <2>2, <1>2
  <2>4. v[u] \in Address /\ v[u].block = stack[t] BY <2>1, <2>2, Listed
  <2>5. v'[u] = Own /\ value'[u] = Deref(u) BY <1>1, <1>4 DEF luaF_close
  <2> QED BY <2>3, <2>4, <2>5 DEF Deref, upisopen
<1>5. CASE u \notin Above(t, l)
  <2>1. v'[u] = v[u] /\ value'[u] = value[u] BY <1>5 DEF luaF_close
  <2>2. ASSUME v[u] \in Address, v[u].block = stack[t] PROVE v[u].level < l
    <3>1. PICK s \in Thread : \E i \in 1..Len(openupval[s]) :
            /\ openupval[s][i] = u /\ stack[s] \in Block
            /\ v[u].level \in 0..(top[s] - 1) /\ v[u].block = stack[s]
      BY <2>2, OpenPlace
    <3>2. s = t BY <3>1, <2>2 DEF Stacks, UpvalAssumption
    <3>3. PICK i \in 1..Len(openupval[t]) : openupval[t][i] = u BY <3>1, <3>2
    <3>4. ~(i < Position(t, l))
      <4> SUFFICES ASSUME i < Position(t, l) PROVE FALSE OBVIOUS
      <4>1. i \in 1..(Position(t, l) - 1) BY <1>2, <1>3
      <4> QED BY <4>1, <3>3, <1>5 DEF Above
    <3>5. ~(v[u].level >= l) BY <3>3, <3>4, <1>2
    <3>6. top[s] \in 0..MaxLevel /\ MaxLevel \in Nat /\ l \in Nat BY DEF TypeOK, UpvalAssumption, Level
    <3> QED BY <3>1, <3>5, <3>6
  <2> QED BY <2>1, <2>2
<1> QED BY <1>4, <1>5

\* Closing changes no variable that is still in use.
LEMMA CloseKeeps ==
  ASSUME UpvalAssumption, PlaceAssumption, UInv, UInv', NEW t \in Thread, NEW l \in Level,
         stack[t] \in Block, luaF_close(t, l), UNCHANGED upvals,
         \A a \in Ref : InUse(a)' => InUse(a),
         \A a \in LocalRef : InUse(a)' => (a[1] # t \/ a[2] < l) /\ stack'[a[1]] = stack[a[1]],
         \A p \in Address : p.block # stack[t] \/ p.level < l =>
                            mem'[p.block][p.level] = mem[p.block][p.level]
  PROVE  /\ \A a, b \in Ref : InUse(a)' /\ InUse(b)' => (Place(a)' = Place(b)' <=> Place(a) = Place(b))
         /\ \A a \in Ref : InUse(a)' => Contents(a)' = Contents(a)
<1>1. ASSUME NEW a \in LocalRef, InUse(a)'
      PROVE  /\ Place(a)' = Place(a) /\ Place(a) = AddressOf(a[1], a[2]) /\ Place(a) \in Address
             /\ AddressOf(a[1], a[2])' = AddressOf(a[1], a[2])
             /\ Place(a).block # stack[t] \/ Place(a).level < l
  <2>1. /\ a \in Ref /\ a[1] \in Thread /\ stack'[a[1]] = stack[a[1]] /\ (a[1] # t \/ a[2] < l)
    BY <1>1, Refs
  <2>2. InUse(a) BY <1>1, <2>1
  <2>3. stack[a[1]] \in Block /\ Place(a) = AddressOf(a[1], a[2]) /\ Place(a) \in Address
    BY <2>2, PlacesNow DEF Places
  <2>4. AddressOf(a[1], a[2])' = AddressOf(a[1], a[2]) BY <2>1 DEF AddressOf
  <2>5. Place(a)' = AddressOf(a[1], a[2])' BY <2>1 DEF Place
  <2>6. Place(a).block = stack[a[1]] /\ Place(a).level = a[2] BY <2>3 DEF AddressOf
  <2>7. a[1] # t => stack[a[1]] # stack[t] BY <2>1, <2>3 DEF UInv, Stacks, UpvalAssumption
  <2> QED BY <2>1, <2>3, <2>4, <2>5, <2>6, <2>7
<1>2. ASSUME NEW a \in SlotRef, InUse(a)'
      PROVE  /\ InUse(a) /\ Slot(a)' = Slot(a) /\ Slot(a) \in UpVal /\ Slot(a) \notin Address
             /\ \/ /\ v'[Slot(a)] = v[Slot(a)] /\ value'[Slot(a)] = value[Slot(a)]
                   /\ v[Slot(a)] \in Address => v[Slot(a)].block # stack[t] \/ v[Slot(a)].level < l
                \/ /\ v[Slot(a)] \in Address /\ v[Slot(a)].block = stack[t] /\ v[Slot(a)].level >= l
                   /\ v'[Slot(a)] = Own /\ value'[Slot(a)] = mem[v[Slot(a)].block][v[Slot(a)].level]
  <2>1. a \in Ref BY Refs
  <2>2. InUse(a) BY <1>2, <2>1
  <2>3. Slot(a) \in UpVal /\ a \in Users(Slot(a)) BY <2>2, PlacesNow DEF Places
  <2>4. Slot(a) \notin Address BY <2>3 DEF PlaceAssumption
  <2>5. Slot(a)' = Slot(a) BY DEF Slot
  <2> QED BY <2>2, <2>3, <2>4, <2>5, CloseUsed
<1>3. ASSUME NEW a \in LocalRef, NEW b \in LocalRef, InUse(a)', InUse(b)'
      PROVE  Place(a)' = Place(b)' <=> Place(a) = Place(b)
  BY <1>1, <1>3
<1>4. ASSUME NEW a \in SlotRef, NEW b \in SlotRef, InUse(a)', InUse(b)'
      PROVE  Place(a)' = Place(b)' <=> Place(a) = Place(b)
  <2>1. Place(a) = Place(b) <=> Slot(a) = Slot(b) BY <1>2, <1>4, PlacesNow DEF Places
  <2>2. Place(a)' = Place(b)' <=> Slot(a)' = Slot(b)' BY <1>4, PlacesThen DEF Places
  <2> QED BY <2>1, <2>2, <1>2, <1>4
<1>5. ASSUME NEW a \in SlotRef, NEW b \in LocalRef, InUse(a)', InUse(b)'
      PROVE  Place(a)' = Place(b)' <=> Place(a) = Place(b)
  <2>1. InUse(a) /\ InUse(b) BY <1>2, <1>5, Refs
  <2>2. Place(a) = Place(b) <=> v[Slot(a)] = AddressOf(b[1], b[2]) BY <2>1, PlacesNow DEF Places
  <2>3. Place(a)' = Place(b)' <=> v'[Slot(a)'] = AddressOf(b[1], b[2])' BY <1>5, PlacesThen DEF Places
  <2>4. v'[Slot(a)] = Place(b) <=> v[Slot(a)] = Place(b)
    <3>1. /\ Place(b) \in Address /\ Place(b).level \in Nat
          /\ Place(b).block # stack[t] \/ Place(b).level < l
      BY <1>1, <1>5 DEF Address, Level
    <3>2. l \in Nat /\ Own \notin Address BY DEF Level, UpvalAssumption
    <3>3. \/ v'[Slot(a)] = v[Slot(a)]
          \/ v[Slot(a)].block = stack[t] /\ v[Slot(a)].level >= l /\ v'[Slot(a)] = Own
      BY <1>2, <1>5
    <3> QED BY <3>1, <3>2, <3>3
  <2> QED BY <2>2, <2>3, <2>4, <1>1, <1>2, <1>5
<1>6. ASSUME NEW a \in Ref, NEW b \in Ref, InUse(a)', InUse(b)'
      PROVE  Place(a)' = Place(b)' <=> Place(a) = Place(b)
  <2>1. CASE a \in SlotRef /\ b \in SlotRef BY <2>1, <1>4, <1>6
  <2>2. CASE a \in SlotRef /\ b \in LocalRef BY <2>2, <1>5, <1>6
  <2>3. CASE a \in LocalRef /\ b \in LocalRef BY <2>3, <1>3, <1>6
  <2>4. CASE a \in LocalRef /\ b \in SlotRef
    <3>1. Place(b)' = Place(a)' <=> Place(b) = Place(a) BY <2>4, <1>5, <1>6
    <3> QED BY <3>1
  <2> QED BY <2>1, <2>2, <2>3, <2>4, Refs
<1>7. ASSUME NEW a \in Ref, InUse(a)' PROVE Contents(a)' = Contents(a)
  <2>0. InUse(a) BY <1>7
  <2>1. Contents(a) = At(Place(a)) BY <2>0, PlacesNow DEF Places
  <2>2. Contents(a)' = At(Place(a))' BY <1>7, PlacesThen DEF Places
  <2>3. CASE a \in LocalRef
    <3>1. Place(a)' = Place(a) /\ Place(a) \in Address /\ (Place(a).block # stack[t] \/ Place(a).level < l)
      BY <2>3, <1>1, <1>7
    <3>2. mem'[Place(a).block][Place(a).level] = mem[Place(a).block][Place(a).level] BY <3>1
    <3>3. At(Place(a))' = mem'[Place(a).block][Place(a).level] BY <3>1 DEF At
    <3> QED BY <2>1, <2>2, <3>1, <3>2, <3>3 DEF At
  <2>4. CASE a \in SlotRef
    <3>1. PICK u : u = Slot(a) OBVIOUS
    <3>2. Place(a) = IF v[u] \in Address THEN v[u] ELSE u BY <3>1, <2>0, <2>4, PlacesNow DEF Places
    <3>3. Place(a)' = IF v'[u] \in Address THEN v'[u] ELSE u
      <4>1. Place(a)' = IF v'[Slot(a)'] \in Address THEN v'[Slot(a)'] ELSE Slot(a)'
        BY <2>4, <1>7, PlacesThen DEF Places
      <4> QED BY <4>1, <3>1, <2>4, <1>2, <1>7
    <3>4. /\ u \notin Address /\ Own \notin Address
          /\ \/ /\ v'[u] = v[u] /\ value'[u] = value[u]
                /\ v[u] \in Address => v[u].block # stack[t] \/ v[u].level < l
             \/ /\ v[u] \in Address
                /\ v'[u] = Own /\ value'[u] = mem[v[u].block][v[u].level]
      BY <3>1, <2>4, <1>2, <1>7 DEF UpvalAssumption
    <3>5. At(Place(a)) = IF v[u] \in Address THEN mem[v[u].block][v[u].level] ELSE value[u]
      BY <3>2, <3>4 DEF At
    <3>6. At(Place(a))' = IF v'[u] \in Address THEN mem'[v'[u].block][v'[u].level] ELSE value'[u]
      BY <3>3, <3>4 DEF At
    <3> QED BY <2>1, <2>2, <3>4, <3>5, <3>6
  <2> QED BY <2>3, <2>4, Refs
<1> QED BY <1>6, <1>7

LEMMA LeaveForgets ==
  ASSUME UpvalAssumption, PlaceAssumption, UInv, UInv', NEW t \in Thread, NEW l \in Level, Leave(t, l)
  PROVE  Variables!Next
<1>1. /\ Live(t) /\ l < top[t] /\ luaF_close(t, l) /\ top' = [top EXCEPT ![t] = l]
      /\ UNCHANGED <<mem, stack, upvals, marked>>
  BY DEF Leave, Running, collector
<1>2. stack[t] \in Block BY <1>1, HasStack
<1>3. top \in [Thread -> 0..MaxLevel] /\ l \in Nat /\ MaxLevel \in Nat
  BY DEF UInv, TypeOK, Level, UpvalAssumption
<1>4. ASSUME NEW a \in LocalRef, InUse(a)'
      PROVE  InUse(a) /\ (a[1] # t \/ a[2] < l) /\ stack'[a[1]] = stack[a[1]]
  <2>1. a[1] \in Thread /\ a[2] \in Nat BY Refs
  <2>2. a[2] < top'[a[1]] /\ Live(a[1]) BY <2>1, <1>1, <1>4 DEF InUse, Live
  <2>3. a[1] # t => top'[a[1]] = top[a[1]] BY <2>1, <1>1, <1>3
  <2>4. a[1] = t => top'[a[1]] = l BY <2>1, <1>1, <1>3
  <2>5. a[2] < top[a[1]] BY <2>1, <2>2, <2>3, <2>4, <1>1, <1>3
  <2> QED BY <2>1, <2>2, <2>4, <2>5, <1>1 DEF InUse
<1>5. ASSUME NEW a \in SlotRef PROVE InUse(a)' <=> InUse(a)
  <2>1. a[1] \notin Thread BY Refs
  <2> QED BY <2>1, <1>1 DEF InUse, Live
<1>6. \A a \in Ref : InUse(a)' => InUse(a) BY <1>4, <1>5, Refs
<1>7. /\ \A a, b \in Ref : InUse(a)' /\ InUse(b)' => (Place(a)' = Place(b)' <=> Place(a) = Place(b))
      /\ \A a \in Ref : InUse(a)' => Contents(a)' = Contents(a)
  BY <1>1, <1>2, <1>4, <1>6, CloseKeeps
<1> QED BY <1>6, <1>7, ForgetStep

LEMMA FreeThreadUnseen ==
  ASSUME UpvalAssumption, PlaceAssumption, UInv, UInv', NEW t \in Thread, FreeThread(t)
  PROVE  UNCHANGED <<Sharing, Holding>>
<1>1. /\ marked[t] = "dead" /\ luaF_close(t, 0) /\ stack' = [stack EXCEPT ![t] = NULL]
      /\ top' = [top EXCEPT ![t] = 0] /\ mem' = [mem EXCEPT ![stack[t]] = [l \in Level |-> Junk]]
      /\ marked' = [marked EXCEPT ![t] = "free"] /\ UNCHANGED upvals
  BY DEF FreeThread
<1>2. /\ top \in [Thread -> 0..MaxLevel] /\ stack \in [Thread -> Block \cup {NULL}]
      /\ mem \in [Block -> [Level -> Value \cup {Junk}]] /\ 0 \in Level /\ t \notin Closure
      /\ marked \in [Object -> {"free", "white", "black", "dead"}] /\ t \in Object
  <2>1. 0 \in Level /\ t \notin Closure BY DEF Level, UpvalAssumption
  <2>2. t \in Object BY DEF Object
  <2> QED BY <2>1, <2>2 DEF UInv, TypeOK
<1>3. stack[t] \in Block
  <2>1. stack[t] # NULL BY <1>1 DEF UInv, Stacks
  <2> QED BY <2>1, <1>2
<1>4. ASSUME NEW a \in LocalRef
      PROVE  (InUse(a)' <=> InUse(a)) /\ (InUse(a)' => a[1] # t /\ stack'[a[1]] = stack[a[1]])
  <2>1. a[1] \in Thread /\ a[1] \in Object BY Refs DEF Object
  <2>2. CASE a[1] = t
    <3>1. ~Live(a[1]) /\ ~Live(a[1])' BY <2>2, <1>1, <1>2 DEF Live
    <3> QED BY <3>1 DEF InUse
  <2>3. CASE a[1] # t
    <3>1. top'[a[1]] = top[a[1]] /\ marked'[a[1]] = marked[a[1]] /\ stack'[a[1]] = stack[a[1]]
      BY <2>1, <2>3, <1>1, <1>2
    <3> QED BY <2>1, <2>3, <3>1 DEF InUse, Live
  <2> QED BY <2>2, <2>3
<1>5. ASSUME NEW a \in SlotRef PROVE InUse(a)' <=> InUse(a)
  <2>1. a[1] \in Closure /\ a[1] \notin Thread /\ a[1] \in Object BY Refs DEF Object
  <2>2. marked'[a[1]] = marked[a[1]] BY <2>1, <1>1, <1>2
  <2> QED BY <2>1, <2>2, <1>1 DEF InUse, Live
<1>6. \A a \in Ref : InUse(a)' <=> InUse(a) BY <1>4, <1>5, Refs
<1>7. ASSUME NEW p \in Address, p.block # stack[t] \/ p.level < 0
      PROVE  mem'[p.block][p.level] = mem[p.block][p.level]
  <2>1. p.block \in Block /\ ~(p.level < 0) BY DEF Address, Level
  <2> QED BY <2>1, <1>1, <1>2, <1>7
<1>8. /\ \A a, b \in Ref : InUse(a)' /\ InUse(b)' => (Place(a)' = Place(b)' <=> Place(a) = Place(b))
      /\ \A a \in Ref : InUse(a)' => Contents(a)' = Contents(a)
  BY <1>1, <1>2, <1>3, <1>4, <1>6, <1>7, CloseKeeps
<1> QED BY <1>6, <1>8, StutterStep

LEMMA InList ==
  ASSUME UInv, NEW t \in Thread
  PROVE  \A u : u \in ToSet(openupval[t]) <=> \E i \in 1..Len(openupval[t]) : openupval[t][i] = u
<1>1. openupval[t] \in Seq(UpVal) BY DEF UInv, TypeOK
<1>2. DOMAIN openupval[t] = 1..Len(openupval[t]) BY <1>1
<1> QED BY <1>2 DEF ToSet
\* The stack moves, and the open upvalues with it.
LEMMA ReallocateUnseen ==
  ASSUME UpvalAssumption, PlaceAssumption, UInv, UInv', NEW t \in Thread, NEW b \in Block, Reallocate(t, b)
  PROVE  UNCHANGED <<Sharing, Holding>>
<1>1. /\ Live(t) /\ b \notin {stack[s] : s \in Thread \ {t}} /\ stack' = [stack EXCEPT ![t] = b]
      /\ mem' = [mem EXCEPT ![stack[t]] = [l \in Level |-> Junk], ![b] = mem[stack[t]]]
      /\ v' = [u \in UpVal |-> IF u \in ToSet(openupval[t]) THEN [v[u] EXCEPT !.block = b] ELSE v[u]]
      /\ UNCHANGED <<top, openupval, value, upvals, marked>>
  BY DEF Reallocate, Running, collector
<1>2. /\ stack \in [Thread -> Block \cup {NULL}] /\ mem \in [Block -> [Level -> Value \cup {Junk}]]
      /\ openupval \in [Thread -> Seq(UpVal)] /\ stack[t] \in Block
      /\ v \in [UpVal -> Address \cup {Own, Free}]
  BY <1>1, HasStack DEF UInv, TypeOK
<1>3. ASSUME NEW s \in Thread, stack[s] \in Block
      PROVE  stack'[s] \in Block /\ mem'[stack'[s]] = mem[stack[s]]
  <2>1. CASE s = t BY <2>1, <1>1, <1>2
  <2>2. CASE s # t
    <3>1. stack'[s] = stack[s] /\ stack[s] # b BY <2>2, <1>1, <1>2
    <3>2. stack[s] # stack[t] BY <2>2, <1>2, <1>3 DEF UInv, Stacks, UpvalAssumption
    <3> QED BY <3>1, <3>2, <1>1, <1>2, <1>3
  <2> QED BY <2>1, <2>2
<1>4. ASSUME NEW u \in UpVal, v[u] \in Address
      PROVE  \E s \in Thread, k \in Level :
               /\ stack[s] \in Block /\ v[u] = AddressOf(s, k) /\ v'[u] = AddressOf(s, k)'
  <2>1. PICK s \in Thread : \E i \in 1..Len(openupval[s]) :
          openupval[s][i] = u /\ stack[s] \in Block /\ v[u] = AddressOf(s, v[u].level)
    BY <1>4, OpenPlace
  <2>2. PICK i \in 1..Len(openupval[s]) : openupval[s][i] = u BY <2>1
  <2>3. PICK k \in Level : k = v[u].level BY <1>4 DEF Address
  <2>4. CASE s = t
    <3>1. u \in ToSet(openupval[t]) BY <2>2, <2>4, InList
    <3>2. v'[u] = [v[u] EXCEPT !.block = b] BY <3>1, <1>1
    <3>3. v'[u] = [block |-> b, level |-> k] BY <3>2, <1>4, <2>3 DEF Address
    <3>4. stack'[s] = b BY <2>4, <1>1, <1>2
    <3>5. v'[u] = AddressOf(s, k)' BY <3>3, <3>4 DEF AddressOf
    <3> QED BY <3>5, <2>1, <2>3
  <2>5. CASE s # t
    <3>1. u \notin ToSet(openupval[t])
      <4> SUFFICES ASSUME u \in ToSet(openupval[t]) PROVE FALSE OBVIOUS
      <4>1. PICK j \in 1..Len(openupval[t]) : openupval[t][j] = u BY InList
      <4> QED BY <4>1, <2>2, <2>5, OneList DEF UInv
    <3>2. v'[u] = v[u] BY <3>1, <1>1
    <3>3. stack'[s] = stack[s] BY <2>5, <1>1, <1>2
    <3> QED BY <3>2, <3>3, <2>1, <2>3 DEF AddressOf
  <2> QED BY <2>4, <2>5
<1>5. ASSUME NEW a \in Ref PROVE InUse(a)' <=> InUse(a) BY <1>1 DEF InUse, Live
<1>6. ASSUME NEW a \in SlotRef, NEW c \in LocalRef, InUse(a), InUse(c)
      PROVE  Place(a)' = Place(c)' <=> Place(a) = Place(c)
  <2>1. InUse(a)' /\ InUse(c)' BY <1>5, <1>6, Refs
  <2>2. PICK u \in UpVal : u = Slot(a) BY <1>6, PlacesNow DEF Places
  <2>3. Place(a) = Place(c) <=> v[u] = AddressOf(c[1], c[2]) BY <1>6, <2>2, PlacesNow DEF Places
  <2>4. Place(a)' = Place(c)' <=> v'[u] = AddressOf(c[1], c[2])'
    <3>1. Place(a)' = Place(c)' <=> v'[Slot(a)'] = AddressOf(c[1], c[2])'
      BY <1>6, <2>1, PlacesThen DEF Places
    <3>2. Slot(a)' = u BY <2>2, <1>1 DEF Slot
    <3> QED BY <3>1, <3>2
  <2>5. /\ c[1] \in Thread /\ stack[c[1]] \in Block /\ AddressOf(c[1], c[2]) \in Address
        /\ stack'[c[1]] \in Block /\ AddressOf(c[1], c[2])' \in Address
    <3>1. c[1] \in Thread /\ stack[c[1]] \in Block /\ c[2] \in Level BY <1>6, PlacesNow, Refs DEF Places
    <3> QED BY <3>1, <1>3 DEF AddressOf, Address
  <2>6. CASE v[u] \in Address
    <3>1. PICK s \in Thread, k \in Level :
            stack[s] \in Block /\ v[u] = AddressOf(s, k) /\ v'[u] = AddressOf(s, k)'
      BY <2>6, <1>4
    <3>2. stack[s] = stack[c[1]] <=> s = c[1] BY <3>1, <2>5 DEF UInv, Stacks, UpvalAssumption
    <3>3. stack'[s] = stack'[c[1]] <=> s = c[1]
      <4>1. stack'[s] # NULL BY <3>1, <1>3 DEF UpvalAssumption
      <4>2. \A x, y \in Thread : x # y /\ stack'[x] # NULL => stack'[x] # stack'[y] BY DEF UInv, Stacks
      <4> QED BY <4>1, <4>2, <2>5
    <3> QED BY <2>3, <2>4, <3>1, <3>2, <3>3 DEF AddressOf
  <2>7. CASE v[u] \notin Address
    <3>1. u \notin ToSet(openupval[t])
      <4> SUFFICES ASSUME u \in ToSet(openupval[t]) PROVE FALSE OBVIOUS
      <4>1. PICK j \in 1..Len(openupval[t]) : openupval[t][j] = u BY InList
      <4> QED BY <4>1, <2>7, Listed DEF UInv
    <3>2. v'[u] = v[u] BY <3>1, <1>1
    <3> QED BY <2>3, <2>4, <2>5, <2>7, <3>2
  <2> QED BY <2>6, <2>7
<1>7. ASSUME NEW a \in SlotRef, NEW c \in SlotRef, InUse(a), InUse(c)
      PROVE  Place(a)' = Place(c)' <=> Place(a) = Place(c)
  <2>1. InUse(a)' /\ InUse(c)' BY <1>5, <1>7, Refs
  <2>2. Place(a) = Place(c) <=> Slot(a) = Slot(c) BY <1>7, PlacesNow DEF Places
  <2>3. Place(a)' = Place(c)' <=> Slot(a)' = Slot(c)' BY <2>1, PlacesThen DEF Places
  <2> QED BY <2>2, <2>3, <1>1 DEF Slot
<1>8. ASSUME NEW a \in LocalRef, NEW c \in LocalRef, InUse(a), InUse(c)
      PROVE  Place(a)' = Place(c)' <=> Place(a) = Place(c)
  <2>1. InUse(a)' /\ InUse(c)' BY <1>5, <1>8, Refs
  <2>2. Place(a) = Place(c) <=> a = c BY <1>8, PlacesNow DEF Places
  <2>3. Place(a)' = Place(c)' <=> a = c BY <2>1, PlacesThen DEF Places
  <2> QED BY <2>2, <2>3
<1>9. ASSUME NEW a \in Ref, NEW c \in Ref, InUse(a), InUse(c)
      PROVE  Place(a)' = Place(c)' <=> Place(a) = Place(c)
  <2>1. CASE a \in SlotRef /\ c \in SlotRef BY <2>1, <1>7, <1>9
  <2>2. CASE a \in SlotRef /\ c \in LocalRef BY <2>2, <1>6, <1>9
  <2>3. CASE a \in LocalRef /\ c \in LocalRef BY <2>3, <1>8, <1>9
  <2>4. CASE a \in LocalRef /\ c \in SlotRef
    <3>1. Place(c)' = Place(a)' <=> Place(c) = Place(a) BY <2>4, <1>6, <1>9
    <3> QED BY <3>1
  <2> QED BY <2>1, <2>2, <2>3, <2>4, Refs
<1>10. ASSUME NEW a \in Ref, InUse(a) PROVE Contents(a)' = Contents(a)
  <2>1. CASE a \in LocalRef
    <3>1. a[1] \in Thread /\ stack[a[1]] \in Block BY <2>1, <1>10, PlacesNow, Refs DEF Places
    <3>2. Contents(a) = mem[stack[a[1]]][a[2]] /\ Contents(a)' = mem'[stack'[a[1]]][a[2]]
      BY <3>1 DEF Contents
    <3> QED BY <3>1, <3>2, <1>3
  <2>2. CASE a \in SlotRef
    <3>1. a[1] \notin Thread BY <2>2, Refs
    <3>2. PICK u \in UpVal : u = Slot(a) BY <2>2, <1>10, PlacesNow DEF Places
    <3>3. Contents(a) = IF v[u] \in Address THEN mem[v[u].block][v[u].level] ELSE value[u]
      BY <3>1, <3>2 DEF Contents, Deref, upisopen, Slot
    <3>4. Contents(a)' = IF v'[u] \in Address THEN mem'[v'[u].block][v'[u].level] ELSE value[u]
      BY <3>1, <3>2, <1>1 DEF Contents, Deref, upisopen, Slot
    <3>5. CASE v[u] \in Address
      <4>1. PICK s \in Thread, k \in Level :
              stack[s] \in Block /\ v[u] = AddressOf(s, k) /\ v'[u] = AddressOf(s, k)'
        BY <3>5, <1>4
      <4>2. stack'[s] \in Block /\ mem'[stack'[s]] = mem[stack[s]] BY <4>1, <1>3
      <4>3. v'[u] \in Address /\ v'[u].block = stack'[s] /\ v'[u].level = k
        BY <4>1, <4>2 DEF AddressOf, Address
      <4>4. v[u].block = stack[s] /\ v[u].level = k BY <4>1 DEF AddressOf
      <4> QED BY <3>3, <3>4, <3>5, <4>2, <4>3, <4>4
    <3>6. CASE v[u] \notin Address
      <4>1. u \notin ToSet(openupval[t])
        <5> SUFFICES ASSUME u \in ToSet(openupval[t]) PROVE FALSE OBVIOUS
        <5>1. PICK j \in 1..Len(openupval[t]) : openupval[t][j] = u BY InList
        <5> QED BY <5>1, <3>6, Listed DEF UInv
      <4>2. v'[u] = v[u] BY <4>1, <1>1
      <4> QED BY <3>3, <3>4, <3>6, <4>2
    <3> QED BY <3>5, <3>6
  <2> QED BY <2>1, <2>2, Refs
<1> QED BY <1>5, <1>9, <1>10, StutterStep

(***************************************************************************)
(* The refinement                                                          *)
(***************************************************************************)
LEMMA BlankStays == ASSUME UpvalAssumption, UInv, Blank, [Next]_vars PROVE Blank'
<1> USE DEF Blank
<1>1. /\ marked \in [Object -> {"free", "white", "black", "dead"}]
      /\ upvals \in [Closure -> [Index -> UpVal \cup {NULL}]] /\ Closure \subseteq Object
      /\ Closure \cap Thread = {}
  BY DEF UInv, TypeOK, Object, UpvalAssumption
<1>2. ASSUME UNCHANGED upvals, \A c \in Closure : marked'[c] = "free" => marked[c] = "free" PROVE Blank'
  BY <1>2
<1>3. ASSUME NEW c \in Closure, Live(c), NEW i, NEW u, upvals' = [upvals EXCEPT ![c][i] = u], UNCHANGED marked
      PROVE  Blank'
  <2>1. \A d \in Closure : d # c => upvals'[d] = upvals[d] BY <1>1, <1>3
  <2>2. marked[c] # "free" BY <1>3 DEF Live
  <2> QED BY <1>3, <2>1, <2>2
<1>4. CASE \/ \E t \in Thread, x \in Value : NewLocal(t, x) \/ (\E l \in Level : SetLocal(t, l, x))
           \/ \E t \in Thread, l \in Level : Leave(t, l)
           \/ \E t \in Thread, b \in Block : Reallocate(t, b)
           \/ \E c \in Closure, i \in Index, x \in Value : SetUpval(c, i, x)
           \/ \E l \in Level : FillNew(l)
           \/ Finish \/ MemoryError \/ TraverseProto \/ SweepProto \/ SweepEnd \/ Emergency
           \/ UNCHANGED vars
  <2>1. UNCHANGED <<upvals, marked>>
    BY <1>4 DEF NewLocal, SetLocal, Leave, Reallocate, SetUpval, FillNew, Finish, MemoryError, TraverseProto,
                SweepProto, SweepEnd, Emergency, vars, collector, pools
  <2> QED BY <2>1, <1>2
<1>5. CASE \E o \in Object : Mark(o) \/ SweepLive(o)
  <2>1. PICK o \in Object : Mark(o) \/ SweepLive(o) BY <1>5
  <2>2. UNCHANGED upvals /\ \A c \in Closure : marked'[c] = "free" => marked[c] = "free"
    BY <2>1, <1>1 DEF Mark, SweepLive
  <2> QED BY <2>2, <1>2
<1>6. CASE \E S \in SUBSET Object : Atomic(S)
  <2>1. UNCHANGED upvals /\ \A c \in Closure : marked'[c] = "free" => marked[c] = "free"
    BY <1>6, <1>1 DEF Atomic
  <2> QED BY <2>1, <1>2
<1>7. CASE \E t \in Thread, b \in Block : NewThread(t, b)
  <2>1. UNCHANGED upvals /\ \A c \in Closure : marked'[c] = "free" => marked[c] = "free"
    BY <1>7, <1>1 DEF NewThread
  <2> QED BY <2>1, <1>2
<1>8. CASE \E t \in Thread : FreeThread(t)
  <2>1. UNCHANGED upvals /\ \A c \in Closure : marked'[c] = "free" => marked[c] = "free"
    BY <1>8, <1>1 DEF FreeThread
  <2> QED BY <2>1, <1>2
<1>9. CASE \E t \in Thread, c \in Closure, e \in Closure \cup {NULL} : NewLClosure(t, c, e)
  <2>1. UNCHANGED upvals /\ \A c \in Closure : marked'[c] = "free" => marked[c] = "free"
    BY <1>9, <1>1 DEF NewLClosure
  <2> QED BY <2>1, <1>2
<1>10. CASE \/ \E j \in Index : FillEnclosing(j)
            \/ \E l \in Level : FillFound(l)
            \/ \E u \in UpVal : Link(u) \/ InitUpval(u)
  <2>1. pc # "idle" /\ UNCHANGED marked
    BY <1>10 DEF FillEnclosing, FillFound, Link, InitUpval, collector
  <2>2. ncl \in Closure /\ Live(ncl) BY <2>1 DEF UInv, Busy
  <2>3. \E u : upvals' = [upvals EXCEPT ![ncl][Next_i] = u]
    BY <1>10 DEF FillEnclosing, FillFound, Link, InitUpval, SetUp
  <2>4. PICK i, u : i = Next_i /\ upvals' = [upvals EXCEPT ![ncl][i] = u] BY <2>3
  <2> QED BY <2>1, <2>2, <2>4, <1>3
<1>11. CASE \E c1, c2 \in Closure, i1, i2 \in Index : UpvalueJoin(c1, i1, c2, i2)
  <2>1. PICK c1, c2 \in Closure, i1, i2 \in Index : UpvalueJoin(c1, i1, c2, i2) BY <1>11
  <2>2. Live(c1) /\ UNCHANGED marked /\ upvals' = [upvals EXCEPT ![c1][i1] = upvals[c2][i2]]
    BY <2>1 DEF UpvalueJoin, Callable, collector
  <2> QED BY <2>2, <1>3
<1>12. CASE \E c \in Closure : FreeLClosure(c)
  <2>1. PICK c \in Closure : FreeLClosure(c) BY <1>12
  <2>2. /\ upvals' = [upvals EXCEPT ![c] = [i \in Index |-> NULL]]
        /\ marked' = [marked EXCEPT ![c] = "free"]
    BY <2>1 DEF FreeLClosure
  <2> QED BY <2>2, <1>1
<1> QED BY <1>4, <1>5, <1>6, <1>7, <1>8, <1>9, <1>10, <1>11, <1>12 DEF Next, Program, Collector

LEMMA InitRefines == ASSUME UpvalAssumption, Init PROVE Blank /\ Variables!Init
<1>1. Blank BY DEF Init, Blank
<1>2. ASSUME NEW a \in LocalRef PROVE ~InUse(a)
  <2>1. a[1] \in Thread /\ a[2] \in Nat BY Refs
  <2>2. top[a[1]] = 0 BY <2>1 DEF Init
  <2> QED BY <2>1, <2>2 DEF InUse
<1>3. ASSUME NEW a \in SlotRef PROVE ~InUse(a)
  <2>1. a[1] \in Closure /\ a[2] \in Index /\ a[1] \notin Thread BY Refs
  <2>2. upvals[a[1]][a[2]] = NULL BY <2>1 DEF Init
  <2> QED BY <2>1, <2>2 DEF InUse
<1>4. \A a \in Ref : ~InUse(a) BY <1>2, <1>3, Refs
<1>5. Sharing = [r \in Ref |-> {}] /\ Holding = [r \in Ref |-> Junk] BY <1>4 DEF Sharing, Holding
<1> QED BY <1>1, <1>5 DEF Variables!Init

LEMMA StepRefines ==
  ASSUME UpvalAssumption, PlaceAssumption, ~SelfJoin, UInv, UInv', Blank, [Next]_vars
  PROVE  [Variables!Next]_Variables!vars
<1> DEFINE Goal == Variables!Next \/ UNCHANGED <<Sharing, Holding>>
<1>1. ASSUME NEW t \in Thread, NEW x \in Value, NewLocal(t, x) PROVE Goal BY <1>1, NewLocalNew
<1>2. ASSUME NEW t \in Thread, NEW l \in Level, NEW x \in Value, SetLocal(t, l, x) PROVE Goal
  BY <1>2, SetLocalWrites
<1>3. ASSUME NEW t \in Thread, NEW l \in Level, Leave(t, l) PROVE Goal BY <1>3, LeaveForgets
<1>4. ASSUME NEW t \in Thread, NEW b \in Block, Reallocate(t, b) PROVE Goal BY <1>4, ReallocateUnseen
<1>5. ASSUME NEW t \in Thread, NEW b \in Block, NewThread(t, b) PROVE Goal BY <1>5, NewThreadUnseen
<1>6. ASSUME NEW c \in Closure, NEW i \in Index, NEW x \in Value, SetUpval(c, i, x) PROVE Goal
  BY <1>6, SetUpvalWrites
<1>7. ASSUME NEW t \in Thread, NEW c \in Closure, NEW e \in Closure \cup {NULL}, NewLClosure(t, c, e)
      PROVE  Goal
  BY <1>7, NewLClosureUnseen
<1>8. ASSUME NEW j \in Index, FillEnclosing(j) PROVE Goal BY <1>8, FillEnclosingShares
<1>9. ASSUME NEW l \in Level, FillFound(l) PROVE Goal BY <1>9, FillFoundShares
<1>10. ASSUME NEW u \in UpVal, Link(u) PROVE Goal BY <1>10, LinkShares
<1>11. ASSUME NEW u \in UpVal, InitUpval(u) PROVE Goal BY <1>11, InitUpvalNew
<1>12. ASSUME NEW c1 \in Closure, NEW c2 \in Closure, NEW i1 \in Index, NEW i2 \in Index,
              UpvalueJoin(c1, i1, c2, i2)
       PROVE  Goal
  BY <1>12, UpvalueJoinShares
<1>13. ASSUME NEW S \in SUBSET Object, Atomic(S) PROVE Goal BY <1>13, AtomicForgets
<1>14. ASSUME NEW c \in Closure, FreeLClosure(c) PROVE Goal BY <1>14, FreeLClosureUnseen
<1>15. ASSUME NEW t \in Thread, FreeThread(t) PROVE Goal BY <1>15, FreeThreadUnseen
<1>16. ASSUME \/ \E l \in Level : FillNew(l)
              \/ Finish \/ MemoryError \/ TraverseProto \/ SweepProto \/ SweepEnd \/ Emergency
              \/ \E o \in Object : Mark(o) \/ SweepLive(o)
              \/ UNCHANGED vars
       PROVE  Goal
  BY <1>16, QuietSteps
<1> HIDE DEF Goal
<1>17. Goal
  BY <1>1, <1>2, <1>3, <1>4, <1>5, <1>6, <1>7, <1>8, <1>9, <1>10, <1>11, <1>12, <1>13, <1>14, <1>15, <1>16
  DEF Next, Program, Collector
<1> QED BY <1>17 DEF Goal, Variables!vars

\* Closures and threads behave as if every variable were a box of its own: capturing it,
\* closing its upvalue, moving the stack, failing to make a closure and collecting change
\* no value and no sharing (luaF_findupval, luaF_close, luaD_reallocstack, OP_CLOSURE,
\* freeLclosure, luaE_freethread), if lua_upvaluejoin never joins a slot to itself.
THEOREM UpvalsImplementVariables ==
  ASSUME UpvalAssumption, PlaceAssumption, ~SelfJoin
  PROVE  Spec => ImplementsVariables
<1>1. Init => UInv /\ Blank /\ Variables!Init BY InitSound, InitRefines
<1>2. UInv /\ [Next]_vars => UInv' BY StepSound
<1>3. UInv /\ Blank /\ [Next]_vars => Blank' BY BlankStays
<1>4. UInv /\ UInv' /\ Blank /\ [Next]_vars => [Variables!Next]_Variables!vars BY StepRefines
<1> QED BY <1>1, <1>2, <1>3, <1>4, PTL DEF Spec, ImplementsVariables, Variables!Spec
=============================================================================

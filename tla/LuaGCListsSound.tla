-------------------------- MODULE LuaGCListsSound --------------------------
(***************************************************************************)
(* Proofs about LuaGCLists, for any number of objects and any GCSWEEPMAX:  *)
(* every object is in one list and no list has a cycle, no dead object is  *)
(* left behind by the sweep, what the sweep has passed is white, and       *)
(* finalizers are called in the reverse order of the marks.                *)
(***************************************************************************)
EXTENDS LuaGCLists, FiniteSetTheorems, TLAPS

(***************************************************************************)
(* The inductive invariant                                                 *)
(***************************************************************************)
LinkFn == [Pointer -> Obj \cup {NULL}]
\* No two pointers point to one object.
Injective(lk) == \A q \in Pointer, r \in Pointer : lk[q] = lk[r] /\ lk[q] # NULL => q = r
\* The objects of a list and what may point to them.
From(q) == {q} \cup Members(q)

\* The links of the allocated objects make up the four lists.
Shape ==
  /\ Injective(link)
  /\ \A o \in Obj : marked[o] = "free" => link[o] = NULL
  /\ \A o \in Obj : marked[o] # "free" <=> \E l \in List : o \in Members(l)

\* Objects with FINALIZEDBIT are in finobj and tobefnz; fixedgc has black strings.
Placed ==
  /\ closing # "closed" => Members("finobj") \cup Members("tobefnz") = finalized
  /\ closing = "closed" => \A o \in Obj : marked[o] = "free"
  /\ \A o \in Members("fixedgc") : o \in Str /\ marked[o] = "black"

\* What runs when: sweepgc is set in a sweep only, separatetobefnz runs in an atomic
\* phase and when the state is closed.
Phases ==
  /\ opening => gcstate = "GCSpause" /\ closing = "no" /\ pc \in {"idle", "relink"}
  /\ sweepgc # NULL => gcstate \in SweepState \ {"GCSswpend"}
  /\ pc \in {"enter", "sweep", "tolive"} => sweepgc # NULL
  /\ pc = "enter" => gcstate = "GCSswpallgc"
  /\ gcstate = "GCSinsideatomic" => pc = "separate"
  /\ pc = "separate" /\ gcstate # "GCSinsideatomic" => closing = "finalizers" /\ p = "finobj"

\* sweepgc is a head or a field of an object that is still there, and in allgc as
\* long as allgc is swept.
SweepAt ==
  sweepgc # NULL /\ closing # "closed" =>
    /\ sweepgc # "fixedgc" /\ sweepgc \notin Members("fixedgc")
    /\ sweepgc \in Obj => marked[sweepgc] # "free"
    /\ gcstate = "GCSswpallgc" => sweepgc \in From("allgc")

\* The object that luaC_checkfinalizer works on is a live one of allgc, swept if the
\* sweep is on, and sweepgc does not point to it when it is unlinked.
Checked ==
  pc \in {"tolive", "relink"} =>
    /\ closing # "closed"
    /\ target \in Members("allgc") /\ target \in Udata \ finalized
    /\ marked[target] # OtherWhite
    /\ IsSweepPhase => marked[target] = currentwhite
    /\ pc = "relink" => sweepgc # target

\* separatetobefnz is in the middle of finobj and at the end of tobefnz; in an atomic
\* phase what it has passed is not white.
Separating ==
  pc = "separate" =>
    /\ p \in From("finobj")
    /\ lastnext \in From("tobefnz") /\ link[lastnext] = NULL
    /\ gcstate = "GCSinsideatomic" =>
         \A o \in Members("finobj") \ Members(p) : marked[o] \notin White

\* An object that was marked later comes first, in finobj and in tobefnz; while they are
\* moved, either both were, or neither, or the one that comes first.
Marked ==
  /\ younger \subseteq finalized \X finalized
  /\ closing # "closed" =>
       \A a, b \in Obj : <<a, b>> \in younger \ late =>
         \/ b \in Members(a)
         \/ /\ pc = "separate"
            /\ a \in Members("tobefnz") /\ b \in Members("finobj") \cap Members(p)
            /\ gcstate = "GCSinsideatomic" => marked[b] \in White
  /\ closing # "closed" /\ pc = "separate" /\ gcstate = "GCSinsideatomic" =>
       \A a, b \in Obj : <<a, b>> \in younger \ late /\ {a, b} \subseteq Members("finobj") =>
         (marked[a] \in White <=> marked[b] \in White)

ListsInv ==
  TypeOK /\ Shape /\ Placed /\ Phases /\ SweepAt /\ Checked /\ Separating /\ DeadAhead /\ Marked

\* SweptWhite while separatetobefnz runs.
SweptInv ==
  /\ gcstate \notin {"GCSpropagate", "GCSinsideatomic"} =>
       \A o \in Allocated \ Members("fixedgc") :
         \/ marked[o] = currentwhite
         \/ o \in Unswept
         \/ pc = "separate" /\ gcstate = "GCSswpfinobj"
            /\ o \in Members("finobj") \cup Members("tobefnz")
  /\ gcstate = "GCSswptobefnz" /\ sweepgc # NULL /\ closing # "closed" =>
       sweepgc \in From("tobefnz")

(***************************************************************************)
(* What a walk along the links meets                                       *)
(***************************************************************************)
LEMMA Addresses ==
  ASSUME ListsAssumption
  PROVE  NULL \notin Pointer /\ List \cap Obj = {} /\ Str \cap Udata = {}
BY DEF Pointer, ListsAssumption

\* A set that no link leads out of holds all that the walk meets.
LEMMA ReachInduct ==
  ASSUME NEW lk, NEW q, NEW S \in SUBSET Obj,
         lk[q] # NULL => lk[q] \in S,
         \A x \in S : lk[x] # NULL => lk[x] \in S
  PROVE  Reach(lk, q) \subseteq S
<1>1. ({lk[q]} \cup {lk[x] : x \in S}) \ {NULL} \subseteq S
  OBVIOUS
<1>2. QED BY <1>1 DEF Reach

\* The first object and what follows a met object are met.
LEMMA ReachStep ==
  ASSUME NEW lk \in LinkFn, NEW q \in Pointer
  PROVE  /\ Reach(lk, q) \subseteq Obj
         /\ lk[q] # NULL => lk[q] \in Reach(lk, q)
         /\ \A x \in Reach(lk, q) : lk[x] # NULL => lk[x] \in Reach(lk, q)
<1>1. Reach(lk, q) \subseteq Obj
  BY DEF Reach
<1>2. ASSUME NEW S \in SUBSET Obj, ({lk[q]} \cup {lk[x] : x \in S}) \ {NULL} \subseteq S
      PROVE  /\ lk[q] # NULL => lk[q] \in S
             /\ \A x \in S : lk[x] # NULL => lk[x] \in S
  BY <1>2
<1>3. ASSUME lk[q] # NULL
      PROVE  lk[q] \in Reach(lk, q)
  BY <1>2, <1>3 DEF Reach, LinkFn
<1>4. ASSUME NEW x \in Reach(lk, q), lk[x] # NULL
      PROVE  lk[x] \in Reach(lk, q)
  <2>1. x \in Obj /\ lk[x] \in Obj
    BY <1>1, <1>4 DEF LinkFn, Pointer
  <2>2. ASSUME NEW S \in SUBSET Obj, ({lk[q]} \cup {lk[y] : y \in S}) \ {NULL} \subseteq S
        PROVE  lk[x] \in S
    <3>1. x \in S
      BY <2>2, <1>4 DEF Reach
    <3>2. QED BY <3>1, <2>2, <1>4
  <2>3. QED BY <2>1, <2>2 DEF Reach
<1>5. QED BY <1>1, <1>3, <1>4

LEMMA ReachNull ==
  ASSUME NEW lk, NEW q, lk[q] = NULL
  PROVE  Reach(lk, q) = {}
<1>1. ({lk[q]} \cup {lk[x] : x \in {}}) \ {NULL} \subseteq {}
  OBVIOUS
<1>2. QED BY <1>1 DEF Reach

\* What is met beyond a met object is met.
LEMMA ReachTrans ==
  ASSUME NEW lk \in LinkFn, NEW q \in Pointer, NEW o \in Reach(lk, q)
  PROVE  Reach(lk, o) \subseteq Reach(lk, q)
<1>1. Reach(lk, q) \subseteq Obj /\ \A x \in Reach(lk, q) : lk[x] # NULL => lk[x] \in Reach(lk, q)
  BY ReachStep
<1>2. QED BY <1>1, ReachInduct

\* The first object and what follows it.
LEMMA ReachUnfold ==
  ASSUME NEW lk \in LinkFn, NEW q \in Pointer, lk[q] # NULL
  PROVE  lk[q] \in Obj /\ Reach(lk, q) = {lk[q]} \cup Reach(lk, lk[q])
<1> DEFINE o == lk[q]
           S == {o} \cup Reach(lk, o)
<1>1. o \in Obj /\ o \in Pointer
  BY DEF LinkFn, Pointer
<1>2. o \in Reach(lk, q)
  BY ReachStep
<1>3. Reach(lk, o) \subseteq Reach(lk, q)
  BY <1>2, ReachTrans
<1>4. /\ Reach(lk, o) \subseteq Obj
      /\ lk[o] # NULL => lk[o] \in Reach(lk, o)
      /\ \A x \in Reach(lk, o) : lk[x] # NULL => lk[x] \in Reach(lk, o)
  BY <1>1, ReachStep
<1>5. S \in SUBSET Obj /\ \A x \in S : lk[x] # NULL => lk[x] \in S
  BY <1>1, <1>4
<1>6. Reach(lk, q) \subseteq S
  <2>1. lk[q] # NULL => lk[q] \in S
    OBVIOUS
  <2> HIDE DEF S
  <2>2. QED BY <1>5, <2>1, ReachInduct
<1>7. QED BY <1>1, <1>2, <1>3, <1>6

\* Something met points to each object met.
LEMMA ReachPred ==
  ASSUME NEW lk \in LinkFn, NEW q \in Pointer, NEW o \in Reach(lk, q)
  PROVE  \E x \in {q} \cup Reach(lk, q) : lk[x] = o
<1> DEFINE S == {y \in Reach(lk, q) : \E x \in {q} \cup Reach(lk, q) : lk[x] = y}
<1>1. /\ Reach(lk, q) \subseteq Obj
      /\ lk[q] # NULL => lk[q] \in Reach(lk, q)
      /\ \A x \in Reach(lk, q) : lk[x] # NULL => lk[x] \in Reach(lk, q)
  BY ReachStep
<1>2. S \in SUBSET Obj /\ (lk[q] # NULL => lk[q] \in S) /\ \A x \in S : lk[x] # NULL => lk[x] \in S
  BY <1>1
<1>3. Reach(lk, q) \subseteq S
  <2> HIDE DEF S
  <2>1. QED BY <1>2, ReachInduct
<1>4. QED BY <1>3

\* Of two objects met, one is met beyond the other.
LEMMA ReachTotal ==
  ASSUME NEW lk \in LinkFn, NEW q \in Pointer, NEW o \in Reach(lk, q), NEW y \in Reach(lk, q)
  PROVE  o = y \/ o \in Reach(lk, y) \/ y \in Reach(lk, o)
<1> DEFINE S == {x \in Reach(lk, q) : o = x \/ o \in Reach(lk, x) \/ x \in Reach(lk, o)}
<1>1. /\ Reach(lk, q) \subseteq Obj
      /\ lk[q] # NULL => lk[q] \in Reach(lk, q)
      /\ \A x \in Reach(lk, q) : lk[x] # NULL => lk[x] \in Reach(lk, q)
  BY ReachStep
<1>2. \A x \in Pointer : lk[x] # NULL => Reach(lk, x) = {lk[x]} \cup Reach(lk, lk[x])
  BY ReachUnfold
<1>3. \A x \in Pointer : lk[x] = NULL => Reach(lk, x) = {}
  BY ReachNull
<1>4. \A x \in Reach(lk, o) : lk[x] # NULL => lk[x] \in Reach(lk, o)
  BY <1>1, ReachStep DEF Pointer
<1>5. lk[o] # NULL => lk[o] \in Reach(lk, o)
  BY <1>1, ReachStep DEF Pointer
<1>6. lk[q] # NULL => lk[q] \in S
  BY <1>1, <1>2
<1>7. ASSUME NEW x \in S, lk[x] # NULL
      PROVE  lk[x] \in S
  <2>1. x \in Pointer /\ lk[x] \in Reach(lk, q)
    BY <1>1, <1>7 DEF Pointer
  <2>2. CASE o = x
    BY <2>1, <2>2, <1>5, <1>7
  <2>3. CASE o \in Reach(lk, x)
    BY <2>1, <2>3, <1>2, <1>7
  <2>4. CASE x \in Reach(lk, o)
    BY <2>1, <2>4, <1>4, <1>7
  <2>5. QED BY <2>2, <2>3, <2>4
<1>8. Reach(lk, q) \subseteq S
  <2>1. S \in SUBSET Obj
    BY <1>1
  <2> HIDE DEF S
  <2>2. QED BY <1>6, <1>7, <2>1, ReachInduct
<1>9. QED BY <1>8

(***************************************************************************)
(* What a walk meets when no two pointers point to one object              *)
(***************************************************************************)
\* No list leads back to an object of it.
LEMMA NoCycle ==
  ASSUME ListsAssumption, NEW lk \in LinkFn, Injective(lk), NEW l \in List, NEW o \in Reach(lk, l)
  PROVE  o \notin Reach(lk, o)
<1> SUFFICES ASSUME o \in Reach(lk, o) PROVE FALSE
  OBVIOUS
<1> DEFINE S == Reach(lk, l) \ Reach(lk, o)
<1>1. l \in Pointer /\ l \notin Obj
  BY Addresses DEF Pointer
<1>2. /\ Reach(lk, l) \subseteq Obj
      /\ lk[l] # NULL => lk[l] \in Reach(lk, l)
      /\ \A x \in Reach(lk, l) : lk[x] # NULL => lk[x] \in Reach(lk, l)
  BY <1>1, ReachStep
<1>3. o \in Pointer /\ Reach(lk, o) \subseteq Obj
  BY <1>2, ReachStep DEF Pointer
<1>4. ASSUME NEW x \in Reach(lk, o)
      PROVE  \E y \in Reach(lk, o) : lk[y] = x
  BY <1>3, ReachPred
<1>5. ASSUME NEW x \in Pointer, lk[x] # NULL, lk[x] \in Reach(lk, o)
      PROVE  x \in Reach(lk, o)
  <2>1. PICK y \in Reach(lk, o) : lk[y] = lk[x]
    BY <1>4, <1>5
  <2>2. y \in Pointer
    BY <1>3 DEF Pointer
  <2>3. QED BY <2>1, <2>2, <1>5 DEF Injective
<1>6. lk[l] # NULL => lk[l] \in S
  BY <1>1, <1>2, <1>3, <1>5
<1>7. \A x \in S : lk[x] # NULL => lk[x] \in S
  BY <1>2, <1>5 DEF Pointer
<1>8. Reach(lk, l) \subseteq S
  <2>1. S \in SUBSET Obj
    BY <1>2
  <2> HIDE DEF S
  <2>2. QED BY <1>6, <1>7, <2>1, ReachInduct
<1>9. QED BY <1>8

\* Two lists have no object in common.
LEMMA Disjoint ==
  ASSUME ListsAssumption, NEW lk \in LinkFn, Injective(lk),
         NEW l \in List, NEW k \in List, l # k
  PROVE  Reach(lk, l) \cap Reach(lk, k) = {}
<1> DEFINE S == Reach(lk, l) \ Reach(lk, k)
<1>1. l \in Pointer /\ k \in Pointer /\ l \notin Obj /\ k \notin Obj
  BY Addresses DEF Pointer
<1>2. /\ Reach(lk, l) \subseteq Obj
      /\ lk[l] # NULL => lk[l] \in Reach(lk, l)
      /\ \A x \in Reach(lk, l) : lk[x] # NULL => lk[x] \in Reach(lk, l)
  BY <1>1, ReachStep
<1>3. Reach(lk, k) \subseteq Obj
  BY <1>1, ReachStep
<1>4. ASSUME NEW x \in Pointer, lk[x] # NULL, lk[x] \in Reach(lk, k)
      PROVE  x \in {k} \cup Reach(lk, k)
  <2>1. PICK y \in {k} \cup Reach(lk, k) : lk[y] = lk[x]
    BY <1>1, <1>4, ReachPred
  <2>2. y \in Pointer
    BY <1>1, <1>3 DEF Pointer
  <2>3. QED BY <2>1, <2>2, <1>4 DEF Injective
<1>5. lk[l] # NULL => lk[l] \in S
  BY <1>1, <1>2, <1>3, <1>4
<1>6. \A x \in S : lk[x] # NULL => lk[x] \in S
  BY <1>1, <1>2, <1>4 DEF Pointer
<1>7. Reach(lk, l) \subseteq S
  <2>1. S \in SUBSET Obj
    BY <1>2
  <2> HIDE DEF S
  <2>2. QED BY <1>5, <1>6, <2>1, ReachInduct
<1>8. QED BY <1>7

\* Every list ends.
LEMMA LastExists ==
  ASSUME ListsAssumption, NEW lk \in LinkFn, Injective(lk), NEW l \in List
  PROVE  \E q \in {l} \cup Reach(lk, l) : lk[q] = NULL
<1> SUFFICES ASSUME \A q \in {l} \cup Reach(lk, l) : lk[q] # NULL PROVE FALSE
  OBVIOUS
<1> DEFINE T == Reach(lk, l)
           S == {l} \cup T
           f == [q \in S |-> lk[q]]
<1>1. l \in Pointer /\ l \notin Obj
  BY Addresses DEF Pointer
<1>2. /\ T \subseteq Obj
      /\ lk[l] # NULL => lk[l] \in T
      /\ \A x \in T : lk[x] # NULL => lk[x] \in T
  BY <1>1, ReachStep
<1>3. IsFiniteSet(T)
  BY <1>2, FS_Subset DEF ListsAssumption
<1>4. IsFiniteSet(S) /\ Cardinality(S) = Cardinality(T) + 1 /\ Cardinality(T) \in Nat
  <2>1. l \notin T /\ S = T \cup {l}
    BY <1>1, <1>2
  <2> HIDE DEF S, T
  <2>2. QED BY <2>1, <1>3, FS_AddElement, FS_CardinalityType
<1>5. f \in [S -> T]
  BY <1>2
<1>6. Cardinality(T) < Cardinality(S)
  BY <1>4
<1>7. \E x, y \in S : x # y /\ f[x] = f[y]
  <2> HIDE DEF S, T, f
  <2>1. QED BY <1>3, <1>4, <1>5, <1>6, FS_PigeonHole
<1>8. PICK x \in S, y \in S : x # y /\ f[x] = f[y]
  BY <1>7
<1>9. x \in Pointer /\ y \in Pointer /\ lk[x] = lk[y] /\ lk[x] # NULL
  BY <1>1, <1>2, <1>8 DEF Pointer
<1>10. QED BY <1>8, <1>9 DEF Injective

\* What is met last in a list is met from each object of the list.
LEMMA LastMet ==
  ASSUME NEW lk \in LinkFn, NEW l \in Pointer, NEW o \in Reach(lk, l),
         NEW z \in {l} \cup Reach(lk, l), lk[z] = NULL
  PROVE  z = o \/ z \in Reach(lk, o)
<1>1. Reach(lk, z) = {}
  BY ReachNull
<1>2. z # l
  BY <1>1
<1>3. QED BY <1>1, <1>2, ReachTotal

(***************************************************************************)
(* Taking an object out of a list and putting one into a list              *)
(***************************************************************************)
\* The object that q points to is taken out.
Unlinked(lk, q) == [lk EXCEPT ![q] = lk[lk[q]], ![lk[q]] = NULL]
\* The object o, in no list, is put in after r.
Inserted(lk, r, o) == [lk EXCEPT ![o] = lk[r], ![r] = o]

LEMMA UnlinkedMeets ==
  ASSUME ListsAssumption, NEW lk \in LinkFn, Injective(lk), NEW q \in Pointer, NEW o \in Obj,
         lk[q] = o, o \notin Reach(lk, o)
  PROVE  /\ Unlinked(lk, q) \in LinkFn
         /\ Injective(Unlinked(lk, q))
         /\ \A x \in Pointer : x # o => Reach(Unlinked(lk, q), x) = Reach(lk, x) \ {o}
         /\ Reach(Unlinked(lk, q), o) = {}
         /\ \A x \in Pointer : Unlinked(lk, q)[x] # o
<1> DEFINE new == Unlinked(lk, q)
<1>0. NULL \notin Pointer /\ o \in Pointer /\ o # NULL
  BY Addresses DEF Pointer
<1>1. lk[o] # o
  BY <1>0, ReachStep
<1>2. q # o /\ lk[o] \in Obj \cup {NULL}
  BY <1>1, <1>0 DEF LinkFn
<1>3. new = [x \in Pointer |-> IF x = o THEN NULL ELSE IF x = q THEN lk[o] ELSE lk[x]]
  BY <1>0, <1>2 DEF Unlinked, LinkFn
<1>4. new \in LinkFn
  BY <1>2, <1>3 DEF LinkFn
<1>5. new[o] = NULL /\ new[q] = lk[o] /\ \A x \in Pointer \ {o, q} : new[x] = lk[x]
  BY <1>0, <1>2, <1>3
<1>6. \A x \in Pointer \ {q} : lk[x] # o
  BY <1>0 DEF Injective
<1>7. \A x \in Pointer : new[x] # o
  BY <1>0, <1>1, <1>5, <1>6
<1>8. Injective(new)
  BY <1>5, <1>2, <1>0 DEF Injective
<1>9. Reach(new, o) = {}
  BY <1>5, ReachNull
<1> HIDE DEF new
<1>10. ASSUME NEW x \in Pointer, x # o
       PROVE  Reach(new, x) = Reach(lk, x) \ {o}
  <2>1. /\ Reach(lk, x) \subseteq Obj
        /\ lk[x] # NULL => lk[x] \in Reach(lk, x)
        /\ \A y \in Reach(lk, x) : lk[y] # NULL => lk[y] \in Reach(lk, x)
    BY ReachStep
  <2>2. /\ Reach(new, x) \subseteq Obj
        /\ new[x] # NULL => new[x] \in Reach(new, x)
        /\ \A y \in Reach(new, x) : new[y] # NULL => new[y] \in Reach(new, x)
    BY <1>4, ReachStep
  <2>3. Reach(new, x) \subseteq Reach(lk, x) \ {o}
    <3> DEFINE S == Reach(lk, x) \ {o}
    <3>1. S \in SUBSET Obj
      BY <2>1
    <3>2. new[x] # NULL => new[x] \in S
      BY <2>1, <1>0, <1>1, <1>5, <1>6, <1>10
    <3>3. \A y \in S : new[y] # NULL => new[y] \in S
      BY <2>1, <1>0, <1>1, <1>5, <1>6 DEF Pointer
    <3> HIDE DEF S
    <3>4. Reach(new, x) \subseteq S
      BY <3>1, <3>2, <3>3, ReachInduct
    <3>5. QED BY <3>4 DEF S
  <2>4. Reach(lk, x) \ {o} \subseteq Reach(new, x)
    <3> DEFINE S == {y \in Reach(lk, x) : IF y = o THEN lk[o] # NULL => lk[o] \in Reach(new, x)
                                                   ELSE y \in Reach(new, x)}
    <3>1. S \in SUBSET Obj
      BY <2>1
    <3>2. lk[x] # NULL => lk[x] \in S
      BY <2>1, <2>2, <1>0, <1>5, <1>6, <1>10
    <3>3. ASSUME NEW y \in S, lk[y] # NULL
          PROVE  lk[y] \in S
      <4>1. y \in Pointer /\ lk[y] \in Reach(lk, x)
        BY <2>1, <3>3 DEF Pointer
      <4>2. CASE y = o
        BY <4>1, <4>2, <1>1, <3>3
      <4>3. CASE y # o /\ y = q
        BY <4>1, <4>3, <2>2, <1>5
      <4>4. CASE y # o /\ y # q
        BY <4>1, <4>4, <2>2, <1>5, <1>6, <3>3
      <4>5. QED BY <4>2, <4>3, <4>4
    <3>4. Reach(lk, x) \subseteq S
      <4> HIDE DEF S
      <4>1. QED BY <3>1, <3>2, <3>3, ReachInduct
    <3>5. QED BY <3>4
  <2>5. QED BY <2>3, <2>4
<1>11. QED BY <1>4, <1>7, <1>8, <1>9, <1>10 DEF new

LEMMA InsertedMeets ==
  ASSUME ListsAssumption, NEW lk \in LinkFn, Injective(lk), NEW r \in Pointer, NEW o \in Obj,
         \A x \in Pointer : lk[x] # o, lk[o] = NULL, r # o, r \notin Reach(lk, r)
  PROVE  /\ Inserted(lk, r, o) \in LinkFn
         /\ Injective(Inserted(lk, r, o))
         /\ \A x \in Pointer : x # o =>
              Reach(Inserted(lk, r, o), x) =
                IF x = r \/ r \in Reach(lk, x) THEN Reach(lk, x) \cup {o} ELSE Reach(lk, x)
         /\ Reach(Inserted(lk, r, o), o) = Reach(lk, r)
<1> DEFINE new == Inserted(lk, r, o)
<1>0. NULL \notin Pointer /\ o \in Pointer /\ o # NULL
  BY Addresses DEF Pointer
<1>1. lk[r] \in Obj \cup {NULL}
  BY DEF LinkFn
<1>2. new = [x \in Pointer |-> IF x = r THEN o ELSE IF x = o THEN lk[r] ELSE lk[x]]
  BY <1>0 DEF Inserted, LinkFn
<1>3. new \in LinkFn
  BY <1>1, <1>2 DEF LinkFn
<1>4. new[o] = lk[r] /\ new[r] = o /\ \A x \in Pointer \ {o, r} : new[x] = lk[x]
  BY <1>0, <1>2
<1>5. Injective(new)
  BY <1>4, <1>1, <1>0 DEF Injective
<1> HIDE DEF new
<1>6. \A x \in Pointer : /\ Reach(lk, x) \subseteq Obj
                         /\ lk[x] # NULL => lk[x] \in Reach(lk, x)
                         /\ \A y \in Reach(lk, x) : lk[y] # NULL => lk[y] \in Reach(lk, x)
  BY ReachStep
<1>7. \A x \in Pointer : /\ Reach(new, x) \subseteq Obj
                         /\ new[x] # NULL => new[x] \in Reach(new, x)
                         /\ \A y \in Reach(new, x) : new[y] # NULL => new[y] \in Reach(new, x)
  BY <1>3, ReachStep
<1>8. \A x \in Pointer : o \notin Reach(lk, x)
  <2> SUFFICES ASSUME NEW x \in Pointer, o \in Reach(lk, x) PROVE FALSE
    OBVIOUS
  <2>1. \E y \in {x} \cup Reach(lk, x) : lk[y] = o
    BY ReachPred
  <2>2. QED BY <2>1, <1>6 DEF Pointer
\* The old walk is not cut.
<1>9. ASSUME NEW x \in Pointer, x # o
      PROVE  Reach(lk, x) \subseteq Reach(new, x)
  <2> DEFINE S == Reach(new, x) \cap Reach(lk, x)
  <2>1. ASSUME NEW y \in Pointer, y = x \/ y \in S, lk[y] # NULL
        PROVE  lk[y] \in S
    <3>1. lk[y] \in Reach(lk, x)
      BY <2>1, <1>6
    <3>2. new[y] # NULL => new[y] \in Reach(new, x)
      BY <2>1, <1>7
    <3>3. y # o
      BY <2>1, <1>8, <1>9
    <3>4. CASE y = r
      <4>1. o \in Reach(new, x)
        BY <3>2, <3>4, <1>4, <1>0
      <4>2. lk[r] \in Reach(new, x)
        BY <4>1, <1>4, <1>7, <2>1, <3>4
      <4>3. QED BY <4>2, <3>1, <3>4
    <3>5. CASE y # r
      BY <3>1, <3>2, <3>3, <3>5, <1>4, <2>1
    <3>6. QED BY <3>4, <3>5
  <2>2. S \in SUBSET Obj /\ S \subseteq Pointer
    BY <1>6 DEF Pointer
  <2>3. (lk[x] # NULL => lk[x] \in S) /\ \A y \in S : lk[y] # NULL => lk[y] \in S
    BY <2>1, <2>2
  <2>4. Reach(lk, x) \subseteq S
    <3> HIDE DEF S
    <3>1. QED BY <2>2, <2>3, ReachInduct
  <2>5. QED BY <2>4
<1>10. ASSUME NEW x \in Pointer, x # o
       PROVE  Reach(new, x) = IF x = r \/ r \in Reach(lk, x) THEN Reach(lk, x) \cup {o}
                                                             ELSE Reach(lk, x)
  <2> DEFINE S == IF x = r \/ r \in Reach(lk, x) THEN Reach(lk, x) \cup {o} ELSE Reach(lk, x)
  <2>1. S \in SUBSET Obj
    BY <1>6
  <2>2. ASSUME NEW y \in Pointer, y = x \/ y \in S, new[y] # NULL
        PROVE  new[y] \in S
    <3>1. CASE y = r
      BY <3>1, <2>2, <1>4
    <3>2. CASE y = o
      <4>1. x = r \/ r \in Reach(lk, x)
        BY <2>2, <3>2, <1>8, <1>10
      <4>2. lk[r] \in Reach(lk, x)
        BY <4>1, <1>4, <1>6, <2>2, <3>2
      <4>3. QED BY <4>2, <3>2, <1>4
    <3>3. CASE y # r /\ y # o
      BY <3>3, <2>2, <1>4, <1>6
    <3>4. QED BY <3>1, <3>2, <3>3
  <2>3. Reach(new, x) \subseteq S
    <3>1. (new[x] # NULL => new[x] \in S) /\ \A y \in S : new[y] # NULL => new[y] \in S
      BY <2>1, <2>2 DEF Pointer
    <3> HIDE DEF S
    <3>2. QED BY <2>1, <3>1, ReachInduct
  <2>4. x = r \/ r \in Reach(lk, x) => o \in Reach(new, x)
    BY <1>4, <1>7, <1>9, <1>10, <1>0
  <2>5. S \subseteq Reach(new, x)
    BY <1>9, <1>10, <2>4
  <2> HIDE DEF S
  <2>6. Reach(new, x) = S
    BY <2>3, <2>5
  <2>7. QED BY <2>6 DEF S
<1>11. Reach(new, o) = Reach(lk, r)
  <2>1. Reach(new, o) \subseteq Reach(lk, r)
    <3>1. new[o] # NULL => new[o] \in Reach(lk, r)
      BY <1>4, <1>6
    <3>2. ASSUME NEW y \in Reach(lk, r), new[y] # NULL
          PROVE  new[y] \in Reach(lk, r)
      BY <3>2, <1>4, <1>6, <1>8 DEF Pointer
    <3>3. QED BY <1>6, <3>1, <3>2, ReachInduct
  <2>2. Reach(lk, r) \subseteq Reach(new, o)
    <3> DEFINE S == Reach(new, o) \cap Reach(lk, r)
    <3>1. S \in SUBSET Obj
      BY <1>6
    <3>2. lk[r] # NULL => lk[r] \in S
      BY <1>4, <1>6, <1>7, <1>0
    <3>3. ASSUME NEW y \in S, lk[y] # NULL
          PROVE  lk[y] \in S
      BY <3>3, <1>0, <1>4, <1>6, <1>7, <1>8 DEF Pointer
    <3>4. Reach(lk, r) \subseteq S
      <4> HIDE DEF S
      <4>1. QED BY <3>1, <3>2, <3>3, ReachInduct
    <3>5. QED BY <3>4
  <2>3. QED BY <2>1, <2>2
<1>12. QED BY <1>3, <1>5, <1>10, <1>11 DEF new

\* The object after q goes to the place after r.
Moved(lk, q, r) == [lk EXCEPT ![q] = lk[lk[q]], ![lk[q]] = lk[r], ![r] = lk[q]]

\* An object of list l moves to the head or to the end of list k: exactly these two lists
\* change, and the order of the others in them stays.
LEMMA MovedMeets ==
  ASSUME ListsAssumption, NEW lk \in LinkFn, Injective(lk),
         NEW l \in List, NEW k \in List, l # k,
         NEW q \in {l} \cup Reach(lk, l), NEW o \in Obj, lk[q] = o,
         NEW r \in {k} \cup Reach(lk, k)
  PROVE  /\ Moved(lk, q, r) \in LinkFn
         /\ Injective(Moved(lk, q, r))
         /\ o \in Reach(lk, l)
         /\ \A x \in Pointer : x # o =>
              Reach(Moved(lk, q, r), x) =
                IF x = r \/ r \in Reach(lk, x) THEN (Reach(lk, x) \ {o}) \cup {o}
                                               ELSE Reach(lk, x) \ {o}
         /\ Reach(Moved(lk, q, r), o) = Reach(lk, r)
<1> DEFINE mid == Unlinked(lk, q)
<1>0. /\ NULL \notin Pointer /\ o \in Pointer /\ o # NULL
      /\ l \in Pointer /\ k \in Pointer /\ l \notin Obj /\ k \notin Obj
  BY Addresses DEF Pointer
<1>1. /\ Reach(lk, l) \subseteq Obj /\ Reach(lk, k) \subseteq Obj
      /\ lk[l] # NULL => lk[l] \in Reach(lk, l)
      /\ \A y \in Reach(lk, l) : lk[y] # NULL => lk[y] \in Reach(lk, l)
  BY <1>0, ReachStep
<1>2. o \in Reach(lk, l) /\ o \notin Reach(lk, k) /\ q \in Pointer /\ r \in Pointer
  BY <1>0, <1>1, Disjoint DEF Pointer
<1>3. o \notin Reach(lk, o)
  BY <1>2, NoCycle
<1>4. r # o /\ r # q
  BY <1>0, <1>1, <1>2, Disjoint
<1>5. r \notin Reach(lk, r)
  <2>1. CASE r = k
    BY <2>1, <1>0, <1>1
  <2>2. CASE r \in Reach(lk, k)
    BY <2>2, NoCycle
  <2>3. QED BY <2>1, <2>2
<1>6. /\ mid \in LinkFn
      /\ Injective(mid)
      /\ \A x \in Pointer : x # o => Reach(mid, x) = Reach(lk, x) \ {o}
      /\ \A x \in Pointer : mid[x] # o
  BY <1>2, <1>3, UnlinkedMeets
<1>7. q # o
  BY <1>0, <1>1, <1>2, <1>3, ReachStep
<1>8. mid[o] = NULL /\ mid[r] = lk[r]
  BY <1>0, <1>2, <1>4, <1>7 DEF Unlinked, LinkFn
<1>9. Moved(lk, q, r) = Inserted(mid, r, o)
  BY <1>0, <1>2, <1>4, <1>7, <1>8 DEF Moved, Inserted, Unlinked, LinkFn
<1>10. o \notin Reach(lk, r)
  <2>1. CASE r = k
    BY <2>1, <1>2
  <2>2. CASE r \in Reach(lk, k)
    BY <2>2, <1>0, <1>2, ReachTrans
  <2>3. QED BY <2>1, <2>2
<1>11. Reach(mid, r) = Reach(lk, r)
  BY <1>2, <1>4, <1>6, <1>10
<1> HIDE DEF mid
<1>12. /\ Inserted(mid, r, o) \in LinkFn
       /\ Injective(Inserted(mid, r, o))
       /\ \A x \in Pointer : x # o =>
            Reach(Inserted(mid, r, o), x) =
              IF x = r \/ r \in Reach(mid, x) THEN Reach(mid, x) \cup {o} ELSE Reach(mid, x)
       /\ Reach(Inserted(mid, r, o), o) = Reach(mid, r)
  BY <1>2, <1>4, <1>5, <1>6, <1>8, <1>11, InsertedMeets
<1>13. ASSUME NEW x \in Pointer, x # o
       PROVE  Reach(Moved(lk, q, r), x) =
                IF x = r \/ r \in Reach(lk, x) THEN (Reach(lk, x) \ {o}) \cup {o}
                                               ELSE Reach(lk, x) \ {o}
  BY <1>13, <1>4, <1>6, <1>9, <1>12
<1>14. QED BY <1>2, <1>9, <1>11, <1>12, <1>13

(***************************************************************************)
(* What the invariant says about the lists                                 *)
(***************************************************************************)
LEMMA ListFacts ==
  ASSUME ListsAssumption, TypeOK, Shape
  PROVE  /\ link \in LinkFn
         /\ \A q \in Pointer :
              /\ Members(q) \subseteq Obj
              /\ link[q] = NULL => Members(q) = {}
              /\ link[q] # NULL => link[q] \in Obj /\ Members(q) = {link[q]} \cup Members(link[q])
         /\ \A l \in List, k \in List : l # k => Members(l) \cap Members(k) = {}
         /\ \A l \in List, o \in Obj : o \in Members(l) =>
              marked[o] # "free" /\ o \notin Members(o) /\ Members(o) \subseteq Members(l)
<1>1. link \in LinkFn /\ Injective(link)
  BY DEF TypeOK, Shape, LinkFn
<1>2. ASSUME NEW q \in Pointer
      PROVE  /\ Members(q) \subseteq Obj
             /\ link[q] = NULL => Members(q) = {}
             /\ link[q] # NULL => link[q] \in Obj /\ Members(q) = {link[q]} \cup Members(link[q])
  BY <1>1, ReachStep, ReachNull, ReachUnfold DEF Members
<1>3. ASSUME NEW l \in List, NEW k \in List, l # k
      PROVE  Members(l) \cap Members(k) = {}
  BY <1>1, <1>3, Disjoint DEF Members
<1>4. ASSUME NEW l \in List, NEW o \in Obj, o \in Members(l)
      PROVE  marked[o] # "free" /\ o \notin Members(o) /\ Members(o) \subseteq Members(l)
  <2>1. marked[o] # "free"
    BY <1>4 DEF Shape
  <2>2. o \notin Members(o)
    BY <1>1, <1>4, NoCycle DEF Members
  <2>3. Members(o) \subseteq Members(l)
    BY <1>1, <1>4, ReachTrans DEF Members, Pointer
  <2>4. QED BY <2>1, <2>2, <2>3
<1>5. QED BY <1>1, <1>2, <1>3, <1>4

LEMMA LinkedHolds ==
  ASSUME ListsAssumption, TypeOK, Shape
  PROVE  Linked
<1>1. \A l \in List, k \in List : l # k => Members(l) \cap Members(k) = {}
  BY ListFacts
<1>2. \A l \in List : Members(l) \subseteq Obj
  BY ListFacts DEF Pointer
<1>3. UNION {Members(l) : l \in List} = Allocated
  BY <1>2 DEF Shape, Allocated
<1>4. ASSUME NEW o \in Obj
      PROVE  o \notin Members(o)
  <2>1. CASE marked[o] = "free"
    BY <2>1, ListFacts DEF Shape, Pointer
  <2>2. CASE marked[o] # "free"
    BY <2>2, ListFacts DEF Shape
  <2>3. QED BY <2>1, <2>2
<1>5. \A l \in List : \A o \in Members(l), k \in List \ {l} : o \notin Members(k)
  BY <1>1
<1>6. QED BY <1>3, <1>4, <1>5 DEF Linked

LEMMA InitInv ==
  ASSUME ListsAssumption, ListsInit
  PROVE  ListsInv /\ SweptInv
<1>1. \A q \in Pointer : link[q] = NULL /\ Members(q) = {}
  BY ReachNull DEF ListsInit, Members
<1>2. TypeOK
  <2>1. overtaken \in BOOLEAN
    BY DEF ListsInit
  <2>2. QED BY <2>1 DEF ListsInit, TypeOK, ListsAssumption, Pointer, List, White, GCState, SweepState
<1>3. Shape
  BY <1>1 DEF ListsInit, Shape, Injective, Pointer
<1>4. Placed /\ Phases /\ SweepAt /\ Checked /\ Separating /\ Marked
  BY <1>1 DEF ListsInit, Placed, Phases, SweepAt, Checked, Separating, Marked, Pointer, List
<1>5. DeadAhead /\ SweptInv
  BY <1>1 DEF ListsInit, DeadAhead, IsDead, OtherWhite, SweptInv, Allocated
<1>6. QED BY <1>2, <1>3, <1>4, <1>5 DEF ListsInv

(***************************************************************************)
(* Steps that leave the lists alone                                        *)
(***************************************************************************)
LEMMA SameLists ==
  ASSUME link' = link, Shape, \A o \in Obj : marked'[o] = "free" <=> marked[o] = "free"
  PROVE  Shape' /\ \A q : Members(q)' = Members(q) /\ From(q)' = From(q)
BY DEF Shape, Members, From, Injective

LEMMA MarkInv ==
  ASSUME ListsAssumption, ListsInv, NEW o \in Obj, Mark(o)
  PROVE  ListsInv' /\ (SweptInv => SweptInv')
<1> USE DEF ListsInv, Mark, loops, phases, marks
<1>1. TypeOK' /\ \A x \in Obj : marked'[x] = IF x = o THEN "black" ELSE marked[x]
  BY DEF TypeOK
<1>2. Shape' /\ \A q : Members(q)' = Members(q) /\ From(q)' = From(q)
  BY <1>1, SameLists DEF White
<1>3. Placed'
  BY <1>1, <1>2, ListFacts DEF Placed, White, Pointer, List
<1>4. Phases' /\ SweepAt'
  BY <1>1, <1>2 DEF Phases, SweepAt
<1>5. Checked' /\ Separating' /\ Marked'
  BY <1>1, <1>2 DEF Checked, Separating, Marked
<1>6. DeadAhead'
  BY <1>1, <1>2 DEF DeadAhead, IsDead, OtherWhite
<1>7. SweptInv'
  BY <1>1, <1>2 DEF SweptInv, Allocated, Unswept
<1>8. QED BY <1>1, <1>2, <1>3, <1>4, <1>5, <1>6, <1>7

LEMMA InternInv ==
  ASSUME ListsAssumption, ListsInv, NEW s \in Str, Intern(s)
  PROVE  ListsInv' /\ (SweptInv => SweptInv')
<1> USE DEF ListsInv, Intern, Running, IsDead, OtherWhite, loops, phases, marks
<1>1. TypeOK' /\ s \in Obj /\ \A x \in Obj : marked'[x] = IF x = s THEN currentwhite ELSE marked[x]
  BY DEF TypeOK, Obj
<1>2. Shape' /\ \A q : Members(q)' = Members(q) /\ From(q)' = From(q)
  BY <1>1, SameLists DEF White, TypeOK
<1>3. Placed'
  BY <1>1, <1>2, ListFacts DEF Placed, White, Pointer, List, TypeOK
<1>4. Phases' /\ SweepAt'
  BY <1>1, <1>2 DEF Phases, SweepAt, White, TypeOK
<1>5. Checked' /\ Separating' /\ Marked'
  BY <1>1, <1>2 DEF Checked, Separating, Marked
<1>6. DeadAhead'
  BY <1>1, <1>2 DEF DeadAhead, White, TypeOK
<1>7. SweptInv => SweptInv'
  BY <1>1, <1>2 DEF SweptInv, Allocated, Unswept, White, TypeOK
<1>8. QED BY <1>1, <1>2, <1>3, <1>4, <1>5, <1>6, <1>7

LEMMA BarrierSweepInv ==
  ASSUME ListsAssumption, ListsInv, NEW o \in Obj, BarrierSweep(o)
  PROVE  ListsInv' /\ (SweptInv => SweptInv')
<1> USE DEF ListsInv, BarrierSweep, Running, Usable, IsDead, OtherWhite, loops, phases, marks
<1>1. TypeOK' /\ \A x \in Obj : marked'[x] = IF x = o THEN currentwhite ELSE marked[x]
  BY DEF TypeOK
<1>2. Shape' /\ \A q : Members(q)' = Members(q) /\ From(q)' = From(q)
  BY <1>1, SameLists DEF White, TypeOK
<1>3. Placed'
  BY <1>1, <1>2, ListFacts DEF Placed, White, Pointer, List, TypeOK
<1>4. Phases' /\ SweepAt'
  BY <1>1, <1>2 DEF Phases, SweepAt, White, TypeOK
<1>5. Checked' /\ Separating' /\ Marked'
  BY <1>1, <1>2 DEF Checked, Separating, Marked
<1>6. DeadAhead'
  BY <1>1, <1>2 DEF DeadAhead, White, TypeOK
<1>7. SweptInv => SweptInv'
  BY <1>1, <1>2 DEF SweptInv, Allocated, Unswept, White, TypeOK
<1>8. QED BY <1>1, <1>2, <1>3, <1>4, <1>5, <1>6, <1>7

LEMMA CheckFinalizerInv ==
  ASSUME ListsAssumption, ListsInv, NEW o \in Udata, CheckFinalizer(o)
  PROVE  ListsInv' /\ (SweptInv => SweptInv')
<1> USE DEF ListsInv, CheckFinalizer, Running, Usable, IsDead, OtherWhite, phases, marks
<1>1. /\ TypeOK' /\ o \in Obj
      /\ \A x \in Obj : marked'[x] = IF x = o /\ IsSweepPhase THEN currentwhite ELSE marked[x]
  BY DEF TypeOK, Obj
<1>2. Shape' /\ \A q : Members(q)' = Members(q) /\ From(q)' = From(q)
  BY <1>1, SameLists DEF White, TypeOK
<1>3. Placed'
  BY <1>1, <1>2, ListFacts, Addresses DEF Placed, White, Pointer, List, TypeOK
<1>4. Phases' /\ SweepAt'
  BY <1>1, <1>2, Addresses DEF Phases, SweepAt, White, TypeOK, IsSweepPhase, SweepState, Pointer
<1>5. Checked'
  <2>1. o \in Members("allgc")
    BY <1>1, Addresses DEF Shape, Placed, List
  <2>2. sweepgc = o => IsSweepPhase
    BY <1>1, Addresses DEF Phases, IsSweepPhase, Pointer
  <2>3. QED BY <1>1, <1>2, <2>1, <2>2 DEF Checked, White, TypeOK, IsSweepPhase
<1>6. Separating' /\ Marked'
  BY <1>1, <1>2 DEF Separating, Marked
<1>7. DeadAhead'
  BY <1>1, <1>2 DEF DeadAhead, White, TypeOK
<1>8. SweptInv => SweptInv'
  BY <1>1, <1>2 DEF SweptInv, Allocated, Unswept, White, TypeOK
<1>9. QED BY <1>1, <1>2, <1>3, <1>4, <1>5, <1>6, <1>7, <1>8

LEMMA StartCycleInv ==
  ASSUME ListsAssumption, ListsInv, StartCycle
  PROVE  ListsInv' /\ (SweptInv => SweptInv')
<1> USE DEF ListsInv, StartCycle, loops, phases, marks
<1>1. TypeOK'
  BY DEF TypeOK, GCState
<1>2. Shape' /\ \A q : Members(q)' = Members(q) /\ From(q)' = From(q)
  BY SameLists
<1>3. Placed' /\ Phases' /\ SweepAt'
  BY <1>2 DEF Placed, Phases, SweepAt, SweepState
<1>4. Checked' /\ Separating' /\ Marked'
  BY <1>2 DEF Checked, Separating, Marked
<1>5. DeadAhead' /\ SweptInv'
  BY <1>2 DEF DeadAhead, IsDead, OtherWhite, SweptInv
<1>6. QED BY <1>1, <1>2, <1>3, <1>4, <1>5

\* separatetobefnz starts at the head of finobj and at the end of tobefnz.
LEMMA SeparateStarts ==
  ASSUME ListsAssumption, TypeOK, Shape
  PROVE  /\ FindLast("tobefnz") \in From("tobefnz") /\ link[FindLast("tobefnz")] = NULL
         /\ FindLast("tobefnz") \in Pointer
<1>1. "tobefnz" \in List /\ "tobefnz" \in Pointer
  BY DEF List, Pointer
<1>2. \E q \in {"tobefnz"} \cup Members("tobefnz") : link[q] = NULL
  BY <1>1, ListFacts, LastExists DEF Members, Shape
<1>3. FindLast("tobefnz") \in {"tobefnz"} \cup Members("tobefnz") /\ link[FindLast("tobefnz")] = NULL
  BY <1>2 DEF FindLast
<1>4. Members("tobefnz") \subseteq Pointer
  BY <1>1, ListFacts DEF Pointer
<1>5. QED BY <1>1, <1>3, <1>4 DEF From

LEMMA AtomicMarkInv ==
  ASSUME ListsAssumption, ListsInv, NEW S \in SUBSET Obj, AtomicMark(S)
  PROVE  ListsInv' /\ (SweptInv => SweptInv')
<1> USE DEF ListsInv, AtomicMark, SeparateToBeFnz, phases
<1>1. TypeOK' /\ \A x \in Obj : marked'[x] = IF x \in S THEN "black" ELSE marked[x]
  BY SeparateStarts DEF TypeOK, GCState, Pointer, List
<1>2. Shape' /\ \A q : Members(q)' = Members(q) /\ From(q)' = From(q)
  BY <1>1, SameLists DEF White
<1>3. Placed'
  BY <1>1, <1>2, ListFacts DEF Placed, White, Pointer, List
<1>4. Phases' /\ SweepAt'
  BY <1>1, <1>2 DEF Phases, SweepAt, SweepState
<1>5. Checked' /\ Separating'
  BY <1>1, <1>2, SeparateStarts DEF Checked, Separating, From
<1>6. Marked'
  BY <1>1, <1>2 DEF Marked
<1>7. DeadAhead' /\ SweptInv'
  BY <1>1, <1>2 DEF DeadAhead, IsDead, OtherWhite, SweptInv
<1>8. QED BY <1>1, <1>2, <1>3, <1>4, <1>5, <1>6, <1>7

\* At the end of the atomic phase what is not marked is in allgc.
LEMMA AtomicFlipInv ==
  ASSUME ListsAssumption, ListsInv, NEW S \in SUBSET Obj, AtomicFlip(S)
  PROVE  ListsInv' /\ SweptInv'
<1> USE DEF ListsInv, AtomicFlip, EnterSweep, phases, marks
<1>0. Members("tobefnz") \subseteq Obj /\ "allgc" \in Pointer /\ "allgc" \in List
  BY ListFacts DEF Pointer, List
<1>1. /\ TypeOK'
      /\ \A x \in Obj : marked'[x] = IF x \in S \cup Members("tobefnz") THEN "black" ELSE marked[x]
  <2>1. overtaken' \in BOOLEAN
    OBVIOUS
  <2>2. QED BY <1>0, <2>1 DEF TypeOK, GCState, SweepState, OtherWhite, White, ListsAssumption
<1>2. Shape' /\ \A q : Members(q)' = Members(q) /\ From(q)' = From(q)
  <2>1. \A o \in Obj : marked'[o] = "free" <=> marked[o] = "free"
    BY <1>1, ListFacts DEF White, List
  <2>2. QED BY <2>1, SameLists
<1>3. Placed'
  BY <1>1, <1>2, ListFacts DEF Placed, White, Pointer, List
<1>4. Phases' /\ SweepAt'
  <2>1. "allgc" \notin Members("fixedgc") /\ "allgc" \notin Obj /\ "allgc" # NULL
    BY <1>0, ListFacts, Addresses DEF Pointer, List
  <2>2. QED BY <1>1, <1>2, <2>1 DEF Phases, SweepAt, SweepState, From
<1>5. Checked' /\ Separating'
  BY <1>1, <1>2 DEF Checked, Separating
<1>6. p \in Pointer /\ Members(p) = {}
  BY ListFacts DEF TypeOK
<1>7. Marked'
  BY <1>1, <1>2, <1>6 DEF Marked
<1>8. DeadAhead'
  <2> SUFFICES ASSUME NEW o \in Obj, marked'[o] = OtherWhite', closing # "closed"
               PROVE  o \in Members("allgc")
    BY <1>0, <1>2, Addresses DEF DeadAhead, IsDead, Pointer
  <2>1. marked'[o] = currentwhite /\ currentwhite \in White
    BY DEF OtherWhite, TypeOK, White
  <2>2. marked[o] = currentwhite /\ o \notin Members("tobefnz")
    BY <1>1, <2>1 DEF White
  <2>3. o \notin Members("finobj")
    BY <1>6, <2>1, <2>2 DEF Separating
  <2>4. o \notin Members("fixedgc")
    BY <2>1, <2>2 DEF Placed, White
  <2>5. QED BY <2>1, <2>2, <2>3, <2>4 DEF Shape, White, List
<1>9. SweptInv'
  <2>1. \A o \in Obj : marked'[o] # "free" => \E l \in List : o \in Members(l)
    BY <1>2 DEF Shape
  <2>2. Unswept' = Members("finobj") \cup Members("tobefnz") \cup Members("allgc")
    BY <1>0, <1>2, Addresses DEF Unswept, Pointer
  <2>3. QED BY <1>2, <2>1, <2>2 DEF SweptInv, Allocated, List
<1>10. QED BY <1>1, <1>2, <1>3, <1>4, <1>5, <1>7, <1>8, <1>9

LEMMA EnterSweepEndInv ==
  ASSUME ListsAssumption, ListsInv, EnterSweepEnd
  PROVE  ListsInv' /\ (SweptInv => SweptInv')
<1> USE DEF ListsInv, EnterSweepEnd, phases, marks
<1>1. TypeOK'
  BY DEF TypeOK
<1>2. Shape' /\ \A q : Members(q)' = Members(q) /\ From(q)' = From(q)
  BY SameLists
<1>3. Placed' /\ Phases' /\ SweepAt'
  BY <1>2 DEF Placed, Phases, SweepAt
<1>4. Checked' /\ Separating' /\ Marked'
  BY <1>2 DEF Checked, Separating, Marked
<1>5. sweepgc' = NULL => Members(sweepgc) = {}
  BY ListFacts DEF TypeOK, Phases
<1>6. DeadAhead'
  BY <1>2, <1>5 DEF DeadAhead, IsDead, OtherWhite
<1>7. SweptInv => SweptInv'
  BY <1>2, <1>5 DEF SweptInv, Allocated, Unswept, Phases
<1>8. QED BY <1>1, <1>2, <1>3, <1>4, <1>6, <1>7

LEMMA SweepStepInv ==
  ASSUME ListsAssumption, ListsInv, SweepStep
  PROVE  ListsInv' /\ (SweptInv => SweptInv')
<1> USE DEF ListsInv, SweepStep, phases, marks
<1>1. TypeOK'
  BY DEF TypeOK, ListsAssumption
<1>2. Shape' /\ \A q : Members(q)' = Members(q) /\ From(q)' = From(q)
  BY SameLists
<1>3. Placed' /\ Phases' /\ SweepAt'
  BY <1>2 DEF Placed, Phases, SweepAt, SweepState
<1>4. Checked' /\ Separating' /\ Marked'
  BY <1>2 DEF Checked, Separating, Marked
<1>5. DeadAhead' /\ (SweptInv => SweptInv')
  BY <1>2 DEF DeadAhead, IsDead, OtherWhite, SweptInv, Allocated, Unswept
<1>6. QED BY <1>1, <1>2, <1>3, <1>4, <1>5

\* The next list is swept when nothing is left of the last one.
LEMMA SweepStepEndInv ==
  ASSUME ListsAssumption, ListsInv, SweepStepEnd
  PROVE  ListsInv' /\ (SweptInv => SweptInv')
<1> USE DEF ListsInv, SweepStepEnd, phases, marks
<1> DEFINE rest == IF sweepgc = NULL THEN NULL ELSE link[sweepgc]
<1>0. "finobj" \in Pointer /\ "tobefnz" \in Pointer /\ "fixedgc" \in Pointer
  BY DEF Pointer, List
<1>1. CASE rest # NULL
  <2>1. /\ UNCHANGED <<link, marked, finalized, currentwhite, sweepgc, gcstate, p, lastnext, target,
                       closing, opening, younger, late, overtaken>>
        /\ pc' = "idle" /\ count' = count /\ emergency' = emergency
    BY <1>1
  <2>2. TypeOK'
    BY <2>1 DEF TypeOK
  <2>3. Shape' /\ \A q : Members(q)' = Members(q) /\ From(q)' = From(q)
    BY <2>1, SameLists
  <2>4. Placed' /\ Phases' /\ SweepAt'
    BY <2>1, <2>3 DEF Placed, Phases, SweepAt
  <2>5. Checked' /\ Separating' /\ Marked'
    BY <2>1, <2>3 DEF Checked, Separating, Marked
  <2>6. pc # "separate"
    BY <1>1
  <2>7. DeadAhead' /\ (SweptInv => SweptInv')
    BY <2>1, <2>3, <2>6 DEF DeadAhead, IsDead, OtherWhite, SweptInv, Allocated, Unswept
  <2>8. QED BY <2>2, <2>3, <2>4, <2>5, <2>7
<1>2. CASE rest = NULL
  <2>1. /\ UNCHANGED <<link, marked, finalized, currentwhite, p, lastnext, target, count,
                       emergency, closing, opening, younger, late, overtaken>>
        /\ pc' = "idle" /\ pc \in {"idle", "sweep"}
        /\ gcstate' = NextSweep(gcstate).state /\ sweepgc' = NextSweep(gcstate).list
    BY <1>2
  <2>2. \/ gcstate = "GCSswpallgc" /\ gcstate' = "GCSswpfinobj" /\ sweepgc' = "finobj"
        \/ gcstate = "GCSswpfinobj" /\ gcstate' = "GCSswptobefnz" /\ sweepgc' = "tobefnz"
        \/ gcstate = "GCSswptobefnz" /\ gcstate' = "GCSswpend" /\ sweepgc' = NULL
    BY <2>1 DEF NextSweep, SweepState
  <2>3. sweepgc # NULL => Members(sweepgc) = {}
    BY <1>2, ListFacts DEF TypeOK
  <2> HIDE DEF SweepStepEnd
  <2>4. TypeOK'
    BY <1>0, <2>1, <2>2 DEF TypeOK, GCState, SweepState
  <2>5. Shape' /\ \A q : Members(q)' = Members(q) /\ From(q)' = From(q)
    BY <2>1, SameLists
  <2>6. Placed' /\ Phases'
    BY <2>1, <2>2, <2>5 DEF Placed, Phases, SweepState
  <2>7. SweepAt'
    <3>1. sweepgc' \in List => sweepgc' \notin Obj /\ sweepgc' \notin Members("fixedgc")
      BY <1>0, ListFacts, Addresses
    <3>2. sweepgc' # NULL => sweepgc' \in List
      BY <2>2 DEF List
    <3>3. QED BY <2>1, <2>2, <2>5, <3>1, <3>2 DEF SweepAt
  <2>8. Checked' /\ Separating' /\ Marked'
    BY <2>1, <2>5 DEF Checked, Separating, Marked
  <2>9. DeadAhead'
    BY <2>1, <2>2, <2>3 DEF DeadAhead, IsDead, OtherWhite
  <2>10. SweptInv => SweptInv'
    <3>1. "finobj" # NULL /\ "tobefnz" # NULL
      BY <1>0, Addresses
    <3>2. QED BY <2>1, <2>2, <2>3, <2>5, <3>1 DEF SweptInv, Allocated, Unswept, From
  <2>11. QED BY <2>4, <2>5, <2>6, <2>7, <2>8, <2>9, <2>10
<1>3. QED BY <1>1, <1>2

LEMMA SweepEndInv ==
  ASSUME ListsAssumption, ListsInv, SweepEnd
  PROVE  ListsInv' /\ (SweptInv => SweptInv')
<1> USE DEF ListsInv, SweepEnd, loops, phases, marks
<1>1. TypeOK'
  BY DEF TypeOK, GCState
<1>2. Shape' /\ \A q : Members(q)' = Members(q) /\ From(q)' = From(q)
  BY SameLists
<1>3. Placed' /\ Phases' /\ SweepAt'
  BY <1>2 DEF Placed, Phases, SweepAt, SweepState
<1>4. Checked' /\ Separating' /\ Marked'
  BY <1>2 DEF Checked, Separating, Marked
<1>5. DeadAhead' /\ (SweptInv => SweptInv')
  BY <1>2 DEF DeadAhead, IsDead, OtherWhite, SweptInv, Allocated, Unswept
<1>6. QED BY <1>1, <1>2, <1>3, <1>4, <1>5

LEMMA CallFinEndInv ==
  ASSUME ListsAssumption, ListsInv, CallFinEnd
  PROVE  ListsInv' /\ (SweptInv => SweptInv')
<1> USE DEF ListsInv, CallFinEnd, loops, marks
<1>1. TypeOK'
  BY DEF TypeOK, GCState
<1>2. Shape' /\ \A q : Members(q)' = Members(q) /\ From(q)' = From(q)
  BY SameLists
<1>3. Placed' /\ Phases' /\ SweepAt'
  BY <1>2 DEF Placed, Phases, SweepAt, SweepState
<1>4. Checked' /\ Separating' /\ Marked'
  BY <1>2 DEF Checked, Separating, Marked
<1>5. DeadAhead' /\ (SweptInv => SweptInv')
  BY <1>2 DEF DeadAhead, IsDead, OtherWhite, SweptInv, Allocated, Unswept
<1>6. QED BY <1>1, <1>2, <1>3, <1>4, <1>5

LEMMA FullGCInv ==
  ASSUME ListsAssumption, ListsInv, NEW isemergency \in BOOLEAN, FullGC(isemergency)
  PROVE  /\ ListsInv' /\ (SweptInv => SweptInv')
         /\ gcstate = "GCSpropagate" => SweptInv'
<1> USE DEF ListsInv, FullGC, Running, EnterSweep, loops, marks
<1>0. "allgc" \in Pointer /\ "allgc" \in List /\ "allgc" # NULL /\ "allgc" \notin Obj
  BY Addresses DEF Pointer, List
<1>1. TypeOK'
  <2>1. overtaken' \in BOOLEAN
    BY DEF TypeOK
  <2>2. QED BY <1>0, <2>1 DEF TypeOK, GCState, SweepState, ListsAssumption
<1>2. Shape' /\ \A q : Members(q)' = Members(q) /\ From(q)' = From(q)
  BY SameLists
<1>3. Placed' /\ Phases'
  BY <1>0, <1>2 DEF Placed, Phases, SweepState
<1>4. SweepAt'
  BY <1>0, <1>2, ListFacts DEF SweepAt, From, Pointer, List
<1>5. Checked' /\ Separating' /\ Marked'
  BY <1>2 DEF Checked, Separating, Marked
<1>6. DeadAhead'
  BY <1>2 DEF DeadAhead, IsDead, OtherWhite
<1>7. (SweptInv => SweptInv') /\ (gcstate = "GCSpropagate" => SweptInv')
  <2>1. CASE gcstate = "GCSpropagate"
    <3>1. \A o \in Obj : marked'[o] # "free" => \E l \in List : o \in Members(l)
      BY <1>2 DEF Shape
    <3>2. Unswept' = Members("finobj") \cup Members("tobefnz") \cup Members("allgc")
      BY <1>0, <1>2, <2>1 DEF Unswept
    <3>3. QED BY <1>2, <2>1, <3>1, <3>2 DEF SweptInv, Allocated, List
  <2>2. CASE gcstate # "GCSpropagate"
    BY <1>2, <2>2 DEF SweptInv, Allocated, Unswept
  <2>3. QED BY <2>1, <2>2
<1>8. QED BY <1>1, <1>2, <1>3, <1>4, <1>5, <1>6, <1>7

LEMMA OpenedInv ==
  ASSUME ListsAssumption, ListsInv, Opened
  PROVE  ListsInv' /\ (SweptInv => SweptInv')
<1> USE DEF ListsInv, Opened, Running, loops, marks
<1>1. TypeOK'
  BY DEF TypeOK
<1>2. Shape' /\ \A q : Members(q)' = Members(q) /\ From(q)' = From(q)
  BY SameLists
<1>3. Placed' /\ Phases' /\ SweepAt'
  BY <1>2 DEF Placed, Phases, SweepAt
<1>4. Checked' /\ Separating' /\ Marked'
  BY <1>2 DEF Checked, Separating, Marked
<1>5. DeadAhead' /\ (SweptInv => SweptInv')
  BY <1>2 DEF DeadAhead, IsDead, OtherWhite, SweptInv, Allocated, Unswept
<1>6. QED BY <1>1, <1>2, <1>3, <1>4, <1>5

LEMMA CloseInv ==
  ASSUME ListsAssumption, ListsInv, Close
  PROVE  ListsInv' /\ (SweptInv => SweptInv')
<1> USE DEF ListsInv, Close, Running, SeparateToBeFnz, marks
<1>1. TypeOK'
  BY SeparateStarts DEF TypeOK, Pointer, List
<1>2. Shape' /\ \A q : Members(q)' = Members(q) /\ From(q)' = From(q)
  BY SameLists
<1>3. Placed' /\ Phases' /\ SweepAt'
  BY <1>2 DEF Placed, Phases, SweepAt
<1>4. Checked' /\ Separating' /\ Marked'
  <2>1. Checked' /\ Separating'
    BY <1>2, SeparateStarts DEF Checked, Separating, From, Phases
  <2>2. gcstate # "GCSinsideatomic"
    BY DEF Phases, Running
  <2>3. Marked'
    BY <1>2, <2>2 DEF Marked
  <2>4. QED BY <2>1, <2>3
<1>5. DeadAhead' /\ (SweptInv => SweptInv')
  BY <1>2 DEF DeadAhead, IsDead, OtherWhite, SweptInv, Allocated, Unswept
<1>6. QED BY <1>1, <1>2, <1>3, <1>4, <1>5

LEMMA CloseSeparatedInv ==
  ASSUME ListsAssumption, ListsInv, CloseSeparated
  PROVE  ListsInv' /\ (SweptInv => SweptInv')
<1> USE DEF ListsInv, CloseSeparated, phases, marks
<1>1. TypeOK'
  BY DEF TypeOK
<1>2. Shape' /\ \A q : Members(q)' = Members(q) /\ From(q)' = From(q)
  BY SameLists
<1>3. p = "finobj" /\ p \in Pointer /\ Members("finobj") = {}
  BY ListFacts DEF Phases, TypeOK
<1>4. Placed' /\ Phases' /\ SweepAt'
  BY <1>2 DEF Placed, Phases, SweepAt
<1>5. Checked' /\ Separating' /\ Marked'
  BY <1>2, <1>3 DEF Checked, Separating, Marked, Phases
<1>6. DeadAhead' /\ (SweptInv => SweptInv')
  BY <1>2, <1>3 DEF DeadAhead, IsDead, OtherWhite, SweptInv, Allocated, Unswept
<1>7. QED BY <1>1, <1>2, <1>3, <1>4, <1>5, <1>6

LEMMA StutterInv ==
  ASSUME ListsAssumption, ListsInv, UNCHANGED vars
  PROVE  ListsInv' /\ (SweptInv => SweptInv')
<1> USE DEF ListsInv, vars, loops, phases, marks
<1>1. TypeOK'
  BY DEF TypeOK
<1>2. Shape' /\ \A q : Members(q)' = Members(q) /\ From(q)' = From(q)
  BY SameLists
<1>3. Placed' /\ Phases' /\ SweepAt'
  BY <1>2 DEF Placed, Phases, SweepAt
<1>4. Checked' /\ Separating' /\ Marked'
  BY <1>2 DEF Checked, Separating, Marked, OtherWhite, IsSweepPhase
<1>5. DeadAhead' /\ (SweptInv => SweptInv')
  BY <1>2 DEF DeadAhead, IsDead, OtherWhite, SweptInv, Allocated, Unswept
<1>6. QED BY <1>1, <1>2, <1>3, <1>4, <1>5

(***************************************************************************)
(* Steps that change the lists                                             *)
(***************************************************************************)
\* A pointer that is there is a head or a field of an object of a list.
LEMMA Holder ==
  ASSUME ListsAssumption, TypeOK, Shape, NEW q \in Pointer, q \in Obj => marked[q] # "free"
  PROVE  \E l \in List : q \in From(l) /\ (link[q] # NULL => link[q] \in Members(l))
<1>1. CASE q \in List
  <2>1. q \in From(q) /\ (link[q] # NULL => link[q] \in Members(q))
    BY <1>1, ListFacts DEF From
  <2>2. QED BY <1>1, <2>1
<1>2. CASE q \in Obj
  <2>1. PICK l \in List : q \in Members(l)
    BY <1>2 DEF Shape
  <2>2. Members(q) \subseteq Members(l) /\ (link[q] # NULL => link[q] \in Members(q))
    BY <1>2, <2>1, ListFacts
  <2>3. QED BY <2>1, <2>2 DEF From
<1>3. QED BY <1>1, <1>2 DEF Pointer

LEMMA NewShape ==
  ASSUME ListsAssumption, TypeOK, Shape, NEW o \in Obj, marked[o] = "free",
         link' = Inserted(link, "allgc", o),
         \A x \in Obj : marked'[x] = IF x = o THEN currentwhite ELSE marked[x]
  PROVE  /\ link' \in LinkFn /\ Shape'
         /\ Members("allgc")' = Members("allgc") \cup {o}
         /\ \A x \in Pointer \ {o, "allgc"} : Members(x)' = Members(x)
<1>1. "allgc" \in List /\ "allgc" \in Pointer /\ "allgc" \notin Obj
  BY Addresses DEF List, Pointer
<1>2. link \in LinkFn /\ Injective(link) /\ link[o] = NULL
  BY DEF Shape, TypeOK, LinkFn
<1>3. ASSUME NEW x \in Pointer, link[x] = o
      PROVE  FALSE
  <2>1. x \in Obj => marked[x] # "free"
    BY <1>3, Addresses DEF Shape, Pointer
  <2>2. \E l \in List : link[x] \in Members(l)
    BY <1>3, <2>1, Holder, Addresses DEF Pointer
  <2>3. QED BY <1>3, <2>2 DEF Shape
<1>4. "allgc" # o /\ "allgc" \notin Members("allgc")
  BY <1>1, ListFacts
<1>5. /\ link' \in LinkFn /\ Injective(link')
      /\ \A x \in Pointer : x # o =>
           Reach(link', x) = IF x = "allgc" \/ "allgc" \in Reach(link, x)
                             THEN Reach(link, x) \cup {o} ELSE Reach(link, x)
  <2>1. \A x \in Pointer : link[x] # o
    BY <1>3
  <2>2. Reach(link, "allgc") = Members("allgc")
    BY DEF Members
  <2>3. QED BY <1>1, <1>2, <1>4, <2>1, <2>2, InsertedMeets
<1>6. \A x \in Pointer : Reach(link, x) = Members(x) /\ Reach(link', x) = Members(x)'
  BY DEF Members
<1>7. /\ Members("allgc")' = Members("allgc") \cup {o}
      /\ \A x \in Pointer \ {o, "allgc"} : Members(x)' = Members(x)
  BY <1>1, <1>4, <1>5, <1>6, ListFacts
<1>8. \A x \in Obj : marked'[x] = "free" => link'[x] = NULL
  BY <1>1, <1>2 DEF Inserted, LinkFn, Shape, Pointer, TypeOK, White
<1>9. ASSUME NEW x \in Obj
      PROVE  marked'[x] # "free" <=> \E l \in List : x \in Members(l)'
  <2>1. \A l \in List \ {"allgc"} : Members(l)' = Members(l)
    BY <1>7, Addresses DEF Pointer
  <2>2. QED BY <1>1, <1>7, <2>1 DEF Shape, TypeOK, White
<1>10. QED BY <1>5, <1>7, <1>8, <1>9 DEF Shape

LEMMA NewObjInv ==
  ASSUME ListsAssumption, ListsInv, NEW o \in Obj, NewObj(o)
  PROVE  ListsInv' /\ (SweptInv => SweptInv')
<1> USE DEF ListsInv, NewObj, Running, loops, phases, marks
<1>0. \A x \in Obj : marked'[x] = IF x = o THEN currentwhite ELSE marked[x]
  BY DEF TypeOK
<1>1. /\ link' \in LinkFn /\ Shape'
      /\ Members("allgc")' = Members("allgc") \cup {o}
      /\ \A x \in Pointer \ {o, "allgc"} : Members(x)' = Members(x)
  BY <1>0, NewShape DEF Inserted
<1>2. TypeOK'
  BY <1>1 DEF TypeOK, LinkFn
<1>3. "allgc" \in Pointer /\ \A l \in List \ {"allgc"} : l \in Pointer /\ Members(l)' = Members(l)
  BY <1>1, Addresses DEF Pointer, List
<1>4. \A x \in Obj : x # o => Members(x)' = Members(x)
  BY <1>1, Addresses DEF Pointer, List
<1>5. \A l \in List : o \notin Members(l)
  BY DEF Shape
<1>6. Placed'
  BY <1>0, <1>3, <1>5 DEF Placed, List
<1>7. Phases'
  BY DEF Phases
<1>8. SweepAt'
  BY <1>0, <1>1, <1>3, <1>5 DEF SweepAt, From, List, TypeOK, White
<1>9. Checked' /\ Separating'
  BY DEF Checked, Separating
<1>10. Marked'
  <2>1. finalized \subseteq Obj /\ o \notin finalized
    BY <1>5 DEF Placed, TypeOK, Obj, List
  <2>2. QED BY <1>4, <2>1 DEF Marked
<1>11. sweepgc # NULL /\ closing # "closed" => Members(sweepgc) \subseteq Members(sweepgc)'
  BY <1>1 DEF SweepAt, TypeOK, Pointer
<1>12. DeadAhead'
  BY <1>0, <1>11 DEF DeadAhead, IsDead, OtherWhite, TypeOK, White
<1>13. SweptInv => SweptInv'
  BY <1>0, <1>3, <1>11 DEF SweptInv, Allocated, Unswept, From, List
<1>14. QED BY <1>1, <1>2, <1>6, <1>7, <1>8, <1>9, <1>10, <1>12, <1>13

\* What the lists are after an object of list l was freed.
LEMMA FreedShape ==
  ASSUME ListsAssumption, TypeOK, Shape, NEW l \in List, NEW q \in From(l), NEW o \in Obj,
         link[q] = o, link' = Unlinked(link, q), marked' = [marked EXCEPT ![o] = "free"]
  PROVE  /\ link' \in LinkFn /\ Shape' /\ o \in Members(l)
         /\ \A x \in Pointer \ {o} : Members(x)' = Members(x) \ {o}
<1>1. link \in LinkFn /\ Injective(link) /\ l \in Pointer /\ q \in Pointer /\ o # NULL
  BY ListFacts, Addresses DEF Shape, From, Pointer
<1>2. o \in Members(l) /\ o \notin Members(o)
  BY <1>1, ListFacts, ReachStep DEF From, Members
<1>3. /\ link' \in LinkFn /\ Injective(link')
      /\ \A x \in Pointer : x # o => Reach(link', x) = Reach(link, x) \ {o}
  <2>1. o \notin Reach(link, o)
    BY <1>2 DEF Members
  <2>2. QED BY <1>1, <2>1, UnlinkedMeets
<1>4. \A x \in Pointer \ {o} : Members(x)' = Members(x) \ {o}
  BY <1>3 DEF Members
<1>5. \A x \in Obj : marked'[x] = IF x = o THEN "free" ELSE marked[x]
  BY DEF TypeOK
<1>6. \A x \in Obj : marked'[x] = "free" => link'[x] = NULL
  BY <1>1, <1>2, <1>5 DEF Unlinked, LinkFn, Shape, Pointer
<1>7. \A k \in List : Members(k)' = Members(k) \ {o}
  BY <1>4, Addresses DEF Pointer
<1>8. \A x \in Obj : marked'[x] # "free" <=> \E k \in List : x \in Members(k)'
  BY <1>2, <1>5, <1>7 DEF Shape
<1>9. QED BY <1>2, <1>3, <1>4, <1>6, <1>8 DEF Shape

\* The step of sweeplist, called by entersweep, sweepstep and sweeptolive.
LEMMA SweepObjectInv ==
  ASSUME ListsAssumption, ListsInv, pc \in {"enter", "sweep", "tolive"}, link[sweepgc] # NULL,
         SweepObject, count' \in 0..SweepMax,
         UNCHANGED <<finalized, currentwhite, gcstate, pc, p, lastnext, target, phases, marks>>
  PROVE  ListsInv' /\ (SweptInv => SweptInv')
<1> USE DEF ListsInv, phases, marks
<1> DEFINE curr == link[sweepgc]
<1>1. sweepgc \in Pointer /\ sweepgc # NULL /\ curr \in Obj
  BY DEF TypeOK, Phases
<1>2. PICK l \in List : sweepgc \in From(l) /\ curr \in Members(l)
  BY <1>1, Holder DEF Shape
<1>3. closing # "closed"
  BY <1>1, <1>2 DEF Placed, Shape
<1>4. l # "fixedgc"
  BY <1>1, <1>2, <1>3 DEF SweepAt, From
<1>5. Members(sweepgc) = {curr} \cup Members(curr) /\ curr \notin Members(curr)
  BY <1>1, <1>2, ListFacts
<1>6. gcstate \in SweepState \ {"GCSswpend"}
  BY <1>1 DEF Phases
<1>7. CASE IsDead(curr)
  <2>1. gcstate = "GCSswpallgc" /\ sweepgc \in From("allgc")
    BY <1>1, <1>3, <1>7 DEF DeadAhead, SweepAt
  <2>2. /\ link' = Unlinked(link, sweepgc) /\ marked' = [marked EXCEPT ![curr] = "free"]
        /\ sweepgc' = sweepgc
    BY <1>7 DEF SweepObject, Unlinked
  <2>3. "allgc" \in List
    BY DEF List
  <2> HIDE DEF curr
  <2>4. /\ link' \in LinkFn /\ Shape' /\ curr \in Members("allgc")
        /\ \A x \in Pointer \ {curr} : Members(x)' = Members(x) \ {curr}
    BY <1>1, <2>1, <2>2, <2>3, FreedShape DEF curr
  <2>5. \A x \in Obj : marked'[x] = IF x = curr THEN "free" ELSE marked[x]
    BY <2>2 DEF TypeOK
  <2>6. TypeOK'
    BY <1>1, <2>2, <2>4 DEF TypeOK, LinkFn
  <2>7. \A k \in List : Members(k)' = Members(k) \ {curr} /\ (k # "allgc" => curr \notin Members(k))
    BY <1>1, <2>3, <2>4, ListFacts, Addresses DEF Pointer
  <2>8. \A k \in List \ {"allgc"} : Members(k)' = Members(k)
    BY <2>7
  <2>9. Placed'
    BY <1>3, <2>5, <2>7, <2>8 DEF Placed, List, Obj
  <2>10. Phases'
    BY <2>2 DEF Phases
  <2>11. sweepgc # curr
    BY <1>2, <1>5, <2>1, ListFacts DEF curr, From
  <2>12. SweepAt'
    BY <2>1, <2>2, <2>5, <2>7, <2>8, <2>11 DEF SweepAt, From, List
  <2>13. Checked'
    BY <1>7, <2>2, <2>3, <2>5, <2>7 DEF Checked, IsDead, OtherWhite, IsSweepPhase, Obj
  <2>14. Separating'
    BY DEF Separating
  <2>15. Marked'
    <3>1. finalized \subseteq Obj /\ curr \notin finalized
      BY <1>3, <2>7 DEF Placed, TypeOK, Obj, List
    <3>2. \A x \in Obj \ {curr} : Members(x)' = Members(x) \ {curr}
      BY <2>4 DEF Pointer
    <3>3. QED BY <3>1, <3>2 DEF Marked
  <2>16. Members(sweepgc)' = Members(sweepgc) \ {curr}
    BY <1>1, <2>2, <2>4, <2>11
  <2>17. DeadAhead'
    BY <1>3, <2>1, <2>2, <2>5, <2>16 DEF DeadAhead, IsDead, OtherWhite, TypeOK, White
  <2>18. SweptInv => SweptInv'
    BY <2>1, <2>2, <2>5, <2>8, <2>16 DEF SweptInv, Allocated, Unswept, List
  <2>19. QED BY <2>4, <2>6, <2>9, <2>10, <2>12, <2>13, <2>14, <2>15, <2>17, <2>18
<1>8. CASE ~IsDead(curr)
  <2>1. link' = link /\ marked' = [marked EXCEPT ![curr] = currentwhite] /\ sweepgc' = curr
    BY <1>8 DEF SweepObject
  <2> HIDE DEF curr
  <2>2. /\ TypeOK'
        /\ \A x \in Obj : marked'[x] = IF x = curr THEN currentwhite ELSE marked[x]
    BY <1>1, <2>1 DEF TypeOK, Pointer
  <2>3. marked[curr] # "free"
    BY <1>1, <1>2 DEF Shape
  <2>4. Shape' /\ \A q : Members(q)' = Members(q) /\ From(q)' = From(q)
    BY <2>1, <2>2, <2>3, SameLists DEF TypeOK, White
  <2>5. curr \notin Members("fixedgc") /\ curr # "fixedgc" /\ curr # NULL
    BY <1>1, <1>2, <1>4, ListFacts, Addresses DEF List, Pointer
  <2>6. Placed'
    BY <1>3, <2>2, <2>4, <2>5 DEF Placed, Obj
  <2>7. Phases'
    BY <1>6, <2>1, <2>5 DEF Phases
  <2>8. \A k \in List : sweepgc \in From(k) => curr \in Members(k)
    <3>1. ASSUME NEW k \in List, sweepgc \in From(k)
          PROVE  curr \in Members(k)
      <4>1. Members(sweepgc) \subseteq Members(k)
        BY <3>1, ListFacts DEF From, Pointer
      <4>2. QED BY <4>1, <1>5
    <3>2. QED BY <3>1
  <2>9. SweepAt'
    BY <1>1, <1>3, <2>1, <2>2, <2>3, <2>4, <2>5, <2>8 DEF SweepAt, From, List, TypeOK, White
  <2>10. Checked'
    BY <2>1, <2>2, <2>4 DEF Checked, OtherWhite, IsSweepPhase, TypeOK, White
  <2>11. Separating' /\ Marked'
    BY <2>1, <2>4 DEF Separating, Marked
  <2>12. DeadAhead'
    BY <1>1, <1>5, <1>8, <2>1, <2>2, <2>4, <2>5 DEF DeadAhead, IsDead, OtherWhite, TypeOK, White
  <2>13. SweptInv => SweptInv'
    <3>1. sweepgc' # NULL /\ Members(sweepgc)' = Members(curr)
      BY <2>1, <2>4, <2>5
    <3>2. pc # "separate"
      OBVIOUS
    <3>3. gcstate = "GCSswptobefnz" /\ SweptInv => sweepgc' \in From("tobefnz")'
      BY <1>1, <1>3, <2>1, <2>4, <2>8 DEF SweptInv, From, List
    <3>4. QED BY <1>1, <1>5, <2>2, <2>4, <3>1, <3>2, <3>3 DEF SweptInv, Allocated, Unswept
  <2>14. QED BY <2>2, <2>4, <2>6, <2>7, <2>9, <2>10, <2>11, <2>12, <2>13
<1>9. QED BY <1>7, <1>8

LEMMA SweepLoopInv ==
  ASSUME ListsAssumption, ListsInv, SweepLoop
  PROVE  ListsInv' /\ (SweptInv => SweptInv')
<1>1. count' \in 0..SweepMax
  BY DEF SweepLoop, ListsInv, TypeOK, ListsAssumption
<1>2. QED BY <1>1, SweepObjectInv DEF SweepLoop

LEMMA SweepToLiveInv ==
  ASSUME ListsAssumption, ListsInv, SweepToLive
  PROVE  ListsInv' /\ (SweptInv => SweptInv')
<1>1. CASE /\ sweepgc = target /\ link[target] # NULL /\ SweepObject /\ pc' = pc
  BY <1>1, SweepObjectInv DEF SweepToLive, ListsInv, TypeOK
<1>2. CASE /\ sweepgc # target \/ link[target] = NULL
           /\ sweepgc' = IF link[sweepgc] = NULL THEN NULL ELSE sweepgc
           /\ pc' = "relink" /\ UNCHANGED <<link, marked>>
  <2> USE <1>2 DEF ListsInv, SweepToLive, phases, marks
  <2>1. TypeOK'
    BY DEF TypeOK
  <2>2. Shape' /\ \A q : Members(q)' = Members(q) /\ From(q)' = From(q)
    BY SameLists
  <2>3. Placed' /\ Phases' /\ SweepAt'
    BY <2>2 DEF Placed, Phases, SweepAt
  <2>4. Checked'
    BY <2>2, Addresses DEF Checked, OtherWhite, IsSweepPhase, TypeOK, Obj, Pointer
  <2>5. Separating' /\ Marked'
    BY <2>2 DEF Separating, Marked
  <2>6. sweepgc' = NULL => Members(sweepgc) = {}
    BY ListFacts DEF TypeOK, Phases
  <2>7. DeadAhead'
    BY <2>2, <2>6 DEF DeadAhead, IsDead, OtherWhite
  <2>8. SweptInv => SweptInv'
    BY <2>2, <2>6 DEF SweptInv, Allocated, Unswept, Phases
  <2>9. QED BY <2>1, <2>2, <2>3, <2>4, <2>5, <2>7, <2>8
<1>3. QED BY <1>1, <1>2 DEF SweepToLive

LEMMA FreeAllInv ==
  ASSUME ListsAssumption, ListsInv, FreeAll
  PROVE  ListsInv' /\ (SweptInv => SweptInv')
<1> USE DEF ListsInv, FreeAll, Running, loops, marks
<1> DEFINE freed == UNION {Members(l) : l \in {"finobj", "allgc", "fixedgc"}}
<1>1. Members("tobefnz") = {}
  BY ListFacts DEF Pointer, List
<1>2. \A o \in Obj : o \in freed <=> marked[o] # "free"
  BY <1>1 DEF Shape, List
<1>3. \A o \in Obj : marked'[o] = "free"
  BY <1>2
<1>4. link' = [q \in Pointer |-> NULL]
  <2>1. \A q \in Pointer : q \in freed \cup {"finobj", "allgc", "fixedgc"} \/ link[q] = NULL
    BY <1>2 DEF Pointer, List, Shape
  <2> HIDE DEF freed
  <2>2. link' = [q \in Pointer |-> IF q \in freed \cup {"finobj", "allgc", "fixedgc"}
                                   THEN NULL ELSE link[q]]
    BY DEF freed
  <2>3. QED BY <2>1, <2>2
<1>5. TypeOK'
  BY <1>4 DEF TypeOK
<1>6. \A q \in Pointer : Members(q)' = {}
  BY <1>4, ReachNull DEF Members
<1>7. Shape'
  <2>1. Injective(link') /\ \A o \in Obj : link'[o] = NULL
    BY <1>4 DEF Injective, Pointer
  <2>2. QED BY <1>3, <1>6, <2>1 DEF Shape, Pointer
<1>8. Placed'
  BY <1>3, <1>6 DEF Placed, Pointer, List
<1>9. Phases' /\ SweepAt' /\ Checked' /\ Separating' /\ Marked'
  BY DEF Phases, SweepAt, Checked, Separating, Marked
<1>10. DeadAhead' /\ SweptInv'
  BY <1>3 DEF DeadAhead, SweptInv, Allocated
<1>11. QED BY <1>5, <1>7, <1>8, <1>9, <1>10

\* What the lists are after the object after q in list l was put after r in list k.
LEMMA MovedShape ==
  ASSUME ListsAssumption, TypeOK, Shape, NEW l \in List, NEW k \in List, l # k,
         NEW q \in From(l), NEW r \in From(k), NEW o \in Obj, link[q] = o,
         link' = Moved(link, q, r),
         \A x \in Obj : marked'[x] = "free" <=> marked[x] = "free"
  PROVE  /\ link' \in LinkFn /\ Shape' /\ o \in Members(l)
         /\ Members(l)' = Members(l) \ {o} /\ Members(k)' = Members(k) \cup {o}
         /\ \A j \in List \ {l, k} : Members(j)' = Members(j)
         /\ \A x \in Pointer \ {o} : /\ Members(x) \ {o} \subseteq Members(x)'
                                     /\ x \notin From(k) => Members(x)' = Members(x) \ {o}
                                     /\ x = r \/ r \in Members(x) => o \in Members(x)'
                                     /\ x # r /\ r \notin Members(x) => Members(x)' = Members(x) \ {o}
         /\ Members(o)' = Members(r)
<1>1. /\ link \in LinkFn /\ Injective(link)
      /\ l \in Pointer /\ k \in Pointer /\ l \notin Obj /\ k \notin Obj
  BY ListFacts, Addresses DEF Shape, Pointer
<1>2. /\ link' \in LinkFn /\ Injective(link') /\ o \in Members(l)
      /\ \A x \in Pointer : x # o =>
           Members(x)' = IF x = r \/ r \in Members(x) THEN (Members(x) \ {o}) \cup {o}
                                                      ELSE Members(x) \ {o}
      /\ Members(o)' = Members(r)
  BY <1>1, MovedMeets DEF From, Members
<1>3. /\ \A x \in Pointer : Members(x) \subseteq Obj
      /\ \A j \in List, i \in List : i # j => Members(i) \cap Members(j) = {}
      /\ \A j \in List, x \in Obj : x \in Members(j) => Members(x) \subseteq Members(j)
  BY ListFacts
<1>4. o \notin Members(k) /\ r # o /\ q # o
  <2>1. q # o
    BY <1>1, <1>2, ListFacts, Addresses DEF Pointer
  <2>2. QED BY <1>1, <1>2, <1>3, <2>1 DEF From
<1>5. ASSUME NEW x \in Pointer, r \in Members(x)
      PROVE  x \in From(k)
  <2>1. r \in Members(k)
    BY <1>1, <1>3, <1>5 DEF From
  <2>2. CASE x \in List
    BY <1>3, <1>5, <2>1, <2>2 DEF From
  <2>3. CASE x \in Obj /\ marked[x] = "free"
    BY <1>5, <2>3, ListFacts DEF Shape
  <2>4. CASE x \in Obj /\ marked[x] # "free"
    <3>1. PICK j \in List : x \in Members(j)
      BY <2>4 DEF Shape
    <3>2. QED BY <1>3, <1>5, <2>1, <2>4, <3>1 DEF From
  <2>5. QED BY <2>2, <2>3, <2>4 DEF Pointer
<1>6. \A x \in Pointer \ {o} : /\ Members(x) \ {o} \subseteq Members(x)'
                               /\ x \notin From(k) => Members(x)' = Members(x) \ {o}
                               /\ x = r \/ r \in Members(x) => o \in Members(x)'
                               /\ x # r /\ r \notin Members(x) => Members(x)' = Members(x) \ {o}
  BY <1>2, <1>5
<1>7. Members(l)' = Members(l) \ {o}
  BY <1>1, <1>2, <1>3, <1>5 DEF From
<1>8. Members(k)' = Members(k) \cup {o}
  BY <1>1, <1>2, <1>4 DEF From
<1>9. ASSUME NEW j \in List \ {l, k}
      PROVE  Members(j)' = Members(j)
  <2>1. j \in Pointer /\ j # o /\ j \notin From(k) /\ o \notin Members(j)
    BY <1>1, <1>2, <1>3, Addresses DEF Pointer, From
  <2>2. QED BY <1>6, <2>1
<1>10. \A x \in Obj : marked'[x] = "free" => link'[x] = NULL
  <2>1. ASSUME NEW x \in Obj, marked[x] = "free"
        PROVE  link'[x] = NULL
    <3>1. x # o /\ x # q /\ x # r /\ link[x] = NULL
      BY <1>1, <1>2, <2>1 DEF Shape, From
    <3>2. x \in Pointer /\ link'[x] = link[x]
      BY <1>1, <3>1 DEF Moved, LinkFn, Pointer
    <3>3. QED BY <3>1, <3>2
  <2>2. QED BY <2>1
<1>11. \A x \in Obj : marked'[x] # "free" <=> \E j \in List : x \in Members(j)'
  BY <1>2, <1>7, <1>8, <1>9 DEF Shape
<1>12. QED BY <1>2, <1>6, <1>7, <1>8, <1>9, <1>10, <1>11 DEF Shape

LEMMA FixInv ==
  ASSUME ListsAssumption, ListsInv, NEW s \in Str, Fix(s)
  PROVE  ListsInv' /\ (SweptInv => SweptInv')
<1> USE DEF ListsInv, Fix, Running, loops, phases, marks
<1>1. /\ "allgc" \in List /\ "fixedgc" \in List /\ "allgc" \in From("allgc")
      /\ "fixedgc" \in From("fixedgc") /\ s \in Obj
  BY DEF List, From, Obj
<1>2. link' = Moved(link, "allgc", "fixedgc")
  BY DEF Moved
<1>0. /\ opening /\ link["allgc"] = s /\ pc = "idle"
      /\ UNCHANGED <<finalized, currentwhite, gcstate, sweepgc, loops, phases, marks>>
  OBVIOUS
<1>3. \A x \in Obj : marked'[x] = IF x = s THEN "black" ELSE marked[x]
  BY DEF TypeOK
<1>4. \A x \in Obj : marked'[x] = "free" <=> marked[x] = "free"
  <2>1. marked[s] # "free"
    BY <1>1, ListFacts, Addresses, ReachStep DEF Members, Shape, Pointer
  <2>2. QED BY <1>3, <2>1
<1> HIDE DEF Fix
<1>5. /\ link' \in LinkFn /\ Shape' /\ s \in Members("allgc")
      /\ Members("fixedgc")' = Members("fixedgc") \cup {s}
      /\ \A j \in List \ {"allgc", "fixedgc"} : Members(j)' = Members(j)
      /\ \A x \in Pointer \ {s} : Members(x) \ {s} \subseteq Members(x)'
  BY <1>0, <1>1, <1>2, <1>4, MovedShape
<1>6. TypeOK'
  BY <1>0, <1>5 DEF TypeOK, LinkFn, Fix
<1>7. Placed'
  BY <1>0, <1>3, <1>5 DEF Placed, List, Phases, Obj
<1>8. Phases' /\ SweepAt' /\ Checked' /\ Separating'
  BY <1>0 DEF Phases, SweepAt, Checked, Separating, SweepState
<1>9. Marked'
  <2>1. finalized \subseteq Obj /\ s \notin finalized
    BY Addresses DEF TypeOK, Obj
  <2>2. \A x \in Obj \ {s} : Members(x) \ {s} \subseteq Members(x)'
    BY <1>0, <1>5 DEF Pointer
  <2>3. QED BY <1>0, <2>1, <2>2 DEF Marked
<1>10. DeadAhead'
  BY <1>0, <1>3 DEF DeadAhead, IsDead, OtherWhite, Phases
<1>11. SweptInv => SweptInv'
  BY <1>0, <1>3, <1>5 DEF SweptInv, Allocated, Unswept, Phases
<1>12. QED BY <1>5, <1>6, <1>7, <1>8, <1>9, <1>10, <1>11

LEMMA RelinkInv ==
  ASSUME ListsAssumption, ListsInv, Relink
  PROVE  ListsInv' /\ (SweptInv => SweptInv')
<1> USE DEF ListsInv, phases
<1> DEFINE q == CHOOSE x \in {"allgc"} \cup Members("allgc") : link[x] = target
<1>0. PICK o \in Obj : o = target
  BY DEF Relink, Checked, Obj
<1>1. /\ closing # "closed" /\ o \in Members("allgc") /\ o \in Udata \ finalized
      /\ marked[o] # OtherWhite /\ (IsSweepPhase => marked[o] = currentwhite)
      /\ sweepgc # o
  BY <1>0 DEF Relink, Checked
<1>2. /\ finalized' = finalized \cup {o}
      /\ younger' = younger \cup ({o} \X (Members("finobj") \cup Members("tobefnz")))
      /\ late' = late \cup ({o} \X Members("tobefnz"))
      /\ pc = "relink" /\ pc' = "idle" /\ target' = NULL
      /\ UNCHANGED <<marked, currentwhite, gcstate, sweepgc, p, lastnext, count, phases, overtaken>>
  BY <1>0 DEF Relink
<1>3. /\ "allgc" \in List /\ "finobj" \in List /\ "finobj" \in From("finobj") /\ "allgc" \in Pointer
      /\ "finobj" \in Pointer
  BY DEF List, From, Pointer
<1>4. q \in From("allgc") /\ link[q] = o
  <2>1. \E x \in {"allgc"} \cup Members("allgc") : link[x] = target
    <3>1. link \in LinkFn /\ o \in Reach(link, "allgc")
      BY <1>1, ListFacts DEF Members
    <3>2. \E x \in {"allgc"} \cup Reach(link, "allgc") : link[x] = o
      BY <1>3, <3>1, ReachPred
    <3>3. QED BY <1>0, <3>2 DEF Members
  <2>2. QED BY <1>0, <2>1 DEF From
<1>5. link' = Moved(link, q, "finobj")
  BY <1>0, <1>4 DEF Moved, Relink
<1> HIDE DEF q
<1>6. \A x \in Obj : marked'[x] = "free" <=> marked[x] = "free"
  BY <1>2
<1>7. /\ link' \in LinkFn /\ Shape'
      /\ Members("allgc")' = Members("allgc") \ {o}
      /\ Members("finobj")' = Members("finobj") \cup {o}
      /\ \A j \in List \ {"allgc", "finobj"} : Members(j)' = Members(j)
      /\ \A x \in Pointer \ {o} : Members(x) \ {o} \subseteq Members(x)'
      /\ Members(o)' = Members("finobj")
  BY <1>3, <1>4, <1>5, <1>6, MovedShape
<1>8. Members("finobj") \cup Members("tobefnz") = finalized /\ finalized \subseteq Udata
  BY <1>1 DEF Placed, TypeOK
<1>9. TypeOK'
  BY <1>1, <1>2, <1>7, <1>8 DEF TypeOK, LinkFn
<1>10. Placed'
  BY <1>1, <1>2, <1>7 DEF Placed, List
<1>11. Phases' /\ Checked' /\ Separating'
  BY <1>2 DEF Phases, Checked, Separating
<1>12. SweepAt'
  BY <1>1, <1>2, <1>7 DEF SweepAt, From, List
<1>13. Marked'
  <2>1. younger \subseteq finalized \X finalized
    BY DEF Marked
  <2>2. younger' \subseteq finalized' \X finalized'
    BY <1>2, <1>8, <2>1
  <2>3. ASSUME closing # "closed", NEW a \in Obj, NEW b \in Obj, <<a, b>> \in younger' \ late'
        PROVE  b \in Members(a)'
    <3>1. CASE <<a, b>> \in younger
      <4>1. <<a, b>> \in younger \ late /\ a # o /\ b # o
        BY <1>1, <1>2, <2>1, <2>3, <3>1
      <4>2. b \in Members(a)
        BY <1>2, <2>3, <4>1 DEF Marked
      <4>3. QED BY <1>7, <4>1, <4>2 DEF Pointer
    <3>2. CASE <<a, b>> \notin younger
      <4>1. a = o /\ b \in Members("finobj")
        BY <1>2, <2>3, <3>2
      <4>2. QED BY <1>7, <4>1
    <3>3. QED BY <3>1, <3>2
  <2>4. QED BY <1>2, <2>2, <2>3 DEF Marked
<1>14. sweepgc # NULL => Members(sweepgc) \ {o} \subseteq Members(sweepgc)'
  BY <1>1, <1>2, <1>7 DEF TypeOK
<1>15. DeadAhead'
  BY <1>1, <1>2, <1>14 DEF DeadAhead, IsDead, OtherWhite
<1>16. SweptInv => SweptInv'
  BY <1>1, <1>2, <1>7, <1>14 DEF SweptInv, Allocated, Unswept, From, List, IsSweepPhase, SweepState
<1>17. QED BY <1>7, <1>9, <1>10, <1>11, <1>12, <1>13, <1>15, <1>16

\* A finalizer call keeps SweptInv unless it overtakes the sweep of tobefnz.
LEMMA Udata2FinalizeInv ==
  ASSUME ListsAssumption, ListsInv, Udata2Finalize
  PROVE  ListsInv' /\ (SweptInv /\ ~Overtakes => SweptInv')
<1> USE DEF ListsInv, Udata2Finalize, loops, phases
<1> DEFINE o == link["tobefnz"]
<1>1. /\ "allgc" \in List /\ "tobefnz" \in List /\ "allgc" \in From("allgc")
      /\ "tobefnz" \in From("tobefnz") /\ "tobefnz" \in Pointer
  BY DEF List, From, Pointer
<1>2. o \in Obj /\ o \in Members("tobefnz")
  BY <1>1, ListFacts
<1>3. closing # "closed"
  BY <1>1, <1>2 DEF Placed, Shape
<1>4. link' = Moved(link, "tobefnz", "allgc")
  BY DEF Moved
<1>5. \A x \in Obj : marked'[x] = IF x = o /\ IsSweepPhase THEN currentwhite ELSE marked[x]
  BY DEF TypeOK
<1>6. \A x \in Obj : marked'[x] = "free" <=> marked[x] = "free"
  BY <1>1, <1>2, <1>5 DEF Shape, TypeOK, White
<1>7. /\ finalized' = finalized \ {o} /\ younger' = {e \in younger : o \notin {e[1], e[2]}}
      /\ late' = late \cap younger' /\ o \notin finalized'
      /\ UNCHANGED <<currentwhite, gcstate, sweepgc, pc, p, lastnext, count, target,
                     emergency, opening, closing>>
      /\ pc = "idle"
  OBVIOUS
<1>0. SweptInv /\ ~Overtakes /\ gcstate = "GCSswptobefnz" /\ sweepgc # NULL => sweepgc # o
  BY DEF Overtakes
<1> HIDE DEF o, Udata2Finalize
<1>8. /\ link' \in LinkFn /\ Shape'
      /\ Members("tobefnz")' = Members("tobefnz") \ {o}
      /\ Members("allgc")' = Members("allgc") \cup {o}
      /\ \A j \in List \ {"allgc", "tobefnz"} : Members(j)' = Members(j)
      /\ \A x \in Pointer \ {o} : Members(x) \ {o} \subseteq Members(x)'
  BY <1>1, <1>2, <1>4, <1>6, MovedShape DEF o
<1>9. TypeOK'
  BY <1>2, <1>5, <1>7, <1>8 DEF TypeOK, LinkFn, Udata2Finalize
<1>10. o \notin Members("finobj") /\ o \notin Members("fixedgc") /\ o \notin Members("allgc")
  BY <1>1, <1>2, ListFacts DEF List
<1>11. Placed'
  BY <1>3, <1>5, <1>7, <1>8, <1>10 DEF Placed, List, Obj
<1>12. Phases'
  BY <1>7 DEF Phases
<1>13. SweepAt'
  BY <1>3, <1>6, <1>7, <1>8, <1>10 DEF SweepAt, From, List
<1>14. Checked' /\ Separating'
  BY <1>7 DEF Checked, Separating
<1>15. Marked'
  <2>1. younger' \subseteq finalized' \X finalized'
    <3>1. ASSUME NEW e \in younger'
          PROVE  e \in finalized' \X finalized'
      BY <1>7 DEF Marked
    <3>2. QED BY <3>1
  <2>2. ASSUME closing # "closed", NEW a \in Obj, NEW b \in Obj, <<a, b>> \in younger' \ late'
        PROVE  b \in Members(a)'
    <3>1. <<a, b>> \in younger \ late /\ a # o /\ b # o
      BY <1>7, <2>2
    <3>2. b \in Members(a)
      BY <1>7, <2>2, <3>1 DEF Marked
    <3>3. QED BY <1>8, <3>1, <3>2 DEF Pointer
  <2>3. QED BY <1>7, <2>1, <2>2 DEF Marked
<1>16. sweepgc # NULL /\ sweepgc # o => Members(sweepgc) \ {o} \subseteq Members(sweepgc)'
  BY <1>7, <1>8 DEF TypeOK
<1>17. DeadAhead'
  <2> SUFFICES ASSUME NEW x \in Obj, IsDead(x)'
               PROVE  /\ gcstate = "GCSswpallgc" /\ sweepgc # NULL
                      /\ x \in Members(sweepgc)'
    BY <1>7 DEF DeadAhead
  <2>1. IsDead(x)
    BY <1>5, <1>7 DEF IsDead, OtherWhite, TypeOK, White
  <2>2. gcstate = "GCSswpallgc" /\ sweepgc # NULL /\ x \in Members(sweepgc) /\ sweepgc \in From("allgc")
    BY <1>3, <2>1 DEF DeadAhead, SweepAt
  <2>3. sweepgc # o /\ x # o
    BY <1>1, <1>2, <1>10, <2>2, ListFacts, Addresses DEF From, Pointer
  <2>4. QED BY <1>16, <2>2, <2>3
<1>18. ASSUME SweptInv, ~Overtakes
       PROVE  SweptInv'
  <2>1. Members(o) \subseteq Members("tobefnz") \ {o}
    BY <1>1, <1>2, ListFacts
  <2>2. gcstate = "GCSswptobefnz" /\ sweepgc # NULL => sweepgc # o
    BY <1>0, <1>18
  <2>3. gcstate = "GCSswpallgc" /\ sweepgc # NULL => sweepgc # o
    BY <1>2, <1>3, <1>10, Addresses DEF SweepAt, From, Pointer, List
  <2>4. ASSUME gcstate \notin {"GCSpropagate", "GCSinsideatomic"},
               NEW x \in Obj, marked'[x] # "free", x \notin Members("fixedgc"),
               marked'[x] # currentwhite
        PROVE  x \in Unswept'
    <3>1. x \in Unswept /\ x # o
      BY <1>5, <1>6, <1>7, <1>18, <2>4 DEF SweptInv, Allocated, IsSweepPhase, SweepState, Unswept
    <3>2. QED BY <1>7, <1>8, <1>10, <1>16, <2>1, <2>2, <2>3, <3>1 DEF Unswept, List
  <2>5. gcstate = "GCSswptobefnz" /\ sweepgc # NULL => sweepgc \in From("tobefnz")'
    BY <1>3, <1>8, <1>18, <2>2 DEF SweptInv, From
  <2>6. QED BY <1>7, <1>8, <2>4, <2>5 DEF SweptInv, Allocated, List
<1>19. QED BY <1>8, <1>9, <1>11, <1>12, <1>13, <1>14, <1>15, <1>17, <1>18

\* separatetobefnz passes an object of finobj.
LEMMA SeparatePassInv ==
  ASSUME ListsAssumption, ListsInv, SeparateLoop, marked[link[p]] \notin White,
         gcstate = "GCSinsideatomic", p' = link[p], UNCHANGED <<link, lastnext>>
  PROVE  ListsInv' /\ (SweptInv => SweptInv')
<1> USE DEF ListsInv, SeparateLoop, phases, marks
<1>1. p \in Pointer /\ p' \in Obj /\ Members(p) = {p'} \cup Members(p')
  BY ListFacts DEF TypeOK
<1>2. TypeOK'
  BY <1>1 DEF TypeOK, Pointer
<1>3. Shape' /\ \A q : Members(q)' = Members(q) /\ From(q)' = From(q)
  BY SameLists
<1>4. Placed' /\ Phases' /\ SweepAt' /\ Checked'
  BY <1>3 DEF Placed, Phases, SweepAt, Checked
<1>5. p' \in From("finobj")
  <2>1. Members(p) \subseteq Members("finobj")
    BY ListFacts DEF Separating, From, List, Pointer
  <2>2. QED BY <1>1, <2>1 DEF From
<1>6. Separating'
  BY <1>1, <1>3, <1>5 DEF Separating
<1>7. Marked'
  BY <1>1, <1>3 DEF Marked
<1>8. DeadAhead' /\ SweptInv'
  BY DEF DeadAhead, IsDead, OtherWhite, SweptInv
<1>9. QED BY <1>2, <1>3, <1>4, <1>6, <1>7, <1>8

\* It moves an object from finobj to the end of tobefnz.
LEMMA SeparateMoveInv ==
  ASSUME ListsAssumption, ListsInv, pc = "separate", NEW o \in Obj, link[p] = o,
         gcstate = "GCSinsideatomic" => marked[o] \in White,
         link' = Moved(link, p, lastnext), lastnext' = o, p' = p,
         UNCHANGED <<marked, finalized, currentwhite, gcstate, sweepgc, pc, count, target, phases,
                     marks>>
  PROVE  ListsInv' /\ (SweptInv => SweptInv')
<1> USE DEF ListsInv, phases, marks
<1>1. /\ "finobj" \in List /\ "tobefnz" \in List /\ "finobj" \in Pointer /\ "tobefnz" \in Pointer
      /\ "finobj" \notin Obj /\ "tobefnz" \notin Obj /\ o # NULL
  BY Addresses DEF List, Pointer
<1>2. /\ p \in From("finobj") /\ lastnext \in From("tobefnz") /\ link[lastnext] = NULL
      /\ p \in Pointer /\ lastnext \in Pointer
  BY DEF Separating, TypeOK
<1>3. \A x \in Obj : marked'[x] = "free" <=> marked[x] = "free"
  OBVIOUS
<1>4. /\ link' \in LinkFn /\ Shape' /\ o \in Members("finobj")
      /\ Members("finobj")' = Members("finobj") \ {o}
      /\ Members("tobefnz")' = Members("tobefnz") \cup {o}
      /\ \A j \in List \ {"finobj", "tobefnz"} : Members(j)' = Members(j)
      /\ \A x \in Pointer \ {o} :
           /\ Members(x) \ {o} \subseteq Members(x)'
           /\ x \notin From("tobefnz") => Members(x)' = Members(x) \ {o}
           /\ x = lastnext \/ lastnext \in Members(x) => o \in Members(x)'
  BY <1>1, <1>2, <1>3, MovedShape
<1>5. TypeOK'
  BY <1>4 DEF TypeOK, LinkFn, Pointer
<1>6. /\ Members("finobj") \cap Members("tobefnz") = {}
      /\ Members("finobj") \cap Members("allgc") = {}
      /\ Members("tobefnz") \cap Members("allgc") = {}
      /\ Members("finobj") \subseteq Obj /\ Members("tobefnz") \subseteq Obj
  BY <1>1, ListFacts DEF List
<1>7. closing # "closed"
  BY <1>4 DEF Placed, Shape, List
<1>8. Members(p) = {o} \cup Members(o) /\ o \notin Members(o) /\ Members(o) \subseteq Members("finobj")
  BY <1>1, <1>2, <1>4, ListFacts
<1>9. p # o /\ p \notin From("tobefnz")
  BY <1>1, <1>2, <1>4, <1>6, <1>8, ListFacts DEF From
<1>10. Members(p)' = Members(p) \ {o}
  BY <1>2, <1>4, <1>9
<1>11. Placed'
  BY <1>4, <1>7 DEF Placed, List
<1>12. Phases' /\ Checked'
  BY DEF Phases, Checked
<1>13. SweepAt'
  BY <1>4, <1>7 DEF SweepAt, From, List
<1>14. Separating'
  <2>1. link'[o] = NULL
    BY <1>1, <1>2, <1>4, <1>6, <1>9 DEF Moved, From, TypeOK, Pointer
  <2>2. p' \in From("finobj")'
    BY <1>2, <1>4, <1>9 DEF From
  <2>3. lastnext' \in From("tobefnz")'
    BY <1>4 DEF From
  <2>4. gcstate = "GCSinsideatomic" =>
          \A x \in Members("finobj")' \ Members(p)' : marked[x] \notin White
    BY <1>4, <1>10 DEF Separating
  <2>5. QED BY <2>1, <2>2, <2>3, <2>4 DEF Separating
\* The object comes after those that were moved before it.
<1>15. \A x \in Members("tobefnz") : o \in Members(x)' /\ Members(x) \subseteq Members(x)'
  <2>1. ASSUME NEW x \in Members("tobefnz")
        PROVE  o \in Members(x)' /\ Members(x) \subseteq Members(x)'
    <3>1. x \in Obj /\ x # o /\ x \in Pointer
      BY <1>4, <1>6 DEF Pointer
    <3>2. lastnext = x \/ lastnext \in Members(x)
      <4>1. link \in LinkFn /\ x \in Reach(link, "tobefnz")
            /\ lastnext \in {"tobefnz"} \cup Reach(link, "tobefnz")
        BY <1>2, ListFacts DEF From, Members
      <4>2. QED BY <1>1, <1>2, <4>1, LastMet DEF Members
    <3>3. o \in Members(x)' /\ Members(x) \ {o} \subseteq Members(x)'
      BY <1>4, <3>1, <3>2
    <3>4. QED BY <3>3
  <2>2. QED BY <2>1
<1>16. Marked'
  <2>1. younger \subseteq finalized \X finalized
    BY DEF Marked
  <2>2. ASSUME closing # "closed", NEW a \in Obj, NEW b \in Obj, <<a, b>> \in younger \ late
        PROVE  \/ b \in Members(a)'
               \/ /\ a \in Members("tobefnz")' /\ b \in Members("finobj")' \cap Members(p)'
                  /\ gcstate = "GCSinsideatomic" => marked[b] \in White
    <3>1. gcstate = "GCSinsideatomic" => marked[o] \in White
      OBVIOUS
    <3>2. a \in Members("finobj") \cup Members("tobefnz")
      BY <1>7, <2>1, <2>2 DEF Placed
    <3>3. CASE b \in Members(a)
      <4>1. CASE a \in Members("tobefnz")
        BY <1>15, <3>3, <4>1
      <4>2. CASE a \in Members("finobj") /\ a # o
        <5>1. b # o
          <6> SUFFICES ASSUME b = o PROVE FALSE
            OBVIOUS
          <6>1. b \in Members("finobj")
            BY <1>4
          <6>2. gcstate = "GCSinsideatomic" => marked[a] \in White
            BY <2>2, <3>1, <4>2, <6>1 DEF Marked
          <6>3. a \in Members(p)
            BY <4>2, <6>2 DEF Separating, Phases
          <6>4. a \in Members(o)
            BY <1>8, <4>2, <6>3
          <6>5. Members(a) \subseteq Members(o)
            BY <6>4, <1>4, ReachTrans, ListFacts DEF Members, Pointer
          <6>6. QED BY <1>8, <3>3, <6>5
        <5>2. QED BY <1>4, <3>3, <4>2, <5>1 DEF Pointer
      <4>3. CASE a = o
        <5>1. b \in Members("finobj") /\ b # o /\ b \in Members(p)
          BY <1>8, <3>3, <4>3
        <5>2. gcstate = "GCSinsideatomic" => marked[b] \in White
          BY <1>4, <2>2, <3>1, <4>3, <5>1 DEF Marked
        <5>3. QED BY <1>4, <1>10, <4>3, <5>1, <5>2
      <4>4. QED BY <3>2, <4>1, <4>2, <4>3
    <3>4. CASE /\ a \in Members("tobefnz") /\ b \in Members("finobj") \cap Members(p)
               /\ gcstate = "GCSinsideatomic" => marked[b] \in White
      <4>1. CASE b = o
        BY <1>15, <3>4, <4>1
      <4>2. CASE b # o
        BY <1>4, <1>10, <3>4, <4>2
      <4>3. QED BY <4>1, <4>2
    <3>5. QED BY <2>2, <3>3, <3>4 DEF Marked
  <2>3. closing # "closed" /\ gcstate = "GCSinsideatomic" =>
          \A a, b \in Obj : <<a, b>> \in younger \ late /\ {a, b} \subseteq Members("finobj")' =>
            (marked[a] \in White <=> marked[b] \in White)
    BY <1>4 DEF Marked
  <2>4. QED BY <2>1, <2>2, <2>3 DEF Marked
<1>17. sweepgc # NULL /\ sweepgc # o => Members(sweepgc) \ {o} \subseteq Members(sweepgc)'
  BY <1>4 DEF TypeOK
<1>18. DeadAhead'
  <2> SUFFICES ASSUME NEW x \in Obj, IsDead(x)'
               PROVE  /\ gcstate = "GCSswpallgc" /\ sweepgc # NULL
                      /\ x \in Members(sweepgc)'
    BY DEF DeadAhead
  <2>1. IsDead(x)
    BY DEF IsDead, OtherWhite
  <2>2. gcstate = "GCSswpallgc" /\ sweepgc # NULL /\ x \in Members(sweepgc) /\ sweepgc \in From("allgc")
    BY <1>7, <2>1 DEF DeadAhead, SweepAt
  <2>3. Members(sweepgc) \subseteq Members("allgc") /\ "allgc" \notin Obj
    BY <2>2, ListFacts, Addresses DEF From, List, Pointer
  <2>4. sweepgc # o /\ x # o
    BY <1>4, <1>6, <2>2, <2>3 DEF From
  <2>5. QED BY <1>17, <2>2, <2>4
<1>19. ASSUME SweptInv
       PROVE  SweptInv'
  <2>1. ASSUME gcstate \notin {"GCSpropagate", "GCSinsideatomic"},
               NEW x \in Obj, marked[x] # "free", x \notin Members("fixedgc"),
               marked[x] # currentwhite
        PROVE  \/ x \in Unswept'
               \/ gcstate = "GCSswpfinobj" /\ x \in Members("finobj")' \cup Members("tobefnz")'
    <3>1. \/ x \in Unswept
          \/ gcstate = "GCSswpfinobj" /\ x \in Members("finobj") \cup Members("tobefnz")
      BY <1>19, <2>1 DEF SweptInv, Allocated
    <3>2. CASE gcstate = "GCSswpallgc"
      <4>1. sweepgc # NULL => sweepgc # o
        BY <1>1, <1>4, <1>6, <1>7, <3>2, Addresses DEF SweepAt, From, Pointer, List
      <4>2. QED BY <1>4, <1>17, <3>1, <3>2, <4>1 DEF Unswept
    <3>3. CASE gcstate = "GCSswpfinobj"
      <4>1. x \in Members("finobj") \cup Members("tobefnz") \/ (sweepgc # NULL /\ x \in Members(sweepgc))
        BY <3>1, <3>3 DEF Unswept
      <4>2. CASE x \in Members("finobj") \cup Members("tobefnz")
        BY <1>4, <3>3, <4>2
      <4>3. CASE sweepgc # NULL /\ x \in Members(sweepgc) /\ sweepgc = o
        BY <1>4, <1>8, <3>3, <4>3
      <4>4. CASE sweepgc # NULL /\ x \in Members(sweepgc) /\ sweepgc # o
        BY <1>4, <1>17, <3>3, <4>4 DEF Unswept
      <4>5. QED BY <4>1, <4>2, <4>3, <4>4
    <3>4. CASE gcstate = "GCSswptobefnz"
      <4>1. sweepgc # NULL /\ x \in Members(sweepgc) /\ sweepgc \in From("tobefnz")
        BY <1>7, <1>19, <3>1, <3>4 DEF Unswept, SweptInv
      <4>2. Members(sweepgc) \subseteq Members("tobefnz")
        BY <1>1, <4>1, ListFacts DEF From
      <4>3. sweepgc # o /\ x # o
        BY <1>1, <1>4, <1>6, <4>1, <4>2 DEF From
      <4>4. QED BY <1>17, <3>4, <4>1, <4>3 DEF Unswept
    <3>5. QED BY <3>1, <3>2, <3>3, <3>4 DEF Unswept
  <2>2. gcstate = "GCSswptobefnz" /\ sweepgc # NULL /\ closing # "closed" => sweepgc \in From("tobefnz")'
    BY <1>4, <1>19 DEF SweptInv, From
  <2>3. Members("fixedgc")' = Members("fixedgc")
    BY <1>4 DEF List
  <2>4. QED BY <2>1, <2>2, <2>3 DEF SweptInv, Allocated
<1>20. QED BY <1>4, <1>5, <1>11, <1>12, <1>13, <1>14, <1>16, <1>18, <1>19

LEMMA SeparateLoopInv ==
  ASSUME ListsAssumption, ListsInv, SeparateLoop
  PROVE  ListsInv' /\ (SweptInv => SweptInv')
<1>1. p \in Pointer /\ link[p] \in Obj /\ pc = "separate"
  BY DEF SeparateLoop, ListsInv, TypeOK
<1>2. CASE marked[link[p]] \notin White /\ gcstate = "GCSinsideatomic"
  BY <1>2, SeparatePassInv DEF SeparateLoop
<1>3. CASE ~(marked[link[p]] \notin White /\ gcstate = "GCSinsideatomic")
  <2>1. MoveToBeFnz(link[p]) /\ p' = p
    BY <1>3 DEF SeparateLoop
  <2>2. PICK o \in Obj : o = link[p]
    BY <1>1
  <2>3. link' = Moved(link, p, lastnext) /\ lastnext' = o
    BY <2>1, <2>2 DEF Moved, MoveToBeFnz
  <2>4. UNCHANGED <<marked, finalized, currentwhite, gcstate, sweepgc, pc, count, target, phases,
                    marks>>
    BY DEF SeparateLoop
  <2>5. gcstate = "GCSinsideatomic" => marked[o] \in White
    BY <1>3, <2>2
  <2>6. QED BY <1>1, <2>1, <2>2, <2>3, <2>4, <2>5, SeparateMoveInv
<1>4. QED BY <1>2, <1>3

(***************************************************************************)
(* The theorems                                                            *)
(***************************************************************************)
\* The sweep, as long as it was not overtaken.
SweptOn == ~overtaken => SweptInv
LEMMA ListsNextInv ==
  ASSUME ListsAssumption, ListsInv, [ListsNext]_vars
  PROVE  ListsInv' /\ (SweptOn => SweptOn')
<1>1. ASSUME Udata2Finalize
      PROVE  ListsInv' /\ (SweptOn => SweptOn')
  <2>1. overtaken' = (overtaken \/ Overtakes)
    BY <1>1 DEF Udata2Finalize
  <2>2. QED BY <1>1, <2>1, Udata2FinalizeInv DEF SweptOn
<1>2. CASE Collector
  <2>1. ASSUME NEW S \in SUBSET Obj, AtomicFlip(S)
        PROVE  ListsInv' /\ SweptOn'
    BY <2>1, AtomicFlipInv DEF SweptOn
  <2>2. ASSUME NEW S \in SUBSET Obj, AtomicMark(S)
        PROVE  ListsInv' /\ (SweptOn => SweptOn')
    BY <2>2, AtomicMarkInv DEF AtomicMark, SweptOn
  <2>3. ASSUME NEW o \in Obj, Mark(o)
        PROVE  ListsInv' /\ (SweptOn => SweptOn')
    BY <2>3, MarkInv DEF Mark, marks, SweptOn
  <2>4. CASE StartCycle \/ SeparateLoop \/ SweepLoop \/ EnterSweepEnd
    <3>1. overtaken' = overtaken
      BY <2>4 DEF StartCycle, SeparateLoop, SweepLoop, EnterSweepEnd, marks
    <3>2. QED BY <2>4, <3>1, StartCycleInv, SeparateLoopInv, SweepLoopInv, EnterSweepEndInv DEF SweptOn
  <2>5. CASE SweepStep \/ SweepStepEnd \/ SweepEnd \/ CallFinEnd
    <3>1. overtaken' = overtaken
      BY <2>5 DEF SweepStep, SweepStepEnd, SweepEnd, CallFinEnd, marks
    <3>2. QED BY <2>5, <3>1, SweepStepInv, SweepStepEndInv, SweepEndInv, CallFinEndInv DEF SweptOn
  <2>6. QED BY <1>1, <1>2, <2>1, <2>2, <2>3, <2>4, <2>5 DEF Collector
<1>3. CASE CheckFinalizerLoops
  <2>1. overtaken' = overtaken
    BY <1>3 DEF CheckFinalizerLoops, SweepToLive, Relink, marks
  <2>2. QED BY <1>3, <2>1, SweepToLiveInv, RelinkInv DEF CheckFinalizerLoops, SweptOn
<1>4. ASSUME NEW e \in BOOLEAN, FullGC(e)
      PROVE  ListsInv' /\ (SweptOn => SweptOn')
  <2>1. gcstate = "GCSpropagate" \/ overtaken' = overtaken
    BY <1>4 DEF FullGC
  <2>2. QED BY <1>4, <2>1, FullGCInv DEF SweptOn
<1>5. CASE Program
  <2>1. ASSUME NEW o \in Obj, NewObj(o) \/ BarrierSweep(o)
        PROVE  ListsInv' /\ (SweptOn => SweptOn')
    BY <2>1, NewObjInv, BarrierSweepInv DEF NewObj, BarrierSweep, marks, SweptOn
  <2>2. ASSUME NEW x \in Str, Fix(x) \/ Intern(x)
        PROVE  ListsInv' /\ (SweptOn => SweptOn')
    BY <2>2, FixInv, InternInv DEF Fix, Intern, marks, SweptOn
  <2>3. ASSUME NEW o \in Udata, CheckFinalizer(o)
        PROVE  ListsInv' /\ (SweptOn => SweptOn')
    BY <2>3, CheckFinalizerInv DEF CheckFinalizer, marks, SweptOn
  <2>4. CASE Opened
    BY <2>4, OpenedInv DEF Opened, marks, SweptOn
  <2>5. QED BY <1>1, <1>4, <1>5, <2>1, <2>2, <2>3, <2>4 DEF Program
<1>6. CASE Closing
  <2>1. overtaken' = overtaken
    BY <1>6 DEF Closing, Close, CloseSeparated, FreeAll, marks
  <2>2. QED BY <1>6, <2>1, CloseInv, CloseSeparatedInv, FreeAllInv DEF Closing, SweptOn
<1>7. CASE UNCHANGED vars
  <2>1. overtaken' = overtaken
    BY <1>7 DEF vars, marks
  <2>2. QED BY <1>7, <2>1, StutterInv DEF SweptOn
<1>8. QED BY <1>2, <1>3, <1>4, <1>5, <1>6, <1>7 DEF ListsNext

LEMMA ListsAlways ==
  ASSUME ListsAssumption
  PROVE  ListsSpec => [](ListsInv /\ SweptOn)
<1>1. ListsInit => ListsInv /\ SweptOn
  BY InitInv DEF SweptOn
<1>2. ListsInv /\ SweptOn /\ [ListsNext]_vars => ListsInv' /\ SweptOn'
  BY ListsNextInv
<1>3. QED BY <1>1, <1>2, PTL DEF ListsSpec

\* The variables have their types in every reachable state.
THEOREM ListsTypes ==
  ASSUME ListsAssumption
  PROVE  ListsSpec => []TypeOK
<1>1. ListsInv => TypeOK
  BY DEF ListsInv
<1>2. QED BY <1>1, ListsAlways, PTL

\* Every object is in exactly one list and no list has a cycle, whatever was created,
\* fixed, marked for finalization, separated, finalized, resurrected and swept, in
\* whatever order (luaC_newobj, luaC_fix, luaC_checkfinalizer, udata2finalize,
\* separatetobefnz, sweeplist, luaC_freeallobjects).
THEOREM LinkedAlways ==
  ASSUME ListsAssumption
  PROVE  ListsSpec => []Linked
<1>1. ListsInv => Linked
  BY LinkedHolds DEF ListsInv
<1>2. QED BY <1>1, ListsAlways, PTL

\* A dead object is always ahead of sweepgc in allgc, whatever moves out of allgc or
\* into it in front of and at sweepgc: the sweep frees it (sweeplist, sweeptolive).
THEOREM DeadAheadAlways ==
  ASSUME ListsAssumption
  PROVE  ListsSpec => []DeadAhead
<1>1. ListsInv => DeadAhead
  BY DEF ListsInv
<1>2. QED BY <1>1, ListsAlways, PTL

\* Finalizers are called in the reverse order of the marks: what was marked later comes
\* first in its list, through any number of cycles, partial separations and calls, until
\* the state is closed (luaC_checkfinalizer, separatetobefnz, udata2finalize).
THEOREM InMarkOrderAlways ==
  ASSUME ListsAssumption
  PROVE  ListsSpec => []InMarkOrder
<1>1. ASSUME ListsInv
      PROVE  InMarkOrder
  <2> SUFFICES ASSUME pc # "separate", closing # "closed", NEW e \in younger \ late
               PROVE  e[2] \in Members(e[1])
    BY DEF InMarkOrder
  <2>1. e \in Udata \X Udata
    BY <1>1 DEF ListsInv, TypeOK
  <2>2. e = <<e[1], e[2]>> /\ e[1] \in Obj /\ e[2] \in Obj
    BY <2>1 DEF Obj
  <2>3. QED BY <1>1, <2>2 DEF ListsInv, Marked
<1>2. QED BY <1>1, ListsAlways, PTL

\* What the sweep has passed is white, and every object is when it has ended, unless
\* a finalizer was called for the object of tobefnz that sweepgc points to
\* (runafewfinalizers in the middle of a sweep of more than GCSWEEPMAX such objects).
THEOREM SweptWhiteAlways ==
  ASSUME ListsAssumption
  PROVE  ListsSpec => []SweptWhite
<1>1. SweptOn => SweptWhite
  BY DEF SweptOn, SweptInv, SweptWhite
<1>2. QED BY <1>1, ListsAlways, PTL

\* Together: the lists are what the collector takes them for (lgc.c).
THEOREM ListsSoundAlways ==
  ASSUME ListsAssumption
  PROVE  ListsSpec => []ListsSound
<1>1. TypeOK /\ Linked /\ DeadAhead /\ SweptWhite => ListsSound
  BY DEF ListsSound
<1>2. QED BY <1>1, ListsTypes, LinkedAlways, DeadAheadAlways, SweptWhiteAlways, PTL
=============================================================================

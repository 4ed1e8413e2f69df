---------------------------- MODULE LuaTableSound ----------------------------
(***************************************************************************)
(* Proofs about LuaTable, for any keys, hash function and limits: what a   *)
(* key finds is what was assigned last, a rehash finds room for all that   *)
(* it inserts, a traversal meets every key once, the length is a border,   *)
(* and a metamethod known to be absent is absent.                          *)
(***************************************************************************)
EXTENDS LuaTable, FiniteSetTheorems, WellFoundedInduction, TLAPS

(***************************************************************************)
(* Numbers and iterated functions                                          *)
(***************************************************************************)
\* A set of natural numbers has a smallest element.
LEMMA LeastNat ==
  ASSUME NEW T \in SUBSET Nat, T # {}
  PROVE  \E x \in T : \A y \in T : x <= y
<1> DEFINE R == OpToRel(<, Nat)
<1>1. IsWellFoundedOn(R, Nat)
  BY NatLessThanWellFounded
<1>2. \A y \in Nat, x \in Nat : y < x => <<y, x>> \in R
  BY DEF OpToRel
<1> HIDE DEF R
<1>3. PICK x \in T : \A y \in T : ~(<<y, x>> \in R)
  BY <1>1, WFMin
<1>4. ASSUME NEW y \in T
      PROVE  x <= y
  <2>1. x \in Nat /\ y \in Nat
    OBVIOUS
  <2>2. ~(y < x)
    BY <2>1, <1>2, <1>3
  <2>3. QED BY <2>1, <2>2
<1>5. QED BY <1>4

\* One with an upper bound has a largest element.
LEMMA LargestNat ==
  ASSUME NEW T \in SUBSET Nat, T # {}, NEW N \in Nat, \A x \in T : x <= N
  PROVE  \E x \in T : \A y \in T : y <= x
<1> DEFINE U == {n \in Nat : \A y \in T : y <= n}
<1>1. PICK n \in U : \A y \in U : n <= y
  <2>1. N \in U
    OBVIOUS
  <2>2. U \in SUBSET Nat
    OBVIOUS
  <2> HIDE DEF U
  <2>3. QED BY <2>1, <2>2, LeastNat
<1>2. CASE n \in T
  BY <1>1, <1>2
<1>3. CASE n \notin T
  <2>1. \A y \in T : y < n
    BY <1>1, <1>3
  <2>2. n > 0 /\ n - 1 \in Nat
    <3>1. PICK y \in T : y < n
      BY <2>1
    <3>2. QED BY <3>1
  <2>3. n - 1 \in U
    BY <2>1, <2>2
  <2>4. QED BY <2>2, <2>3, <1>1
<1>4. QED BY <1>2, <1>3

\* Min and Max of FiniteSetsExt.
LEMMA MinIs ==
  ASSUME NEW T \in SUBSET Nat, T # {}
  PROVE  Min(T) \in T /\ \A y \in T : Min(T) <= y
BY LeastNat DEF Min
LEMMA MaxIs ==
  ASSUME NEW T \in SUBSET Nat, T # {}, NEW N \in Nat, \A x \in T : x <= N
  PROVE  Max(T) \in T /\ \A y \in T : y <= Max(T)
<1>1. \E x \in T : \A y \in T : x >= y
  BY LargestNat
<1>2. QED BY <1>1 DEF Max

\* Induction.
LEMMA NatInduct ==
  ASSUME NEW S, 0 \in S, \A n \in Nat : n \in S => n + 1 \in S
  PROVE  \A n \in Nat : n \in S
<1> SUFFICES ASSUME Nat \ S # {}
             PROVE  FALSE
  OBVIOUS
<1>1. PICK x \in Nat \ S : \A y \in Nat \ S : x <= y
  BY LeastNat
<1>2. x - 1 \in Nat /\ x - 1 \in S
  BY <1>1
<1>3. QED BY <1>1, <1>2

\* A function on the natural numbers may be defined from a first value and a step.
Steps(f, X, x, step) ==
  f \in [Nat -> X] /\ f[0] = x /\ \A n \in Nat : f[n + 1] = step[f[n]]
LEMMA Iterates ==
  ASSUME NEW X, NEW x \in X, NEW step \in [X -> X]
  PROVE  \E f : Steps(f, X, x, step)
<1> DEFINE Upto(n, f) == /\ f \in [Nat -> X] /\ f[0] = x
                         /\ \A m \in 0..(n - 1) : f[m + 1] = step[f[m]]
           S == {n \in Nat : \E f : Upto(n, f)}
<1>1. 0 \in S
  <2>1. Upto(0, [n \in Nat |-> x])
    OBVIOUS
  <2>2. QED BY <2>1
<1>2. ASSUME NEW n \in Nat, n \in S
      PROVE  n + 1 \in S
  <2>1. PICK f : Upto(n, f)
    BY <1>2
  <2> DEFINE g == [m \in Nat |-> IF m = n + 1 THEN step[f[n]] ELSE f[m]]
  <2>2. g \in [Nat -> X] /\ g[0] = x
    BY <2>1
  <2>3. ASSUME NEW m \in 0..n
        PROVE  g[m + 1] = step[g[m]]
    <3>1. CASE m = n
      BY <3>1
    <3>2. CASE m # n
      BY <3>2, <2>1
    <3>3. QED BY <3>1, <3>2
  <2>4. Upto(n + 1, g)
    <3>1. (n + 1) - 1 = n
      OBVIOUS
    <3> HIDE DEF g
    <3>2. \A m \in 0..((n + 1) - 1) : g[m + 1] = step[g[m]]
      BY <2>3, <3>1
    <3>3. QED BY <2>2, <3>2
  <2>5. \E f1 : Upto(n + 1, f1)
    <3> HIDE DEF Upto, g
    <3>1. QED BY <2>4
  <2>6. n + 1 \in Nat
    OBVIOUS
  <2> HIDE DEF Upto
  <2>7. QED BY <2>5, <2>6
<1>3. \A n \in Nat : \E f : Upto(n, f)
  <2> HIDE DEF Upto
  <2>1. \A n \in Nat : n \in S
    <3> HIDE DEF S
    <3>1. QED BY <1>1, <1>2, NatInduct
  <2>2. QED BY <2>1
\* Two of them agree as far as both go.
<1>4. ASSUME NEW f, NEW g, NEW n \in Nat, NEW m \in Nat, Upto(n, f), Upto(m, g), n <= m
      PROVE  \A k \in 0..n : f[k] = g[k]
  <2> DEFINE A == {k \in Nat : k <= n => f[k] = g[k]}
  <2>1. 0 \in A
    BY <1>4
  <2>2. ASSUME NEW k \in Nat, k \in A
        PROVE  k + 1 \in A
    <3> SUFFICES ASSUME k + 1 <= n
                 PROVE  f[k + 1] = g[k + 1]
      OBVIOUS
    <3>1. f[k] = g[k]
      BY <2>2
    <3>2. k \in 0..(n - 1) /\ k \in 0..(m - 1)
      BY <1>4
    <3>3. QED BY <3>1, <3>2, <1>4
  <2>3. \A k \in Nat : k \in A
    <3> HIDE DEF A
    <3>1. QED BY <2>1, <2>2, NatInduct
  <2>4. QED BY <2>3
<1> DEFINE F(n) == CHOOSE f : Upto(n, f)
           h == [n \in Nat |-> F(n)[n]]
<1>5. \A n \in Nat : Upto(n, F(n))
  <2> HIDE DEF Upto
  <2>1. QED BY <1>3
<1>6. \A n \in Nat : F(n) \in [Nat -> X]
  BY <1>5
<1>7. h \in [Nat -> X]
  <2> HIDE DEF F
  <2>1. QED BY <1>6
<1>8. h[0] = x
  <2>1. F(0)[0] = x
    BY <1>5
  <2> HIDE DEF F
  <2>2. QED BY <2>1
<1>9. ASSUME NEW n \in Nat
      PROVE  h[n + 1] = step[h[n]]
  <2>1. Upto(n, F(n)) /\ Upto(n + 1, F(n + 1))
    <3> HIDE DEF Upto, F
    <3>1. n + 1 \in Nat
      OBVIOUS
    <3>2. QED BY <3>1, <1>5
  <2>2. F(n)[n] = F(n + 1)[n]
    <3> HIDE DEF Upto, F
    <3>1. \A k \in 0..n : F(n)[k] = F(n + 1)[k]
      BY <2>1, <1>4
    <3>2. QED BY <3>1
  <2>3. F(n + 1)[n + 1] = step[F(n + 1)[n]]
    <3> HIDE DEF F
    <3>1. QED BY <2>1
  <2> HIDE DEF F
  <2>4. QED BY <2>2, <2>3
<1>10. Steps(h, X, x, step)
  <2> HIDE DEF h
  <2>1. QED BY <1>7, <1>8, <1>9 DEF Steps
<1>11. QED BY <1>10

\* Powers of two.
LEMMA TwotoIs ==
  /\ twoto \in [Nat -> Nat \ {0}]
  /\ twoto[0] = 1 /\ \A n \in Nat : twoto[n + 1] = 2 * twoto[n]
<1> DEFINE P == Nat \ {0}
           step == [x \in P |-> 2 * x]
           Def(g) == g = [x \in Nat |-> IF x = 0 THEN 1 ELSE 2 * g[x - 1]]
<1>1. PICK f : Steps(f, P, 1, step)
  <2>1. 1 \in P /\ step \in [P -> P]
    OBVIOUS
  <2> HIDE DEF P, step
  <2>2. QED BY <2>1, Iterates
<1>2. f \in [Nat -> P] /\ f[0] = 1 /\ \A n \in Nat : f[n + 1] = 2 * f[n]
  BY <1>1 DEF Steps
<1>3. Def(f)
  <2>1. ASSUME NEW x \in Nat
        PROVE  f[x] = IF x = 0 THEN 1 ELSE 2 * f[x - 1]
    <3>1. CASE x = 0
      BY <3>1, <1>2
    <3>2. CASE x # 0
      <4>1. x - 1 \in Nat
        BY <3>2
      <4>2. f[(x - 1) + 1] = 2 * f[x - 1]
        BY <4>1, <1>2
      <4>3. QED BY <3>2, <4>2
    <3>3. QED BY <3>1, <3>2
  <2>2. QED BY <2>1, <1>2
<1>4. Def(twoto)
  <2>1. twoto = CHOOSE g : Def(g)
    BY DEF twoto
  <2> HIDE DEF Def
  <2>2. QED BY <2>1, <1>3
<1>5. \A n \in Nat : twoto[n + 1] = 2 * twoto[n]
  BY <1>4
<1>6. twoto[0] = 1
  BY <1>4
<1> DEFINE S == {n \in Nat : twoto[n] \in P}
<1>7. \A n \in Nat : n \in S
  <2>1. 0 \in S
    BY <1>6
  <2>2. ASSUME NEW n \in Nat, n \in S
        PROVE  n + 1 \in S
    BY <2>2, <1>5
  <2> HIDE DEF S
  <2>3. QED BY <2>1, <2>2, NatInduct
<1>8. QED BY <1>4, <1>5, <1>6, <1>7

(***************************************************************************)
(* Chains: what is met from a node on along a successor function, in which *)
(* the last node of a chain is its own successor                           *)
(***************************************************************************)
Reach(s, x) ==
  {m \in DOMAIN s : \A S \in SUBSET DOMAIN s : x \in S /\ (\A y \in S : s[y] \in S) => m \in S}
\* No node has two nodes before it, and no chain comes back.
OneBefore(s) ==
  \A x \in DOMAIN s, y \in DOMAIN s : s[x] = s[y] /\ s[x] # x /\ s[y] # y => x = y
NoLoop(s) == \A x \in DOMAIN s : s[x] # x => x \notin Reach(s, s[x])
Chained(s, D) == s \in [D -> D] /\ OneBefore(s) /\ NoLoop(s)

LEMMA ReachInduct ==
  ASSUME NEW s, NEW x, NEW S \in SUBSET DOMAIN s, x \in S, \A y \in S : s[y] \in S
  PROVE  Reach(s, x) \subseteq S
BY DEF Reach

LEMMA ReachStep ==
  ASSUME NEW D, NEW s \in [D -> D], NEW x \in D
  PROVE  /\ Reach(s, x) \subseteq D /\ x \in Reach(s, x)
         /\ \A y \in Reach(s, x) : s[y] \in Reach(s, x)
<1>1. DOMAIN s = D
  OBVIOUS
<1>2. ASSUME NEW y \in Reach(s, x)
      PROVE  s[y] \in Reach(s, x)
  <2>1. ASSUME NEW S \in SUBSET D, x \in S, \A z \in S : s[z] \in S
        PROVE  s[y] \in S
    BY <2>1, <1>1 DEF Reach
  <2>2. s[y] \in D
    BY <1>1 DEF Reach
  <2>3. QED BY <2>1, <2>2, <1>1 DEF Reach
<1>3. QED BY <1>1, <1>2 DEF Reach

LEMMA ReachTrans ==
  ASSUME NEW D, NEW s \in [D -> D], NEW x \in D, NEW y \in Reach(s, x)
  PROVE  Reach(s, y) \subseteq Reach(s, x)
<1>1. Reach(s, x) \in SUBSET DOMAIN s
  BY ReachStep
<1>2. QED BY <1>1, ReachStep, ReachInduct

\* A chain is its first node and the rest.
LEMMA ReachUnfold ==
  ASSUME NEW D, NEW s \in [D -> D], NEW x \in D
  PROVE  Reach(s, x) = {x} \cup Reach(s, s[x])
<1>1. s[x] \in D
  OBVIOUS
<1>2. Reach(s, s[x]) \subseteq Reach(s, x) /\ x \in Reach(s, x)
  BY ReachStep, ReachTrans
<1>3. Reach(s, x) \subseteq {x} \cup Reach(s, s[x])
  <2> DEFINE S == {x} \cup Reach(s, s[x])
  <2>1. S \in SUBSET DOMAIN s /\ x \in S
    BY <1>1, ReachStep
  <2>2. \A y \in S : s[y] \in S
    BY <1>1, ReachStep
  <2> HIDE DEF S
  <2>3. Reach(s, x) \subseteq S
    BY <2>1, <2>2, ReachInduct
  <2>4. QED BY <2>3 DEF S
<1>4. QED BY <1>2, <1>3

\* Every node of a chain but the first comes after another one.
LEMMA ReachBefore ==
  ASSUME NEW D, NEW s \in [D -> D], NEW x \in D, NEW m \in Reach(s, x), m # x
  PROVE  \E y \in Reach(s, x) : s[y] = m /\ y # m
<1> SUFFICES ASSUME \A y \in Reach(s, x) : s[y] = m => y = m
             PROVE  FALSE
  OBVIOUS
<1> DEFINE S == Reach(s, x) \ {m}
<1>1. S \in SUBSET DOMAIN s /\ x \in S
  BY ReachStep
<1>2. \A y \in S : s[y] \in S
  BY ReachStep
<1>3. Reach(s, x) \subseteq S
  <2> HIDE DEF S
  <2>1. QED BY <1>1, <1>2, ReachInduct
<1>4. QED BY <1>3

\* Of two nodes of a chain, one comes after the other.
LEMMA ReachOrder ==
  ASSUME NEW D, NEW s \in [D -> D], NEW x \in D, NEW a \in Reach(s, x), NEW b \in Reach(s, x)
  PROVE  a \in Reach(s, b) \/ b \in Reach(s, a)
<1> DEFINE S == {y \in Reach(s, x) : y \in Reach(s, b) \/ b \in Reach(s, y)}
<1>1. Reach(s, x) \subseteq D /\ x \in Reach(s, x)
  BY ReachStep
<1>2. S \in SUBSET DOMAIN s /\ x \in S
  BY <1>1
<1>3. ASSUME NEW y \in S
      PROVE  s[y] \in S
  <2>1. s[y] \in Reach(s, x)
    BY ReachStep
  <2>2. b \in D /\ y \in D
    BY <1>1
  <2>3. CASE y \in Reach(s, b)
    <3>1. s[y] \in Reach(s, b)
      BY <2>2, <2>3, ReachStep
    <3>2. QED BY <2>1, <3>1
  <2>4. CASE b \in Reach(s, y)
    <3>1. b = y \/ b \in Reach(s, s[y])
      BY <2>2, <2>4, ReachUnfold
    <3>2. b = y => s[y] \in Reach(s, b)
      BY <2>2, ReachStep
    <3>3. QED BY <2>1, <3>1, <3>2
  <2>5. QED BY <2>3, <2>4
<1>4. Reach(s, x) \subseteq S
  <2> HIDE DEF S
  <2>1. QED BY <1>2, <1>3, ReachInduct
<1>5. QED BY <1>4

LEMMA ReachEnd ==
  ASSUME NEW D, NEW s \in [D -> D], NEW x \in D, s[x] = x
  PROVE  Reach(s, x) = {x}
<1> DEFINE S == {x}
<1>1. S \in SUBSET DOMAIN s /\ x \in S /\ \A y \in S : s[y] \in S
  OBVIOUS
<1>2. Reach(s, x) \subseteq S
  <2> HIDE DEF S
  <2>1. QED BY <1>1, ReachInduct
<1>3. QED BY <1>2, ReachStep

\* Without loops they cannot both come after each other.
LEMMA ReachAntisym ==
  ASSUME NEW D, NEW s \in [D -> D], NoLoop(s), NEW a \in D, NEW b \in Reach(s, a), a \in Reach(s, b)
  PROVE  a = b
<1> SUFFICES ASSUME a # b
             PROVE  FALSE
  OBVIOUS
<1>1. b \in Reach(s, s[a])
  BY ReachUnfold
<1>2. s[a] # a
  <2> SUFFICES ASSUME s[a] = a
               PROVE  FALSE
    OBVIOUS
  <2>1. Reach(s, a) = {a}
    BY ReachEnd
  <2>2. QED BY <2>1
<1>3. a \in Reach(s, s[a])
  <2>1. s[a] \in D
    OBVIOUS
  <2>2. QED BY <1>1, <2>1, ReachTrans
<1>4. QED BY <1>2, <1>3 DEF NoLoop

\* InsertAfter: an isolated node f comes after node m.
Inserted(s, m, f) == [s EXCEPT ![f] = IF s[m] = m THEN f ELSE s[m], ![m] = f]
Isolated(s, f) == s[f] = f /\ \A y \in DOMAIN s : s[y] = f => y = f
LEMMA InsertedChains ==
  ASSUME NEW D, NEW s, Chained(s, D), NEW m \in D, NEW f \in D, f # m, Isolated(s, f)
  PROVE  LET r == Inserted(s, m, f)
         IN  /\ Chained(r, D)
             /\ \A x \in D : Reach(s, x) \subseteq Reach(r, x)
             /\ f \in Reach(r, m) /\ \A y \in Reach(s, m) : y # m => y \in Reach(r, f)
<1> DEFINE r == Inserted(s, m, f)
<1>1. s \in [D -> D] /\ OneBefore(s) /\ NoLoop(s) /\ DOMAIN s = D
  BY DEF Chained
<1>2. /\ r \in [D -> D] /\ DOMAIN r = D
      /\ r[m] = f /\ r[f] = IF s[m] = m THEN f ELSE s[m]
      /\ \A y \in D \ {m, f} : r[y] = s[y]
  BY <1>1 DEF Inserted
<1>3. s[f] = f /\ \A y \in D : s[y] = f => y = f
  BY <1>1 DEF Isolated
<1> HIDE DEF r
\* The old chains are there, with or without f.
<1>4. ASSUME NEW x \in D
      PROVE  Reach(s, x) \subseteq Reach(r, x)
  <2> DEFINE S == Reach(r, x)
  <2>1. S \in SUBSET DOMAIN s /\ x \in S /\ \A y \in S : r[y] \in S
    BY <1>1, <1>2, ReachStep
  <2>2. ASSUME NEW y \in S
        PROVE  s[y] \in S
    <3>1. CASE y = m
      <4>1. f \in S
        BY <3>1, <2>1, <1>2
      <4>2. r[f] \in S
        BY <4>1, <2>1
      <4>3. QED BY <3>1, <4>1, <4>2, <1>2
    <3>2. CASE y = f
      BY <3>2, <1>3
    <3>3. CASE y \notin {m, f}
      <4>1. y \in D
        BY <2>1, <1>1
      <4>2. r[y] \in S
        BY <2>1
      <4>3. QED BY <3>3, <4>1, <4>2, <1>2
    <3>4. QED BY <3>1, <3>2, <3>3
  <2> HIDE DEF S
  <2>3. Reach(s, x) \subseteq S
    BY <2>1, <2>2, ReachInduct
  <2>4. QED BY <2>3 DEF S
<1>5. f \in Reach(r, m)
  <2>1. m \in Reach(r, m)
    BY <1>2, ReachStep
  <2>2. r[m] \in Reach(r, m)
    BY <2>1, <1>2, ReachStep
  <2>3. QED BY <2>2, <1>2
<1>6. ASSUME NEW y \in Reach(s, m), y # m
      PROVE  y \in Reach(r, f)
  <2>1. y \in Reach(s, s[m])
    BY <1>6, <1>1, ReachUnfold
  <2>2. CASE s[m] = m
    <3>1. Reach(s, m) = {m}
      BY <2>2, <1>1, ReachEnd
    <3>2. QED BY <3>1, <1>6
  <2>3. CASE s[m] # m
    <3>1. s[m] \in D
      BY <1>1
    <3>2. y \in Reach(r, s[m])
      BY <2>1, <3>1, <1>4
    <3>3. Reach(r, f) = {f} \cup Reach(r, s[m])
      BY <1>2, <2>3, ReachUnfold
    <3>4. QED BY <3>2, <3>3
  <2>4. QED BY <2>2, <2>3
\* The new chains have nothing but f in addition, and f only after m.
<1>7. ASSUME NEW x \in D
      PROVE  /\ Reach(r, x) \subseteq Reach(s, x) \cup {f} \cup Reach(s, m)
             /\ x # f => Reach(r, x) \subseteq Reach(s, x) \cup {f}
             /\ x # f /\ m \notin Reach(s, x) => Reach(r, x) \subseteq Reach(s, x)
  <2> DEFINE A == Reach(s, x) \cup {f} \cup Reach(s, m)
             B == Reach(s, x) \cup {f}
             C == Reach(s, x)
  <2>1. /\ Reach(s, x) \subseteq D /\ x \in Reach(s, x) /\ \A y \in Reach(s, x) : s[y] \in Reach(s, x)
        /\ Reach(s, m) \subseteq D /\ m \in Reach(s, m) /\ \A y \in Reach(s, m) : s[y] \in Reach(s, m)
    BY <1>1, ReachStep
  <2>2. Reach(r, x) \subseteq A
    <3>1. A \in SUBSET DOMAIN r /\ x \in A
      BY <2>1, <1>2
    <3>2. \A y \in A : r[y] \in A
      BY <2>1, <1>2, <1>3
    <3> HIDE DEF A
    <3>3. QED BY <3>1, <3>2, ReachInduct
  <2>3. ASSUME x # f, m \in Reach(s, x)
        PROVE  Reach(r, x) \subseteq B
    <3>1. B \in SUBSET DOMAIN r /\ x \in B
      BY <2>1, <1>2
    <3>2. \A y \in B : r[y] \in B
      BY <2>1, <1>2, <1>3, <2>3
    <3> HIDE DEF B
    <3>3. QED BY <3>1, <3>2, ReachInduct
  <2>4. ASSUME x # f, m \notin Reach(s, x)
        PROVE  Reach(r, x) \subseteq C
    <3>1. f \notin C
      <4>1. ASSUME f \in Reach(s, x)
            PROVE  FALSE
        <5>1. \E y \in Reach(s, x) : s[y] = f /\ y # f
          BY <4>1, <2>4, <1>1, ReachBefore
        <5>2. QED BY <5>1, <2>1, <1>3
      <4>2. QED BY <4>1
    <3>2. C \in SUBSET DOMAIN r /\ x \in C
      BY <2>1, <1>2
    <3>3. \A y \in C : r[y] \in C
      BY <2>1, <1>2, <2>4, <3>1
    <3> HIDE DEF C
    <3>4. QED BY <3>2, <3>3, ReachInduct
  <2>5. QED BY <2>2, <2>3, <2>4
<1>8. OneBefore(r)
  <2> SUFFICES ASSUME NEW x \in D, NEW y \in D, r[x] = r[y], r[x] # x, r[y] # y
               PROVE  x = y
    BY <1>2 DEF OneBefore
  <2>1. \A a \in D, b \in D : s[a] = s[b] /\ s[a] # a /\ s[b] # b => a = b
    BY <1>1 DEF OneBefore
  <2>2. QED BY <2>1, <1>1, <1>2, <1>3
<1>9. NoLoop(r)
  <2> SUFFICES ASSUME NEW x \in D, r[x] # x, x \in Reach(r, r[x])
               PROVE  FALSE
    BY <1>2 DEF NoLoop
  <2>0. \A y \in D : s[y] # y => y \notin Reach(s, s[y])
    BY <1>1 DEF NoLoop
  <2>1. CASE x = m
    <3>1. CASE s[m] = m
      <4>1. Reach(r, f) = {f}
        BY <3>1, <1>2, ReachEnd
      <4>2. QED BY <4>1, <2>1, <1>2
    <3>2. CASE s[m] # m
      <4>1. m \in {f} \cup Reach(r, s[m])
        BY <2>1, <3>2, <1>2, ReachUnfold
      <4>2. s[m] \in D /\ s[m] # f
        BY <1>1, <1>3
      <4>3. m \in Reach(s, s[m])
        BY <4>1, <4>2, <1>7
      <4>4. QED BY <4>3, <3>2, <2>0
    <3>3. QED BY <3>1, <3>2
  <2>2. CASE x = f
    <3>1. s[m] # m /\ r[f] = s[m]
      BY <2>2, <1>2
    <3>2. s[m] \in D /\ s[m] # f
      BY <1>1, <1>3
    <3>3. m \notin Reach(s, s[m])
      BY <3>1, <2>0
    <3>4. f \in Reach(s, s[m])
      BY <2>2, <3>1, <3>2, <3>3, <1>7
    <3>5. \E y \in Reach(s, s[m]) : s[y] = f /\ y # f
      BY <3>2, <3>4, <1>1, ReachBefore
    <3>6. QED BY <3>2, <3>5, <1>1, <1>3, ReachStep
  <2>3. CASE x \notin {m, f}
    <3>1. r[x] = s[x] /\ s[x] \in D /\ s[x] # f
      BY <2>3, <1>1, <1>2, <1>3
    <3>2. x \in Reach(s, s[x])
      BY <3>1, <2>3, <1>7
    <3>3. QED BY <3>1, <3>2, <2>0
  <2>4. QED BY <2>1, <2>2, <2>3
<1>10. QED BY <1>2, <1>4, <1>5, <1>6, <1>8, <1>9 DEF Chained, r

\* MoveColliding: an isolated node f takes the place of node m after node p, and m is
\* left alone.
Moved(s, p, m, f) == [s EXCEPT ![p] = f, ![f] = IF s[m] = m THEN f ELSE s[m], ![m] = m]
LEMMA MovedChains ==
  ASSUME NEW D, NEW s, Chained(s, D), NEW p \in D, NEW m \in D, NEW f \in D,
         s[p] = m, p # m, f # m, Isolated(s, f)
  PROVE  LET r == Moved(s, p, m, f)
         IN  /\ Chained(r, D)
             /\ \A x \in D \ {m} : \A y \in Reach(s, x) : IF y = m THEN f \in Reach(r, x)
                                                         ELSE y \in Reach(r, x)
             /\ \A y \in Reach(s, m) : y # m => y \in Reach(r, f)
<1> DEFINE r == Moved(s, p, m, f)
<1>1. s \in [D -> D] /\ OneBefore(s) /\ NoLoop(s) /\ DOMAIN s = D
  BY DEF Chained
<1>2. s[f] = f /\ (\A y \in D : s[y] = f => y = f) /\ p # f
  BY <1>1 DEF Isolated
<1>3. /\ r \in [D -> D] /\ DOMAIN r = D
      /\ r[p] = f /\ r[f] = (IF s[m] = m THEN f ELSE s[m]) /\ r[m] = m
      /\ \A y \in D \ {p, m, f} : r[y] = s[y]
  BY <1>1, <1>2 DEF Moved
<1>4. \A y \in D : s[y] = m => y \in {p, m}
  BY <1>1 DEF OneBefore
<1>5. \A y \in D : s[y] # y => y \notin Reach(s, s[y])
  BY <1>1 DEF NoLoop
<1>6. s[m] # m => s[m] \notin {p, m, f}
  <2> SUFFICES ASSUME s[m] = p, s[m] # m
               PROVE  FALSE
    BY <1>2
  <2>1. m \in Reach(s, p)
    BY <1>1, ReachStep
  <2>2. QED BY <2>1, <1>5
<1> HIDE DEF r
\* What is met from m on is met from f on.
<1>7. ASSUME NEW y \in Reach(s, m), y # m
      PROVE  y \in Reach(r, f)
  <2> DEFINE S == {z \in Reach(s, m) : z = m \/ z \in Reach(r, f)}
  <2>1. Reach(s, m) \subseteq D /\ m \in Reach(s, m) /\ p \notin Reach(s, m)
    <3>1. p \notin Reach(s, m)
      BY <1>5
    <3>2. QED BY <3>1, <1>1, ReachStep
  <2>2. S \in SUBSET DOMAIN s /\ m \in S
    BY <2>1, <1>1
  <2>3. ASSUME NEW z \in S
        PROVE  s[z] \in S
    <3>1. s[z] \in Reach(s, m)
      BY <1>1, ReachStep
    <3>2. CASE z = m
      <4>1. CASE s[m] = m
        BY <4>1, <3>2, <2>1
      <4>2. CASE s[m] # m
        <5>1. f \in Reach(r, f)
          BY <1>3, ReachStep
        <5>2. r[f] \in Reach(r, f)
          BY <5>1, <1>3, ReachStep
        <5>3. QED BY <5>2, <4>2, <3>1, <3>2, <1>3
      <4>3. QED BY <4>1, <4>2
    <3>3. CASE z # m /\ z # f
      <4>1. z \in Reach(r, f) /\ z # p /\ z \in D
        BY <3>3, <2>1
      <4>2. r[z] \in Reach(r, f)
        BY <4>1, <1>3, ReachStep
      <4>3. QED BY <3>1, <3>3, <4>1, <4>2, <1>3
    <3>4. CASE z # m /\ z = f
      BY <3>4, <1>2
    <3>5. QED BY <3>2, <3>3, <3>4
  <2>4. Reach(s, m) \subseteq S
    <3> HIDE DEF S
    <3>1. QED BY <2>2, <2>3, ReachInduct
  <2>5. QED BY <2>4, <1>7
<1>8. ASSUME NEW x \in D \ {m}, NEW y \in Reach(s, x)
      PROVE  IF y = m THEN f \in Reach(r, x) ELSE y \in Reach(r, x)
  <2> DEFINE S == {z \in D : IF z = m THEN f \in Reach(r, x) ELSE z \in Reach(r, x)}
  <2>1. x \in Reach(r, x) /\ Reach(r, x) \subseteq D /\ \A z \in Reach(r, x) : r[z] \in Reach(r, x)
    BY <1>3, ReachStep
  <2>2. S \in SUBSET DOMAIN s /\ x \in S
    BY <2>1, <1>1
  <2>3. ASSUME NEW z \in S
        PROVE  s[z] \in S
    <3>1. CASE z = m
      <4>1. CASE s[m] = m
        BY <3>1, <4>1
      <4>2. CASE s[m] # m
        <5>1. r[f] \in Reach(r, x)
          BY <3>1, <2>1
        <5>2. QED BY <3>1, <4>2, <5>1, <1>1, <1>3
      <4>3. QED BY <4>1, <4>2
    <3>2. CASE z = p
      <4>1. r[z] \in Reach(r, x)
        BY <3>2, <2>1
      <4>2. QED BY <3>2, <4>1, <1>1, <1>3
    <3>3. CASE z = f
      BY <3>3, <1>2
    <3>4. CASE z \notin {p, m, f}
      <4>1. r[z] \in Reach(r, x) /\ r[z] = s[z]
        BY <3>4, <2>1, <1>3
      <4>2. s[z] # m
        BY <3>4, <1>4
      <4>3. QED BY <4>1, <4>2, <1>1
    <3>5. QED BY <3>1, <3>2, <3>3, <3>4
  <2>4. Reach(s, x) \subseteq S
    <3> HIDE DEF S
    <3>1. QED BY <2>2, <2>3, <1>1, ReachInduct
  <2>5. QED BY <2>4
\* The new chains have nothing but f in addition, and f only where m was.
<1>9. ASSUME NEW x \in D, x \notin {m, f}
      PROVE  /\ Reach(r, x) \subseteq (Reach(s, x) \ {m}) \cup {f}
             /\ m \notin Reach(s, x) => Reach(r, x) \subseteq Reach(s, x) \ {f}
  <2> DEFINE A == (Reach(s, x) \ {m}) \cup {f}
             B == Reach(s, x) \ {f}
  <2>1. Reach(s, x) \subseteq D /\ x \in Reach(s, x) /\ \A y \in Reach(s, x) : s[y] \in Reach(s, x)
    BY <1>1, ReachStep
  <2>2. Reach(r, x) \subseteq A \cup Reach(s, m)
    <3> DEFINE C == A \cup Reach(s, m)
    <3>1. Reach(s, m) \subseteq D /\ m \in Reach(s, m) /\ \A y \in Reach(s, m) : s[y] \in Reach(s, m)
      BY <1>1, ReachStep
    <3>2. C \in SUBSET DOMAIN r /\ x \in C
      BY <2>1, <3>1, <1>3, <1>9
    <3>3. \A y \in C : r[y] \in C
      BY <2>1, <3>1, <1>2, <1>3
    <3> HIDE DEF C
    <3>4. Reach(r, x) \subseteq C
      BY <3>2, <3>3, ReachInduct
    <3>5. QED BY <3>4 DEF C
  <2>3. CASE m \in Reach(s, x)
    <3>1. A \in SUBSET DOMAIN r /\ x \in A
      BY <2>1, <1>3, <1>9
    <3>2. \A y \in A : r[y] \in A
      BY <2>1, <2>3, <1>1, <1>2, <1>3, <1>4, <1>6
    <3>3. Reach(r, x) \subseteq A
      <4> HIDE DEF A
      <4>1. QED BY <3>1, <3>2, ReachInduct
    <3>4. QED BY <3>3, <2>3
  <2>4. CASE m \notin Reach(s, x)
    <3>0. p \notin Reach(s, x)
      BY <2>1, <2>4
    <3>1. B \in SUBSET DOMAIN r /\ x \in B
      BY <2>1, <1>3, <1>9
    <3>2. \A y \in B : r[y] \in B
      BY <2>1, <2>4, <3>0, <1>1, <1>2, <1>3
    <3>3. Reach(r, x) \subseteq B
      <4> HIDE DEF B
      <4>1. QED BY <3>1, <3>2, ReachInduct
    <3>4. QED BY <3>3, <2>4
  <2>5. QED BY <2>3, <2>4
<1>10. OneBefore(r)
  <2> SUFFICES ASSUME NEW x \in D, NEW y \in D, r[x] = r[y], r[x] # x, r[y] # y
               PROVE  x = y
    BY <1>3 DEF OneBefore
  <2>1. \A a \in D, b \in D : s[a] = s[b] /\ s[a] # a /\ s[b] # b => a = b
    BY <1>1 DEF OneBefore
  <2>2. QED BY <2>1, <1>1, <1>2, <1>3, <1>4, <1>6
<1>11. NoLoop(r)
  <2> SUFFICES ASSUME NEW x \in D, r[x] # x, x \in Reach(r, r[x])
               PROVE  FALSE
    BY <1>3 DEF NoLoop
  <2>1. CASE x = p
    <3>1. CASE s[m] = m
      <4>1. Reach(r, f) = {f}
        BY <3>1, <1>3, ReachEnd
      <4>2. QED BY <4>1, <2>1, <1>2, <1>3
    <3>2. CASE s[m] # m
      <4>1. Reach(r, f) = {f} \cup Reach(r, s[m])
        BY <3>2, <1>3, ReachUnfold
      <4>2. s[m] \in D /\ s[m] \notin {m, f}
        BY <3>2, <1>1, <1>6
      <4>3. p \in Reach(s, s[m])
        BY <4>1, <4>2, <2>1, <1>2, <1>3, <1>9
      <4>4. m \in Reach(s, s[m])
        BY <4>2, <4>3, <1>1, ReachStep
      <4>5. QED BY <4>4, <3>2, <1>5
    <3>3. QED BY <3>1, <3>2
  <2>2. CASE x = f
    <3>1. s[m] # m /\ r[f] = s[m] /\ s[m] \in D /\ s[m] \notin {m, f}
      BY <2>2, <1>1, <1>3, <1>6
    <3>2. m \notin Reach(s, s[m])
      BY <3>1, <1>5
    <3>3. f \notin Reach(r, s[m])
      BY <3>1, <3>2, <1>9
    <3>4. QED BY <2>2, <3>1, <3>3
  <2>3. CASE x \notin {p, m, f}
    <3>1. r[x] = s[x] /\ s[x] \in D /\ s[x] \notin {m, f}
      BY <2>3, <1>1, <1>2, <1>3, <1>4
    <3>2. x \in Reach(s, s[x])
      BY <3>1, <2>3, <1>9
    <3>3. QED BY <3>1, <3>2, <2>3, <1>3, <1>5
  <2>4. QED BY <2>1, <2>2, <2>3, <1>3
<1>12. QED BY <1>3, <1>7, <1>8, <1>10, <1>11 DEF Chained, r

(***************************************************************************)
(* Searching: the nodes met by Walk are those of the chain                 *)
(***************************************************************************)
LEMMA StepsReach ==
  ASSUME NEW D, NEW s \in [D -> D], NEW x \in D, NEW w, Steps(w, D, x, s), NEW c \in Nat, NEW d \in Nat
  PROVE  w[c + d] \in Reach(s, w[c])
<1> DEFINE S == {k \in Nat : w[c + k] \in Reach(s, w[c])}
<1>1. w \in [Nat -> D] /\ \A n \in Nat : w[n + 1] = s[w[n]]
  BY DEF Steps
<1>2. 0 \in S
  BY <1>1, ReachStep
<1>3. ASSUME NEW k \in Nat, k \in S
      PROVE  k + 1 \in S
  <2>1. w[c + k] \in Reach(s, w[c]) /\ w[c] \in D
    BY <1>1, <1>3
  <2>2. s[w[c + k]] \in Reach(s, w[c])
    BY <2>1, ReachStep
  <2>3. c + k \in Nat /\ (c + k) + 1 = c + (k + 1)
    OBVIOUS
  <2>4. w[c + (k + 1)] = s[w[c + k]]
    BY <2>3, <1>1
  <2>5. QED BY <2>2, <2>4
<1>4. \A k \in Nat : k \in S
  <2> HIDE DEF S
  <2>1. QED BY <1>2, <1>3, NatInduct
<1>5. QED BY <1>4

\* As many steps as there are nodes meet all of a chain.
Met(w, N) == {w[k] : k \in 0..(N - 1)}
LEMMA StepsMeetAll ==
  ASSUME NEW N \in Nat \ {0}, NEW s, Chained(s, 0..(N - 1)), NEW x \in 0..(N - 1),
         NEW w, Steps(w, 0..(N - 1), x, s)
  PROVE  Met(w, N) = Reach(s, x)
<1> DEFINE D == 0..(N - 1)
           A == {w[k] : k \in 0..(N - 1)}
<1>1. s \in [D -> D] /\ NoLoop(s) /\ DOMAIN s = D
  BY DEF Chained
<1>2. w \in [Nat -> D] /\ w[0] = x /\ \A n \in Nat : w[n + 1] = s[w[n]]
  BY DEF Steps
<1>3. Steps(w, D, x, s) /\ x \in D
  OBVIOUS
<1>4. IsFiniteSet(0..N) /\ IsFiniteSet(D) /\ Cardinality(D) < Cardinality(0..N)
  <2>1. IsFiniteSet(0..N) /\ Cardinality(0..N) = N + 1
    BY FS_Interval
  <2>2. IsFiniteSet(D) /\ Cardinality(D) = N
    BY FS_Interval
  <2>3. QED BY <2>1, <2>2
<1> HIDE DEF D
<1>5. PICK a \in 0..N, b \in 0..N : a < b /\ w[a] = w[b]
  <2> DEFINE g == [k \in 0..N |-> w[k]]
  <2>1. g \in [0..N -> D]
    BY <1>2
  <2>2. PICK c \in 0..N, d \in 0..N : c # d /\ g[c] = g[d]
    <3> HIDE DEF g
    <3>1. QED BY <2>1, <1>4, FS_PigeonHole
  <2>3. w[c] = w[d] /\ (c < d \/ d < c)
    BY <2>2
  <2>4. QED BY <2>3
<1>6. s[w[a]] = w[a]
  <2> SUFFICES ASSUME s[w[a]] # w[a]
               PROVE  FALSE
    OBVIOUS
  <2>0. a \in Nat
    OBVIOUS
  <2>1. w[a + 1] = s[w[a]] /\ w[a] \in D
    BY <2>0, <1>2
  <2>2. a + 1 \in Nat /\ b - (a + 1) \in Nat /\ (a + 1) + (b - (a + 1)) = b
    BY <1>5
  <2>3. w[b] \in Reach(s, w[a + 1])
    BY <2>2, <1>1, <1>3, StepsReach
  <2>4. QED BY <2>1, <2>3, <1>1, <1>5 DEF NoLoop
<1>7. w[N] = w[a]
  <2> DEFINE e == N - a
  <2>1. e \in Nat /\ a + e = N /\ a \in Nat
    OBVIOUS
  <2> HIDE DEF e
  <2>2. w[a + e] \in Reach(s, w[a])
    BY <2>1, <1>1, <1>3, StepsReach
  <2>3. w[a] \in D
    BY <2>1, <1>2
  <2>4. Reach(s, w[a]) = {w[a]}
    BY <2>3, <1>1, <1>6, ReachEnd
  <2>5. QED BY <2>1, <2>2, <2>4
<1>8. A \in SUBSET D /\ x \in A
  BY <1>2
<1>9. ASSUME NEW y \in A
      PROVE  s[y] \in A
  <2>1. PICK k \in 0..(N - 1) : y = w[k]
    OBVIOUS
  <2>2. s[y] = w[k + 1]
    BY <2>1, <1>2
  <2>3. CASE k < N - 1
    BY <2>2, <2>3
  <2>4. CASE k = N - 1
    <3>1. s[y] = w[a]
      BY <2>2, <2>4, <1>7
    <3>2. a \in 0..(N - 1)
      BY <1>5
    <3>3. QED BY <3>1, <3>2
  <2>5. QED BY <2>3, <2>4
<1>10. A \subseteq Reach(s, x)
  <2> SUFFICES ASSUME NEW k \in 0..(N - 1)
               PROVE  w[k] \in Reach(s, x)
    OBVIOUS
  <2>1. k \in Nat /\ 0 + k = k
    OBVIOUS
  <2>2. QED BY <2>1, <1>1, <1>2, <1>3, StepsReach
<1>11. Reach(s, x) \subseteq A
  <2> HIDE DEF A
  <2>1. QED BY <1>1, <1>8, <1>9, ReachInduct
<1>12. QED BY <1>10, <1>11 DEF Met

\* The nodes of a table and their successors.
Nodes(t) == 0..(t.sizenode - 1)
Succs(t) == [n \in Nodes(t) |-> n + t.node[n].next]
Linked(t) == t.sizenode \in Nat \ {0} /\ Chained(Succs(t), Nodes(t))

LEMMA WalkIs ==
  ASSUME NEW t, Linked(t), NEW n \in Nodes(t)
  PROVE  Steps(Walk(t, n), Nodes(t), n, Succs(t))
<1> DEFINE D == Nodes(t)
           s == Succs(t)
           Def(g) == g = [k \in Nat |-> IF k = 0 THEN n ELSE LET m == g[k - 1] IN m + t.node[m].next]
<1>1. s \in [D -> D] /\ \A m \in D : s[m] = m + t.node[m].next
  BY DEF Linked, Chained, Succs
<1> HIDE DEF D, s
<1>2. PICK f : Steps(f, D, n, s)
  BY <1>1, Iterates DEF D
<1>3. f \in [Nat -> D] /\ f[0] = n /\ \A k \in Nat : f[k + 1] = s[f[k]]
  BY <1>2 DEF Steps
<1>4. Def(f)
  <2>1. ASSUME NEW k \in Nat
        PROVE  f[k] = IF k = 0 THEN n ELSE f[k - 1] + t.node[f[k - 1]].next
    <3>1. CASE k = 0
      BY <3>1, <1>3
    <3>2. CASE k # 0
      <4>1. k - 1 \in Nat /\ (k - 1) + 1 = k
        BY <3>2
      <4>2. f[k] = s[f[k - 1]] /\ f[k - 1] \in D
        BY <4>1, <1>3
      <4>3. QED BY <3>2, <4>2, <1>1
    <3>3. QED BY <3>1, <3>2
  <2>2. QED BY <2>1, <1>3
<1>5. Def(Walk(t, n))
  <2>1. Walk(t, n) = CHOOSE g : Def(g)
    BY DEF Walk
  <2> HIDE DEF Def
  <2>2. QED BY <2>1, <1>4
<1> DEFINE w == Walk(t, n)
<1>6. w = [k \in Nat |-> IF k = 0 THEN n ELSE w[k - 1] + t.node[w[k - 1]].next]
  BY <1>5
<1> HIDE DEF w, Def
<1>7. w[0] = n
  BY <1>6
<1>8. \A k \in Nat : w[k + 1] = w[k] + t.node[w[k]].next
  BY <1>6
<1> DEFINE S == {k \in Nat : w[k] = f[k]}
<1>9. \A k \in Nat : k \in S
  <2>1. 0 \in S
    BY <1>3, <1>7
  <2>2. ASSUME NEW k \in Nat, k \in S
        PROVE  k + 1 \in S
    <3>1. f[k] \in D /\ f[k + 1] = s[f[k]]
      BY <1>3
    <3>2. w[k + 1] = f[k] + t.node[f[k]].next
      BY <2>2, <1>8
    <3>3. w[k + 1] = f[k + 1]
      BY <3>1, <3>2, <1>1
    <3>4. QED BY <3>3
  <2> HIDE DEF S
  <2>3. QED BY <2>1, <2>2, NatInduct
<1>10. w = f
  <2>1. \A k \in Nat : w[k] = f[k]
    BY <1>9
  <2>2. w = [k \in Nat |-> w[k]]
    BY <1>6
  <2>3. f = [k \in Nat |-> f[k]]
    BY <1>3
  <2>4. QED BY <2>1, <2>2, <2>3
<1>11. QED BY <1>2, <1>10 DEF w, D, s

LEMMA ChainIs ==
  ASSUME NEW t, Linked(t), NEW n \in Nodes(t)
  PROVE  Chain(t, n) = Reach(Succs(t), n)
<1>1. Steps(Walk(t, n), Nodes(t), n, Succs(t))
  BY WalkIs
<1> DEFINE w == Walk(t, n)
<1> HIDE DEF w
<1>2. Met(w, t.sizenode) = Reach(Succs(t), n)
  BY <1>1, StepsMeetAll DEF Linked, Nodes, w
<1>3. QED BY <1>2 DEF Chain, w, Met

\* The first node with a key in K, or -1 when there is none.
LEMMA InChainIs ==
  ASSUME NEW t, Linked(t), NEW n \in Nodes(t), NEW K
  PROVE  LET s == Succs(t)
             r == InChain(t, n, K)
         IN  \/ r = -1 /\ \A m \in Reach(s, n) : t.node[m].key \notin K
             \/ /\ r \in Reach(s, n) /\ r \in Nodes(t) /\ r # -1 /\ t.node[r].key \in K
                /\ \A m \in Reach(s, n) : t.node[m].key \in K => m \in Reach(s, r)
<1> DEFINE s == Succs(t)
           w == Walk(t, n)
           N == t.sizenode
           D == Nodes(t)
           hits == {k \in 0..(N - 1) : t.node[w[k]].key \in K}
<1>0. InChain(t, n, K) = IF hits = {} THEN -1 ELSE w[Min(hits)]
  BY DEF InChain
<1>1. Steps(w, D, n, s)
  BY WalkIs
<1>2. N \in Nat \ {0} /\ Chained(s, D) /\ D = 0..(N - 1) /\ s \in [D -> D] /\ n \in D
  BY DEF Linked, Nodes, Chained
<1>3. Reach(s, n) \subseteq D
  BY <1>2, ReachStep
<1>7. -1 \notin D
  BY <1>2
<1>4. Met(w, N) = Reach(s, n)
  <2> HIDE DEF s, w, N, D
  <2>1. Chained(s, 0..(N - 1)) /\ n \in 0..(N - 1) /\ Steps(w, 0..(N - 1), n, s)
    BY <1>1, <1>2
  <2>2. QED BY <2>1, <1>2, StepsMeetAll
<1> HIDE DEF s, w, N, D
<1>5. CASE hits = {}
  BY <1>0, <1>4, <1>5 DEF s, Met
<1>6. CASE hits # {}
  <2> DEFINE k == Min(hits)
  <2>1. hits \in SUBSET Nat
    BY <1>2
  <2>2. k \in hits /\ \A y \in hits : k <= y
    <3> HIDE DEF hits
    <3>1. QED BY <1>6, <2>1, MinIs
  <2>3. InChain(t, n, K) = w[k] /\ t.node[w[k]].key \in K /\ k \in 0..(N - 1) /\ w[k] \in Reach(s, n)
    BY <1>0, <1>4, <1>6, <2>2 DEF Met
  <2>4. ASSUME NEW m \in Reach(s, n), t.node[m].key \in K
        PROVE  m \in Reach(s, w[k])
    <3>1. PICK l \in 0..(N - 1) : m = w[l]
      BY <1>4 DEF Met
    <3>2. k <= l
      <4>1. l \in hits
        BY <2>4, <3>1
      <4> HIDE DEF k, hits
      <4>2. QED BY <4>1, <2>2
    <3>3. k \in Nat /\ l - k \in Nat /\ k + (l - k) = l
      <4> HIDE DEF k
      <4>1. QED BY <1>2, <2>3, <3>2
    <3> HIDE DEF k
    <3>4. w[l] \in Reach(s, w[k])
      BY <3>3, <1>1, <1>2, StepsReach
    <3>5. QED BY <3>1, <3>4
  <2> HIDE DEF k, hits
  <2>5. QED BY <2>3, <2>4, <1>3, <1>7 DEF s, D
<1>8. QED BY <1>5, <1>6

(***************************************************************************)
(* Keys hang in the chain of their main position, also after the collector *)
(* has killed them                                                         *)
(***************************************************************************)
NodeKey == Key \cup {DeadKey(o) : o \in Object}

LEMMA KeyFacts ==
  /\ NilKey \notin NodeKey
  /\ \A o \in Object : ObjKey(o) \in Key /\ DeadKey(o) \notin Key /\ DeadKey(o) \in NodeKey
  /\ \A o, q : (ObjKey(o) = ObjKey(q) => o = q) /\ (DeadKey(o) = DeadKey(q) => o = q)
<1>1. ASSUME NEW k \in Key
      PROVE  k.tt \in {"int", "flt", "obj"}
  BY DEF Key, AnyKey, Normal, IntKey, FloatKey, ObjKey
<1>2. \A o : DeadKey(o).tt = "dead" /\ DeadKey(o).v = o /\ ObjKey(o).v = o
  BY DEF DeadKey, ObjKey
<1>3. NilKey.tt = "nil"
  BY DEF NilKey
<1>4. ASSUME NEW o \in Object
      PROVE  ObjKey(o) \in Key
  <2>1. ObjKey(o) \in AnyKey /\ Normal(ObjKey(o)) = ObjKey(o)
    BY DEF AnyKey, Normal, ObjKey
  <2>2. QED BY <2>1 DEF Key
<1>5. \A o \in Object : DeadKey(o) \notin Key
  BY <1>1, <1>2
<1>6. NilKey \notin Key /\ \A o : DeadKey(o) # NilKey
  BY <1>1, <1>2, <1>3
<1>7. \A o, q : (ObjKey(o) = ObjKey(q) => o = q) /\ (DeadKey(o) = DeadKey(q) => o = q)
  BY <1>2
<1>8. QED BY <1>4, <1>5, <1>6, <1>7 DEF NodeKey

\* s: successors, key: the keys of the nodes, home: their main positions.
HungTypes(s, key, home, D) ==
  /\ Chained(s, D) /\ key \in [D -> NodeKey \cup {NilKey}] /\ home \in [NodeKey -> D]
  /\ \A o \in Object : home[DeadKey(o)] = home[ObjKey(o)]
FreeIsolated(s, key, D) == \A n \in D : key[n] = NilKey => Isolated(s, n)
Reached(s, key, home, D) == \A n \in D : key[n] # NilKey => n \in Reach(s, home[key[n]])
\* At the main position of a key there is a key in its main position.
Anchored(key, home, D) ==
  \A n \in D : key[n] # NilKey =>
    key[home[key[n]]] # NilKey /\ home[key[home[key[n]]]] = home[key[n]]
OneLive(key, D) == \A n \in D, m \in D : key[n] = key[m] /\ key[n] \in Key => n = m
\* A key comes before those of dead objects that had the same address.
DeadAfter(s, key, D) ==
  \A n \in D, m \in D, o \in Object : key[n] = ObjKey(o) /\ key[m] = DeadKey(o) => m \in Reach(s, n)
Hung(s, key, home, D) ==
  /\ HungTypes(s, key, home, D) /\ FreeIsolated(s, key, D) /\ Reached(s, key, home, D)
  /\ Anchored(key, home, D) /\ OneLive(key, D) /\ DeadAfter(s, key, D)

\* A new key takes a node without value, its main position.
LEMMA HungOver ==
  ASSUME NEW s, NEW key, NEW home, NEW D, Hung(s, key, home, D),
         NEW k \in Key, \A n \in D : key[n] # k
  PROVE  Hung(s, [key EXCEPT ![home[k]] = k], home, D)
<1> DEFINE m == home[k]
           new == [key EXCEPT ![m] = k]
<1>1. /\ HungTypes(s, key, home, D) /\ FreeIsolated(s, key, D) /\ Reached(s, key, home, D)
      /\ Anchored(key, home, D) /\ OneLive(key, D) /\ DeadAfter(s, key, D)
  BY DEF Hung
<1>2. /\ key \in [D -> NodeKey \cup {NilKey}] /\ home \in [NodeKey -> D] /\ s \in [D -> D]
      /\ \A o \in Object : home[DeadKey(o)] = home[ObjKey(o)]
  BY <1>1 DEF HungTypes, Chained
<1>3. k \in NodeKey /\ k # NilKey /\ m \in D
  BY <1>2, KeyFacts DEF NodeKey
<1>4. new \in [D -> NodeKey \cup {NilKey}] /\ new[m] = k /\ \A n \in D : n # m => new[n] = key[n]
  BY <1>2, <1>3
<1> HIDE DEF new
<1>5. HungTypes(s, new, home, D)
  BY <1>1, <1>4 DEF HungTypes
<1>6. FreeIsolated(s, new, D)
  BY <1>1, <1>3, <1>4 DEF FreeIsolated
<1>7. Reached(s, new, home, D)
  <2>1. m \in Reach(s, m)
    BY <1>2, <1>3, ReachStep
  <2>2. ASSUME NEW n \in D, new[n] # NilKey
        PROVE  n \in Reach(s, home[new[n]])
    <3>1. CASE n = m
      <4>1. home[new[n]] = m
        BY <3>1, <1>4
      <4>2. QED BY <3>1, <4>1, <2>1
    <3>2. CASE n # m
      BY <3>2, <2>2, <1>1, <1>4 DEF Reached
    <3>3. QED BY <3>1, <3>2
  <2>3. QED BY <2>2 DEF Reached
<1>8. Anchored(new, home, D)
  <2> SUFFICES ASSUME NEW n \in D, new[n] # NilKey
               PROVE  LET h == home[new[n]] IN new[h] # NilKey /\ home[new[h]] = h
    BY DEF Anchored
  <2>1. new[m] # NilKey /\ home[new[m]] = m
    BY <1>3, <1>4
  <2>2. CASE home[new[n]] = m
    BY <2>1, <2>2
  <2>3. CASE home[new[n]] # m
    <3>1. n # m /\ new[n] = key[n]
      BY <2>1, <2>3, <1>4
    <3>2. key[home[key[n]]] # NilKey /\ home[key[home[key[n]]]] = home[key[n]] /\ home[key[n]] \in D
      BY <3>1, <1>1, <1>2 DEF Anchored
    <3>3. QED BY <3>1, <3>2, <2>3, <1>4
  <2>4. QED BY <2>2, <2>3
<1>9. OneLive(new, D)
  BY <1>1, <1>4 DEF OneLive
<1>10. DeadAfter(s, new, D)
  <2> SUFFICES ASSUME NEW n \in D, NEW d \in D, NEW o \in Object, new[n] = ObjKey(o), new[d] = DeadKey(o)
               PROVE  d \in Reach(s, n)
    BY DEF DeadAfter
  <2>1. d # m
    BY <1>4, KeyFacts
  <2>2. CASE n = m
    <3>1. d \in Reach(s, home[DeadKey(o)])
      BY <2>1, <1>1, <1>4, KeyFacts DEF Reached
    <3>2. QED BY <3>1, <2>2, <1>2, <1>4
  <2>3. CASE n # m
    BY <2>1, <2>3, <1>1, <1>4 DEF DeadAfter
  <2>4. QED BY <2>2, <2>3
<1>11. QED BY <1>5, <1>6, <1>7, <1>8, <1>9, <1>10 DEF Hung, new

\* A new key goes to a free node, after a node in its own main position.
LEMMA HungAfter ==
  ASSUME NEW s, NEW key, NEW home, NEW D, Hung(s, key, home, D),
         NEW k \in Key, \A n \in D : key[n] # k,
         NEW f \in D, key[f] = NilKey, key[home[k]] \in Key, home[key[home[k]]] = home[k]
  PROVE  Hung(Inserted(s, home[k], f), [key EXCEPT ![f] = k], home, D)
<1> DEFINE m == home[k]
           new == [key EXCEPT ![f] = k]
           r == Inserted(s, m, f)
<1>1. /\ HungTypes(s, key, home, D) /\ FreeIsolated(s, key, D) /\ Reached(s, key, home, D)
      /\ Anchored(key, home, D) /\ OneLive(key, D) /\ DeadAfter(s, key, D)
  BY DEF Hung
<1>2. /\ key \in [D -> NodeKey \cup {NilKey}] /\ home \in [NodeKey -> D] /\ s \in [D -> D]
      /\ Chained(s, D) /\ \A o \in Object : home[DeadKey(o)] = home[ObjKey(o)]
  BY <1>1 DEF HungTypes, Chained
<1>3. k \in NodeKey /\ k # NilKey /\ m \in D /\ key[m] # NilKey /\ f # m /\ Isolated(s, f)
  BY <1>1, <1>2, KeyFacts DEF NodeKey, FreeIsolated
<1>4. new \in [D -> NodeKey \cup {NilKey}] /\ new[f] = k /\ \A n \in D : n # f => new[n] = key[n]
  BY <1>2, <1>3
<1>5. /\ Chained(r, D)
      /\ \A x \in D : Reach(s, x) \subseteq Reach(r, x)
      /\ f \in Reach(r, m) /\ \A y \in Reach(s, m) : y # m => y \in Reach(r, f)
  BY <1>2, <1>3, InsertedChains
<1>51. \A y \in D : y # m /\ y # f => r[y] = s[y]
  BY <1>2, <1>3 DEF Inserted
<1>52. r[m] = f /\ r[f] = IF s[m] = m THEN f ELSE s[m]
  BY <1>2, <1>3 DEF Inserted
<1>53. DOMAIN r = D /\ DOMAIN s = D
  BY <1>2 DEF Inserted
<1> HIDE DEF new, r
<1>6. HungTypes(r, new, home, D)
  BY <1>1, <1>4, <1>5 DEF HungTypes
<1>7. FreeIsolated(r, new, D)
  <2> SUFFICES ASSUME NEW n \in D, new[n] = NilKey
               PROVE  Isolated(r, n)
    BY DEF FreeIsolated
  <2>1. n # f /\ key[n] = NilKey /\ n # m
    BY <1>3, <1>4
  <2>2. s[n] = n /\ \A y \in D : s[y] = n => y = n
    BY <2>1, <1>1, <1>53 DEF FreeIsolated, Isolated
  <2>3. QED BY <2>1, <2>2, <1>3, <1>51, <1>52, <1>53 DEF Isolated
<1>8. Reached(r, new, home, D)
  BY <1>1, <1>2, <1>4, <1>5 DEF Reached
<1>9. Anchored(new, home, D)
  <2> SUFFICES ASSUME NEW n \in D, new[n] # NilKey
               PROVE  LET h == home[new[n]] IN new[h] # NilKey /\ home[new[h]] = h
    BY DEF Anchored
  <2>1. CASE n = f
    BY <2>1, <1>3, <1>4
  <2>2. CASE n # f
    <3>1. key[home[key[n]]] # NilKey /\ home[key[home[key[n]]]] = home[key[n]] /\ home[key[n]] \in D
      BY <2>2, <1>1, <1>2, <1>4 DEF Anchored
    <3>2. home[key[n]] # f
      BY <3>1
    <3>3. QED BY <3>1, <3>2, <2>2, <1>4
  <2>3. QED BY <2>1, <2>2
<1>10. OneLive(new, D)
  BY <1>1, <1>4 DEF OneLive
<1>11. DeadAfter(r, new, D)
  <2> SUFFICES ASSUME NEW n \in D, NEW d \in D, NEW o \in Object, new[n] = ObjKey(o), new[d] = DeadKey(o)
               PROVE  d \in Reach(r, n)
    BY DEF DeadAfter
  <2>1. d # f
    BY <1>4, KeyFacts
  <2>2. CASE n = f
    <3>1. d \in Reach(s, home[DeadKey(o)])
      BY <2>1, <1>1, <1>4, KeyFacts DEF Reached
    <3>2. d \in Reach(s, m)
      BY <3>1, <2>2, <1>2, <1>4
    <3>3. d # m
      BY <2>1, <1>4, KeyFacts
    <3>4. QED BY <2>2, <3>2, <3>3, <1>5
  <2>3. CASE n # f
    <3>1. d \in Reach(s, n)
      BY <2>1, <2>3, <1>1, <1>4 DEF DeadAfter
    <3>2. QED BY <3>1, <1>5
  <2>4. QED BY <2>2, <2>3
<1>12. QED BY <1>6, <1>7, <1>8, <1>9, <1>10, <1>11 DEF Hung, new, r

\* A new key takes its main position from the key of another chain, which moves to a free
\* node, the one before it then pointing there.
LEMMA HungMoved ==
  ASSUME NEW s, NEW key, NEW home, NEW D, Hung(s, key, home, D),
         NEW k \in Key, \A n \in D : key[n] # k,
         NEW f \in D, key[f] = NilKey, key[home[k]] \in Key, home[key[home[k]]] # home[k],
         NEW p \in D, s[p] = home[k], p # home[k]
  PROVE  Hung(Moved(s, p, home[k], f), [key EXCEPT ![f] = key[home[k]], ![home[k]] = k], home, D)
<1> DEFINE m == home[k]
           new == [key EXCEPT ![f] = key[m], ![m] = k]
           r == Moved(s, p, m, f)
<1>1. /\ HungTypes(s, key, home, D) /\ FreeIsolated(s, key, D) /\ Reached(s, key, home, D)
      /\ Anchored(key, home, D) /\ OneLive(key, D) /\ DeadAfter(s, key, D)
  BY DEF Hung
<1>2. /\ key \in [D -> NodeKey \cup {NilKey}] /\ home \in [NodeKey -> D] /\ s \in [D -> D]
      /\ Chained(s, D) /\ \A o \in Object : home[DeadKey(o)] = home[ObjKey(o)]
  BY <1>1 DEF HungTypes, Chained
<1>3. /\ k \in NodeKey /\ k # NilKey /\ m \in D /\ key[m] # NilKey /\ key[m] \in NodeKey
      /\ f # m /\ Isolated(s, f)
  BY <1>1, <1>2, KeyFacts DEF NodeKey, FreeIsolated
<1>4. /\ new \in [D -> NodeKey \cup {NilKey}] /\ new[f] = key[m] /\ new[m] = k
      /\ \A n \in D : n # f /\ n # m => new[n] = key[n]
  BY <1>2, <1>3
<1>5. /\ Chained(r, D)
      /\ \A x \in D \ {m} : \A y \in Reach(s, x) : IF y = m THEN f \in Reach(r, x)
                                                  ELSE y \in Reach(r, x)
      /\ \A y \in Reach(s, m) : y # m => y \in Reach(r, f)
  BY <1>2, <1>3, MovedChains
<1>51. s[f] = f /\ (\A y \in D : s[y] = f => y = f) /\ p # f
  BY <1>2, <1>3 DEF Isolated
<1>52. /\ DOMAIN r = D /\ DOMAIN s = D /\ r[m] = m /\ r[p] = f
       /\ r[f] = (IF s[m] = m THEN f ELSE s[m]) /\ \A y \in D \ {p, m, f} : r[y] = s[y]
  BY <1>2, <1>3, <1>51 DEF Moved
\* Nothing has its main position at m.
<1>53. \A n \in D : key[n] # NilKey => home[key[n]] # m
  BY <1>1 DEF Anchored
<1> HIDE DEF new, r
<1>6. HungTypes(r, new, home, D)
  BY <1>1, <1>4, <1>5 DEF HungTypes
<1>7. FreeIsolated(r, new, D)
  <2> SUFFICES ASSUME NEW n \in D, new[n] = NilKey
               PROVE  Isolated(r, n)
    BY DEF FreeIsolated
  <2>1. n # f /\ n # m /\ key[n] = NilKey
    BY <1>3, <1>4
  <2>2. s[n] = n /\ \A y \in D : s[y] = n => y = n
    BY <2>1, <1>1, <1>52 DEF FreeIsolated, Isolated
  <2>3. n # p
    BY <2>1, <2>2
  <2>4. r[n] = n
    BY <2>1, <2>2, <2>3, <1>52
  <2>5. ASSUME NEW y \in D, r[y] = n
        PROVE  y = n
    <3>1. y # m /\ y # p
      BY <2>1, <2>5, <1>52
    <3>2. y # f
      <4>1. s[m] # n
        BY <2>1, <2>2, <1>3
      <4>2. r[f] # n
        BY <4>1, <2>1, <1>52
      <4>3. QED BY <4>2, <2>5
    <3>3. QED BY <3>1, <3>2, <2>2, <2>5, <1>52
  <2>6. QED BY <2>4, <2>5, <1>52 DEF Isolated
<1>8. Reached(r, new, home, D)
  <2> SUFFICES ASSUME NEW n \in D, new[n] # NilKey
               PROVE  n \in Reach(r, home[new[n]])
    BY DEF Reached
  <2>1. CASE n = m
    <3>1. home[new[n]] = m
      BY <2>1, <1>4
    <3>2. m \in Reach(r, m)
      BY <1>3, <1>5, ReachStep DEF Chained
    <3>3. QED BY <2>1, <3>1, <3>2
  <2>2. CASE n = f
    <3>1. m \in Reach(s, home[key[m]]) /\ home[key[m]] \in D \ {m}
      BY <1>1, <1>2, <1>3, <1>53 DEF Reached
    <3>2. f \in Reach(r, home[key[m]])
      BY <3>1, <1>5
    <3>3. QED BY <2>2, <3>2, <1>4
  <2>3. CASE n # m /\ n # f
    <3>1. new[n] = key[n] /\ n \in Reach(s, home[key[n]])
      BY <2>3, <1>1, <1>4 DEF Reached
    <3>2. home[key[n]] \in D \ {m}
      BY <3>1, <1>2, <1>53
    <3>3. QED BY <2>3, <3>1, <3>2, <1>5
  <2>4. QED BY <2>1, <2>2, <2>3
<1>9. Anchored(new, home, D)
  <2> SUFFICES ASSUME NEW n \in D, new[n] # NilKey
               PROVE  LET h == home[new[n]] IN new[h] # NilKey /\ home[new[h]] = h
    BY DEF Anchored
  <2>1. CASE n = m
    BY <2>1, <1>3, <1>4
  <2>2. CASE n # m
    <3>1. PICK l \in D : key[l] = new[n] /\ key[l] # NilKey
      BY <2>2, <1>3, <1>4
    <3>2. key[home[key[l]]] # NilKey /\ home[key[home[key[l]]]] = home[key[l]] /\ home[key[l]] \in D
      BY <3>1, <1>1, <1>2 DEF Anchored
    <3>3. home[key[l]] # m /\ home[key[l]] # f
      BY <3>1, <3>2, <1>53
    <3>4. QED BY <3>1, <3>2, <3>3, <1>4
  <2>3. QED BY <2>1, <2>2
<1>10. OneLive(new, D)
  <2> SUFFICES ASSUME NEW a \in D, NEW b \in D, new[a] = new[b], new[a] \in Key
               PROVE  a = b
    BY DEF OneLive
  <2>1. CASE a = m \/ b = m
    BY <2>1, <1>3, <1>4
  <2>2. CASE a # m /\ b # m
    <3>1. \A x \in D, y \in D : key[x] = key[y] /\ key[x] \in Key => x = y
      BY <1>1 DEF OneLive
    <3>2. QED BY <2>2, <3>1, <1>3, <1>4
  <2>3. QED BY <2>1, <2>2
<1>11. DeadAfter(r, new, D)
  <2> SUFFICES ASSUME NEW n \in D, NEW d \in D, NEW o \in Object, new[n] = ObjKey(o), new[d] = DeadKey(o)
               PROVE  d \in Reach(r, n)
    BY DEF DeadAfter
  <2>1. d # m /\ d # f /\ key[d] = DeadKey(o) /\ DeadKey(o) # NilKey
    BY <1>4, KeyFacts
  <2>2. CASE n = m
    <3>1. home[key[d]] = m
      BY <2>1, <2>2, <1>2, <1>4
    <3>2. QED BY <2>1, <3>1, <1>53
  <2>3. CASE n = f
    <3>1. d \in Reach(s, m)
      BY <2>1, <2>3, <1>1, <1>3, <1>4 DEF DeadAfter
    <3>2. QED BY <2>1, <2>3, <3>1, <1>5
  <2>4. CASE n # m /\ n # f
    <3>1. d \in Reach(s, n)
      BY <2>1, <2>4, <1>1, <1>4 DEF DeadAfter
    <3>2. QED BY <2>1, <2>4, <3>1, <1>5
  <2>5. QED BY <2>2, <2>3, <2>4
<1>12. QED BY <1>6, <1>7, <1>8, <1>9, <1>10, <1>11 DEF Hung, new, r

\* The collector kills a key.
LEMMA HungKill ==
  ASSUME NEW s, NEW key, NEW home, NEW D, Hung(s, key, home, D),
         NEW o \in Object, NEW m \in D, key[m] = ObjKey(o)
  PROVE  Hung(s, [key EXCEPT ![m] = DeadKey(o)], home, D)
<1> DEFINE new == [key EXCEPT ![m] = DeadKey(o)]
<1>1. /\ HungTypes(s, key, home, D) /\ FreeIsolated(s, key, D) /\ Reached(s, key, home, D)
      /\ Anchored(key, home, D) /\ OneLive(key, D) /\ DeadAfter(s, key, D)
  BY DEF Hung
<1>2. /\ key \in [D -> NodeKey \cup {NilKey}] /\ home \in [NodeKey -> D]
      /\ \A q \in Object : home[DeadKey(q)] = home[ObjKey(q)]
  BY <1>1 DEF HungTypes, Chained
<1>3. /\ DeadKey(o) \in NodeKey /\ DeadKey(o) # NilKey /\ ObjKey(o) \in Key /\ ObjKey(o) # NilKey
      /\ DeadKey(o) \notin Key
  BY KeyFacts DEF NodeKey
<1>4. /\ new \in [D -> NodeKey \cup {NilKey}] /\ new[m] = DeadKey(o)
      /\ \A n \in D : n # m => new[n] = key[n]
  BY <1>2, <1>3
<1> HIDE DEF new
<1>5. \A n \in D : (key[n] = NilKey <=> new[n] = NilKey) /\ home[new[n]] = home[key[n]]
  BY <1>2, <1>3, <1>4
<1>6. HungTypes(s, new, home, D) /\ FreeIsolated(s, new, D)
  BY <1>1, <1>4, <1>5 DEF HungTypes, FreeIsolated
<1>7. Reached(s, new, home, D)
  BY <1>1, <1>5 DEF Reached
<1>8. Anchored(new, home, D)
  <2> SUFFICES ASSUME NEW n \in D, new[n] # NilKey
               PROVE  LET h == home[new[n]] IN new[h] # NilKey /\ home[new[h]] = h
    BY DEF Anchored
  <2>1. key[n] # NilKey /\ home[new[n]] = home[key[n]] /\ home[key[n]] \in D
    BY <1>2, <1>5
  <2>2. key[home[key[n]]] # NilKey /\ home[key[home[key[n]]]] = home[key[n]]
    BY <2>1, <1>1 DEF Anchored
  <2>3. QED BY <2>1, <2>2, <1>5
<1>9. OneLive(new, D)
  BY <1>1, <1>3, <1>4 DEF OneLive
<1>10. DeadAfter(s, new, D)
  <2> SUFFICES ASSUME NEW n \in D, NEW d \in D, NEW q \in Object, new[n] = ObjKey(q), new[d] = DeadKey(q)
               PROVE  d \in Reach(s, n)
    BY DEF DeadAfter
  <2>1. n # m /\ key[n] = ObjKey(q)
    BY <1>3, <1>4, KeyFacts
  <2>2. CASE d = m
    <3>1. q = o
      BY <2>2, <1>4, KeyFacts
    <3>2. QED BY <2>1, <3>1, <1>1, <1>3 DEF OneLive
  <2>3. CASE d # m
    BY <2>1, <2>3, <1>1, <1>4 DEF DeadAfter
  <2>4. QED BY <2>2, <2>3
<1>11. QED BY <1>6, <1>7, <1>8, <1>9, <1>10 DEF Hung, new

\* New nodes.
LEMMA HungFresh ==
  ASSUME NEW s, NEW key, NEW home, NEW D, s \in [D -> D], home \in [NodeKey -> D],
         \A o \in Object : home[DeadKey(o)] = home[ObjKey(o)],
         \A n \in D : s[n] = n, key \in [D -> {NilKey}]
  PROVE  Hung(s, key, home, D)
<1>1. Chained(s, D)
  BY DEF Chained, OneBefore, NoLoop
<1>2. key \in [D -> NodeKey \cup {NilKey}] /\ \A n \in D : key[n] = NilKey
  OBVIOUS
<1>3. NilKey \notin Key /\ \A o \in Object : ObjKey(o) # NilKey
  BY KeyFacts DEF NodeKey
<1>4. HungTypes(s, key, home, D)
  BY <1>1, <1>2 DEF HungTypes
<1>5. FreeIsolated(s, key, D)
  BY DEF FreeIsolated, Isolated
<1>6. Reached(s, key, home, D) /\ Anchored(key, home, D)
  BY <1>2 DEF Reached, Anchored
<1>7. OneLive(key, D) /\ DeadAfter(s, key, D)
  BY <1>2, <1>3 DEF OneLive, DeadAfter
<1>8. QED BY <1>4, <1>5, <1>6, <1>7 DEF Hung

(***************************************************************************)
(* Tables in shape                                                         *)
(***************************************************************************)
Keys(t) == [n \in Nodes(t) |-> t.node[n].key]
Homes(t) ==
  [k \in NodeKey |-> IF k.tt = "dead" THEN MainPosition(t, ObjKey(k.v)) ELSE MainPosition(t, k)]
Node == [key : NodeKey \cup {NilKey}, val : Value \cup {Nil}, next : Int]
Form(t) ==
  /\ t = [sizearray |-> t.sizearray, array |-> t.array, sizenode |-> t.sizenode,
          node |-> t.node, lastfree |-> t.lastfree]
  /\ t.sizearray \in Nat /\ t.array \in [1..t.sizearray -> Value \cup {Nil}]
  /\ t.sizenode \in Nat \ {0} /\ t.node \in [Nodes(t) -> Node]
  /\ t.lastfree \in -1..t.sizenode
\* Only live keys have values, and the dummy node has no key.
ValuesLive(t) == \A n \in Nodes(t) : t.node[n].val # Nil => t.node[n].key \in Key
DummyFree(t) == IsDummy(t) => \A n \in Nodes(t) : t.node[n].key = NilKey
Shaped(t) ==
  /\ Form(t) /\ ValuesLive(t) /\ DummyFree(t)
  /\ Hung(Succs(t), Keys(t), Homes(t), Nodes(t))

LEMMA KeyKinds ==
  ASSUME TableAssumption, NEW k \in Key
  PROVE  \/ k.tt = "int" /\ k = IntKey(k.v) /\ k.v \in Nat
         \/ k.tt = "flt" /\ Hash[k] \in Nat
         \/ k.tt = "obj" /\ Hash[k] \in Nat
<1>1. PICK q \in AnyKey : k = Normal(q)
  BY DEF Key
<1>2. CASE \E x \in Ints : q = IntKey(x)
  BY <1>1, <1>2 DEF TableAssumption, IntKey, Normal
<1>3. CASE \E h \in Half : q = FloatKey(h)
  <2>1. PICK h \in Half : q = FloatKey(h)
    BY <1>3
  <2>2. q.tt = "flt" /\ q.v = h /\ h \in Nat /\ Hash[q] \in Nat
    BY <2>1 DEF FloatKey, TableAssumption
  <2>3. CASE h % 2 = 0
    <3>1. k = IntKey(h \div 2) /\ h \div 2 \in Nat
      BY <1>1, <2>2, <2>3 DEF Normal
    <3>2. QED BY <3>1 DEF IntKey
  <2>4. CASE h % 2 # 0
    <3>1. k = q
      BY <1>1, <2>2, <2>4 DEF Normal
    <3>2. QED BY <3>1, <2>2
  <2>5. QED BY <2>3, <2>4
<1>4. CASE \E o \in Object : q = ObjKey(o)
  <2>1. q.tt = "obj" /\ Hash[q] \in Nat
    BY <1>4 DEF ObjKey, TableAssumption
  <2>2. k = q
    BY <1>1, <2>1 DEF Normal
  <2>3. QED BY <2>1, <2>2
<1>5. QED BY <1>2, <1>3, <1>4 DEF AnyKey

LEMMA ModIs ==
  ASSUME NEW n \in Nat, NEW d \in Nat \ {0}
  PROVE  n % d \in 0..(d - 1)
OBVIOUS

LEMMA PositionIs ==
  ASSUME TableAssumption, NEW t, t.sizenode \in Nat \ {0}, NEW k \in Key
  PROVE  MainPosition(t, k) \in Nodes(t)
<1>1. CASE k.tt = "int"
  <2>1. k.v \in Nat
    BY <1>1, KeyKinds
  <2>2. MainPosition(t, k) = k.v % t.sizenode
    BY <1>1 DEF MainPosition
  <2>3. QED BY <2>1, <2>2, ModIs DEF Nodes
<1>2. CASE k.tt # "int"
  <2>1. Hash[k] \in Nat
    BY <1>2, KeyKinds
  <2>2. CASE k.v \in Event
    <3>1. MainPosition(t, k) = Hash[k] % t.sizenode
      BY <1>2, <2>2 DEF MainPosition
    <3>2. QED BY <2>1, <3>1, ModIs DEF Nodes
  <2>3. CASE k.v \notin Event
    <3>1. MainPosition(t, k) = HashMod(t, Hash[k])
      BY <1>2, <2>3 DEF MainPosition
    <3> DEFINE d == IF t.sizenode = 1 THEN 1 ELSE t.sizenode - 1
    <3>2. d \in Nat \ {0} /\ d <= t.sizenode
      OBVIOUS
    <3>3. MainPosition(t, k) = Hash[k] % d
      BY <3>1 DEF HashMod
    <3> HIDE DEF d
    <3>4. MainPosition(t, k) \in 0..(d - 1)
      BY <2>1, <3>2, <3>3, ModIs
    <3>5. QED BY <3>2, <3>4 DEF Nodes
  <2>4. QED BY <2>2, <2>3
<1>3. QED BY <1>1, <1>2

LEMMA HomesIs ==
  ASSUME TableAssumption, NEW t, t.sizenode \in Nat \ {0}
  PROVE  /\ Homes(t) \in [NodeKey -> Nodes(t)]
         /\ \A o \in Object : Homes(t)[DeadKey(o)] = Homes(t)[ObjKey(o)]
         /\ \A k \in Key : Homes(t)[k] = MainPosition(t, k)
<1>1. ASSUME NEW k \in Key
      PROVE  k \in NodeKey /\ k.tt # "dead"
  BY KeyKinds DEF NodeKey
<1>2. ASSUME NEW o \in Object
      PROVE  /\ DeadKey(o) \in NodeKey /\ DeadKey(o).tt = "dead" /\ DeadKey(o).v = o
             /\ ObjKey(o) \in Key
  BY KeyFacts DEF NodeKey, DeadKey
<1>3. \A k \in Key : Homes(t)[k] = MainPosition(t, k)
  BY <1>1 DEF Homes
<1>4. \A o \in Object : Homes(t)[DeadKey(o)] = MainPosition(t, ObjKey(o))
  BY <1>2 DEF Homes
<1>5. \A k \in NodeKey : Homes(t)[k] \in Nodes(t)
  <2>1. \A k \in Key : Homes(t)[k] \in Nodes(t)
    BY <1>3, PositionIs
  <2>2. \A o \in Object : Homes(t)[DeadKey(o)] \in Nodes(t)
    BY <1>2, <1>4, PositionIs
  <2>3. QED BY <2>1, <2>2 DEF NodeKey
<1>6. Homes(t) = [k \in NodeKey |-> Homes(t)[k]]
  BY DEF Homes
<1>7. QED BY <1>2, <1>3, <1>4, <1>5, <1>6

\* Main positions depend on the size only.
LEMMA HomesSame ==
  ASSUME NEW t, NEW u, u.sizenode = t.sizenode
  PROVE  Homes(u) = Homes(t) /\ Nodes(u) = Nodes(t) /\ \A k : MainPosition(u, k) = MainPosition(t, k)
<1>1. \A k : MainPosition(u, k) = MainPosition(t, k)
  BY DEF MainPosition, HashMod
<1>2. QED BY <1>1 DEF Homes, Nodes

LEMMA ShapedLinked ==
  ASSUME NEW t, Shaped(t)
  PROVE  /\ Linked(t) /\ Form(t) /\ t.sizenode \in Nat \ {0}
         /\ \A n \in Nodes(t) : Keys(t)[n] = t.node[n].key
BY DEF Shaped, Linked, Hung, HungTypes, Form, Keys

\* A key is found where it is.
LEMMA SlotIs ==
  ASSUME TableAssumption, NEW t, Shaped(t), NEW k \in Key
  PROVE  \/ Slot(t, k) = -1 /\ \A n \in Nodes(t) : t.node[n].key # k
         \/ /\ Slot(t, k) \in Nodes(t) /\ Slot(t, k) # -1 /\ t.node[Slot(t, k)].key = k
            /\ \A n \in Nodes(t) : t.node[n].key = k => n = Slot(t, k)
<1> DEFINE mp == MainPosition(t, k)
<1>1. Linked(t) /\ t.sizenode \in Nat \ {0} /\ \A n \in Nodes(t) : Keys(t)[n] = t.node[n].key
  BY ShapedLinked
<1>2. mp \in Nodes(t) /\ Homes(t)[k] = mp
  BY <1>1, PositionIs, HomesIs
<1>3. k # NilKey
  BY KeyFacts DEF NodeKey
<1>4. \A n \in Nodes(t) : t.node[n].key = k => n \in Reach(Succs(t), mp)
  BY <1>1, <1>2, <1>3 DEF Shaped, Hung, Reached
<1>5. \A n \in Nodes(t), m \in Nodes(t) : t.node[n].key = k /\ t.node[m].key = k => n = m
  BY <1>1 DEF Shaped, Hung, OneLive
<1> DEFINE r == InChain(t, mp, {k})
<1>6. \/ r = -1 /\ \A m \in Reach(Succs(t), mp) : t.node[m].key \notin {k}
      \/ r \in Nodes(t) /\ r # -1 /\ t.node[r].key \in {k}
  <2> HIDE DEF mp
  <2>1. QED BY <1>1, <1>2, InChainIs
<1>7. Slot(t, k) = r
  BY DEF Slot
<1> HIDE DEF r, mp
<1>8. QED BY <1>4, <1>5, <1>6, <1>7

(***************************************************************************)
(* Assignments                                                             *)
(***************************************************************************)
InTab(t, k, v) ==
  \/ \E x \in 1..t.sizearray : k = IntKey(x) /\ t.array[x] = v
  \/ \E n \in Nodes(t) : t.node[n].key = k /\ t.node[n].val = v
\* No key that has a place in the array has its value in a node.
Unstranded(t) == \A n \in Nodes(t) : t.node[n].val # Nil => ~InArray(t, t.node[n].key)
\* Table u is table t after the assignment of v to k.
Assigned(t, u, k, v) ==
  /\ Shaped(u) /\ Unstranded(u) /\ u.sizearray = t.sizearray /\ u.sizenode = t.sizenode
  /\ \A q \in Key, w \in Value : InTab(u, q, w) <=> IF q = k THEN w = v ELSE InTab(t, q, w)
  /\ \A x \in 1..t.sizearray : u.array[x] = t.array[x] \/ IntKey(x) = k

SameKeys(t, u) ==
  /\ u.sizearray = t.sizearray /\ u.sizenode = t.sizenode /\ u.lastfree = t.lastfree
  /\ \A n \in Nodes(t) : u.node[n].key = t.node[n].key /\ u.node[n].next = t.node[n].next
LEMMA SameShape ==
  ASSUME NEW t, NEW u, Shaped(t), Form(u), ValuesLive(u), SameKeys(t, u)
  PROVE  Shaped(u) /\ Succs(u) = Succs(t) /\ Keys(u) = Keys(t)
<1>1. Nodes(u) = Nodes(t) /\ Homes(u) = Homes(t)
  BY HomesSame DEF SameKeys
<1>2. Succs(u) = Succs(t)
  BY <1>1 DEF Succs, SameKeys
<1>3. Keys(u) = Keys(t)
  BY <1>1 DEF Keys, SameKeys
<1>4. DummyFree(u)
  BY <1>1 DEF Shaped, DummyFree, IsDummy, SameKeys
<1>5. QED BY <1>1, <1>2, <1>3, <1>4 DEF Shaped

LEMMA ElementKey ==
  ASSUME NEW t, NEW k \in Key, InArray(t, k)
  PROVE  k = IntKey(k.v) /\ k.v \in 1..t.sizearray
<1>1. k.tt = "int" /\ k.v \in 1..t.sizearray
  BY DEF InArray
<1>2. k = IntKey(k.v)
  <2>1. PICK q \in AnyKey : k = Normal(q)
    BY DEF Key
  <2>2. \/ q.tt = "int" /\ q = IntKey(q.v) 
        \/ q.tt = "flt" \/ q.tt = "obj"
    BY DEF AnyKey, IntKey, FloatKey, ObjKey
  <2>3. QED BY <1>1, <2>1, <2>2 DEF Normal, IntKey
<1>3. QED BY <1>1, <1>2

LEMMA ElementIs ==
  ASSUME NEW t, t.sizearray \in Nat, NEW x
  PROVE  /\ InArray(t, IntKey(x)) <=> x \in 1..t.sizearray
         /\ IntKey(x).v = x /\ \A y : IntKey(x) = IntKey(y) => x = y
<1>1. \A y : IntKey(y).tt = "int" /\ IntKey(y).v = y
  BY DEF IntKey
<1>2. QED BY <1>1 DEF InArray

LEMMA SetElement ==
  ASSUME TableAssumption, NEW t, Shaped(t), Unstranded(t),
         NEW k \in Key, NEW v \in Value \cup {Nil}, InArray(t, k)
  PROVE  LET u == [t EXCEPT !.array[k.v] = v]
         IN  /\ SameKeys(t, u) /\ Assigned(t, u, k, v)
             /\ \A x \in 1..t.sizearray : u.array[x] = IF x = k.v THEN v ELSE t.array[x]
             /\ \A n \in Nodes(t) : u.node[n].val = t.node[n].val
<1> DEFINE u == [t EXCEPT !.array[k.v] = v]
           x0 == k.v
<1>1. Form(t) /\ ValuesLive(t)
  BY DEF Shaped
<1>2. k = IntKey(x0) /\ x0 \in 1..t.sizearray
  BY ElementKey
<1>3. /\ t = [sizearray |-> t.sizearray, array |-> t.array, sizenode |-> t.sizenode,
              node |-> t.node, lastfree |-> t.lastfree]
      /\ t.sizearray \in Nat /\ t.array \in [1..t.sizearray -> Value \cup {Nil}]
      /\ t.sizenode \in Nat \ {0} /\ t.node \in [Nodes(t) -> Node]
      /\ t.lastfree \in -1..t.sizenode
  BY <1>1 DEF Form
<1>4. u = [sizearray |-> t.sizearray, array |-> [t.array EXCEPT ![x0] = v], sizenode |-> t.sizenode,
           node |-> t.node, lastfree |-> t.lastfree]
  BY <1>3
<1> HIDE DEF u, x0
<1>5. /\ u.sizearray = t.sizearray /\ u.sizenode = t.sizenode /\ u.lastfree = t.lastfree
      /\ u.node = t.node /\ u.array = [t.array EXCEPT ![x0] = v]
  BY <1>4
<1>6. /\ u.array \in [1..t.sizearray -> Value \cup {Nil}]
      /\ \A x \in 1..t.sizearray : u.array[x] = IF x = x0 THEN v ELSE t.array[x]
  BY <1>3, <1>5
<1>7. Form(u)
  BY <1>3, <1>4, <1>5, <1>6 DEF Form, Nodes
<1>8. Nodes(u) = Nodes(t) /\ ValuesLive(u) /\ SameKeys(t, u)
  BY <1>1, <1>5 DEF Nodes, ValuesLive, SameKeys
<1>9. Shaped(u)
  BY <1>7, <1>8, SameShape
<1>10. Unstranded(u)
  BY <1>5, <1>8 DEF Unstranded, InArray
<1>11. ASSUME NEW q \in Key, NEW w \in Value
       PROVE  InTab(u, q, w) <=> IF q = k THEN w = v ELSE InTab(t, q, w)
  <2>1. CASE q = k
    <3>1. \A n \in Nodes(t) : ~(t.node[n].key = q /\ t.node[n].val = w)
      BY <2>1 DEF Unstranded, TableAssumption
    <3>2. (\E x \in 1..t.sizearray : q = IntKey(x) /\ u.array[x] = w) <=> w = v
      BY <2>1, <1>2, <1>3, <1>6, ElementIs
    <3>3. QED BY <2>1, <3>1, <3>2, <1>5, <1>8 DEF InTab
  <2>2. CASE q # k
    <3>1. \A x \in 1..t.sizearray : q = IntKey(x) => u.array[x] = t.array[x]
      BY <2>2, <1>2, <1>6
    <3>2. QED BY <2>2, <3>1, <1>5, <1>8 DEF InTab
  <2>3. QED BY <2>1, <2>2
<1>12. Assigned(t, u, k, v)
  BY <1>2, <1>5, <1>6, <1>9, <1>10, <1>11 DEF Assigned
<1>13. QED BY <1>5, <1>6, <1>8, <1>12 DEF u, x0

LEMMA SetNode ==
  ASSUME TableAssumption, NEW t, Shaped(t), Unstranded(t),
         NEW k \in Key, NEW v \in Value \cup {Nil}, ~InArray(t, k),
         NEW m \in Nodes(t), t.node[m].key = k
  PROVE  LET u == [t EXCEPT !.node[m].val = v]
         IN  /\ SameKeys(t, u) /\ Assigned(t, u, k, v) /\ u.array = t.array
             /\ \A n \in Nodes(t) : u.node[n].val = IF n = m THEN v ELSE t.node[n].val
<1> DEFINE u == [t EXCEPT !.node[m].val = v]
           new == [t.node EXCEPT ![m].val = v]
<1>1. Form(t) /\ ValuesLive(t)
  BY DEF Shaped
<1>3. /\ t = [sizearray |-> t.sizearray, array |-> t.array, sizenode |-> t.sizenode,
              node |-> t.node, lastfree |-> t.lastfree]
      /\ t.sizearray \in Nat /\ t.array \in [1..t.sizearray -> Value \cup {Nil}]
      /\ t.sizenode \in Nat \ {0} /\ t.node \in [Nodes(t) -> Node]
      /\ t.lastfree \in -1..t.sizenode
  BY <1>1 DEF Form
<1>4. u = [sizearray |-> t.sizearray, array |-> t.array, sizenode |-> t.sizenode,
           node |-> new, lastfree |-> t.lastfree]
  BY <1>3
<1>5. /\ new \in [Nodes(t) -> Node]
      /\ \A n \in Nodes(t) : /\ new[n].key = t.node[n].key /\ new[n].next = t.node[n].next
                             /\ new[n].val = IF n = m THEN v ELSE t.node[n].val
  BY <1>3 DEF Node
<1> HIDE DEF u, new
<1>6. /\ u.sizearray = t.sizearray /\ u.sizenode = t.sizenode /\ u.lastfree = t.lastfree
      /\ u.node = new /\ u.array = t.array
  BY <1>4
<1>7. Form(u)
  BY <1>3, <1>4, <1>5, <1>6 DEF Form, Nodes
<1>8. Nodes(u) = Nodes(t) /\ ValuesLive(u) /\ SameKeys(t, u)
  BY <1>1, <1>5, <1>6 DEF Nodes, ValuesLive, SameKeys
<1>9. Shaped(u)
  BY <1>7, <1>8, SameShape
<1>10. Unstranded(u)
  BY <1>5, <1>6, <1>8 DEF Unstranded, InArray
<1>2. \A n \in Nodes(t) : t.node[n].key = k => n = m
  BY SlotIs
<1>11. ASSUME NEW q \in Key, NEW w \in Value
       PROVE  InTab(u, q, w) <=> IF q = k THEN w = v ELSE InTab(t, q, w)
  <2>1. CASE q = k
    <3>1. \A x \in 1..t.sizearray : q # IntKey(x)
      BY <2>1, <1>3, ElementIs
    <3>2. (\E n \in Nodes(t) : new[n].key = q /\ new[n].val = w) <=> w = v
      BY <2>1, <1>2, <1>5
    <3>3. QED BY <2>1, <3>1, <3>2, <1>6, <1>8 DEF InTab
  <2>2. CASE q # k
    <3>1. \A n \in Nodes(t) : new[n].key = q => new[n].val = t.node[n].val
      BY <2>2, <1>5
    <3>2. QED BY <2>2, <3>1, <1>5, <1>6, <1>8 DEF InTab
  <2>3. QED BY <2>1, <2>2
<1>12. Assigned(t, u, k, v)
  BY <1>6, <1>9, <1>10, <1>11 DEF Assigned
<1>13. QED BY <1>5, <1>6, <1>8, <1>12 DEF u

(***************************************************************************)
(* New keys                                                                *)
(***************************************************************************)
InNodes(t, k, v) == \E n \in Nodes(t) : t.node[n].key = k /\ t.node[n].val = v

LEMMA NewAssigned ==
  ASSUME TableAssumption, NEW t, NEW u, Shaped(t), Unstranded(t),
         NEW k \in Key, NEW v \in Value \cup {Nil}, ~InArray(t, k),
         Form(u), u.sizearray = t.sizearray, u.sizenode = t.sizenode, u.array = t.array,
         ValuesLive(u), ~IsDummy(u), Hung(Succs(u), Keys(u), Homes(t), Nodes(t)),
         \A q \in Key, w \in Value : InNodes(u, q, w) <=> IF q = k THEN w = v ELSE InNodes(t, q, w)
  PROVE  Assigned(t, u, k, v)
<1>1. Nodes(u) = Nodes(t) /\ Homes(u) = Homes(t)
  BY HomesSame
<1>2. Shaped(u)
  BY <1>1 DEF Shaped, DummyFree
<1>3. Unstranded(u)
  <2> SUFFICES ASSUME NEW n \in Nodes(t), u.node[n].val # Nil
               PROVE  ~InArray(t, u.node[n].key)
    BY <1>1 DEF Unstranded, InArray
  <2> DEFINE q == u.node[n].key
             w == u.node[n].val
  <2>1. q \in Key /\ w \in Value
    BY <1>1 DEF ValuesLive, Form, Node
  <2>2. InNodes(u, q, w)
    BY <1>1 DEF InNodes
  <2>3. CASE q = k
    BY <2>3
  <2>4. CASE q # k
    <3>1. InNodes(t, q, w)
      <4> HIDE DEF q, w
      <4>1. QED BY <2>1, <2>2, <2>4
    <3>2. PICK m \in Nodes(t) : t.node[m].key = q /\ t.node[m].val # Nil
      BY <2>1, <3>1 DEF InNodes, TableAssumption
    <3>3. QED BY <3>2 DEF Unstranded
  <2>5. QED BY <2>3, <2>4
<1>4. t.sizearray \in Nat
  BY DEF Shaped, Form
<1>5. ASSUME NEW q \in Key, NEW w \in Value
      PROVE  InTab(u, q, w) <=> IF q = k THEN w = v ELSE InTab(t, q, w)
  <2>1. \A x \in 1..t.sizearray : k # IntKey(x)
    BY <1>4, ElementIs
  <2>2. InTab(u, q, w) <=> (\E x \in 1..t.sizearray : q = IntKey(x) /\ t.array[x] = w) \/ InNodes(u, q, w)
    BY DEF InTab, InNodes
  <2>3. InTab(t, q, w) <=> (\E x \in 1..t.sizearray : q = IntKey(x) /\ t.array[x] = w) \/ InNodes(t, q, w)
    BY DEF InTab, InNodes
  <2>4. CASE q = k
    BY <2>1, <2>2, <2>4
  <2>5. CASE q # k
    BY <2>2, <2>3, <2>5
  <2>6. QED BY <2>4, <2>5
<1>6. QED BY <1>2, <1>3, <1>5 DEF Assigned

\* What the three ways to place a new key have in common.
Placing(t, k, v) ==
  /\ Shaped(t) /\ Unstranded(t) /\ k \in Key /\ v \in Value \cup {Nil} /\ ~InArray(t, k)
  /\ \A n \in Nodes(t) : t.node[n].key # k
LEMMA PlacingFacts ==
  ASSUME TableAssumption, NEW t, NEW k, NEW v, Placing(t, k, v)
  PROVE  LET mp == MainPosition(t, k)
         IN  /\ mp \in Nodes(t) /\ Homes(t)[k] = mp /\ Nodes(t) = DOMAIN Succs(t)
             /\ k \in NodeKey \cup {NilKey} /\ k # NilKey
             /\ Hung(Succs(t), Keys(t), Homes(t), Nodes(t))
             /\ \A n \in Nodes(t) : Keys(t)[n] = t.node[n].key /\ Keys(t)[n] # k
             /\ \A n \in Nodes(t) : t.node[n].val # Nil => t.node[n].key \in Key
             /\ \A n \in Nodes(t) : Succs(t)[n] = n + t.node[n].next /\ Succs(t)[n] \in Nodes(t)
             /\ Succs(t) \in [Nodes(t) -> Nodes(t)] /\ Keys(t) \in [Nodes(t) -> NodeKey \cup {NilKey}]
<1>1. Shaped(t) /\ k \in Key
  BY DEF Placing
<1>2. t.sizenode \in Nat \ {0} /\ Form(t)
  BY <1>1, ShapedLinked
<1>3. MainPosition(t, k) \in Nodes(t) /\ Homes(t)[k] = MainPosition(t, k)
  BY <1>1, <1>2, PositionIs, HomesIs
<1>4. k \in NodeKey /\ k # NilKey
  BY <1>1, KeyFacts DEF NodeKey
<1>5. Hung(Succs(t), Keys(t), Homes(t), Nodes(t)) /\ ValuesLive(t)
  BY <1>1 DEF Shaped
<1>6. Succs(t) \in [Nodes(t) -> Nodes(t)] /\ Keys(t) \in [Nodes(t) -> NodeKey \cup {NilKey}]
  BY <1>5 DEF Hung, HungTypes, Chained
<1>7. \A n \in Nodes(t) : Succs(t)[n] = n + t.node[n].next
  BY DEF Succs
<1>8. \A n \in Nodes(t) : Keys(t)[n] = t.node[n].key /\ Keys(t)[n] # k
  BY DEF Keys, Placing
<1>9. \A n \in Nodes(t) : t.node[n].val # Nil => t.node[n].key \in Key
  BY <1>5 DEF ValuesLive
<1>10. QED BY <1>3, <1>4, <1>5, <1>6, <1>7, <1>8, <1>9

LEMMA FormRecord ==
  ASSUME NEW t, Form(t)
  PROVE  /\ t = [sizearray |-> t.sizearray, array |-> t.array, sizenode |-> t.sizenode,
                 node |-> t.node, lastfree |-> t.lastfree]
         /\ t.sizearray \in Nat /\ t.array \in [1..t.sizearray -> Value \cup {Nil}]
         /\ t.sizenode \in Nat \ {0} /\ t.node \in [Nodes(t) -> Node]
         /\ t.lastfree \in -1..t.sizenode
BY DEF Form

\* A table with other nodes.
WithNodes(t, new, last) ==
  [sizearray |-> t.sizearray, array |-> t.array, sizenode |-> t.sizenode, node |-> new, lastfree |-> last]
LEMMA WithNodesForm ==
  ASSUME NEW t, Form(t), NEW new \in [Nodes(t) -> Node], NEW last \in -1..t.sizenode
  PROVE  LET u == WithNodes(t, new, last)
         IN  /\ Form(u) /\ u.node = new /\ u.lastfree = last /\ u.array = t.array
             /\ u.sizearray = t.sizearray /\ u.sizenode = t.sizenode /\ Nodes(u) = Nodes(t)
BY DEF Form, WithNodes, Nodes

LEMMA PlaceOver ==
  ASSUME TableAssumption, NEW t, NEW k, NEW v, Placing(t, k, v), ~Taken(t, MainPosition(t, k))
  PROVE  LET mp == MainPosition(t, k)
         IN  Assigned(t, [t EXCEPT !.node[mp] = [key |-> k, val |-> v, next |-> @.next]], k, v)
<1> DEFINE m == MainPosition(t, k)
           D == Nodes(t)
           new == [t.node EXCEPT ![m] = [key |-> k, val |-> v, next |-> t.node[m].next]]
           u == WithNodes(t, new, t.lastfree)
<1>1. /\ m \in D /\ Homes(t)[k] = m
      /\ k \in NodeKey \cup {NilKey} /\ k # NilKey
      /\ Hung(Succs(t), Keys(t), Homes(t), D)
      /\ \A n \in D : Keys(t)[n] = t.node[n].key /\ Keys(t)[n] # k
      /\ \A n \in D : t.node[n].val # Nil => t.node[n].key \in Key
      /\ Keys(t) \in [D -> NodeKey \cup {NilKey}]
  BY PlacingFacts
<1>2. /\ Shaped(t) /\ Unstranded(t) /\ k \in Key /\ v \in Value \cup {Nil} /\ ~InArray(t, k)
      /\ Form(t) /\ t.node[m].val = Nil /\ ~IsDummy(t)
  BY DEF Placing, Shaped, Taken
<1>3. /\ t = [sizearray |-> t.sizearray, array |-> t.array, sizenode |-> t.sizenode,
              node |-> t.node, lastfree |-> t.lastfree]
      /\ t.node \in [D -> Node] /\ t.lastfree \in -1..t.sizenode
  BY <1>2, FormRecord
<1>4. [t EXCEPT !.node[m] = [key |-> k, val |-> v, next |-> @.next]] = u
  <2> HIDE DEF m, D
  <2>1. QED BY <1>1, <1>3 DEF WithNodes
<1>5. /\ new \in [D -> Node] /\ new[m].key = k /\ new[m].val = v /\ new[m].next = t.node[m].next
      /\ \A n \in D : n # m => new[n] = t.node[n]
  BY <1>1, <1>2, <1>3 DEF Node
<1> HIDE DEF new, m, D, u
<1>6. /\ Form(u) /\ u.node = new /\ u.lastfree = t.lastfree /\ u.array = t.array
      /\ u.sizearray = t.sizearray /\ u.sizenode = t.sizenode /\ Nodes(u) = D
  BY <1>2, <1>3, <1>5, WithNodesForm DEF u, D
<1>7. Succs(u) = Succs(t)
  BY <1>5, <1>6 DEF Succs, D
<1>8. Keys(u) = [Keys(t) EXCEPT ![Homes(t)[k]] = k]
  <2>1. Keys(u) = [n \in D |-> new[n].key]
    BY <1>6 DEF Keys
  <2>2. \A n \in D : new[n].key = [Keys(t) EXCEPT ![m] = k][n]
    BY <1>1, <1>5
  <2>3. QED BY <2>1, <2>2, <1>1
<1>9. Hung(Succs(u), Keys(u), Homes(t), D)
  <2>1. Hung(Succs(t), [Keys(t) EXCEPT ![Homes(t)[k]] = k], Homes(t), D)
    <3>1. k \in Key /\ \A n \in D : Keys(t)[n] # k
      BY <1>1, <1>2
    <3>2. QED BY <3>1, <1>1, HungOver
  <2>2. QED BY <2>1, <1>7, <1>8
<1>10. ValuesLive(u) /\ ~IsDummy(u)
  BY <1>1, <1>2, <1>5, <1>6 DEF ValuesLive, IsDummy
<1>11. ASSUME NEW q \in Key, NEW w \in Value
       PROVE  InNodes(u, q, w) <=> IF q = k THEN w = v ELSE InNodes(t, q, w)
  <2>0. w # Nil
    BY DEF TableAssumption
  <2>1. CASE q = k
    BY <2>1, <1>1, <1>5, <1>6 DEF InNodes
  <2>2. CASE q # k
    BY <2>0, <2>2, <1>1, <1>2, <1>5, <1>6 DEF InNodes, D
  <2>3. QED BY <2>1, <2>2
<1>12. Assigned(t, u, k, v)
  BY <1>2, <1>6, <1>9, <1>10, <1>11, NewAssigned DEF D
<1>13. QED BY <1>4, <1>12 DEF m

LEMMA FreeIs ==
  ASSUME NEW t, Form(t), FreeNodes(t) # {}
  PROVE  LET f == Max(FreeNodes(t))
         IN  f \in Nodes(t) /\ t.node[f].key = NilKey /\ f \in -1..t.sizenode /\ f # -1 /\ ~IsDummy(t)
<1>1. t.lastfree \in -1..t.sizenode /\ t.sizenode \in Nat \ {0}
  BY FormRecord
<1>2. FreeNodes(t) \in SUBSET Nat /\ \A x \in FreeNodes(t) : x <= t.sizenode
  BY <1>1 DEF FreeNodes
<1>3. t.sizenode \in Nat
  BY <1>1
<1>4. Max(FreeNodes(t)) \in FreeNodes(t)
  BY <1>2, <1>3, MaxIs
<1> DEFINE f == Max(FreeNodes(t))
<1> HIDE DEF f
<1>5. f \in 0..(t.lastfree - 1) /\ t.node[f].key = NilKey
  BY <1>4 DEF FreeNodes, f
<1>6. f \in Nodes(t) /\ f \in -1..t.sizenode /\ f # -1 /\ t.lastfree # -1
  BY <1>1, <1>5 DEF Nodes
<1>7. QED BY <1>5, <1>6 DEF f, IsDummy

\* What follows from the key at its main position, which is taken, and a free node.
LEMMA TakenFacts ==
  ASSUME TableAssumption, NEW t, NEW k, NEW v, Placing(t, k, v),
         Taken(t, MainPosition(t, k)), FreeNodes(t) # {}
  PROVE  LET m == MainPosition(t, k)
             f == Max(FreeNodes(t))
         IN  /\ f \in Nodes(t) /\ m \in Nodes(t) /\ f # m /\ t.node[f].key = NilKey
             /\ f \in -1..t.sizenode /\ f # -1
             /\ t.node[m].key \in Key /\ Homes(t)[t.node[m].key] = MainPosition(t, t.node[m].key)
             /\ t.node[f].val = Nil
<1> DEFINE m == MainPosition(t, k)
           f == Max(FreeNodes(t))
<1>1. Form(t) /\ t.sizenode \in Nat \ {0}
  BY FormRecord DEF Placing, Shaped
<1>2. /\ f \in Nodes(t) /\ t.node[f].key = NilKey /\ f \in -1..t.sizenode /\ f # -1 /\ ~IsDummy(t)
  BY <1>1, FreeIs
<1>3. /\ m \in Nodes(t)
      /\ \A n \in Nodes(t) : t.node[n].val # Nil => t.node[n].key \in Key
  BY PlacingFacts
<1>4. t.node[m].val # Nil
  BY <1>2 DEF Taken
<1>5. t.node[m].key \in Key /\ NilKey \notin Key
  BY <1>3, <1>4, KeyFacts DEF NodeKey
<1>6. Homes(t)[t.node[m].key] = MainPosition(t, t.node[m].key)
  BY <1>1, <1>5, HomesIs
<1> HIDE DEF m, f
<1>7. f # m /\ t.node[f].val = Nil
  BY <1>2, <1>3, <1>5
<1>8. QED BY <1>2, <1>3, <1>5, <1>6, <1>7 DEF m, f

LEMMA PlaceAfter ==
  ASSUME TableAssumption, NEW t, NEW k, NEW v, Placing(t, k, v),
         Taken(t, MainPosition(t, k)), FreeNodes(t) # {},
         MainPosition(t, t.node[MainPosition(t, k)].key) = MainPosition(t, k)
  PROVE  Assigned(t, InsertAfter(t, MainPosition(t, k), Max(FreeNodes(t)), k, v), k, v)
<1> DEFINE m == MainPosition(t, k)
           f == Max(FreeNodes(t))
           D == Nodes(t)
           next == t.node[m].next
           first == [key |-> k, val |-> v, next |-> IF next = 0 THEN 0 ELSE m + next - f]
           new == [[t.node EXCEPT ![f] = first] EXCEPT ![m].next = f - m]
           u == WithNodes(t, new, f)
<1>1. /\ m \in D /\ Homes(t)[k] = m
      /\ k \in NodeKey \cup {NilKey} /\ k # NilKey
      /\ Hung(Succs(t), Keys(t), Homes(t), D)
      /\ \A n \in D : Keys(t)[n] = t.node[n].key /\ Keys(t)[n] # k
      /\ \A n \in D : t.node[n].val # Nil => t.node[n].key \in Key
      /\ \A n \in D : Succs(t)[n] = n + t.node[n].next /\ Succs(t)[n] \in D
      /\ Succs(t) \in [D -> D] /\ Keys(t) \in [D -> NodeKey \cup {NilKey}]
  BY PlacingFacts
<1>2. /\ f \in D /\ f # m /\ t.node[f].key = NilKey /\ f \in -1..t.sizenode /\ f # -1
      /\ t.node[m].key \in Key /\ Homes(t)[t.node[m].key] = m /\ t.node[f].val = Nil
  BY TakenFacts
<1>3. /\ Shaped(t) /\ Unstranded(t) /\ k \in Key /\ v \in Value \cup {Nil} /\ ~InArray(t, k) /\ Form(t)
  BY DEF Placing, Shaped
<1>4. /\ t = [sizearray |-> t.sizearray, array |-> t.array, sizenode |-> t.sizenode,
              node |-> t.node, lastfree |-> t.lastfree]
      /\ t.node \in [D -> Node] /\ t.sizenode \in Nat \ {0}
  BY <1>3, FormRecord
<1>5. D \subseteq Int
  BY <1>4 DEF Nodes
<1>6. InsertAfter(t, m, f, k, v) = u
  <2>1. InsertAfter(t, m, f, k, v) =
          [t EXCEPT !.node[f] = first, !.node[m].next = f - m, !.lastfree = f]
    BY DEF InsertAfter
  <2> HIDE DEF m, f, D, next, first
  <2>2. QED BY <1>1, <1>2, <1>4, <2>1 DEF WithNodes
<1>7. /\ new \in [D -> Node]
      /\ new[f].key = k /\ new[f].val = v /\ new[f].next = IF next = 0 THEN 0 ELSE m + next - f
      /\ new[m].key = t.node[m].key /\ new[m].val = t.node[m].val /\ new[m].next = f - m
      /\ \A n \in D : n # m /\ n # f => new[n] = t.node[n]
  <2>1. t.node[m] \in Node /\ f - m \in Int /\ next \in Int /\ m \in Int /\ f \in Int
    BY <1>1, <1>2, <1>4, <1>5 DEF Node
  <2>2. first \in Node
    BY <1>1, <1>3, <2>1 DEF Node
  <2> HIDE DEF m, f, D, next
  <2>3. new[f] = first /\ new[m] = [t.node[m] EXCEPT !.next = f - m]
    BY <1>1, <1>2, <1>4
  <2>4. \A n \in D : n # m /\ n # f => new[n] = t.node[n]
    BY <1>4
  <2>5. /\ [t.node[m] EXCEPT !.next = f - m] \in Node
        /\ [t.node[m] EXCEPT !.next = f - m].key = t.node[m].key
        /\ [t.node[m] EXCEPT !.next = f - m].val = t.node[m].val
        /\ [t.node[m] EXCEPT !.next = f - m].next = f - m
    BY <2>1 DEF Node
  <2>6. new = [n \in D |-> new[n]]
    BY <1>4
  <2> HIDE DEF new
  <2>7. \A n \in D : new[n] \in Node
    BY <2>2, <2>3, <2>4, <2>5, <1>4
  <2>8. QED BY <2>2, <2>3, <2>4, <2>5, <2>6, <2>7
<1> HIDE DEF new, m, D, u, f, next, first
<1>8. /\ Form(u) /\ u.node = new /\ u.lastfree = f /\ u.array = t.array
      /\ u.sizearray = t.sizearray /\ u.sizenode = t.sizenode /\ Nodes(u) = D
  BY <1>2, <1>3, <1>7, WithNodesForm DEF u, D
<1>9. Succs(u) = Inserted(Succs(t), m, f)
  <2>1. Succs(u) = [n \in D |-> n + new[n].next]
    BY <1>8 DEF Succs
  <2>2. Succs(t)[m] = m + next /\ next \in Int /\ m \in Int /\ f \in Int
    BY <1>1, <1>2, <1>4, <1>5 DEF next, Node
  <2>3. f + new[f].next = IF Succs(t)[m] = m THEN f ELSE Succs(t)[m]
    BY <2>2, <1>7
  <2>4. m + new[m].next = f
    BY <2>2, <1>7
  <2>5. \A n \in D : n # m /\ n # f => n + new[n].next = Succs(t)[n]
    BY <1>1, <1>7
  <2> DEFINE r == Inserted(Succs(t), m, f)
  <2>6. /\ r = [n \in D |-> r[n]] /\ r[f] = (IF Succs(t)[m] = m THEN f ELSE Succs(t)[m])
        /\ r[m] = f /\ \A n \in D : n # m /\ n # f => r[n] = Succs(t)[n]
    BY <1>1, <1>2 DEF Inserted
  <2> HIDE DEF r
  <2>7. \A n \in D : n + new[n].next = r[n]
    BY <2>3, <2>4, <2>5, <2>6
  <2>8. r = [n \in D |-> n + new[n].next]
    BY <2>6, <2>7
  <2>9. QED BY <2>1, <2>8 DEF r
<1>10. Keys(u) = [Keys(t) EXCEPT ![f] = k]
  <2>1. Keys(u) = [n \in D |-> new[n].key]
    BY <1>8 DEF Keys
  <2>2. \A n \in D : new[n].key = [Keys(t) EXCEPT ![f] = k][n]
    BY <1>1, <1>7
  <2>3. QED BY <2>1, <2>2, <1>1
<1>11. Hung(Succs(u), Keys(u), Homes(t), D)
  <2>1. /\ k \in Key /\ (\A n \in D : Keys(t)[n] # k) /\ Keys(t)[f] = NilKey
        /\ Keys(t)[Homes(t)[k]] \in Key /\ Homes(t)[Keys(t)[Homes(t)[k]]] = Homes(t)[k]
    BY <1>1, <1>2, <1>3
  <2>2. Hung(Inserted(Succs(t), Homes(t)[k], f), [Keys(t) EXCEPT ![f] = k], Homes(t), D)
    BY <2>1, <1>1, <1>2, HungAfter
  <2>3. QED BY <2>2, <1>1, <1>9, <1>10
<1>12. ValuesLive(u) /\ ~IsDummy(u)
  BY <1>1, <1>2, <1>3, <1>7, <1>8 DEF ValuesLive, IsDummy
<1>13. ASSUME NEW q \in Key, NEW w \in Value
       PROVE  InNodes(u, q, w) <=> IF q = k THEN w = v ELSE InNodes(t, q, w)
  <2>1. CASE q = k
    <3>1. \A n \in D : n # f => new[n].key # k
      BY <1>1, <1>7
    <3>2. QED BY <2>1, <3>1, <1>2, <1>7, <1>8 DEF InNodes
  <2>2. CASE q # k
    <3>1. \A n \in D : n # f => new[n].key = t.node[n].key /\ new[n].val = t.node[n].val
      BY <1>7
    <3>2. q # NilKey
      BY KeyFacts DEF NodeKey
    <3>3. QED BY <3>1, <3>2, <2>2, <1>2, <1>7, <1>8 DEF InNodes, D
  <2>3. QED BY <2>1, <2>2
<1>14. Assigned(t, u, k, v)
  BY <1>3, <1>8, <1>11, <1>12, <1>13, NewAssigned DEF D
<1>15. QED BY <1>6, <1>14 DEF m, f

\* The node before one that is not the first of its chain.
LEMMA PreviousIs ==
  ASSUME NEW t, Linked(t), NEW h \in Nodes(t), NEW m \in Reach(Succs(t), h), m # h, m \in Nodes(t),
         t.node \in [Nodes(t) -> Node]
  PROVE  LET p == Previous(t, h, m)
         IN  p \in Nodes(t) /\ p # m /\ Succs(t)[p] = m
<1> DEFINE s == Succs(t)
           D == Nodes(t)
<1>1. s \in [D -> D] /\ Chain(t, h) = Reach(s, h) /\ Reach(s, h) \subseteq D
  <2>1. s \in [D -> D]
    BY DEF Linked, Chained
  <2>2. QED BY <2>1, ChainIs, ReachStep
<1>2. \A n \in D : s[n] = n + t.node[n].next /\ n \in Int /\ t.node[n].next \in Int
  <2>1. \A n \in D : n \in Int /\ t.node[n] \in Node
    BY DEF Nodes, Linked
  <2>2. \A n \in D : t.node[n].next \in Int
    BY <2>1 DEF Node
  <2>3. \A n \in D : s[n] = n + t.node[n].next
    BY DEF Succs
  <2>4. QED BY <2>1, <2>2, <2>3
<1> HIDE DEF s, D
<1>3. PICK y \in Reach(s, h) : s[y] = m /\ y # m
  BY <1>1, ReachBefore DEF s, D
<1>4. y \in Chain(t, h) /\ t.node[y].next # 0 /\ y + t.node[y].next = m
  BY <1>1, <1>2, <1>3
<1> DEFINE p == Previous(t, h, m)
<1>5. p \in Chain(t, h) /\ t.node[p].next # 0 /\ p + t.node[p].next = m
  BY <1>4 DEF Previous
<1> HIDE DEF p
<1>6. p \in D /\ s[p] = m
  BY <1>1, <1>2, <1>5
<1>7. p # m
  BY <1>2, <1>5, <1>6
<1>8. QED BY <1>6, <1>7 DEF p, s, D

LEMMA PlaceMoved ==
  ASSUME TableAssumption, NEW t, NEW k, NEW v, Placing(t, k, v),
         Taken(t, MainPosition(t, k)), FreeNodes(t) # {},
         MainPosition(t, t.node[MainPosition(t, k)].key) # MainPosition(t, k)
  PROVE  Assigned(t, MoveColliding(t, MainPosition(t, k), Max(FreeNodes(t)), k, v), k, v)
<1> DEFINE m == MainPosition(t, k)
           f == Max(FreeNodes(t))
           D == Nodes(t)
           next == t.node[m].next
           h == MainPosition(t, t.node[m].key)
           p == Previous(t, h, m)
           moved == [t.node[m] EXCEPT !.next = IF next = 0 THEN 0 ELSE next + m - f]
           first == [key |-> k, val |-> v, next |-> 0]
           new == [[[t.node EXCEPT ![p].next = f - p] EXCEPT ![f] = moved] EXCEPT ![m] = first]
           u == WithNodes(t, new, f)
<1>1. /\ m \in D /\ Homes(t)[k] = m
      /\ k \in NodeKey \cup {NilKey} /\ k # NilKey
      /\ Hung(Succs(t), Keys(t), Homes(t), D)
      /\ \A n \in D : Keys(t)[n] = t.node[n].key /\ Keys(t)[n] # k
      /\ \A n \in D : t.node[n].val # Nil => t.node[n].key \in Key
      /\ \A n \in D : Succs(t)[n] = n + t.node[n].next /\ Succs(t)[n] \in D
      /\ Succs(t) \in [D -> D] /\ Keys(t) \in [D -> NodeKey \cup {NilKey}]
  BY PlacingFacts
<1>2. /\ f \in D /\ f # m /\ t.node[f].key = NilKey /\ f \in -1..t.sizenode /\ f # -1
      /\ t.node[m].key \in Key /\ Homes(t)[t.node[m].key] = h /\ t.node[f].val = Nil
  BY TakenFacts
<1>3. /\ Shaped(t) /\ Unstranded(t) /\ k \in Key /\ v \in Value \cup {Nil} /\ ~InArray(t, k) /\ Form(t)
  BY DEF Placing, Shaped
<1>4. /\ t = [sizearray |-> t.sizearray, array |-> t.array, sizenode |-> t.sizenode,
              node |-> t.node, lastfree |-> t.lastfree]
      /\ t.node \in [D -> Node] /\ t.sizenode \in Nat \ {0}
  BY <1>3, FormRecord
<1>5. D \subseteq Int
  BY <1>4 DEF Nodes
<1>6. MoveColliding(t, m, f, k, v) = u
  <2>1. MoveColliding(t, m, f, k, v) =
          [t EXCEPT !.node[p].next = f - p, !.node[f] = moved, !.node[m] = first, !.lastfree = f]
    BY DEF MoveColliding
  <2> HIDE DEF m, f, D, next, first, moved, p
  <2>2. QED BY <1>1, <1>2, <1>4, <2>1 DEF WithNodes
<1>7. p \in D /\ p # m /\ Succs(t)[p] = m /\ p # f
  <2>1. Linked(t)
    BY <1>3, ShapedLinked
  <2>2. h \in D /\ m # h
    BY <1>2, <1>4, PositionIs
  <2>3. Keys(t)[m] # NilKey /\ Keys(t)[m] = t.node[m].key
    BY <1>1, <1>2, KeyFacts DEF NodeKey
  <2> HIDE DEF h, m
  <2>4. m \in Reach(Succs(t), h)
    BY <1>1, <1>2, <2>3 DEF Hung, Reached
  <2>5. p \in D /\ p # m /\ Succs(t)[p] = m
    BY <2>1, <2>2, <2>4, <1>1, <1>4, PreviousIs
  <2>6. Succs(t)[f] = f
    BY <1>1, <1>2 DEF Hung, FreeIsolated, Isolated
  <2>7. QED BY <2>5, <2>6, <1>2
<1>8. /\ new \in [D -> Node]
      /\ new[m].key = k /\ new[m].val = v /\ new[m].next = 0
      /\ new[f].key = t.node[m].key /\ new[f].val = t.node[m].val
      /\ new[f].next = IF next = 0 THEN 0 ELSE next + m - f
      /\ \A n \in D : n # m /\ n # f => new[n].key = t.node[n].key /\ new[n].val = t.node[n].val
      /\ new[p].next = f - p
      /\ \A n \in D : n # m /\ n # f /\ n # p => new[n].next = t.node[n].next
  <2>1. /\ t.node[m] \in Node /\ t.node[p] \in Node /\ f - p \in Int /\ next \in Int
        /\ m \in Int /\ f \in Int
    BY <1>1, <1>2, <1>4, <1>5, <1>7 DEF Node
  <2>2. /\ moved \in Node /\ moved.key = t.node[m].key /\ moved.val = t.node[m].val
        /\ moved.next = IF next = 0 THEN 0 ELSE next + m - f
    BY <2>1 DEF Node
  <2>3. first \in Node /\ first.key = k /\ first.val = v /\ first.next = 0
    BY <1>1, <1>3 DEF Node
  <2> DEFINE before == [t.node[p] EXCEPT !.next = f - p]
  <2>4. /\ before \in Node /\ before.key = t.node[p].key /\ before.val = t.node[p].val
        /\ before.next = f - p
    BY <2>1 DEF Node
  <2>5. new[m] = first /\ new[f] = moved /\ new[p] = before
    <3> HIDE DEF m, f, p, D, next, first, moved
    <3>1. QED BY <1>1, <1>2, <1>4, <1>7
  <2>6. \A n \in D : n # m /\ n # f /\ n # p => new[n] = t.node[n]
    <3> HIDE DEF m, f, p, D, next, first, moved
    <3>1. QED BY <1>4
  <2>7. new = [n \in D |-> new[n]]
    <3> HIDE DEF m, f, p, D, next, first, moved
    <3>1. QED BY <1>4
  <2> HIDE DEF new, m, f, p, D, next, first, moved, before
  <2>8. \A n \in D : new[n] \in Node
    BY <2>2, <2>3, <2>4, <2>5, <2>6, <1>4
  <2>9. new \in [D -> Node]
    BY <2>7, <2>8
  <2>10. \A n \in D : n # m /\ n # f => new[n].key = t.node[n].key /\ new[n].val = t.node[n].val
    BY <2>4, <2>5, <2>6
  <2>11. QED BY <2>2, <2>3, <2>4, <2>5, <2>6, <2>9, <2>10
<1> HIDE DEF new, m, D, u, f, next, first, moved, p, h
<1>9. /\ Form(u) /\ u.node = new /\ u.lastfree = f /\ u.array = t.array
      /\ u.sizearray = t.sizearray /\ u.sizenode = t.sizenode /\ Nodes(u) = D
  BY <1>2, <1>3, <1>8, WithNodesForm DEF u, D
<1>10. Succs(u) = Moved(Succs(t), p, m, f)
  <2>1. Succs(u) = [n \in D |-> n + new[n].next]
    BY <1>9 DEF Succs
  <2>2. Succs(t)[m] = m + next /\ next \in Int /\ m \in Int /\ f \in Int /\ p \in Int
    BY <1>1, <1>2, <1>4, <1>5, <1>7 DEF next, Node
  <2>3. f + new[f].next = IF Succs(t)[m] = m THEN f ELSE Succs(t)[m]
    BY <2>2, <1>8
  <2>4. p + new[p].next = f /\ m + new[m].next = m
    BY <2>2, <1>8
  <2>5. \A n \in D : n # m /\ n # f /\ n # p => n + new[n].next = Succs(t)[n]
    BY <1>1, <1>8
  <2> DEFINE r == Moved(Succs(t), p, m, f)
  <2>6. /\ r = [n \in D |-> r[n]] /\ r[f] = (IF Succs(t)[m] = m THEN f ELSE Succs(t)[m])
        /\ r[m] = m /\ r[p] = f /\ \A n \in D : n # m /\ n # f /\ n # p => r[n] = Succs(t)[n]
    BY <1>1, <1>2, <1>7 DEF Moved
  <2> HIDE DEF r
  <2>7. \A n \in D : n + new[n].next = r[n]
    BY <2>3, <2>4, <2>5, <2>6
  <2>8. r = [n \in D |-> n + new[n].next]
    BY <2>6, <2>7
  <2>9. QED BY <2>1, <2>8 DEF r
<1>11. Keys(u) = [Keys(t) EXCEPT ![f] = Keys(t)[m], ![m] = k]
  <2>1. Keys(u) = [n \in D |-> new[n].key]
    BY <1>9 DEF Keys
  <2>2. \A n \in D : new[n].key = [Keys(t) EXCEPT ![f] = Keys(t)[m], ![m] = k][n]
    BY <1>1, <1>2, <1>8
  <2>3. QED BY <2>1, <2>2, <1>1
<1>12. Hung(Succs(u), Keys(u), Homes(t), D)
  <2>1. /\ k \in Key /\ (\A n \in D : Keys(t)[n] # k) /\ Keys(t)[f] = NilKey
        /\ Keys(t)[Homes(t)[k]] \in Key /\ Homes(t)[Keys(t)[Homes(t)[k]]] # Homes(t)[k]
        /\ Succs(t)[p] = Homes(t)[k] /\ p # Homes(t)[k]
    BY <1>1, <1>2, <1>3, <1>7 DEF h, m
  <2>2. Hung(Moved(Succs(t), p, Homes(t)[k], f),
             [Keys(t) EXCEPT ![f] = Keys(t)[Homes(t)[k]], ![Homes(t)[k]] = k], Homes(t), D)
    BY <2>1, <1>1, <1>2, <1>7, HungMoved
  <2>3. QED BY <2>2, <1>1, <1>10, <1>11
<1>13. ValuesLive(u) /\ ~IsDummy(u)
  <2>1. ASSUME NEW n \in D, new[n].val # Nil
        PROVE  new[n].key \in Key
    <3>1. CASE n = m \/ n = f
      BY <3>1, <1>2, <1>3, <1>8
    <3>2. CASE n # m /\ n # f
      BY <2>1, <3>2, <1>1, <1>8
    <3>3. QED BY <3>1, <3>2
  <2>2. QED BY <2>1, <1>2, <1>9 DEF ValuesLive, IsDummy
<1>14. ASSUME NEW q \in Key, NEW w \in Value
       PROVE  InNodes(u, q, w) <=> IF q = k THEN w = v ELSE InNodes(t, q, w)
  <2>1. CASE q = k
    <3>1. \A n \in D : n # m => new[n].key # k
      BY <1>1, <1>8
    <3>2. QED BY <2>1, <3>1, <1>1, <1>8, <1>9 DEF InNodes
  <2>2. CASE q # k
    <3>1. q # NilKey
      BY KeyFacts DEF NodeKey
    <3>2. ASSUME InNodes(u, q, w)
          PROVE  InNodes(t, q, w)
      <4>1. PICK n \in D : new[n].key = q /\ new[n].val = w
        BY <3>2, <1>9 DEF InNodes
      <4>2. n # m
        BY <4>1, <2>2, <1>8
      <4>3. CASE n = f
        BY <4>1, <4>3, <1>1, <1>8 DEF InNodes, D
      <4>4. CASE n # f
        BY <4>1, <4>2, <4>4, <1>8 DEF InNodes, D
      <4>5. QED BY <4>3, <4>4
    <3>3. ASSUME InNodes(t, q, w)
          PROVE  InNodes(u, q, w)
      <4>1. PICK n \in D : t.node[n].key = q /\ t.node[n].val = w
        BY <3>3 DEF InNodes, D
      <4>2. n # f
        BY <4>1, <3>1, <1>2
      <4>3. CASE n = m
        BY <4>1, <4>3, <1>2, <1>8, <1>9 DEF InNodes
      <4>4. CASE n # m
        BY <4>1, <4>2, <4>4, <1>8, <1>9 DEF InNodes
      <4>5. QED BY <4>3, <4>4
    <3>4. QED BY <3>2, <3>3, <2>2
  <2>3. QED BY <2>1, <2>2
<1>15. Assigned(t, u, k, v)
  BY <1>3, <1>9, <1>12, <1>13, <1>14, NewAssigned DEF D
<1>16. QED BY <1>6, <1>15 DEF m, f

LEMMA SetIs ==
  ASSUME TableAssumption, NEW t, Shaped(t), Unstranded(t),
         NEW k \in Key, NEW v \in Value \cup {Nil}, ~NeedsRehash(t, k)
  PROVE  Assigned(t, Set(t, k, v), k, v)
<1>1. CASE InArray(t, k)
  <2>1. Set(t, k, v) = [t EXCEPT !.array[k.v] = v]
    BY <1>1 DEF Set
  <2>2. QED BY <2>1, <1>1, SetElement
<1>2. CASE ~InArray(t, k) /\ Slot(t, k) # -1
  <2>1. Slot(t, k) \in Nodes(t) /\ t.node[Slot(t, k)].key = k
    BY <1>2, SlotIs
  <2>2. Set(t, k, v) = [t EXCEPT !.node[Slot(t, k)].val = v]
    BY <1>2 DEF Set, Absent
  <2>3. QED BY <2>1, <2>2, <1>2, SetNode
<1>3. CASE ~InArray(t, k) /\ Slot(t, k) = -1
  <2> DEFINE m == MainPosition(t, k)
             f == Max(FreeNodes(t))
  <2>1. Placing(t, k, v)
    <3>1. \A n \in Nodes(t) : t.node[n].key # k
      BY <1>3, SlotIs
    <3>2. QED BY <3>1, <1>3 DEF Placing
  <2>2. Set(t, k, v) = NewKeyInRoom(t, k, v)
    BY <1>3 DEF Set, Absent
  <2>3. Taken(t, m) => FreeNodes(t) # {}
    BY <1>3 DEF NeedsRehash, Absent, NoRoom
  <2>4. CASE ~Taken(t, m)
    <3>1. NewKeyInRoom(t, k, v) = [t EXCEPT !.node[m] = [key |-> k, val |-> v, next |-> @.next]]
      BY <2>4 DEF NewKeyInRoom
    <3>2. QED BY <2>1, <2>2, <2>4, <3>1, PlaceOver
  <2>5. CASE Taken(t, m) /\ MainPosition(t, t.node[m].key) # m
    <3>1. NewKeyInRoom(t, k, v) = MoveColliding(t, m, f, k, v)
      BY <2>5 DEF NewKeyInRoom
    <3>2. QED BY <2>1, <2>2, <2>3, <2>5, <3>1, PlaceMoved
  <2>6. CASE Taken(t, m) /\ MainPosition(t, t.node[m].key) = m
    <3>1. NewKeyInRoom(t, k, v) = InsertAfter(t, m, f, k, v)
      BY <2>6 DEF NewKeyInRoom
    <3>2. QED BY <2>1, <2>2, <2>3, <2>6, <3>1, PlaceAfter
  <2>7. QED BY <2>4, <2>5, <2>6
<1>4. QED BY <1>1, <1>2, <1>3

\* An assignment to a key that has a place changes its value only.
LEMMA SetPresent ==
  ASSUME TableAssumption, NEW t, Shaped(t), Unstranded(t),
         NEW k \in Key, NEW v \in Value \cup {Nil}, ~Absent(t, k)
  PROVE  LET u == Set(t, k, v)
         IN  /\ SameKeys(t, u)
             /\ \A x \in 1..t.sizearray : u.array[x] = t.array[x] \/ IntKey(x) = k
             /\ \A n \in Nodes(t) : u.node[n].val = t.node[n].val \/ t.node[n].key = k
<1>1. CASE InArray(t, k)
  <2>1. Set(t, k, v) = [t EXCEPT !.array[k.v] = v]
    BY <1>1 DEF Set
  <2>2. k = IntKey(k.v)
    BY <1>1, ElementKey
  <2>3. QED BY <2>1, <2>2, <1>1, SetElement
<1>2. CASE ~InArray(t, k)
  <2>1. Slot(t, k) \in Nodes(t) /\ t.node[Slot(t, k)].key = k
    BY <1>2, SlotIs DEF Absent
  <2>2. Set(t, k, v) = [t EXCEPT !.node[Slot(t, k)].val = v]
    BY <1>2 DEF Set
  <2>3. QED BY <2>1, <2>2, <1>2, SetNode
<1>3. QED BY <1>1, <1>2

(***************************************************************************)
(* What a key finds                                                        *)
(***************************************************************************)
LEMMA NormalIs ==
  ASSUME TableAssumption
  PROVE  (\A k \in Key : Normal(k) = k) /\ \A k \in AnyKey : Normal(k) \in Key
<1>1. \A k \in AnyKey : Normal(k) \in Key
  BY DEF Key
<1>2. ASSUME NEW k \in Key
      PROVE  Normal(k) = k
  <2>1. PICK q \in AnyKey : k = Normal(q)
    BY DEF Key
  <2>2. CASE q.tt = "flt" /\ q.v % 2 = 0
    BY <2>1, <2>2 DEF Normal, IntKey
  <2>3. CASE ~(q.tt = "flt" /\ q.v % 2 = 0)
    BY <2>1, <2>3 DEF Normal
  <2>4. QED BY <2>2, <2>3
<1>3. QED BY <1>1, <1>2

LEMMA GetIs ==
  ASSUME TableAssumption, NEW t, Shaped(t), NEW k \in Key, Unstranded(t) \/ ~InArray(t, k)
  PROVE  /\ luaH_get(t, k) = GetNormal(t, k) /\ GetNormal(t, k) \in Value \cup {Nil}
         /\ \A v \in Value : GetNormal(t, k) = v <=> InTab(t, k, v)
<1>1. luaH_get(t, k) = GetNormal(t, k)
  BY NormalIs DEF luaH_get
<1>2. t.sizearray \in Nat /\ t.array \in [1..t.sizearray -> Value \cup {Nil}] /\ t.node \in [Nodes(t) -> Node]
  BY FormRecord DEF Shaped
<1>3. CASE InArray(t, k)
  <2>1. k = IntKey(k.v) /\ k.v \in 1..t.sizearray
    BY <1>3, ElementKey
  <2>2. GetNormal(t, k) = t.array[k.v]
    BY <1>3 DEF GetNormal
  <2>3. \A x : k = IntKey(x) => x = k.v
    BY <1>2, ElementIs
  <2>4. \A n \in Nodes(t) : t.node[n].key = k => t.node[n].val = Nil
    BY <1>3 DEF Unstranded
  <2>5. QED BY <2>1, <2>2, <2>3, <2>4, <1>1, <1>2 DEF InTab, TableAssumption
<1>4. CASE ~InArray(t, k)
  <2>1. \A x \in 1..t.sizearray : k # IntKey(x)
    BY <1>2, <1>4, ElementIs
  <2>2. GetNormal(t, k) = IF Slot(t, k) = -1 THEN Nil ELSE t.node[Slot(t, k)].val
    BY <1>4 DEF GetNormal
  <2>3. \A n \in Nodes(t) : t.node[n].val \in Value \cup {Nil}
    BY <1>2 DEF Node
  <2>4. CASE Slot(t, k) = -1
    <3>1. \A n \in Nodes(t) : t.node[n].key # k
      BY <2>4, SlotIs
    <3>2. QED BY <2>1, <2>2, <2>4, <3>1, <1>1 DEF InTab, TableAssumption
  <2>5. CASE Slot(t, k) # -1
    <3>1. Slot(t, k) \in Nodes(t) /\ t.node[Slot(t, k)].key = k
           /\ \A n \in Nodes(t) : t.node[n].key = k => n = Slot(t, k)
      BY <2>5, SlotIs
    <3>2. QED BY <2>1, <2>2, <2>3, <2>5, <3>1, <1>1 DEF InTab
  <2>6. QED BY <2>4, <2>5
<1>5. QED BY <1>3, <1>4

(***************************************************************************)
(* Changes of size                                                         *)
(***************************************************************************)
LEMMA SameNodes ==
  ASSUME NEW t, NEW u, Shaped(t), Form(u), u.node = t.node, u.sizenode = t.sizenode,
         IsDummy(u) => IsDummy(t)
  PROVE  Shaped(u) /\ Nodes(u) = Nodes(t)
<1>1. Nodes(u) = Nodes(t) /\ Homes(u) = Homes(t)
  BY HomesSame
<1>2. Succs(u) = Succs(t) /\ Keys(u) = Keys(t)
  BY <1>1 DEF Succs, Keys
<1>3. ValuesLive(u) /\ DummyFree(u)
  BY <1>1 DEF Shaped, ValuesLive, DummyFree
<1>4. QED BY <1>1, <1>2, <1>3 DEF Shaped

\* The same entries in both parts.
SameEntries(t, u) ==
  /\ Nodes(u) = Nodes(t) /\ u.node = t.node /\ u.sizenode = t.sizenode
  /\ \A k \in Key, v \in Value : InTab(u, k, v) <=> InTab(t, k, v)

LEMMA LastfreeMoves ==
  ASSUME NEW t, Shaped(t), NEW last \in -1..t.sizenode, last = -1 => IsDummy(t)
  PROVE  LET u == [t EXCEPT !.lastfree = last]
         IN  /\ Shaped(u) /\ u.sizearray = t.sizearray /\ u.array = t.array /\ SameEntries(t, u)
             /\ IsDummy(u) <=> last = -1
<1> DEFINE u == [t EXCEPT !.lastfree = last]
<1>1. /\ t = [sizearray |-> t.sizearray, array |-> t.array, sizenode |-> t.sizenode,
              node |-> t.node, lastfree |-> t.lastfree]
      /\ t.sizearray \in Nat /\ t.array \in [1..t.sizearray -> Value \cup {Nil}]
      /\ t.sizenode \in Nat \ {0} /\ t.node \in [Nodes(t) -> Node]
  BY FormRecord DEF Shaped
<1>2. u = [sizearray |-> t.sizearray, array |-> t.array, sizenode |-> t.sizenode,
           node |-> t.node, lastfree |-> last]
  BY <1>1
<1> HIDE DEF u
<1>3. /\ u.sizearray = t.sizearray /\ u.array = t.array /\ u.sizenode = t.sizenode /\ u.node = t.node
      /\ u.lastfree = last
  BY <1>2
<1>4. Form(u)
  BY <1>1, <1>2, <1>3 DEF Form, Nodes
<1>5. IsDummy(u) <=> last = -1
  BY <1>3 DEF IsDummy
<1>6. Shaped(u) /\ Nodes(u) = Nodes(t)
  BY <1>3, <1>4, <1>5, SameNodes
<1>7. \A k \in Key, v \in Value : InTab(u, k, v) <=> InTab(t, k, v)
  BY <1>3, <1>6 DEF InTab
<1>8. QED BY <1>3, <1>5, <1>6, <1>7 DEF SameEntries, u

\* setarrayvector.
LEMMA ArrayVectorIs ==
  ASSUME TableAssumption, NEW t, Shaped(t), NEW size \in Nat
  PROVE  LET u == SetArrayVector(t, size)
         IN  /\ Shaped(u) /\ u.sizearray = size /\ u.node = t.node /\ u.sizenode = t.sizenode
             /\ Nodes(u) = Nodes(t) /\ (IsDummy(u) <=> IsDummy(t)) /\ u.lastfree = t.lastfree
             /\ \A x \in 1..size : u.array[x] = IF x <= t.sizearray THEN t.array[x] ELSE Nil
<1> DEFINE u == SetArrayVector(t, size)
           new == [x \in 1..size |-> IF x <= t.sizearray THEN t.array[x] ELSE Nil]
<1>1. /\ t = [sizearray |-> t.sizearray, array |-> t.array, sizenode |-> t.sizenode,
              node |-> t.node, lastfree |-> t.lastfree]
      /\ t.sizearray \in Nat /\ t.array \in [1..t.sizearray -> Value \cup {Nil}]
      /\ t.sizenode \in Nat \ {0} /\ t.node \in [Nodes(t) -> Node] /\ t.lastfree \in -1..t.sizenode
  BY FormRecord DEF Shaped
<1>2. new \in [1..size -> Value \cup {Nil}]
  BY <1>1
<1>3. u = [t EXCEPT !.array = new, !.sizearray = size]
  BY DEF SetArrayVector
<1> HIDE DEF u
<1>4. u = [sizearray |-> size, array |-> new, sizenode |-> t.sizenode,
           node |-> t.node, lastfree |-> t.lastfree]
  <2> HIDE DEF new
  <2>1. QED BY <1>1, <1>3
<1>5. \A x \in 1..size : new[x] = IF x <= t.sizearray THEN t.array[x] ELSE Nil
  OBVIOUS
<1> HIDE DEF new
<1>6. /\ u.sizearray = size /\ u.array = new /\ u.sizenode = t.sizenode /\ u.node = t.node
      /\ u.lastfree = t.lastfree
  BY <1>4
<1>7. Form(u)
  BY <1>1, <1>2, <1>4, <1>6 DEF Form, Nodes
<1>8. IsDummy(u) <=> IsDummy(t)
  BY <1>6 DEF IsDummy
<1>9. Shaped(u) /\ Nodes(u) = Nodes(t)
  BY <1>6, <1>7, <1>8, SameNodes
<1>10. QED BY <1>5, <1>6, <1>8, <1>9 DEF u

LEMMA ArrayGrows ==
  ASSUME TableAssumption, NEW t, Shaped(t), NEW size \in Nat, size > t.sizearray
  PROVE  LET u == SetArrayVector(t, size)
         IN  /\ Shaped(u) /\ u.sizearray = size /\ SameEntries(t, u) /\ (IsDummy(u) <=> IsDummy(t))
             /\ \A x \in 1..size : u.array[x] # Nil => x \in 1..t.sizearray /\ u.array[x] = t.array[x]
<1> DEFINE u == SetArrayVector(t, size)
<1>1. /\ Shaped(u) /\ u.sizearray = size /\ u.node = t.node /\ u.sizenode = t.sizenode
      /\ Nodes(u) = Nodes(t) /\ (IsDummy(u) <=> IsDummy(t))
      /\ \A x \in 1..size : u.array[x] = IF x <= t.sizearray THEN t.array[x] ELSE Nil
  BY ArrayVectorIs
<1> HIDE DEF u
<1>2. t.sizearray \in Nat
  BY FormRecord DEF Shaped
<1>3. \A x \in 1..size : u.array[x] # Nil => x \in 1..t.sizearray /\ u.array[x] = t.array[x]
  BY <1>1, <1>2
<1>4. \A x \in 1..t.sizearray : x \in 1..size /\ u.array[x] = t.array[x]
  BY <1>1, <1>2
<1>5. ASSUME NEW k \in Key, NEW v \in Value
      PROVE  InTab(u, k, v) <=> InTab(t, k, v)
  BY <1>1, <1>3, <1>4 DEF InTab, TableAssumption
<1>6. QED BY <1>1, <1>3, <1>5 DEF SameEntries, u

\* setnodevector.
LEMMA NodeVectorIs ==
  ASSUME TableAssumption, NEW t, Shaped(t), NEW size \in Int, ~TableOverflow(size)
  PROVE  LET u == SetNodeVector(t, size)
         IN  /\ Shaped(u) /\ u.sizearray = t.sizearray /\ u.array = t.array
             /\ u.sizenode \in {twoto[l] : l \in 0..MAXHBITS}
             /\ \A n \in Nodes(u) : u.node[n].key = NilKey /\ u.node[n].val = Nil
             /\ size <= AllocSizeNode(u) /\ FreeNodes(u) = 0..(AllocSizeNode(u) - 1)
<1> DEFINE u == SetNodeVector(t, size)
           P == {twoto[l] : l \in 0..MAXHBITS}
           Q == {m \in P : size <= m}
           N == IF size = 0 THEN 1 ELSE Min(Q)
           last == IF size = 0 THEN -1 ELSE N
           new == [m \in 0..(N - 1) |-> FreeNode]
<1>1. /\ t = [sizearray |-> t.sizearray, array |-> t.array, sizenode |-> t.sizenode,
              node |-> t.node, lastfree |-> t.lastfree]
      /\ t.sizearray \in Nat /\ t.array \in [1..t.sizearray -> Value \cup {Nil}]
  BY FormRecord DEF Shaped
<1>2. MAXHBITS \in Nat /\ MAXHBITS \in 0..MAXHBITS /\ twoto[MAXHBITS] \in P /\ P \in SUBSET (Nat \ {0})
  <2>1. MAXHBITS \in Nat /\ MAXHBITS \in 0..MAXHBITS
    BY DEF TableAssumption
  <2>2. \A l \in 0..MAXHBITS : twoto[l] \in Nat \ {0}
    BY <2>1, TwotoIs
  <2>3. QED BY <2>1, <2>2
<1>3. size # 0 => Min(Q) \in P /\ size <= Min(Q)
  <2>1. twoto[MAXHBITS] \in Q
    BY <1>2 DEF TableOverflow
  <2>2. Q \in SUBSET Nat /\ Q # {} /\ Q \in SUBSET P /\ \A m \in Q : size <= m
    BY <1>2, <2>1
  <2> HIDE DEF Q, P
  <2>3. Min(Q) \in Q
    BY <2>2, MinIs
  <2>4. QED BY <2>2, <2>3
<1>4. N \in P
  <2>1. 1 \in P
    <3>1. twoto[0] = 1 /\ 0 \in 0..MAXHBITS
      BY <1>2, TwotoIs
    <3>2. QED BY <3>1
  <2> HIDE DEF P, Q
  <2>2. QED BY <2>1, <1>3
<1>5. u = [t EXCEPT !.node = new, !.sizenode = N, !.lastfree = last]
  <2>1. CASE size = 0
    <3>1. 0..(1 - 1) = {0}
      OBVIOUS
    <3>2. N = 1 /\ last = -1
      BY <2>1
    <3>3. new = [m \in {0} |-> FreeNode]
      BY <3>1, <3>2
    <3> HIDE DEF new, N, last
    <3>4. QED BY <2>1, <3>2, <3>3 DEF SetNodeVector
  <2>2. CASE size # 0
    <3>1. N = Min(Q) /\ last = N
      BY <2>2
    <3>2. QED BY <2>2, <3>1 DEF SetNodeVector
  <2>3. QED BY <2>1, <2>2
<1>6. N \in Nat \ {0} /\ last \in -1..N /\ (last = -1 <=> size = 0) /\ (last # -1 => last = N /\ size <= N)
  <2>1. N \in Nat \ {0}
    BY <1>2, <1>4
  <2>2. size # 0 => size <= N
    BY <1>3
  <2> HIDE DEF N
  <2>3. QED BY <2>1, <2>2
<1> HIDE DEF u, P, Q, N, last
<1>7. new \in [0..(N - 1) -> Node] /\ \A n \in 0..(N - 1) : new[n] = FreeNode
  BY DEF FreeNode, Node
<1>8. FreeNode.key = NilKey /\ FreeNode.val = Nil /\ FreeNode.next = 0
  BY DEF FreeNode
<1> HIDE DEF new
<1>9. u = [sizearray |-> t.sizearray, array |-> t.array, sizenode |-> N, node |-> new, lastfree |-> last]
  BY <1>1, <1>5
<1>10. /\ u.sizearray = t.sizearray /\ u.array = t.array /\ u.sizenode = N /\ u.node = new
       /\ u.lastfree = last /\ Nodes(u) = 0..(N - 1)
  BY <1>9 DEF Nodes
<1>11. Form(u)
  BY <1>1, <1>6, <1>7, <1>9, <1>10 DEF Form
<1>12. \A n \in Nodes(u) : u.node[n].key = NilKey /\ u.node[n].val = Nil /\ u.node[n].next = 0
  BY <1>7, <1>8, <1>10
<1>13. ValuesLive(u) /\ DummyFree(u)
  BY <1>12 DEF ValuesLive, DummyFree
<1>14. Hung(Succs(u), Keys(u), Homes(u), Nodes(u))
  <2>1. \A n \in Nodes(u) : n + u.node[n].next = n /\ n \in Nodes(u)
    BY <1>10, <1>12
  <2>2. Succs(u) \in [Nodes(u) -> Nodes(u)] /\ \A n \in Nodes(u) : Succs(u)[n] = n
    BY <2>1 DEF Succs
  <2>3. Keys(u) \in [Nodes(u) -> {NilKey}]
    BY <1>12 DEF Keys
  <2>4. Homes(u) \in [NodeKey -> Nodes(u)] /\ \A o \in Object : Homes(u)[DeadKey(o)] = Homes(u)[ObjKey(o)]
    BY <1>6, <1>10, HomesIs
  <2>5. QED BY <2>2, <2>3, <2>4, HungFresh
<1>15. AllocSizeNode(u) = (IF size = 0 THEN 0 ELSE N)
  BY <1>6, <1>10 DEF AllocSizeNode, IsDummy
<1>16. size <= AllocSizeNode(u) /\ FreeNodes(u) = 0..(AllocSizeNode(u) - 1)
  <2>1. CASE size = 0
    <3>1. last = -1 /\ AllocSizeNode(u) = 0
      BY <2>1, <1>6, <1>15
    <3>2. FreeNodes(u) = {}
      BY <3>1, <1>10 DEF FreeNodes
    <3>3. QED BY <2>1, <3>1, <3>2
  <2>2. CASE size # 0
    <3>1. last = N /\ AllocSizeNode(u) = N
      BY <2>2, <1>6, <1>15
    <3>2. FreeNodes(u) = 0..(N - 1)
      BY <3>1, <1>10, <1>12 DEF FreeNodes
    <3>3. QED BY <2>2, <3>1, <3>2, <1>6
  <2>3. QED BY <2>1, <2>2
<1>17. QED BY <1>4, <1>10, <1>11, <1>12, <1>13, <1>14, <1>16 DEF Shaped, u, P

\* removeentry: the key of an entry without value is killed.
LEMMA KillIs ==
  ASSUME TableAssumption, NEW t, Shaped(t), NEW o \in Object, NEW m \in Nodes(t),
         t.node[m].key = ObjKey(o), t.node[m].val = Nil
  PROVE  LET u == [t EXCEPT !.node[m].key = DeadKey(o)]
         IN  /\ Shaped(u) /\ u.sizearray = t.sizearray /\ u.array = t.array /\ u.sizenode = t.sizenode
             /\ u.lastfree = t.lastfree /\ Nodes(u) = Nodes(t) /\ Succs(u) = Succs(t)
             /\ \A n \in Nodes(t) : /\ u.node[n].val = t.node[n].val
                                    /\ u.node[n].key = IF n = m THEN DeadKey(o) ELSE t.node[n].key
             /\ \A k \in Key, v \in Value : InTab(u, k, v) <=> InTab(t, k, v)
<1> DEFINE u == [t EXCEPT !.node[m].key = DeadKey(o)]
           D == Nodes(t)
           new == [t.node EXCEPT ![m].key = DeadKey(o)]
<1>1. /\ t = [sizearray |-> t.sizearray, array |-> t.array, sizenode |-> t.sizenode,
              node |-> t.node, lastfree |-> t.lastfree]
      /\ t.node \in [D -> Node] /\ t.lastfree \in -1..t.sizenode
  BY FormRecord DEF Shaped
<1>2. u = WithNodes(t, new, t.lastfree)
  BY <1>1 DEF WithNodes
<1>3. /\ new \in [D -> Node]
      /\ \A n \in D : /\ new[n].val = t.node[n].val /\ new[n].next = t.node[n].next
                      /\ new[n].key = IF n = m THEN DeadKey(o) ELSE t.node[n].key
  <2>1. DeadKey(o) \in NodeKey
    BY KeyFacts
  <2>2. QED BY <2>1, <1>1 DEF Node
<1> HIDE DEF u, new
<1>4. /\ Form(u) /\ u.node = new /\ u.lastfree = t.lastfree /\ u.array = t.array
      /\ u.sizearray = t.sizearray /\ u.sizenode = t.sizenode /\ Nodes(u) = D
  <2>1. Form(t)
    BY DEF Shaped
  <2>2. QED BY <2>1, <1>1, <1>2, <1>3, WithNodesForm
<1>5. Homes(u) = Homes(t)
  BY <1>4, HomesSame
<1>6. Succs(u) = Succs(t)
  BY <1>3, <1>4 DEF Succs
<1>7. Keys(u) = [Keys(t) EXCEPT ![m] = DeadKey(o)]
  <2>1. Keys(u) = [n \in D |-> new[n].key]
    BY <1>4 DEF Keys
  <2>2. QED BY <2>1, <1>3 DEF Keys
<1>8. Hung(Succs(u), Keys(u), Homes(u), Nodes(u))
  <2>1. Hung(Succs(t), Keys(t), Homes(t), D) /\ Keys(t)[m] = ObjKey(o)
    BY DEF Shaped, Keys
  <2>2. Hung(Succs(t), [Keys(t) EXCEPT ![m] = DeadKey(o)], Homes(t), D)
    BY <2>1, HungKill
  <2>3. QED BY <2>2, <1>4, <1>5, <1>6, <1>7
<1>9. ValuesLive(u) /\ DummyFree(u)
  <2>1. ~IsDummy(t)
    BY KeyFacts DEF Shaped, DummyFree, NodeKey
  <2>2. ~IsDummy(u)
    BY <2>1, <1>4 DEF IsDummy
  <2>3. ValuesLive(u)
    BY <1>3, <1>4 DEF Shaped, ValuesLive
  <2>4. QED BY <2>2, <2>3 DEF DummyFree
<1>10. ASSUME NEW k \in Key, NEW v \in Value
       PROVE  InTab(u, k, v) <=> InTab(t, k, v)
  <2>1. v # Nil
    BY DEF TableAssumption
  <2>2. \A n \in D : new[n].key = k /\ new[n].val = v <=> t.node[n].key = k /\ t.node[n].val = v
    BY <2>1, <1>3
  <2>3. QED BY <2>2, <1>4 DEF InTab
<1>11. QED BY <1>3, <1>4, <1>6, <1>8, <1>9, <1>10 DEF Shaped, u

(***************************************************************************)
(* The invariant: what has been assigned is in the table, or in what       *)
(* luaH_resize has not inserted yet                                        *)
(***************************************************************************)
InSlice(k, v) == \E x \in DOMAIN slice : x >= i /\ k = IntKey(x) /\ slice[x] = v
InOld(k, v) == \E n \in 0..j : nold[n].key = k /\ nold[n].val = v
Left(k, v) == InSlice(k, v) \/ InOld(k, v)
Content ==
  /\ map \in [Key -> Value \cup {Nil}]
  /\ \A k \in Key, v \in Value : map[k] = v <=> InTab(tab, k, v) \/ Left(k, v)

KeyedArray(t) == \A x \in 1..t.sizearray : t.array[x] # Nil => IntKey(x) \in Key
Sized(t) == t.sizearray <= twoto[MAXABITS] /\ t.sizenode \in {twoto[l] : l \in 0..MAXHBITS}
TabInv ==
  Shaped(tab) /\ KeyedArray(tab) /\ Sized(tab) /\ (phase # "vector" => Unstranded(tab))
SliceInv ==
  /\ nasize \in 0..tab.sizearray /\ i \in Nat /\ i > nasize
  /\ \E b \in Nat : DOMAIN slice = (nasize + 1)..b
  /\ \A x \in DOMAIN slice : slice[x] \in Value \cup {Nil} /\ (slice[x] # Nil => IntKey(x) \in Key)
OldInv ==
  /\ j \in Int /\ j >= -1
  /\ \A n \in 0..j : nold[n].val \in Value \cup {Nil} /\ (nold[n].val # Nil => nold[n].key \in Key)
ResizeInv ==
  /\ phase \in {"idle", "vector", "insert"}
  /\ pending # Nothing => pending.key \in Key /\ pending.val \in Value \cup {Nil}
  /\ phase = "vector" => nasize \in 0..tab.sizearray /\ nhsize \in Int
  /\ phase = "insert" => SliceInv /\ OldInv
  /\ phase # "insert" => slice = <<>> /\ j = -1
FlagsInv == flags \subseteq Event /\ \A e \in flags : map[ObjKey(e)] = Nil
Inv == TabInv /\ ResizeInv /\ Content /\ FlagsInv

\* Nothing is left to insert.
Done == \A k, v : ~Left(k, v)
LEMMA DoneIs ==
  ASSUME ResizeInv, phase # "insert" \/ (i \notin DOMAIN slice /\ j < 0)
  PROVE  Done
<1>1. CASE phase # "insert"
  <2>1. slice = <<>> /\ j = -1
    BY <1>1 DEF ResizeInv
  <2>2. QED BY <2>1 DEF Done, Left, InSlice, InOld
<1>2. CASE phase = "insert" /\ i \notin DOMAIN slice /\ j < 0
  <2>1. SliceInv /\ j \in Int
    BY <1>2 DEF ResizeInv, OldInv
  <2>2. PICK b \in Nat : DOMAIN slice = (nasize + 1)..b
    BY <2>1 DEF SliceInv
  <2>3. i \in Nat /\ i > nasize /\ nasize \in Int
    BY <2>1 DEF SliceInv
  <2>4. \A x \in DOMAIN slice : ~(x >= i)
    BY <1>2, <2>2, <2>3
  <2>5. 0..j = {}
    BY <1>2, <2>1
  <2>6. QED BY <2>4, <2>5 DEF Done, Left, InSlice, InOld
<1>3. QED BY <1>1, <1>2

LEMMA DoneNext ==
  ASSUME slice' = <<>>, j' = -1
  PROVE  Done'
BY DEF Done, Left, InSlice, InOld

\* An assignment.
LEMMA SetStep ==
  ASSUME TableAssumption, TabInv, phase # "vector", NEW k \in Key, NEW v \in Value \cup {Nil},
         ~NeedsRehash(tab, k), tab' = Set(tab, k, v)
  PROVE  Assigned(tab, tab', k, v) /\ TabInv' /\ tab'.sizearray = tab.sizearray
<1>1. Shaped(tab) /\ KeyedArray(tab) /\ Sized(tab) /\ Unstranded(tab)
  BY DEF TabInv
<1>2. Assigned(tab, tab', k, v)
  BY <1>1, SetIs
<1>3. /\ Shaped(tab') /\ Unstranded(tab') /\ tab'.sizearray = tab.sizearray
      /\ tab'.sizenode = tab.sizenode
      /\ \A x \in 1..tab.sizearray : tab'.array[x] = tab.array[x] \/ IntKey(x) = k
  BY <1>2 DEF Assigned
<1>4. KeyedArray(tab')
  BY <1>1, <1>3 DEF KeyedArray
<1>5. Sized(tab')
  BY <1>1, <1>3 DEF Sized
<1>6. QED BY <1>2, <1>3, <1>4, <1>5 DEF TabInv

LEMMA ContentSet ==
  ASSUME Content, Done, Done', NEW k \in Key, NEW v \in Value \cup {Nil},
         Assigned(tab, tab', k, v), map' = [map EXCEPT ![k] = v]
  PROVE  Content'
<1>1. map \in [Key -> Value \cup {Nil}] /\ \A q \in Key, w \in Value : map[q] = w <=> InTab(tab, q, w)
  BY DEF Content, Done
<1>2. \A q \in Key, w \in Value : InTab(tab', q, w) <=> IF q = k THEN w = v ELSE InTab(tab, q, w)
  BY DEF Assigned
<1>3. map' \in [Key -> Value \cup {Nil}] /\ \A q \in Key : map'[q] = IF q = k THEN v ELSE map[q]
  BY <1>1
<1>4. \A q, w : ~(Left(q, w)')
  BY DEF Done
<1>5. ASSUME NEW q \in Key, NEW w \in Value
      PROVE  map'[q] = w <=> InTab(tab', q, w)
  BY <1>1, <1>2, <1>3
<1>6. QED BY <1>3, <1>4, <1>5 DEF Content

LEMMA ContentSame ==
  ASSUME Content, map' = map,
         \A k \in Key, v \in Value : InTab(tab', k, v) \/ Left(k, v)' <=> InTab(tab, k, v) \/ Left(k, v)
  PROVE  Content'
BY DEF Content

LEMMA ContentReinserted ==
  ASSUME Content, map' = map, NEW k \in Key, NEW v \in Value, Left(k, v),
         Assigned(tab, tab', k, v),
         \A q \in Key, w \in Value : (Left(q, w)' => Left(q, w)) /\ (Left(q, w) /\ q # k => Left(q, w)')
  PROVE  Content'
<1>1. \A q \in Key, w \in Value : InTab(tab', q, w) <=> IF q = k THEN w = v ELSE InTab(tab, q, w)
  BY DEF Assigned
<1>2. \A q \in Key, w \in Value : map[q] = w <=> InTab(tab, q, w) \/ Left(q, w)
  BY DEF Content
<1>3. map[k] = v
  BY <1>2
<1>4. ASSUME NEW q \in Key, NEW w \in Value
      PROVE  InTab(tab', q, w) \/ Left(q, w)' <=> InTab(tab, q, w) \/ Left(q, w)
  <2>1. CASE q = k
    BY <2>1, <1>1, <1>2, <1>3
  <2>2. CASE q # k
    BY <2>2, <1>1
  <2>3. QED BY <2>1, <2>2
<1>5. QED BY <1>4, ContentSame

LEMMA ContentDone ==
  ASSUME Content, Done, Done', map' = map,
         \A k \in Key, v \in Value : InTab(tab', k, v) <=> InTab(tab, k, v)
  PROVE  Content'
<1>1. \A q, w : ~Left(q, w)
  BY DEF Done
<1>2. \A q, w : ~(Left(q, w)')
  BY DEF Done
<1>3. ASSUME NEW q \in Key, NEW w \in Value
      PROVE  InTab(tab', q, w) \/ Left(q, w)' <=> InTab(tab, q, w) \/ Left(q, w)
  BY <1>1, <1>2
<1>4. QED BY <1>3, ContentSame

(***************************************************************************)
(* Every step keeps the invariant                                          *)
(***************************************************************************)
LEMMA GetPresent ==
  ASSUME NEW t, NEW k, GetNormal(t, k) # Nil
  PROVE  ~Absent(t, k) /\ ~NeedsRehash(t, k)
BY DEF GetNormal, Absent, NeedsRehash

LEMMA ResizeInvIdle ==
  ASSUME ResizeInv, phase = "idle", UNCHANGED resize
  PROVE  ResizeInv'
BY DEF ResizeInv, resize

\* What a key finds is what was assigned to it.
LEMMA GetMap ==
  ASSUME TableAssumption, Inv, NEW k \in Key, phase # "insert", Unstranded(tab) \/ ~InArray(tab, k)
  PROVE  GetNormal(tab, k) = map[k] /\ luaH_get(tab, k) = map[k]
<1>1. Shaped(tab) /\ Content /\ Done
  BY DoneIs DEF Inv, TabInv
<1>2. /\ luaH_get(tab, k) = GetNormal(tab, k) /\ GetNormal(tab, k) \in Value \cup {Nil}
      /\ \A v \in Value : GetNormal(tab, k) = v <=> InTab(tab, k, v)
  BY <1>1, GetIs
<1>3. map[k] \in Value \cup {Nil} /\ \A v \in Value : map[k] = v <=> InTab(tab, k, v)
  BY <1>1 DEF Content, Done
<1>4. QED BY <1>2, <1>3 DEF TableAssumption

\* In the middle of luaH_resize it finds that or nothing.
LEMMA GetPart ==
  ASSUME TableAssumption, Inv, NEW k \in Key, Unstranded(tab) \/ ~InArray(tab, k), map[k] = Nil
  PROVE  luaH_get(tab, k) = Nil
<1>1. Shaped(tab) /\ Content
  BY DEF Inv, TabInv
<1>2. /\ luaH_get(tab, k) = GetNormal(tab, k) /\ GetNormal(tab, k) \in Value \cup {Nil}
      /\ \A v \in Value : GetNormal(tab, k) = v <=> InTab(tab, k, v)
  BY <1>1, GetIs
<1>3. \A v \in Value : ~InTab(tab, k, v)
  BY <1>1 DEF Content, TableAssumption
<1>4. QED BY <1>2, <1>3

LEMMA AssignIdle ==
  ASSUME TableAssumption, Inv, phase = "idle", NEW k \in Key, NEW v \in Value \cup {Nil},
         ~NeedsRehash(tab, k), tab' = Set(tab, k, v), map' = [map EXCEPT ![k] = v], UNCHANGED resize
  PROVE  TabInv' /\ ResizeInv' /\ Content'
<1>1. TabInv /\ ResizeInv /\ Content
  BY DEF Inv
<1>2. Assigned(tab, tab', k, v) /\ TabInv'
  BY <1>1, SetStep
<1>3. ResizeInv'
  BY <1>1, ResizeInvIdle
<1>4. Done
  BY <1>1, DoneIs
<1>5. Done'
  <2>1. slice = <<>> /\ j = -1 /\ slice' = slice /\ j' = j
    BY <1>1 DEF ResizeInv, resize
  <2>2. QED BY <2>1, DoneNext
<1>6. QED BY <1>1, <1>2, <1>3, <1>4, <1>5, ContentSet

LEMMA FastSetInv ==
  ASSUME TableAssumption, Inv, NEW k \in AnyKey, NEW v \in Value \cup {Nil}, FastSet(k, v)
  PROVE  Inv'
<1> DEFINE n == Normal(k)
<1>1. n \in Key
  BY NormalIs
<1>2. /\ phase = "idle" /\ GetNormal(tab, n) # Nil /\ tab' = Set(tab, n, v)
      /\ map' = [map EXCEPT ![n] = v] /\ flags' = flags /\ UNCHANGED resize
  BY DEF FastSet, luaH_get
<1> HIDE DEF n
<1>3. ~NeedsRehash(tab, n)
  BY <1>2, GetPresent
<1>4. TabInv' /\ ResizeInv' /\ Content'
  BY <1>1, <1>2, <1>3, AssignIdle
<1>5. map[n] # Nil
  <2>1. Unstranded(tab)
    BY <1>2 DEF Inv, TabInv
  <2>2. QED BY <2>1, <1>1, <1>2, GetMap
<1>6. FlagsInv'
  <2>1. \A e \in flags : ObjKey(e) # n
    BY <1>5 DEF Inv, FlagsInv
  <2>2. map \in [Key -> Value \cup {Nil}]
    BY DEF Inv, Content
  <2>3. \A e \in flags : ObjKey(e) \in Key
    BY KeyFacts DEF Inv, FlagsInv, TableAssumption
  <2>4. QED BY <2>1, <2>2, <2>3, <1>2 DEF Inv, FlagsInv
<1>7. QED BY <1>4, <1>6 DEF Inv

\* The sizes that rehash asks for.
LEMMA TwotoGrows ==
  ASSUME NEW a \in Nat, NEW b \in Nat, a <= b
  PROVE  twoto[a] <= twoto[b]
<1> DEFINE S == {n \in Nat : twoto[a] <= twoto[a + n]}
<1>1. 0 \in S
  BY TwotoIs
<1>2. ASSUME NEW n \in Nat, n \in S
      PROVE  n + 1 \in S
  <2>1. twoto[(a + n) + 1] = 2 * twoto[a + n] /\ twoto[a + n] \in Nat /\ twoto[a] \in Nat
    BY TwotoIs
  <2>2. (a + n) + 1 = a + (n + 1)
    OBVIOUS
  <2>3. QED BY <2>1, <2>2, <1>2
<1>3. \A n \in Nat : n \in S
  <2> HIDE DEF S
  <2>1. QED BY <1>1, <1>2, NatInduct
<1>4. b - a \in S
  BY <1>3
<1>5. a + (b - a) = b
  OBVIOUS
<1>6. QED BY <1>4, <1>5

LEMMA ComputeSizesIs ==
  ASSUME TableAssumption, NEW S
  PROVE  ComputeSizes(S) \in 0..twoto[MAXABITS] /\ twoto[MAXABITS] \in Nat
<1> DEFINE Slice(x, l) == x <= twoto[l] /\ (l = 0 \/ twoto[l - 1] < x)
           Fits(l) == /\ Cardinality(S) > twoto[l] \div 2
                      /\ \E x \in S : Slice(x, l)
                      /\ Cardinality({x \in S : x <= twoto[l]}) > twoto[l] \div 2
           sizes == {twoto[l] : l \in {l \in 0..MAXABITS : Fits(l)}}
           M == twoto[MAXABITS]
<1>1. ComputeSizes(S) = IF sizes = {} THEN 0 ELSE Max(sizes)
  BY DEF ComputeSizes
<1>2. MAXABITS \in Nat /\ M \in Nat
  BY TwotoIs DEF TableAssumption
<1>3. ASSUME NEW l \in 0..MAXABITS
      PROVE  twoto[l] \in Nat /\ twoto[l] <= M
  <2>1. l \in Nat /\ l <= MAXABITS
    BY <1>2
  <2>2. QED BY <2>1, <1>2, TwotoIs, TwotoGrows
<1> HIDE DEF Fits, M
<1>4. sizes \in SUBSET Nat /\ \A x \in sizes : x <= M
  BY <1>3
<1> HIDE DEF sizes
<1>5. sizes # {} => Max(sizes) \in sizes
  BY <1>2, <1>4, MaxIs
<1>6. ComputeSizes(S) \in 0..M
  <2>1. CASE sizes = {}
    BY <2>1, <1>1, <1>2
  <2>2. CASE sizes # {}
    <3>1. ComputeSizes(S) = Max(sizes) /\ Max(sizes) \in sizes
      BY <2>2, <1>1, <1>5
    <3>2. Max(sizes) \in Nat /\ Max(sizes) <= M
      BY <3>1, <1>4
    <3>3. QED BY <3>1, <3>2, <1>2
  <2>3. QED BY <2>1, <2>2
<1>7. QED BY <1>2, <1>6 DEF M

\* The candidates are no more than the array may have elements.
LEMMA CandidatesFinite ==
  ASSUME TableAssumption, NEW t, Shaped(t), Sized(t), NEW k \in Key
  PROVE  /\ IsFiniteSet(UsedElements(t)) /\ IsFiniteSet(UsedNodes(t)) /\ IsFiniteSet(Candidates(t, k))
         /\ UsedElements(t) \in SUBSET (1..t.sizearray) /\ UsedNodes(t) \in SUBSET Nodes(t)
         /\ Candidates(t, k) \in SUBSET (Nat \ {0})
<1> DEFINE M == twoto[MAXABITS]
<1>1. t.sizearray \in Nat /\ t.sizenode \in Nat \ {0} /\ DOMAIN t.node = Nodes(t)
  BY FormRecord DEF Shaped
<1>2. M \in Nat /\ t.sizearray <= M
  BY ComputeSizesIs DEF Sized
<1>3. UsedElements(t) \in SUBSET (1..t.sizearray) /\ UsedNodes(t) \in SUBSET Nodes(t)
  BY <1>1 DEF UsedElements, UsedNodes
<1>4. IsFiniteSet(UsedElements(t)) /\ IsFiniteSet(UsedNodes(t))
  <2>1. IsFiniteSet(1..t.sizearray)
    BY <1>1, FS_Interval
  <2>2. IsFiniteSet(Nodes(t))
    BY <1>1, FS_Interval DEF Nodes
  <2>3. QED BY <2>1, <2>2, <1>3, FS_Subset
<1>5. ASSUME NEW q \in Key
      PROVE  ArrayIndex(q) \in 0..M
  <2>1. q.tt = "int" => q.v \in Nat
    BY KeyKinds
  <2>2. QED BY <2>1, <1>2 DEF ArrayIndex
<1>6. \A n \in UsedNodes(t) : t.node[n].key \in Key
  BY <1>1 DEF UsedNodes, Shaped, ValuesLive
<1> HIDE DEF M
<1>7. Candidates(t, k) \in SUBSET (1..M)
  <2> SUFFICES ASSUME NEW x \in Candidates(t, k)
               PROVE  x \in 1..M
    OBVIOUS
  <2>1. x # 0 /\ (x \in UsedElements(t) \/ (\E n \in UsedNodes(t) : x = ArrayIndex(t.node[n].key))
                \/ x = ArrayIndex(k))
    BY DEF Candidates
  <2>2. CASE x \in UsedElements(t)
    BY <2>2, <1>1, <1>2, <1>3
  <2>3. CASE x \notin UsedElements(t)
    <3>1. x \in 0..M
      BY <2>1, <2>3, <1>5, <1>6
    <3>2. QED BY <2>1, <3>1, <1>2
  <2>4. QED BY <2>2, <2>3
<1>8. IsFiniteSet(Candidates(t, k))
  <2>1. IsFiniteSet(1..M)
    BY <1>2, FS_Interval
  <2>2. QED BY <2>1, <1>7, FS_Subset
<1>9. Candidates(t, k) \in SUBSET (Nat \ {0})
  BY <1>2, <1>7
<1>10. QED BY <1>3, <1>4, <1>8, <1>9

LEMMA SizesAre ==
  ASSUME TableAssumption, NEW t, Shaped(t), Sized(t), NEW k \in Key
  PROVE  ArraySize(t, k) \in 0..twoto[MAXABITS] /\ HashSize(t, k) \in Int
<1>1. ArraySize(t, k) \in 0..twoto[MAXABITS]
  BY ComputeSizesIs DEF ArraySize
<1>2. TotalUse(t) \in Nat
  <2>1. Cardinality(UsedElements(t)) \in Nat /\ Cardinality(UsedNodes(t)) \in Nat
    BY CandidatesFinite, FS_CardinalityType
  <2>2. QED BY <2>1 DEF TotalUse
<1> DEFINE C == {x \in Candidates(t, k) : x <= ArraySize(t, k)}
<1>3. Cardinality(C) \in Nat
  <2>1. C \in SUBSET Candidates(t, k) /\ IsFiniteSet(Candidates(t, k))
    BY CandidatesFinite
  <2> HIDE DEF C
  <2>2. IsFiniteSet(C)
    BY <2>1, FS_Subset
  <2>3. QED BY <2>2, FS_CardinalityType
<1>4. HashSize(t, k) = TotalUse(t) - Cardinality(C)
  BY DEF HashSize
<1>5. QED BY <1>1, <1>2, <1>3, <1>4

\* luaH_resize begins.
LEMMA ResizeBegins ==
  ASSUME TableAssumption, Inv, phase = "idle", NEW t, Shaped(t), t.sizearray = tab.sizearray,
         t.array = tab.array, SameEntries(tab, t),
         NEW asize \in 0..twoto[MAXABITS], NEW hsize \in Int, NEW entry,
         entry # Nothing => entry.key \in Key /\ entry.val \in Value \cup {Nil},
         Resize(t, asize, hsize, entry)
  PROVE  Inv'
<1>1. /\ tab' = (IF asize > t.sizearray THEN SetArrayVector(t, asize) ELSE t)
      /\ phase' = "vector" /\ nasize' = asize /\ nhsize' = hsize /\ pending' = entry
      /\ flags' = flags /\ slice' = slice /\ i' = i /\ nold' = nold /\ j' = j /\ map' = map
  BY DEF Resize
<1>2. TabInv /\ ResizeInv /\ Content /\ FlagsInv /\ twoto[MAXABITS] \in Nat
  BY ComputeSizesIs DEF Inv
<1>3. tab.sizearray \in Nat /\ t.sizearray \in Nat
  BY FormRecord DEF Shaped
<1>4. KeyedArray(t) /\ Sized(t)
  BY <1>2 DEF TabInv, KeyedArray, Sized, SameEntries
<1>5. /\ Shaped(tab') /\ KeyedArray(tab') /\ Sized(tab') /\ asize <= tab'.sizearray
      /\ tab'.sizearray \in Nat /\ SameEntries(t, tab')
  <2>1. CASE asize > t.sizearray
    <3>1. /\ Shaped(tab') /\ tab'.sizearray = asize /\ SameEntries(t, tab')
          /\ \A x \in 1..asize : tab'.array[x] # Nil => x \in 1..t.sizearray /\ tab'.array[x] = t.array[x]
      BY <1>1, <2>1, ArrayGrows
    <3>2. KeyedArray(tab')
      BY <3>1, <1>4 DEF KeyedArray
    <3>3. Sized(tab')
      BY <3>1, <1>2, <1>4 DEF Sized, SameEntries
    <3>4. QED BY <3>1, <3>2, <3>3
  <2>2. CASE ~(asize > t.sizearray)
    <3>1. tab' = t
      BY <1>1, <2>2
    <3>2. QED BY <3>1, <2>2, <1>3, <1>4 DEF SameEntries
  <2>3. QED BY <2>1, <2>2
<1>6. TabInv'
  BY <1>1, <1>5 DEF TabInv
<1>7. ResizeInv'
  <2>1. slice' = <<>> /\ j' = -1
    BY <1>1, <1>2 DEF ResizeInv
  <2>2. nasize' \in 0..tab'.sizearray /\ nhsize' \in Int
    BY <1>1, <1>5
  <2>3. QED BY <2>1, <2>2, <1>1 DEF ResizeInv
<1>8. Content'
  <2>1. \A k \in Key, v \in Value : InTab(tab', k, v) <=> InTab(tab, k, v)
    BY <1>5 DEF SameEntries
  <2>2. slice' = <<>> /\ j' = -1
    BY <1>1, <1>2 DEF ResizeInv
  <2>3. Done /\ Done'
    BY <2>2, <1>2, DoneIs, DoneNext
  <2>4. QED BY <2>1, <2>3, <1>1, <1>2, ContentDone
<1>9. FlagsInv'
  BY <1>1, <1>2 DEF FlagsInv
<1>10. QED BY <1>6, <1>7, <1>8, <1>9 DEF Inv

\* getfreepos has found nothing.
LEMMA FreePosFails ==
  ASSUME TableAssumption, NEW t, Shaped(t)
  PROVE  LET u == [t EXCEPT !.lastfree = IF IsDummy(t) THEN -1 ELSE 0]
         IN  /\ Shaped(u) /\ u.sizearray = t.sizearray /\ u.array = t.array /\ SameEntries(t, u)
             /\ IsDummy(u) <=> IsDummy(t)
<1> DEFINE last == IF IsDummy(t) THEN -1 ELSE 0
<1>1. t.sizenode \in Nat \ {0}
  BY FormRecord DEF Shaped
<1>2. last \in -1..t.sizenode /\ (last = -1 <=> IsDummy(t))
  BY <1>1
<1> HIDE DEF last
<1>3. LET u == [t EXCEPT !.lastfree = last]
      IN  /\ Shaped(u) /\ u.sizearray = t.sizearray /\ u.array = t.array /\ SameEntries(t, u)
          /\ IsDummy(u) <=> last = -1
  BY <1>2, LastfreeMoves
<1>4. QED BY <1>2, <1>3 DEF last

LEMMA FinishSetInv ==
  ASSUME TableAssumption, Inv, NEW k \in AnyKey, NEW v \in Value \cup {Nil}, FinishSet(k, v)
  PROVE  Inv'
<1> DEFINE n == Normal(k)
<1>1. n \in Key
  BY NormalIs
<1>2. phase = "idle" /\ Shaped(tab) /\ Sized(tab)
  BY DEF FinishSet, Inv, TabInv
<1>3. CASE NeedsRehash(tab, n) /\ Rehash(n, v)
  <2> DEFINE t == [tab EXCEPT !.lastfree = IF IsDummy(tab) THEN -1 ELSE 0]
             entry == [key |-> n, val |-> v]
  <2>1. Shaped(t) /\ t.sizearray = tab.sizearray /\ t.array = tab.array /\ SameEntries(tab, t)
    BY <1>2, FreePosFails
  <2>2. Resize(t, ArraySize(tab, n), HashSize(tab, n), entry)
    BY <1>3 DEF Rehash
  <2>3. ArraySize(tab, n) \in 0..twoto[MAXABITS] /\ HashSize(tab, n) \in Int
    BY <1>1, <1>2, SizesAre
  <2>4. entry.key \in Key /\ entry.val \in Value \cup {Nil}
    BY <1>1
  <2> HIDE DEF t, entry, n
  <2>5. QED BY <2>1, <2>2, <2>3, <2>4, <1>2, ResizeBegins
<1>4. CASE ~NeedsRehash(tab, n)
  <2>1. /\ tab' = Set(tab, n, v) /\ map' = [map EXCEPT ![n] = v] /\ flags' = {} /\ UNCHANGED resize
    BY <1>4 DEF FinishSet, InvalidateTMcache
  <2> HIDE DEF n
  <2>2. TabInv' /\ ResizeInv' /\ Content'
    BY <2>1, <1>1, <1>2, <1>4, AssignIdle
  <2>3. FlagsInv'
    BY <2>1 DEF FlagsInv
  <2>4. QED BY <2>2, <2>3 DEF Inv
<1>5. QED BY <1>3, <1>4 DEF FinishSet

LEMMA SetListInv ==
  ASSUME TableAssumption, Inv, NEW size \in ArraySizes, SetList(size)
  PROVE  Inv'
<1>1. /\ phase = "idle" /\ Shaped(tab) /\ size \in 0..twoto[MAXABITS]
      /\ Resize(tab, size, AllocSizeNode(tab), Nothing)
  BY DEF SetList, Inv, TabInv, TableAssumption
<1>2. AllocSizeNode(tab) \in Int
  BY <1>1, FormRecord DEF AllocSizeNode, Shaped
<1>3. SameEntries(tab, tab)
  BY DEF SameEntries
<1>4. QED BY <1>1, <1>2, <1>3, ResizeBegins

LEMMA ArrayFailsInv ==
  ASSUME TableAssumption, Inv, NEW k \in AnyKey, ArrayFails(k)
  PROVE  Inv'
<1>1. /\ phase = "idle" /\ tab' = [tab EXCEPT !.lastfree = IF IsDummy(tab) THEN -1 ELSE 0]
      /\ flags' = flags /\ UNCHANGED resize /\ map' = map
  BY DEF ArrayFails
<1>2. TabInv /\ ResizeInv /\ Content /\ FlagsInv
  BY DEF Inv
<1>3. /\ Shaped(tab') /\ tab'.sizearray = tab.sizearray /\ tab'.array = tab.array
      /\ SameEntries(tab, tab')
  BY <1>1, <1>2, FreePosFails DEF TabInv
<1>4. TabInv'
  <2>1. KeyedArray(tab') /\ Sized(tab') /\ Unstranded(tab')
    BY <1>1, <1>2, <1>3 DEF TabInv, KeyedArray, Sized, SameEntries, Unstranded, InArray
  <2>2. QED BY <2>1, <1>3 DEF TabInv
<1>5. ResizeInv'
  BY <1>1, <1>2, ResizeInvIdle
<1>6. Content'
  <2>1. \A q \in Key, v \in Value : InTab(tab', q, v) <=> InTab(tab, q, v)
    BY <1>3 DEF SameEntries
  <2>2. slice' = <<>> /\ j' = -1
    BY <1>1, <1>2 DEF ResizeInv, resize
  <2>3. Done /\ Done'
    BY <2>2, <1>1, <1>2, DoneIs, DoneNext
  <2>4. QED BY <2>1, <2>3, <1>1, <1>2, ContentDone
<1>7. FlagsInv'
  BY <1>1, <1>2 DEF FlagsInv
<1>8. QED BY <1>4, <1>5, <1>6, <1>7 DEF Inv

LEMMA NewNodesInv ==
  ASSUME TableAssumption, Inv, NewNodes
  PROVE  Inv'
<1> DEFINE u == SetNodeVector(tab, nhsize)
           S == tab.sizearray
<1>1. /\ phase = "vector" /\ ~TableOverflow(nhsize) /\ phase' = "insert"
      /\ slice' = [x \in (nasize + 1)..S |-> tab.array[x]] /\ i' = nasize + 1
      /\ nold' = tab.node /\ j' = AllocSizeNode(tab) - 1 /\ tab' = SetArrayVector(u, nasize)
      /\ nasize' = nasize /\ nhsize' = nhsize /\ pending' = pending /\ flags' = flags /\ map' = map
  BY DEF NewNodes
<1>2. TabInv /\ ResizeInv /\ Content /\ FlagsInv /\ Done
  BY <1>1, DoneIs DEF Inv
<1>3. Shaped(tab) /\ KeyedArray(tab) /\ Sized(tab)
  BY <1>2 DEF TabInv
<1>4. nasize \in 0..S /\ nhsize \in Int
  BY <1>1, <1>2 DEF ResizeInv
<1>5. /\ S \in Nat /\ tab.array \in [1..S -> Value \cup {Nil}]
      /\ tab.sizenode \in Nat \ {0} /\ tab.node \in [Nodes(tab) -> Node]
  BY <1>3, FormRecord DEF Shaped
<1>6. /\ Shaped(u) /\ u.sizearray = S /\ u.array = tab.array
      /\ u.sizenode \in {twoto[l] : l \in 0..MAXHBITS}
      /\ \A n \in Nodes(u) : u.node[n].key = NilKey /\ u.node[n].val = Nil
  BY <1>1, <1>3, <1>4, NodeVectorIs
<1> HIDE DEF u
<1>7. /\ Shaped(tab') /\ tab'.sizearray = nasize /\ tab'.node = u.node /\ tab'.sizenode = u.sizenode
      /\ Nodes(tab') = Nodes(u)
      /\ \A x \in 1..nasize : tab'.array[x] = IF x <= u.sizearray THEN u.array[x] ELSE Nil
  <2> DEFINE w == SetArrayVector(u, nasize)
  <2>1. nasize \in Nat
    BY <1>4, <1>5
  <2>2. /\ Shaped(w) /\ w.sizearray = nasize /\ w.node = u.node /\ w.sizenode = u.sizenode
        /\ Nodes(w) = Nodes(u)
        /\ \A x \in 1..nasize : w.array[x] = IF x <= u.sizearray THEN u.array[x] ELSE Nil
    BY <2>1, <1>6, ArrayVectorIs
  <2>3. tab' = w
    BY <1>1
  <2> HIDE DEF w
  <2>4. QED BY <2>2, <2>3
<1> HIDE DEF S
<1>8. \A x \in 1..nasize : x \in 1..S /\ tab'.array[x] = tab.array[x]
  BY <1>4, <1>5, <1>6, <1>7
<1>9. \A n \in Nodes(tab') : tab'.node[n].key = NilKey /\ tab'.node[n].val = Nil
  BY <1>6, <1>7
<1>10. TabInv'
  <2>1. KeyedArray(tab')
    BY <1>3, <1>7, <1>8 DEF KeyedArray, S
  <2>2. twoto[MAXABITS] \in Nat
    BY ComputeSizesIs
  <2>3. Sized(tab')
    BY <1>3, <1>4, <1>5, <1>6, <1>7, <2>2 DEF Sized, S
  <2>4. Unstranded(tab')
    BY <1>9 DEF Unstranded
  <2>5. QED BY <1>7, <2>1, <2>3, <2>4 DEF TabInv
<1>11. /\ DOMAIN (slice') = (nasize + 1)..S
       /\ \A x \in (nasize + 1)..S : x \in 1..S /\ slice'[x] = tab.array[x]
  BY <1>1, <1>4, <1>5
<1>12. 0..j' \in SUBSET Nodes(tab) /\ j' \in Int /\ j' >= -1
  <2>1. CASE IsDummy(tab)
    BY <2>1, <1>1 DEF AllocSizeNode
  <2>2. CASE ~IsDummy(tab)
    BY <2>2, <1>1, <1>5 DEF AllocSizeNode, Nodes
  <2>3. QED BY <2>1, <2>2
<1>13. \A n \in Nodes(tab) : tab.node[n].key \in Key => n \in 0..j'
  <2>1. CASE IsDummy(tab)
    <3>1. NilKey \notin Key
      BY KeyFacts DEF NodeKey
    <3>2. QED BY <2>1, <3>1, <1>3 DEF Shaped, DummyFree
  <2>2. CASE ~IsDummy(tab)
    BY <2>2, <1>1, <1>5 DEF AllocSizeNode, Nodes
  <2>3. QED BY <2>1, <2>2
<1>14. SliceInv'
  <2>1. \A x \in 1..S : tab.array[x] \in Value \cup {Nil} /\ (tab.array[x] # Nil => IntKey(x) \in Key)
    BY <1>3, <1>5 DEF KeyedArray, S
  <2>2. \A x \in DOMAIN (slice') : slice'[x] \in Value \cup {Nil} /\ (slice'[x] # Nil => IntKey(x) \in Key)
    BY <2>1, <1>11
  <2>3. nasize' \in 0..tab'.sizearray /\ i' \in Nat /\ i' > nasize'
    BY <1>1, <1>4, <1>5, <1>7
  <2>4. \E b \in Nat : DOMAIN (slice') = (nasize' + 1)..b
    BY <1>1, <1>5, <1>11
  <2>5. QED BY <2>2, <2>3, <2>4 DEF SliceInv
<1>15. OldInv'
  <2>1. \A n \in Nodes(tab) : tab.node[n].val \in Value \cup {Nil} /\ (tab.node[n].val # Nil => tab.node[n].key \in Key)
    BY <1>3, <1>5 DEF Shaped, ValuesLive, Node
  <2>2. \A n \in 0..j' : nold'[n].val \in Value \cup {Nil} /\ (nold'[n].val # Nil => nold'[n].key \in Key)
    BY <2>1, <1>1, <1>12
  <2>3. QED BY <2>2, <1>12 DEF OldInv
<1>16. ResizeInv'
  <2>1. pending' # Nothing => pending'.key \in Key /\ pending'.val \in Value \cup {Nil}
    BY <1>1, <1>2 DEF ResizeInv
  <2>2. QED BY <2>1, <1>1, <1>14, <1>15 DEF ResizeInv
<1>17. ASSUME NEW k \in Key, NEW v \in Value
       PROVE  InTab(tab', k, v) \/ Left(k, v)' <=> InTab(tab, k, v) \/ Left(k, v)
  <2>1. ~Left(k, v) /\ v # Nil
    BY <1>2 DEF Done, TableAssumption
  <2>2. InTab(tab', k, v) <=> \E x \in 1..nasize : k = IntKey(x) /\ tab.array[x] = v
    BY <2>1, <1>7, <1>8, <1>9 DEF InTab
  <2>3. InSlice(k, v)' <=> \E x \in (nasize + 1)..S : k = IntKey(x) /\ tab.array[x] = v
    <3>1. \A x \in (nasize + 1)..S : x >= i'
      BY <1>1, <1>4, <1>5
    <3>2. QED BY <3>1, <1>11 DEF InSlice
  <2>4. InOld(k, v)' <=> \E n \in Nodes(tab) : tab.node[n].key = k /\ tab.node[n].val = v
    BY <1>1, <1>12, <1>13 DEF InOld
  <2>5. \A x : x \in 1..S <=> x \in 1..nasize \/ x \in (nasize + 1)..S
    BY <1>4, <1>5
  <2>6. InTab(tab, k, v) <=> InTab(tab', k, v) \/ InSlice(k, v)' \/ InOld(k, v)'
    BY <2>2, <2>3, <2>4, <2>5 DEF InTab, S
  <2>7. Left(k, v)' <=> InSlice(k, v)' \/ InOld(k, v)'
    BY DEF Left
  <2>8. QED BY <2>1, <2>6, <2>7
<1>18. Content'
  BY <1>1, <1>2, <1>17, ContentSame
<1>19. FlagsInv'
  BY <1>1, <1>2 DEF FlagsInv
<1>20. QED BY <1>10, <1>16, <1>18, <1>19 DEF Inv

\* Both loops of luaH_resize, for the entry that they insert.
LEMMA Reinserts ==
  ASSUME TableAssumption, Inv, phase = "insert", phase' = "insert",
         UNCHANGED <<nasize, nhsize, pending, flags, map>>,
         NEW k, NEW v \in Value \cup {Nil}, v # Nil => k \in Key /\ Left(k, v), Reinsert(k, v),
         \A q \in Key, w \in Value : (Left(q, w)' => Left(q, w)) /\ (Left(q, w) /\ (q # k \/ v = Nil) => Left(q, w)')
  PROVE  TabInv' /\ Content' /\ FlagsInv' /\ tab'.sizearray = tab.sizearray
<1>1. TabInv /\ ResizeInv /\ Content /\ FlagsInv
  BY DEF Inv
<1>2. map' = map /\ flags' = flags
  OBVIOUS
<1>3. FlagsInv'
  BY <1>1, <1>2 DEF FlagsInv
<1>4. CASE v = Nil
  <2>1. tab' = tab
    BY <1>4 DEF Reinsert
  <2>2. TabInv'
    BY <2>1, <1>1 DEF TabInv
  <2>3. ASSUME NEW q \in Key, NEW w \in Value
        PROVE  InTab(tab', q, w) \/ Left(q, w)' <=> InTab(tab, q, w) \/ Left(q, w)
    BY <2>1, <1>4
  <2>4. Content'
    BY <2>3, <1>1, <1>2, ContentSame
  <2>5. QED BY <2>1, <2>2, <2>4, <1>3
<1>5. CASE v # Nil
  <2>1. k \in Key /\ v \in Value /\ Left(k, v) /\ ~NeedsRehash(tab, k) /\ tab' = Set(tab, k, v)
    BY <1>5 DEF Reinsert
  <2>2. Assigned(tab, tab', k, v) /\ TabInv' /\ tab'.sizearray = tab.sizearray
    BY <2>1, <1>1, SetStep
  <2>3. \A q \in Key, w \in Value : (Left(q, w)' => Left(q, w)) /\ (Left(q, w) /\ q # k => Left(q, w)')
    OBVIOUS
  <2>4. Content'
    BY <2>1, <2>2, <2>3, <1>1, <1>2, ContentReinserted
  <2>5. QED BY <2>2, <2>4, <1>3
<1>6. QED BY <1>4, <1>5

LEMMA InsertElementInv ==
  ASSUME TableAssumption, Inv, InsertElement
  PROVE  Inv'
<1>1. /\ phase = "insert" /\ i \in DOMAIN slice /\ Reinsert(IntKey(i), slice[i]) /\ i' = i + 1
      /\ phase' = phase /\ nasize' = nasize /\ nhsize' = nhsize /\ slice' = slice /\ nold' = nold /\ j' = j
      /\ pending' = pending /\ flags' = flags /\ map' = map
  BY DEF InsertElement
<1>2. ResizeInv /\ SliceInv /\ OldInv
  BY <1>1 DEF Inv, ResizeInv
<1>3. PICK b \in Nat : DOMAIN slice = (nasize + 1)..b
  BY <1>2 DEF SliceInv
<1>4. /\ nasize \in 0..tab.sizearray /\ i \in Nat /\ i > nasize /\ nasize \in Int
      /\ \A x \in DOMAIN slice : slice[x] \in Value \cup {Nil} /\ (slice[x] # Nil => IntKey(x) \in Key)
  BY <1>2 DEF SliceInv
<1> DEFINE k == IntKey(i)
           v == slice[i]
<1>5. \A q, w : InOld(q, w)' <=> InOld(q, w)
  BY <1>1 DEF InOld
<1>6. \A x \in DOMAIN slice : x \in Int /\ (x >= i <=> x >= i' \/ x = i)
  BY <1>1, <1>3, <1>4
<1>7. \A q, w : InSlice(q, w) <=> (\E x \in DOMAIN slice : x >= i /\ q = IntKey(x) /\ slice[x] = w)
  BY DEF InSlice
<1>8. \A q, w : InSlice(q, w)' <=> (\E x \in DOMAIN slice : x >= i' /\ q = IntKey(x) /\ slice[x] = w)
  BY <1>1 DEF InSlice
<1>9. \A q, w : InSlice(q, w) <=> InSlice(q, w)' \/ (q = k /\ w = v)
  BY <1>1, <1>6, <1>7, <1>8
<1>10. /\ \A q, w : Left(q, w) <=> InSlice(q, w) \/ InOld(q, w)
       /\ \A q, w : Left(q, w)' <=> InSlice(q, w)' \/ InOld(q, w)'
  BY DEF Left
<1>11. \A q, w : Left(q, w) <=> Left(q, w)' \/ (q = k /\ w = v)
  BY <1>5, <1>9, <1>10
<1>12. v \in Value \cup {Nil} /\ (v # Nil => k \in Key /\ Left(k, v)) /\ Reinsert(k, v)
  BY <1>1, <1>4, <1>11
<1> HIDE DEF k, v
<1>13. \A q \in Key, w \in Value : (Left(q, w)' => Left(q, w)) /\ (Left(q, w) /\ (q # k \/ v = Nil) => Left(q, w)')
  BY <1>11 DEF TableAssumption
<1>14. TabInv' /\ Content' /\ FlagsInv' /\ tab'.sizearray = tab.sizearray
  BY <1>1, <1>12, <1>13, Reinserts
<1>15. SliceInv'
  <2>1. nasize' \in 0..tab'.sizearray /\ i' \in Nat /\ i' > nasize' /\ slice' = slice
    BY <1>1, <1>4, <1>14
  <2>2. QED BY <2>1, <1>1, <1>3, <1>4 DEF SliceInv
<1>16. OldInv'
  BY <1>1, <1>2 DEF OldInv
<1>17. ResizeInv'
  BY <1>1, <1>2, <1>15, <1>16 DEF ResizeInv
<1>18. QED BY <1>14, <1>17 DEF Inv

LEMMA InsertNodeInv ==
  ASSUME TableAssumption, Inv, InsertNode
  PROVE  Inv'
<1>1. /\ phase = "insert" /\ j >= 0 /\ Reinsert(nold[j].key, nold[j].val) /\ j' = j - 1
      /\ phase' = phase /\ nasize' = nasize /\ nhsize' = nhsize /\ slice' = slice /\ i' = i /\ nold' = nold
      /\ pending' = pending /\ flags' = flags /\ map' = map
  BY DEF InsertNode
<1>2. ResizeInv /\ SliceInv /\ OldInv
  BY <1>1 DEF Inv, ResizeInv
<1>3. /\ j \in Int
      /\ \A n \in 0..j : nold[n].val \in Value \cup {Nil} /\ (nold[n].val # Nil => nold[n].key \in Key)
  BY <1>2 DEF OldInv
<1> DEFINE k == nold[j].key
           v == nold[j].val
<1>5. \A q, w : InSlice(q, w)' <=> InSlice(q, w)
  BY <1>1 DEF InSlice
<1>6. j \in 0..j /\ j' \in Int /\ j' >= -1 /\ \A n : n \in 0..j <=> n \in 0..j' \/ n = j
  BY <1>1, <1>3
<1>7. \A q, w : InOld(q, w) <=> (\E n \in 0..j : nold[n].key = q /\ nold[n].val = w)
  BY DEF InOld
<1>8. \A q, w : InOld(q, w)' <=> (\E n \in 0..j' : nold[n].key = q /\ nold[n].val = w)
  BY <1>1 DEF InOld
<1>9. \A q, w : InOld(q, w) <=> InOld(q, w)' \/ (q = k /\ w = v)
  BY <1>6, <1>7, <1>8
<1>10. /\ \A q, w : Left(q, w) <=> InSlice(q, w) \/ InOld(q, w)
       /\ \A q, w : Left(q, w)' <=> InSlice(q, w)' \/ InOld(q, w)'
  BY DEF Left
<1>11. \A q, w : Left(q, w) <=> Left(q, w)' \/ (q = k /\ w = v)
  BY <1>5, <1>9, <1>10
<1>12. v \in Value \cup {Nil} /\ (v # Nil => k \in Key /\ Left(k, v)) /\ Reinsert(k, v)
  BY <1>1, <1>3, <1>6, <1>11
<1> HIDE DEF k, v
<1>13. \A q \in Key, w \in Value : (Left(q, w)' => Left(q, w)) /\ (Left(q, w) /\ (q # k \/ v = Nil) => Left(q, w)')
  BY <1>11 DEF TableAssumption
<1>14. TabInv' /\ Content' /\ FlagsInv' /\ tab'.sizearray = tab.sizearray
  BY <1>1, <1>12, <1>13, Reinserts
<1>15. SliceInv'
  BY <1>1, <1>2, <1>14 DEF SliceInv
<1>16. OldInv'
  BY <1>1, <1>3, <1>6 DEF OldInv
<1>17. ResizeInv'
  BY <1>1, <1>2, <1>15, <1>16 DEF ResizeInv
<1>18. QED BY <1>14, <1>17 DEF Inv

LEMMA ResizeEndInv ==
  ASSUME TableAssumption, Inv, ResizeEnd
  PROVE  Inv'
<1>1. /\ phase = "insert" /\ i \notin DOMAIN slice /\ j < 0
      /\ phase' = "idle" /\ slice' = <<>> /\ j' = -1 /\ pending' = Nothing
  BY DEF ResizeEnd, Idle
<1>2. TabInv /\ ResizeInv /\ Content /\ FlagsInv /\ Done
  BY <1>1, DoneIs DEF Inv
<1>3. ResizeInv' /\ Done'
  BY <1>1, DoneNext DEF ResizeInv
<1>4. CASE pending = Nothing /\ UNCHANGED <<tab, flags, map>>
  <2>1. TabInv'
    BY <1>1, <1>2, <1>4 DEF TabInv
  <2>2. Content'
    BY <1>2, <1>3, <1>4, ContentDone
  <2>3. FlagsInv'
    BY <1>2, <1>4 DEF FlagsInv
  <2>4. QED BY <2>1, <2>2, <2>3, <1>3 DEF Inv
<1>5. CASE /\ pending # Nothing /\ ~NeedsRehash(tab, pending.key)
           /\ tab' = Set(tab, pending.key, pending.val)
           /\ map' = [map EXCEPT ![pending.key] = pending.val]
           /\ flags' = InvalidateTMcache(pending.key)
  <2>1. pending.key \in Key /\ pending.val \in Value \cup {Nil}
    BY <1>2, <1>5 DEF ResizeInv
  <2>2. Assigned(tab, tab', pending.key, pending.val) /\ TabInv'
    BY <2>1, <1>1, <1>2, <1>5, SetStep
  <2>3. Content'
    BY <2>1, <2>2, <1>2, <1>3, <1>5, ContentSet
  <2>4. FlagsInv'
    BY <1>5 DEF InvalidateTMcache, FlagsInv
  <2>5. QED BY <2>2, <2>3, <2>4, <1>3 DEF Inv
<1>6. QED BY <1>4, <1>5 DEF ResizeEnd

\* The array has grown for nothing, but no key was left behind in a node.
LEMMA NodesFailInv ==
  ASSUME TableAssumption, Inv, NodesFail, ~Strands
  PROVE  Inv'
<1>1. /\ phase = "vector" /\ phase' = "idle" /\ slice' = <<>> /\ j' = -1 /\ pending' = Nothing
      /\ tab' = tab /\ flags' = flags /\ map' = map
  BY DEF NodesFail, Idle
<1>2. TabInv /\ ResizeInv /\ Content /\ FlagsInv /\ Done
  BY <1>1, DoneIs DEF Inv
<1>3. ResizeInv' /\ Done'
  BY <1>1, DoneNext DEF ResizeInv
<1>4. Unstranded(tab)
  <2>1. DOMAIN tab.node = Nodes(tab)
    BY <1>2, FormRecord DEF TabInv, Shaped
  <2>2. QED BY <2>1 DEF Strands, Unstranded
<1>5. TabInv'
  BY <1>1, <1>2, <1>4 DEF TabInv
<1>6. Content'
  BY <1>1, <1>2, <1>3, ContentDone
<1>7. FlagsInv'
  BY <1>1, <1>2 DEF FlagsInv
<1>8. QED BY <1>3, <1>5, <1>6, <1>7 DEF Inv

LEMMA SameInv ==
  ASSUME Inv, UNCHANGED <<tab, flags, resize, map>>
  PROVE  Inv'
<1>1. TabInv'
  BY DEF Inv, TabInv, resize
<1>2. ResizeInv'
  BY DEF Inv, ResizeInv, SliceInv, OldInv, resize
<1>3. Content'
  BY DEF Inv, Content, Left, InSlice, InOld, resize
<1>4. FlagsInv'
  BY DEF Inv, FlagsInv
<1>5. QED BY <1>1, <1>2, <1>3, <1>4 DEF Inv

LEMMA FastTMInv ==
  ASSUME TableAssumption, Inv, NEW e \in Event, FastTM(e)
  PROVE  Inv'
<1>1. /\ phase = "idle" /\ flags' = (IF luaH_get(tab, ObjKey(e)) = Nil THEN flags \cup {e} ELSE flags)
      /\ UNCHANGED <<tab, resize, map>>
  BY DEF FastTM
<1>2. FlagsInv /\ Unstranded(tab)
  BY <1>1 DEF Inv, TabInv
<1>3. ObjKey(e) \in Key
  BY KeyFacts DEF TableAssumption
<1>4. luaH_get(tab, ObjKey(e)) = map[ObjKey(e)]
  BY <1>1, <1>2, <1>3, GetMap
<1>5. FlagsInv'
  BY <1>1, <1>2, <1>4 DEF FlagsInv
<1>6. TabInv' /\ ResizeInv' /\ Content'
  <2>1. TabInv'
    BY <1>1 DEF Inv, TabInv, resize
  <2>2. ResizeInv'
    BY <1>1 DEF Inv, ResizeInv, SliceInv, OldInv, resize
  <2>3. Content'
    BY <1>1 DEF Inv, Content, Left, InSlice, InOld, resize
  <2>4. QED BY <2>1, <2>2, <2>3
<1>7. QED BY <1>5, <1>6 DEF Inv

\* An object is no element of the array.
LEMMA ObjectNode ==
  ASSUME TableAssumption, NEW t, Shaped(t), NEW o \in Object
  PROVE  /\ ~InArray(t, ObjKey(o)) /\ ObjKey(o) \in Key /\ luaH_get(t, ObjKey(o)) = GetNormal(t, ObjKey(o))
         /\ Slot(t, ObjKey(o)) # -1 =>
              /\ Slot(t, ObjKey(o)) \in Nodes(t) /\ t.node[Slot(t, ObjKey(o))].key = ObjKey(o)
              /\ t.node[Slot(t, ObjKey(o))].val = luaH_get(t, ObjKey(o))
         /\ Slot(t, ObjKey(o)) = -1 => \A n \in Nodes(t) : t.node[n].key # ObjKey(o)
<1> DEFINE k == ObjKey(o)
<1>1. k \in Key /\ k.tt # "int"
  BY KeyFacts DEF ObjKey
<1>2. ~InArray(t, k)
  BY <1>1 DEF InArray
<1> HIDE DEF k
<1>3. luaH_get(t, k) = GetNormal(t, k)
  BY <1>1, NormalIs DEF luaH_get
<1>4. Slot(t, k) # -1 => GetNormal(t, k) = t.node[Slot(t, k)].val
  BY <1>2 DEF GetNormal
<1>5. QED BY <1>1, <1>2, <1>3, <1>4, SlotIs DEF k

LEMMA CollectInv ==
  ASSUME TableAssumption, Inv, NEW o \in Object, Collect(o)
  PROVE  Inv'
<1> DEFINE m == Slot(tab, ObjKey(o))
<1>1. /\ phase \in {"idle", "vector"} /\ luaH_get(tab, ObjKey(o)) = Nil
      /\ tab' = (IF m = -1 THEN tab ELSE [tab EXCEPT !.node[m].key = DeadKey(o)])
      /\ flags' = flags /\ map' = map /\ UNCHANGED resize
  BY DEF Collect
<1>2. TabInv /\ ResizeInv /\ Content /\ FlagsInv /\ Done /\ Shaped(tab)
  BY <1>1, DoneIs DEF Inv, TabInv
<1> HIDE DEF m
<1>3. CASE m = -1
  BY <1>1, <1>3, SameInv
<1>4. CASE m # -1
  <2>1. m \in Nodes(tab) /\ tab.node[m].key = ObjKey(o) /\ tab.node[m].val = Nil
    BY <1>1, <1>2, <1>4, ObjectNode DEF m
  <2>2. /\ Shaped(tab') /\ tab'.sizearray = tab.sizearray /\ tab'.array = tab.array
        /\ tab'.sizenode = tab.sizenode /\ Nodes(tab') = Nodes(tab)
        /\ \A n \in Nodes(tab) : /\ tab'.node[n].val = tab.node[n].val
                                 /\ tab'.node[n].key = IF n = m THEN DeadKey(o) ELSE tab.node[n].key
        /\ \A k \in Key, v \in Value : InTab(tab', k, v) <=> InTab(tab, k, v)
    <3> DEFINE u == [tab EXCEPT !.node[m].key = DeadKey(o)]
    <3>1. /\ Shaped(u) /\ u.sizearray = tab.sizearray /\ u.array = tab.array
          /\ u.sizenode = tab.sizenode /\ Nodes(u) = Nodes(tab)
          /\ \A n \in Nodes(tab) : /\ u.node[n].val = tab.node[n].val
                                   /\ u.node[n].key = IF n = m THEN DeadKey(o) ELSE tab.node[n].key
          /\ \A k \in Key, v \in Value : InTab(u, k, v) <=> InTab(tab, k, v)
      BY <2>1, <1>2, KillIs
    <3>2. tab' = u
      BY <1>1, <1>4
    <3> HIDE DEF u
    <3>3. QED BY <3>1, <3>2
  <2>3. TabInv'
    <3>1. phase' # "vector" => Unstranded(tab')
      BY <2>1, <2>2, <1>1, <1>2 DEF TabInv, Unstranded, InArray, resize
    <3>2. KeyedArray(tab') /\ Sized(tab')
      BY <2>2, <1>2 DEF TabInv, KeyedArray, Sized
    <3>3. QED BY <3>1, <3>2, <2>2 DEF TabInv
  <2>4. ResizeInv'
    BY <1>1, <1>2, <2>2 DEF ResizeInv, resize
  <2>5. Content'
    <3>1. slice' = <<>> /\ j' = -1
      BY <1>1, <1>2 DEF ResizeInv, resize
    <3>2. Done'
      BY <3>1, DoneNext
    <3>3. QED BY <3>2, <2>2, <1>1, <1>2, ContentDone
  <2>6. FlagsInv'
    BY <1>1, <1>2 DEF FlagsInv
  <2>7. QED BY <2>3, <2>4, <2>5, <2>6 DEF Inv
<1>5. QED BY <1>3, <1>4

\* luaH_new.
LEMMA InitInv ==
  ASSUME TableAssumption, TableInit
  PROVE  Inv
<1>1. /\ tab = [sizearray |-> 0, array |-> <<>>,
                sizenode |-> 1, node |-> [n \in {0} |-> FreeNode], lastfree |-> -1]
      /\ flags = Event /\ phase = "idle" /\ slice = <<>> /\ j = -1 /\ pending = Nothing
      /\ map = [k \in Key |-> Nil]
  BY DEF TableInit
<1>2. /\ tab.sizearray = 0 /\ tab.array = <<>> /\ tab.sizenode = 1
      /\ tab.node = [n \in {0} |-> FreeNode] /\ tab.lastfree = -1
  BY <1>1
<1>3. Nodes(tab) = {0} /\ FreeNode.key = NilKey /\ FreeNode.val = Nil /\ FreeNode.next = 0
  <2>1. 0..(1 - 1) = {0}
    OBVIOUS
  <2>2. QED BY <2>1, <1>2 DEF Nodes, FreeNode
<1>4. \A n \in Nodes(tab) : n = 0 /\ tab.node[n] = FreeNode
  BY <1>2, <1>3
<1>5. Form(tab)
  <2>1. tab = [sizearray |-> tab.sizearray, array |-> tab.array, sizenode |-> tab.sizenode,
               node |-> tab.node, lastfree |-> tab.lastfree]
    BY <1>1, <1>2
  <2>2. tab.array \in [1..tab.sizearray -> Value \cup {Nil}]
    BY <1>2
  <2>3. FreeNode \in Node
    BY DEF FreeNode, Node
  <2>4. tab.node \in [Nodes(tab) -> Node]
    BY <2>3, <1>2, <1>3
  <2>5. QED BY <2>1, <2>2, <2>4, <1>2 DEF Form
<1>6. ValuesLive(tab) /\ DummyFree(tab) /\ Unstranded(tab)
  BY <1>3, <1>4 DEF ValuesLive, DummyFree, Unstranded
<1>7. Hung(Succs(tab), Keys(tab), Homes(tab), Nodes(tab))
  <2>1. \A n \in Nodes(tab) : n + tab.node[n].next = n /\ n \in Nodes(tab) /\ tab.node[n].key = NilKey
    BY <1>3, <1>4
  <2>2. Succs(tab) \in [Nodes(tab) -> Nodes(tab)] /\ \A n \in Nodes(tab) : Succs(tab)[n] = n
    BY <2>1 DEF Succs
  <2>3. Keys(tab) \in [Nodes(tab) -> {NilKey}]
    BY <2>1 DEF Keys
  <2>4. Homes(tab) \in [NodeKey -> Nodes(tab)] /\ \A o \in Object : Homes(tab)[DeadKey(o)] = Homes(tab)[ObjKey(o)]
    BY <1>2, HomesIs
  <2>5. QED BY <2>2, <2>3, <2>4, HungFresh
<1>8. KeyedArray(tab) /\ Sized(tab)
  <2>1. twoto[MAXABITS] \in Nat
    BY ComputeSizesIs
  <2>2. twoto[0] = 1 /\ 0 \in 0..MAXHBITS
    BY TwotoIs DEF TableAssumption
  <2>3. QED BY <2>1, <2>2, <1>2 DEF KeyedArray, Sized
<1>9. TabInv
  BY <1>5, <1>6, <1>7, <1>8 DEF TabInv, Shaped
<1>10. ResizeInv
  BY <1>1 DEF ResizeInv
<1>11. Done
  BY <1>10, <1>1, DoneIs
<1>12. Content
  <2>1. \A k \in Key, v \in Value : ~InTab(tab, k, v)
    BY <1>2, <1>3, <1>4 DEF InTab, TableAssumption
  <2>2. QED BY <2>1, <1>1, <1>11 DEF Content, Done, TableAssumption
<1>13. FlagsInv
  BY <1>1, KeyFacts DEF FlagsInv, TableAssumption
<1>14. QED BY <1>9, <1>10, <1>12, <1>13 DEF Inv

LEMMA StepInv ==
  ASSUME TableAssumption, Inv, TableNext, ~Strands
  PROVE  Inv'
<1>1. ASSUME NEW k \in AnyKey, NEW v \in Value \cup {Nil}, FastSet(k, v) \/ FinishSet(k, v)
      PROVE  Inv'
  BY <1>1, FastSetInv, FinishSetInv
<1>2. ASSUME NEW k \in AnyKey, ArrayFails(k)
      PROVE  Inv'
  BY <1>2, ArrayFailsInv
<1>3. ASSUME NEW s \in ArraySizes, SetList(s)
      PROVE  Inv'
  BY <1>3, SetListInv
<1>4. CASE luaH_resize
  BY <1>4, NewNodesInv, InsertElementInv, InsertNodeInv, ResizeEndInv, NodesFailInv DEF luaH_resize
<1>5. ASSUME NEW e \in Event, FastTM(e)
      PROVE  Inv'
  BY <1>5, FastTMInv
<1>6. CASE Traverse
  BY <1>6, SameInv DEF Traverse
<1>7. ASSUME NEW o \in Object, Collect(o) \/ NewObject(o)
      PROVE  Inv'
  <2>1. CASE Collect(o)
    BY <2>1, CollectInv
  <2>2. CASE NewObject(o)
    BY <2>2, SameInv DEF NewObject
  <2>3. QED BY <2>1, <2>2, <1>7
<1>8. QED BY <1>1, <1>2, <1>3, <1>4, <1>5, <1>6, <1>7 DEF TableNext

LEMMA StutterInv ==
  ASSUME Inv, UNCHANGED tvars
  PROVE  Inv'
BY SameInv DEF tvars

(***************************************************************************)
(* The length                                                              *)
(***************************************************************************)
HasOrZero(t, n) == n = 0 \/ GetInt(t, n) # Nil
Border(t, n) == n \in Nat /\ HasOrZero(t, n) /\ GetInt(t, n + 1) = Nil

LEMMA Halfway ==
  ASSUME NEW a \in Nat, NEW b \in Nat, b - a > 1
  PROVE  /\ (a + b) \div 2 \in Nat /\ a < (a + b) \div 2 /\ (a + b) \div 2 < b
OBVIOUS

LEMMA BinSearchIs ==
  ASSUME NEW t, NEW low \in Nat, NEW high \in Nat, low < high,
         HasOrZero(t, low), GetInt(t, high) = Nil
  PROVE  Border(t, BinSearch(t, low, high))
<1> DEFINE X == Nat \X Nat
           Mid(r) == (r[1] + r[2]) \div 2
           Step(r) == IF r[2] - r[1] <= 1 THEN r
                      ELSE IF GetInt(t, Mid(r)) = Nil THEN <<r[1], Mid(r)>> ELSE <<Mid(r), r[2]>>
           step == [r \in X |-> Step(r)]
           Def(g) == g = [s \in Nat |-> IF s = 0 THEN <<low, high>>
                           ELSE LET r == g[s - 1]
                                    m == (r[1] + r[2]) \div 2
                                IN  IF r[2] - r[1] <= 1 THEN r
                                    ELSE IF GetInt(t, m) = Nil THEN <<r[1], m>> ELSE <<m, r[2]>>]
           at == CHOOSE g : Def(g)
<1>1. \A r \in X : Step(r) \in X
  <2> SUFFICES ASSUME NEW a \in Nat, NEW b \in Nat
               PROVE  Step(<<a, b>>) \in X
    OBVIOUS
  <2>1. (a + b) \div 2 \in Nat
    OBVIOUS
  <2>2. QED BY <2>1
<1>2. \E f : Steps(f, X, <<low, high>>, step)
  <2>1. step \in [X -> X] /\ <<low, high>> \in X
    <3> HIDE DEF Step
    <3>1. QED BY <1>1
  <2> HIDE DEF X, step
  <2>2. QED BY <2>1, Iterates
<1>3. PICK f : f \in [Nat -> X] /\ f[0] = <<low, high>> /\ \A n \in Nat : f[n + 1] = Step(f[n])
  <2>1. PICK f : Steps(f, X, <<low, high>>, step)
    BY <1>2
  <2>2. f \in [Nat -> X] /\ f[0] = <<low, high>> /\ \A n \in Nat : f[n + 1] = step[f[n]]
    BY <2>1 DEF Steps
  <2>3. \A r \in X : step[r] = Step(r)
    <3> HIDE DEF Step
    <3>1. QED OBVIOUS
  <2> HIDE DEF step, Step, X
  <2>4. \A n \in Nat : f[n + 1] = Step(f[n])
    BY <2>2, <2>3
  <2>5. QED BY <2>2, <2>4
<1>4. Def(f)
  <2>1. ASSUME NEW n \in Nat
        PROVE  f[n] = IF n = 0 THEN <<low, high>> ELSE Step(f[n - 1])
    <3> HIDE DEF Step, X
    <3>1. CASE n = 0
      BY <3>1, <1>3
    <3>2. CASE n # 0
      <4>1. n - 1 \in Nat /\ (n - 1) + 1 = n
        BY <3>2
      <4>2. QED BY <3>2, <4>1, <1>3
    <3>3. QED BY <3>1, <3>2
  <2>2. f = [n \in Nat |-> f[n]]
    <3> HIDE DEF X
    <3>1. QED BY <1>3
  <2>3. f = [n \in Nat |-> IF n = 0 THEN <<low, high>> ELSE Step(f[n - 1])]
    <3> HIDE DEF Step
    <3>1. QED BY <2>1, <2>2
  <2>4. QED BY <2>3 DEF Step
<1>5. Def(at)
  <2> HIDE DEF Def
  <2>1. QED BY <1>4
<1>6. BinSearch(t, low, high) = at[high - low][1]
  BY DEF BinSearch
<1> HIDE DEF at
<1>7. at = [n \in Nat |-> IF n = 0 THEN <<low, high>> ELSE Step(at[n - 1])]
  BY <1>5
<1> HIDE DEF Def, Step
<1>8. at[0] = <<low, high>> /\ \A n \in Nat : at[n + 1] = Step(at[n])
  <2>1. at[0] = <<low, high>>
    BY <1>7
  <2>2. \A n \in Nat : at[n + 1] = Step(at[n])
    BY <1>7
  <2>3. QED BY <2>1, <2>2
<1> DEFINE Ends(n, a, b) ==
             /\ at[n] = <<a, b>> /\ a < b /\ HasOrZero(t, a) /\ GetInt(t, b) = Nil
             /\ b - a = 1 \/ b - a <= (high - low) - n
           S == {n \in Nat : \E a \in Nat, b \in Nat : Ends(n, a, b)}
<1>9. 0 \in S
  <2>1. Ends(0, low, high)
    BY <1>8
  <2> HIDE DEF Ends
  <2>2. QED BY <2>1
<1>10. ASSUME NEW n \in Nat, n \in S
       PROVE  n + 1 \in S
  <2>1. PICK a \in Nat, b \in Nat : Ends(n, a, b)
    <3> HIDE DEF Ends
    <3>1. QED BY <1>10
  <2>2. at[n + 1] = Step(<<a, b>>)
    BY <1>8, <2>1
  <2> DEFINE m == (a + b) \div 2
  <2>3. Step(<<a, b>>) = IF b - a <= 1 THEN <<a, b>>
                         ELSE IF GetInt(t, m) = Nil THEN <<a, m>> ELSE <<m, b>>
    BY DEF Step
  <2>4. b - a > 1 => m \in Nat /\ a < m /\ m < b
    BY Halfway
  <2> HIDE DEF m
  <2>5. CASE b - a <= 1
    <3>1. Ends(n + 1, a, b)
      BY <2>1, <2>2, <2>3, <2>5
    <3> HIDE DEF Ends
    <3>2. QED BY <3>1
  <2>6. CASE b - a > 1 /\ GetInt(t, m) = Nil
    <3>1. Ends(n + 1, a, m)
      BY <2>1, <2>2, <2>3, <2>4, <2>6
    <3> HIDE DEF Ends
    <3>2. QED BY <3>1, <2>4, <2>6
  <2>7. CASE b - a > 1 /\ GetInt(t, m) # Nil
    <3>1. Ends(n + 1, m, b)
      BY <2>1, <2>2, <2>3, <2>4, <2>7 DEF HasOrZero
    <3> HIDE DEF Ends
    <3>2. QED BY <3>1, <2>4, <2>7
  <2>8. QED BY <2>5, <2>6, <2>7
<1>11. \A n \in Nat : n \in S
  <2> HIDE DEF S
  <2>1. QED BY <1>9, <1>10, NatInduct
<1>12. high - low \in S
  <2>1. high - low \in Nat
    OBVIOUS
  <2> HIDE DEF S
  <2>2. QED BY <2>1, <1>11
<1>13. PICK a \in Nat, b \in Nat : Ends(high - low, a, b)
  <2> HIDE DEF Ends
  <2>1. QED BY <1>12
<1>14. b = a + 1
  BY <1>13
<1>15. BinSearch(t, low, high) = a
  BY <1>6, <1>13
<1>16. QED BY <1>13, <1>14, <1>15 DEF Border

\* An integer is found where it has a value.
LEMMA GetIntIs ==
  ASSUME TableAssumption, NEW t, Shaped(t), Unstranded(t), NEW x \in Nat
  PROVE  /\ x \in 1..t.sizearray => GetInt(t, x) = t.array[x]
         /\ x \notin 1..t.sizearray =>
              (GetInt(t, x) # Nil <=> \E n \in Nodes(t) : t.node[n].key = IntKey(x) /\ t.node[n].val # Nil)
<1> DEFINE k == IntKey(x)
           mp == MainPosition(t, k)
<1>1. Linked(t) /\ t.sizenode \in Nat \ {0}
  BY ShapedLinked
<1>2. k.tt = "int" /\ k.v = x /\ (InArray(t, k) <=> x \in 1..t.sizearray)
  BY DEF IntKey, InArray
<1>3. mp \in Nodes(t)
  <2>1. mp = x % t.sizenode
    BY <1>2 DEF MainPosition
  <2>2. QED BY <2>1, <1>1, ModIs DEF Nodes
<1> DEFINE r == InChain(t, mp, {k})
<1>4. GetInt(t, x) = IF InArray(t, k) THEN t.array[x] ELSE IF r = -1 THEN Nil ELSE t.node[r].val
  BY <1>2 DEF GetInt, GetNormal, Slot
<1>5. \/ r = -1 /\ \A m \in Reach(Succs(t), mp) : t.node[m].key \notin {k}
      \/ r \in Nodes(t) /\ r # -1 /\ t.node[r].key \in {k}
  <2> HIDE DEF mp, k
  <2>1. QED BY <1>1, <1>3, InChainIs
<1>6. \A n \in Nodes(t) : t.node[n].key = k /\ t.node[n].val # Nil => k \in Key /\ Slot(t, k) = n
  <2>1. \A n \in Nodes(t) : t.node[n].val # Nil => t.node[n].key \in Key
    BY DEF Shaped, ValuesLive
  <2> HIDE DEF k
  <2>2. QED BY <2>1, SlotIs
<1>7. Slot(t, k) = r
  BY DEF Slot
<1>8. -1 \notin Nodes(t)
  BY <1>1 DEF Nodes
<1> HIDE DEF r, mp, k
<1>9. CASE x \in 1..t.sizearray
  BY <1>2, <1>4, <1>9
<1>10. CASE x \notin 1..t.sizearray
  BY <1>2, <1>4, <1>5, <1>6, <1>7, <1>8, <1>10 DEF k
<1>11. QED BY <1>9, <1>10

LEMMA IntervalIs ==
  ASSUME NEW p \in Int, NEW q \in Int, p <= q
  PROVE  IsFiniteSet(p..q) /\ Cardinality(p..q) = q - p + 1
BY FS_Interval

\* Not every integer has a value: there are fewer places.
LEMMA SomeIntFree ==
  ASSUME TableAssumption, NEW t, Shaped(t), Unstranded(t)
  PROVE  \E n \in 0..(t.sizenode + t.sizearray) : GetInt(t, n + 1) = Nil
<1> DEFINE a == t.sizearray
           N == t.sizenode
           B == (a + 1)..(a + N + 1)
           D == Nodes(t)
<1>1. a \in Nat /\ N \in Nat \ {0}
  BY FormRecord DEF Shaped
<1> SUFFICES ASSUME \A x \in B : GetInt(t, x) # Nil
             PROVE  FALSE
  <2>1. ASSUME NEW x \in B, GetInt(t, x) = Nil
        PROVE  \E n \in 0..(N + a) : GetInt(t, n + 1) = Nil
    <3>1. x - 1 \in 0..(N + a) /\ (x - 1) + 1 = x
      BY <1>1
    <3>2. QED BY <3>1, <2>1
  <2>2. QED BY <2>1
<1>2. \A x \in B : x \in Nat /\ x \notin 1..a
  BY <1>1
<1>3. \A x \in B : \E n \in D : t.node[n].key = IntKey(x)
  <2> HIDE DEF B, D
  <2>1. QED BY <1>2, GetIntIs DEF D, a
<1> DEFINE f == [x \in B |-> CHOOSE n \in D : t.node[n].key = IntKey(x)]
<1>4. \A x \in B : f[x] \in D /\ t.node[f[x]].key = IntKey(x)
  <2> HIDE DEF B, D
  <2>1. QED BY <1>3
<1>5. f \in [B -> D]
  <2> HIDE DEF B, D
  <2>1. QED BY <1>4
<1>6. IsFiniteSet(D) /\ Cardinality(D) = N /\ IsFiniteSet(B) /\ Cardinality(B) = N + 1
  <2>1. IsFiniteSet(0..(N - 1)) /\ Cardinality(0..(N - 1)) = N
    <3> DEFINE e == N - 1
    <3>1. e \in Int /\ 0 <= e /\ e - 0 + 1 = N
      BY <1>1
    <3> HIDE DEF e
    <3>2. IsFiniteSet(0..e) /\ Cardinality(0..e) = N
      BY <3>1, IntervalIs
    <3>3. QED BY <3>2 DEF e
  <2>2. IsFiniteSet(B) /\ Cardinality(B) = N + 1
    <3> DEFINE p == a + 1
               e == a + N + 1
    <3>1. p \in Int /\ e \in Int /\ p <= e /\ e - p + 1 = N + 1
      BY <1>1
    <3> HIDE DEF p, e
    <3>2. IsFiniteSet(p..e) /\ Cardinality(p..e) = N + 1
      BY <3>1, IntervalIs
    <3>3. QED BY <3>2 DEF e, p
  <2>3. QED BY <2>1, <2>2 DEF Nodes
<1> HIDE DEF f, B, D, N
<1>7. Cardinality(D) < Cardinality(B)
  BY <1>1, <1>6
<1>8. PICK x \in B, y \in B : x # y /\ f[x] = f[y]
  BY <1>5, <1>6, <1>7, FS_PigeonHole
<1>9. IntKey(x) = IntKey(y)
  BY <1>4, <1>8
<1>10. QED BY <1>8, <1>9 DEF IntKey

LEMMA UnboundSearchIs ==
  ASSUME TableAssumption, NEW t, Shaped(t), Unstranded(t), HasOrZero(t, t.sizearray)
  PROVE  Border(t, UnboundSearch(t, t.sizearray))
<1> DEFINE low == t.sizearray
           X == Nat \X Nat
           Step(r) == <<r[2], 2 * r[2]>>
           step == [r \in X |-> Step(r)]
           Def(g) == g = [s \in Nat |-> IF s = 0 THEN <<low, low + 1>>
                                       ELSE LET high == g[s - 1][2] IN <<high, 2 * high>>]
           at == CHOOSE g : Def(g)
<1>0. low \in Nat /\ t.sizenode \in Nat \ {0} /\ MAX_INT \in Nat
  BY FormRecord DEF Shaped, TableAssumption
<1>1. \A r \in X : Step(r) \in X
  OBVIOUS
<1>2. \E f : Steps(f, X, <<low, low + 1>>, step)
  <2>1. step \in [X -> X] /\ <<low, low + 1>> \in X
    <3> HIDE DEF Step
    <3>1. QED BY <1>0, <1>1
  <2> HIDE DEF X, step
  <2>2. QED BY <2>1, Iterates
<1>3. PICK f : f \in [Nat -> X] /\ f[0] = <<low, low + 1>> /\ \A n \in Nat : f[n + 1] = Step(f[n])
  <2>1. PICK f : Steps(f, X, <<low, low + 1>>, step)
    BY <1>2
  <2>2. f \in [Nat -> X] /\ f[0] = <<low, low + 1>> /\ \A n \in Nat : f[n + 1] = step[f[n]]
    BY <2>1 DEF Steps
  <2>3. \A r \in X : step[r] = Step(r)
    <3> HIDE DEF Step
    <3>1. QED OBVIOUS
  <2> HIDE DEF step, Step, X
  <2>4. \A n \in Nat : f[n + 1] = Step(f[n])
    BY <2>2, <2>3
  <2>5. QED BY <2>2, <2>4
<1>4. Def(f)
  <2>1. ASSUME NEW n \in Nat
        PROVE  f[n] = IF n = 0 THEN <<low, low + 1>> ELSE Step(f[n - 1])
    <3> HIDE DEF Step, X
    <3>1. CASE n = 0
      BY <3>1, <1>3
    <3>2. CASE n # 0
      <4>1. n - 1 \in Nat /\ (n - 1) + 1 = n
        BY <3>2
      <4>2. QED BY <3>2, <4>1, <1>3
    <3>3. QED BY <3>1, <3>2
  <2>2. f = [n \in Nat |-> f[n]]
    <3> HIDE DEF X
    <3>1. QED BY <1>3
  <2>3. f = [n \in Nat |-> IF n = 0 THEN <<low, low + 1>> ELSE Step(f[n - 1])]
    <3> HIDE DEF Step
    <3>1. QED BY <2>1, <2>2
  <2>4. QED BY <2>3 DEF Step
<1>5. Def(at)
  <2> HIDE DEF Def
  <2>1. QED BY <1>4
<1> DEFINE Stop(n) == GetInt(t, at[n][2]) = Nil \/ at[n][2] > MAX_INT \div 2
           stops == {n \in 0..(MAX_INT + 1) : Stop(n)}
           last == Min(stops)
<1>6. UnboundSearch(t, low) =
        IF GetInt(t, at[last][2]) = Nil THEN BinSearch(t, at[last][1], at[last][2])
        ELSE Min({n \in 0..(t.sizenode + t.sizearray) : GetInt(t, n + 1) = Nil})
  BY DEF UnboundSearch
<1> HIDE DEF at
<1>7. at = [n \in Nat |-> IF n = 0 THEN <<low, low + 1>> ELSE Step(at[n - 1])]
  BY <1>5
<1> HIDE DEF Def, Step
<1>8. at[0] = <<low, low + 1>> /\ \A n \in Nat : at[n + 1] = Step(at[n])
  BY <1>7
<1> DEFINE Ends(n, a, b) == at[n] = <<a, b>> /\ a < b /\ n < b
           S == {n \in Nat : \E a \in Nat, b \in Nat : Ends(n, a, b)}
<1>9. 0 \in S
  <2>1. Ends(0, low, low + 1) /\ low + 1 \in Nat
    BY <1>0, <1>8
  <2> HIDE DEF Ends
  <2>2. QED BY <2>1, <1>0
<1>10. ASSUME NEW n \in Nat, n \in S
       PROVE  n + 1 \in S
  <2>1. PICK a \in Nat, b \in Nat : Ends(n, a, b)
    <3> HIDE DEF Ends
    <3>1. QED BY <1>10
  <2>2. at[n + 1] = <<b, 2 * b>>
    BY <1>8, <2>1 DEF Step
  <2>3. Ends(n + 1, b, 2 * b) /\ 2 * b \in Nat
    BY <2>1, <2>2
  <2> HIDE DEF Ends
  <2>4. QED BY <2>3
<1>11. \A n \in Nat : n \in S
  <2> HIDE DEF S
  <2>1. QED BY <1>9, <1>10, NatInduct
<1>12. \A n \in Nat : at[n][1] \in Nat /\ at[n][2] \in Nat /\ at[n][1] < at[n][2] /\ n < at[n][2]
  <2> SUFFICES ASSUME NEW n \in Nat
               PROVE  at[n][1] \in Nat /\ at[n][2] \in Nat /\ at[n][1] < at[n][2] /\ n < at[n][2]
    OBVIOUS
  <2>1. PICK a \in Nat, b \in Nat : Ends(n, a, b)
    <3> HIDE DEF Ends
    <3>1. QED BY <1>11
  <2>2. QED BY <2>1
<1> HIDE DEF S, Ends
<1>13. last \in stops /\ (\A n \in stops : last <= n) /\ last \in 0..(MAX_INT + 1)
  <2>1. MAX_INT \in stops
    <3>1. at[MAX_INT][2] > MAX_INT \div 2
      BY <1>0, <1>12
    <3>2. QED BY <3>1, <1>0
  <2>2. stops \in SUBSET Nat /\ stops \in SUBSET (0..(MAX_INT + 1))
    BY <1>0
  <2> HIDE DEF stops
  <2>3. QED BY <2>1, <2>2, MinIs
<1>14. last \in Nat /\ Stop(last)
  BY <1>0, <1>13
<1>15. HasOrZero(t, at[last][1])
  <2>1. CASE last = 0
    BY <2>1, <1>8
  <2>2. CASE last # 0
    <3>1. last - 1 \in Nat /\ last - 1 \in 0..(MAX_INT + 1) /\ (last - 1) + 1 = last
      <4> HIDE DEF last
      <4>1. QED BY <2>2, <1>0, <1>13
    <3>2. last - 1 \notin stops
      <4> HIDE DEF stops, last
      <4>1. QED BY <3>1, <1>13, <1>14
    <3> HIDE DEF last
    <3>3. GetInt(t, at[last - 1][2]) # Nil
      BY <3>1, <3>2
    <3>4. at[last] = <<at[last - 1][2], 2 * at[last - 1][2]>>
      BY <3>1, <1>8 DEF Step
    <3>5. QED BY <3>3, <3>4 DEF HasOrZero
  <2>3. QED BY <2>1, <2>2
<1> HIDE DEF last, stops
<1>16. CASE GetInt(t, at[last][2]) = Nil
  <2>1. at[last][1] \in Nat /\ at[last][2] \in Nat /\ at[last][1] < at[last][2]
    BY <1>12, <1>14
  <2>2. Border(t, BinSearch(t, at[last][1], at[last][2]))
    BY <2>1, <1>15, <1>16, BinSearchIs
  <2>3. QED BY <2>2, <1>6, <1>16
<1>17. CASE GetInt(t, at[last][2]) # Nil
  <2> DEFINE Q == {n \in 0..(t.sizenode + t.sizearray) : GetInt(t, n + 1) = Nil}
             m == Min(Q)
  <2>1. Q # {} /\ Q \in SUBSET Nat
    BY <1>0, SomeIntFree
  <2>2. m \in Q /\ \A n \in Q : m <= n
    <3> HIDE DEF Q
    <3>1. QED BY <2>1, MinIs
  <2>3. UnboundSearch(t, low) = m
    BY <1>6, <1>17
  <2> HIDE DEF m
  <2>4. m \in Nat /\ m \in 0..(t.sizenode + t.sizearray) /\ GetInt(t, m + 1) = Nil
    BY <2>1, <2>2
  <2>5. HasOrZero(t, m)
    <3>1. CASE m = 0
      BY <3>1 DEF HasOrZero
    <3>2. CASE m # 0
      <4>1. m - 1 \in 0..(t.sizenode + t.sizearray) /\ (m - 1) + 1 = m
        BY <3>2, <2>4, <1>0
      <4>2. m - 1 \notin Q
        <5> HIDE DEF Q
        <5>1. QED BY <2>2, <2>4
      <4>3. GetInt(t, m) # Nil
        BY <4>1, <4>2
      <4>4. QED BY <4>3 DEF HasOrZero
    <3>3. QED BY <3>1, <3>2
  <2>6. QED BY <2>3, <2>4, <2>5 DEF Border
<1>18. QED BY <1>16, <1>17

LEMMA LengthIs ==
  ASSUME TableAssumption, NEW t, Shaped(t), Unstranded(t)
  PROVE  Border(t, luaH_getn(t))
<1> DEFINE a == t.sizearray
<1>1. a \in Nat /\ \A x \in 1..a : GetInt(t, x) = t.array[x]
  BY FormRecord, GetIntIs DEF Shaped
<1>2. CASE a > 0 /\ t.array[a] = Nil
  <2>1. HasOrZero(t, 0) /\ GetInt(t, a) = Nil /\ 0 < a
    BY <1>1, <1>2 DEF HasOrZero
  <2>2. Border(t, BinSearch(t, 0, a))
    BY <2>1, <1>1, BinSearchIs
  <2>3. QED BY <2>2, <1>2 DEF luaH_getn
<1>3. CASE ~(a > 0 /\ t.array[a] = Nil) /\ IsDummy(t)
  <2>1. luaH_getn(t) = a
    BY <1>3 DEF luaH_getn
  <2>2. HasOrZero(t, a)
    BY <1>1, <1>3 DEF HasOrZero
  <2>3. a + 1 \in Nat /\ a + 1 \notin 1..a
    BY <1>1
  <2>4. \A n \in Nodes(t) : t.node[n].val = Nil
    <3>1. NilKey \notin Key
      BY KeyFacts DEF NodeKey
    <3>2. QED BY <3>1, <1>3 DEF Shaped, DummyFree, ValuesLive
  <2>5. GetInt(t, a + 1) = Nil
    BY <2>3, <2>4, GetIntIs
  <2>6. QED BY <2>1, <2>2, <2>5, <1>1 DEF Border
<1>4. CASE ~(a > 0 /\ t.array[a] = Nil) /\ ~IsDummy(t)
  <2>1. luaH_getn(t) = UnboundSearch(t, a)
    BY <1>4 DEF luaH_getn
  <2>2. HasOrZero(t, a)
    BY <1>1, <1>4 DEF HasOrZero
  <2>3. QED BY <2>1, <2>2, UnboundSearchIs
<1>5. QED BY <1>2, <1>3, <1>4

(***************************************************************************)
(* Traversals                                                              *)
(***************************************************************************)
\* What a search finds depends on the links and on which keys are looked for.
LEMMA SameHits ==
  ASSUME NEW t, NEW u, Linked(t), Linked(u), Nodes(u) = Nodes(t), Succs(u) = Succs(t),
         NEW n \in Nodes(t), NEW K,
         \A m \in Nodes(t) : u.node[m].key \in K <=> t.node[m].key \in K
  PROVE  InChain(u, n, K) = InChain(t, n, K)
<1> DEFINE s == Succs(t)
           r == InChain(t, n, K)
           q == InChain(u, n, K)
<1>1. \/ r = -1 /\ \A m \in Reach(s, n) : t.node[m].key \notin K
      \/ /\ r \in Reach(s, n) /\ r \in Nodes(t) /\ r # -1 /\ t.node[r].key \in K
         /\ \A m \in Reach(s, n) : t.node[m].key \in K => m \in Reach(s, r)
  BY InChainIs
<1>2. \/ q = -1 /\ \A m \in Reach(s, n) : u.node[m].key \notin K
      \/ /\ q \in Reach(s, n) /\ q \in Nodes(t) /\ q # -1 /\ u.node[q].key \in K
         /\ \A m \in Reach(s, n) : u.node[m].key \in K => m \in Reach(s, q)
  BY InChainIs
<1>3. s \in [Nodes(t) -> Nodes(t)] /\ NoLoop(s)
  BY DEF Linked, Chained
<1> SUFFICES q = r
  OBVIOUS
<1> HIDE DEF r, q, s
<1>4. CASE r = -1 /\ \A m \in Reach(s, n) : t.node[m].key \notin K
  BY <1>2, <1>4
<1>5. CASE /\ r \in Reach(s, n) /\ r \in Nodes(t) /\ r # -1 /\ t.node[r].key \in K
           /\ \A m \in Reach(s, n) : t.node[m].key \in K => m \in Reach(s, r)
  <2>1. /\ q \in Reach(s, n) /\ q \in Nodes(t) /\ u.node[q].key \in K
        /\ \A m \in Reach(s, n) : u.node[m].key \in K => m \in Reach(s, q)
    BY <1>2, <1>5
  <2>2. q \in Reach(s, r) /\ r \in Reach(s, q)
    BY <2>1, <1>5
  <2>3. QED BY <2>1, <2>2, <1>3, <1>5, ReachAntisym
<1>6. QED BY <1>1, <1>4, <1>5

Wanted(k) == IF k.tt = "obj" THEN {k, DeadKey(k.v)} ELSE {k}
LEMMA SameIndex ==
  ASSUME TableAssumption, NEW t, NEW u, Shaped(t), Shaped(u),
         u.sizearray = t.sizearray, u.sizenode = t.sizenode, Succs(u) = Succs(t),
         NEW k \in Key \cup {NilKey},
         \A m \in Nodes(t) : u.node[m].key \in Wanted(k) <=> t.node[m].key \in Wanted(k)
  PROVE  FindIndex(u, k) = FindIndex(t, k)
<1>1. CASE k = NilKey
  BY <1>1 DEF FindIndex
<1>2. CASE k # NilKey
  <2>1. k \in Key
    BY <1>2
  <2>2. MainPosition(u, k) = MainPosition(t, k) /\ Nodes(u) = Nodes(t)
    BY HomesSame
  <2>3. Linked(t) /\ Linked(u) /\ MainPosition(t, k) \in Nodes(t)
    BY <2>1, ShapedLinked, PositionIs
  <2>4. InChain(u, MainPosition(u, k), Wanted(k)) = InChain(t, MainPosition(t, k), Wanted(k))
    BY <2>2, <2>3, SameHits
  <2>5. \A w : FindIndex(w, k) = IF ArrayIndex(k) \in 1..w.sizearray THEN ArrayIndex(k)
                                 ELSE LET n == InChain(w, MainPosition(w, k), Wanted(k)) IN
                                      IF n = -1 THEN -1 ELSE n + 1 + w.sizearray
    BY <1>2 DEF FindIndex, Wanted
  <2>6. QED BY <2>4, <2>5
<1>3. QED BY <1>1, <1>2

\* The entries of a traversal.
Indices(t) == 1..(t.sizearray + t.sizenode)
LEMMA EntryNode ==
  ASSUME NEW t, Shaped(t), NEW y
  PROVE  /\ y \in 1..t.sizearray => y \in Indices(t) /\ EntryAt(t, y) = [key |-> IntKey(y), val |-> t.array[y]]
         /\ y \in Indices(t) /\ y \notin 1..t.sizearray =>
              \E n \in Nodes(t) : /\ y = n + 1 + t.sizearray
                                  /\ EntryAt(t, y) = [key |-> t.node[n].key, val |-> t.node[n].val]
<1>1. t.sizearray \in Nat /\ t.sizenode \in Nat \ {0}
  BY FormRecord DEF Shaped
<1>2. CASE y \in 1..t.sizearray
  BY <1>1, <1>2 DEF EntryAt, Indices
<1>3. CASE y \in Indices(t) /\ y \notin 1..t.sizearray
  <2> DEFINE n == y - t.sizearray - 1
  <2>1. n \in Nodes(t) /\ y = n + 1 + t.sizearray /\ ~(y <= t.sizearray)
    BY <1>1, <1>3 DEF Indices, Nodes
  <2>2. EntryAt(t, y) = [key |-> t.node[n].key, val |-> t.node[n].val]
    BY <2>1 DEF EntryAt
  <2> HIDE DEF n
  <2>3. QED BY <2>1, <2>2, <1>3
<1>4. QED BY <1>2, <1>3

LEMMA NodeEntry ==
  ASSUME NEW t, Shaped(t), NEW n \in Nodes(t)
  PROVE  /\ n + 1 + t.sizearray \in Indices(t)
         /\ EntryAt(t, n + 1 + t.sizearray) = [key |-> t.node[n].key, val |-> t.node[n].val]
<1>1. t.sizearray \in Nat /\ t.sizenode \in Nat \ {0}
  BY FormRecord DEF Shaped
<1> DEFINE y == n + 1 + t.sizearray
<1>2. y \in Indices(t) /\ ~(y <= t.sizearray) /\ y - t.sizearray - 1 = n
  BY <1>1 DEF Indices, Nodes
<1> HIDE DEF y
<1>3. EntryAt(t, y) = [key |-> t.node[n].key, val |-> t.node[n].val]
  BY <1>2 DEF EntryAt
<1>4. QED BY <1>2, <1>3 DEF y

\* What has a value is found at its place.
LEMMA EntryFound ==
  ASSUME TableAssumption, NEW t, Shaped(t), Unstranded(t), KeyedArray(t), Sized(t),
         NEW y \in Indices(t), EntryAt(t, y).val # Nil
  PROVE  /\ EntryAt(t, y).key \in Key /\ EntryAt(t, y).val \in Value
         /\ InTab(t, EntryAt(t, y).key, EntryAt(t, y).val) /\ FindIndex(t, EntryAt(t, y).key) = y
<1>1. /\ t.sizearray \in Nat /\ t.array \in [1..t.sizearray -> Value \cup {Nil}]
      /\ t.node \in [Nodes(t) -> Node] /\ twoto[MAXABITS] \in Nat
  BY FormRecord, ComputeSizesIs DEF Shaped
<1>2. NilKey \notin Key
  BY KeyFacts DEF NodeKey
<1>3. CASE y \in 1..t.sizearray
  <2>1. EntryAt(t, y).key = IntKey(y) /\ EntryAt(t, y).val = t.array[y]
    BY <1>3, EntryNode
  <2>2. IntKey(y) \in Key /\ t.array[y] \in Value
    BY <2>1, <1>1, <1>3 DEF KeyedArray
  <2>3. InTab(t, IntKey(y), t.array[y])
    BY <1>3 DEF InTab
  <2>4. ArrayIndex(IntKey(y)) = y
    BY <1>1, <1>3 DEF ArrayIndex, IntKey, Sized
  <2>5. FindIndex(t, IntKey(y)) = y
    BY <2>2, <2>4, <1>2, <1>3 DEF FindIndex
  <2>6. QED BY <2>1, <2>2, <2>3, <2>5
<1>4. CASE y \notin 1..t.sizearray
  <2>1. PICK n \in Nodes(t) : /\ y = n + 1 + t.sizearray
                              /\ EntryAt(t, y) = [key |-> t.node[n].key, val |-> t.node[n].val]
    BY <1>4, EntryNode
  <2> DEFINE k == t.node[n].key
  <2>2. EntryAt(t, y).key = k /\ EntryAt(t, y).val = t.node[n].val
    BY <2>1
  <2>3. k \in Key /\ t.node[n].val \in Value /\ InTab(t, k, t.node[n].val) /\ ~InArray(t, k)
    BY <2>2, <1>1 DEF Shaped, ValuesLive, InTab, Node, Unstranded
  <2> DEFINE K == Wanted(k)
             mp == MainPosition(t, k)
             s == Succs(t)
             r == InChain(t, mp, K)
  <2>4. Linked(t) /\ t.sizenode \in Nat \ {0} /\ \A m \in Nodes(t) : Keys(t)[m] = t.node[m].key
    BY ShapedLinked
  <2>5. mp \in Nodes(t) /\ Homes(t)[k] = mp
    BY <2>3, <2>4, PositionIs, HomesIs
  <2>6. n \in Reach(s, mp) /\ k \in K
    <3>1. n \in Reach(s, mp)
      BY <2>3, <2>4, <2>5, <1>2 DEF Shaped, Hung, Reached
    <3>2. QED BY <3>1 DEF Wanted
  <2>7. /\ r \in Reach(s, mp) /\ r \in Nodes(t) /\ r # -1 /\ t.node[r].key \in K
        /\ \A m \in Reach(s, mp) : t.node[m].key \in K => m \in Reach(s, r)
    <3> HIDE DEF mp, K
    <3>1. \/ r = -1 /\ \A m \in Reach(s, mp) : t.node[m].key \notin K
          \/ /\ r \in Reach(s, mp) /\ r \in Nodes(t) /\ r # -1 /\ t.node[r].key \in K
             /\ \A m \in Reach(s, mp) : t.node[m].key \in K => m \in Reach(s, r)
      BY <2>4, <2>5, InChainIs
    <3> HIDE DEF r
    <3>2. QED BY <3>1, <2>6
  <2>8. r = n
    <3>1. CASE t.node[r].key = k
      <4> HIDE DEF r
      <4>1. QED BY <3>1, <2>3, <2>4, <2>7 DEF Shaped, Hung, OneLive
    <3>2. CASE t.node[r].key # k
      <4> HIDE DEF r
      <4>1. k.tt = "obj" /\ t.node[r].key = DeadKey(k.v)
        BY <3>2, <2>7 DEF Wanted
      <4>2. PICK o \in Object : k = ObjKey(o)
        <5>1. PICK q \in AnyKey : k = Normal(q)
          BY <2>3 DEF Key
        <5>2. q.tt = "obj" /\ k = q
          BY <5>1, <4>1 DEF AnyKey, Normal, IntKey, FloatKey, ObjKey
        <5>3. QED BY <5>2 DEF AnyKey, IntKey, FloatKey, ObjKey
      <4>3. k.v = o
        BY <4>2 DEF ObjKey
      <4>4. r \in Reach(s, n)
        BY <4>1, <4>2, <4>3, <2>4, <2>7 DEF Shaped, Hung, DeadAfter
      <4>5. n \in Reach(s, r)
        BY <2>6, <2>7
      <4>6. s \in [Nodes(t) -> Nodes(t)] /\ NoLoop(s)
        BY <2>4 DEF Linked, Chained
      <4> HIDE DEF s
      <4>7. QED BY <4>4, <4>5, <4>6, <2>7, ReachAntisym
    <3>3. QED BY <3>1, <3>2
  <2>9. ArrayIndex(k) \notin 1..t.sizearray
    <3>1. CASE k.tt = "int" /\ 0 < k.v /\ k.v <= twoto[MAXABITS]
      <4>1. ArrayIndex(k) = k.v
        BY <3>1 DEF ArrayIndex
      <4>2. k.v \notin 1..t.sizearray
        BY <3>1, <2>3 DEF InArray
      <4>3. QED BY <4>1, <4>2
    <3>2. CASE ~(k.tt = "int" /\ 0 < k.v /\ k.v <= twoto[MAXABITS])
      <4>1. ArrayIndex(k) = 0
        BY <3>2 DEF ArrayIndex
      <4> HIDE DEF k
      <4>2. QED BY <4>1, <1>1
    <3>3. QED BY <3>1, <3>2
  <2>10. FindIndex(t, k) = IF r = -1 THEN -1 ELSE r + 1 + t.sizearray
    <3>1. k # NilKey
      BY <2>3, <1>2
    <3>2. QED BY <3>1, <2>9 DEF FindIndex, Wanted
  <2> HIDE DEF r, k
  <2>11. FindIndex(t, k) = y
    BY <2>1, <2>7, <2>8, <2>10
  <2>12. QED BY <2>2, <2>3, <2>11
<1>5. QED BY <1>3, <1>4

LEMMA EntryFor ==
  ASSUME NEW t, Shaped(t), NEW k, NEW v, InTab(t, k, v)
  PROVE  \E y \in Indices(t) : EntryAt(t, y).key = k /\ EntryAt(t, y).val = v
<1>1. CASE \E x \in 1..t.sizearray : k = IntKey(x) /\ t.array[x] = v
  <2>1. PICK x \in 1..t.sizearray : k = IntKey(x) /\ t.array[x] = v
    BY <1>1
  <2>2. QED BY <2>1, EntryNode
<1>2. CASE \E n \in Nodes(t) : t.node[n].key = k /\ t.node[n].val = v
  <2>1. PICK n \in Nodes(t) : t.node[n].key = k /\ t.node[n].val = v
    BY <1>2
  <2> DEFINE y == n + 1 + t.sizearray
  <2>2. y \in Indices(t) /\ EntryAt(t, y) = [key |-> t.node[n].key, val |-> t.node[n].val]
    BY NodeEntry
  <2> HIDE DEF y
  <2>3. QED BY <2>1, <2>2
<1>3. QED BY <1>1, <1>2 DEF InTab

\* What a traversal has met is what comes up to its key.
MetUpTo(t, x, seen) ==
  /\ x \in 0..(t.sizearray + t.sizenode)
  /\ \A y \in Indices(t) : EntryAt(t, y).val # Nil => (EntryAt(t, y).key \in seen <=> y <= x)
Travelled(t, tr) ==
  /\ tr.key \in Key \cup {NilKey} /\ tr.seen \in SUBSET Key
  /\ MetUpTo(t, FindIndex(t, tr.key), tr.seen)
TravInv ==
  /\ trav = NoTraversal \/ trav = [on |-> TRUE, key |-> trav.key, seen |-> trav.seen]
  /\ trav.on => phase = "idle"
  /\ phase = "idle" => Travelled(tab, trav)
FreedInv ==
  /\ freed \in SUBSET Object
  /\ \A o \in freed : map[ObjKey(o)] = Nil /\ pending.key # ObjKey(o)

LEMMA NothingMet ==
  ASSUME NEW t, Shaped(t)
  PROVE  Travelled(t, NoTraversal)
<1>1. NoTraversal.key = NilKey /\ NoTraversal.seen = {}
  BY DEF NoTraversal
<1>2. FindIndex(t, NilKey) = 0
  BY DEF FindIndex
<1>3. t.sizearray \in Nat /\ t.sizenode \in Nat
  BY FormRecord DEF Shaped
<1>4. QED BY <1>1, <1>2, <1>3 DEF Travelled, MetUpTo, Indices

\* luaH_next.
LEMMA NextIs ==
  ASSUME TableAssumption, NEW t, Shaped(t), Unstranded(t), KeyedArray(t), Sized(t),
         NEW tr, Travelled(t, tr)
  PROVE  LET k == luaH_next(t, tr.key)
         IN  /\ k # Error /\ k \notin tr.seen
             /\ k # NilKey => /\ k \in Key /\ Travelled(t, [on |-> TRUE, key |-> k, seen |-> tr.seen \cup {k}])
                              /\ \E v \in Value : InTab(t, k, v)
             /\ k = NilKey => \A q \in Key, v \in Value : InTab(t, q, v) => q \in tr.seen
<1> DEFINE k == luaH_next(t, tr.key)
           x == FindIndex(t, tr.key)
           more == Following(t, x)
           size == t.sizearray + t.sizenode
<1>1. size \in Nat /\ Indices(t) = 1..size
  BY FormRecord DEF Shaped, Indices
<1>2. /\ x \in 0..size /\ tr.seen \in SUBSET Key
      /\ \A y \in Indices(t) : EntryAt(t, y).val # Nil => (EntryAt(t, y).key \in tr.seen <=> y <= x)
  BY DEF Travelled, MetUpTo
<1>3. k = IF x = -1 THEN Error ELSE IF more = {} THEN NilKey ELSE EntryAt(t, Min(more)).key
  BY DEF luaH_next
<1>4. NilKey \notin Key /\ Error \notin Key /\ NilKey # Error
  <2>1. \A q \in Key : q.tt # "error"
    BY KeyKinds
  <2>2. QED BY <2>1, KeyFacts DEF NodeKey, Error, NilKey
<1>5. more = {y \in (x + 1)..size : EntryAt(t, y).val # Nil}
  BY DEF Following
<1> HIDE DEF k, x, more, size
<1>6. \A y : y \in more <=> y \in Indices(t) /\ y > x /\ EntryAt(t, y).val # Nil
  BY <1>1, <1>2, <1>5
<1>7. CASE more = {}
  <2>1. k = NilKey
    BY <1>1, <1>2, <1>3, <1>7
  <2>2. ASSUME NEW q \in Key, NEW v \in Value, InTab(t, q, v)
        PROVE  q \in tr.seen
    <3>1. PICK y \in Indices(t) : EntryAt(t, y).key = q /\ EntryAt(t, y).val = v
      BY <2>2, EntryFor
    <3>2. v # Nil
      BY DEF TableAssumption
    <3>3. ~(y > x)
      BY <3>1, <3>2, <1>6, <1>7
    <3>4. QED BY <3>1, <3>2, <3>3, <1>1, <1>2
  <2>3. QED BY <2>1, <2>2, <1>2, <1>4 DEF k
<1>8. CASE more # {}
  <2> DEFINE m == Min(more)
  <2>1. m \in more /\ \A y \in more : m <= y
    <3>1. more \in SUBSET Nat
      BY <1>1, <1>2, <1>5
    <3>2. QED BY <3>1, <1>8, MinIs
  <2>2. k = EntryAt(t, m).key
    BY <1>1, <1>2, <1>3, <1>8
  <2> HIDE DEF m
  <2>3. m \in Indices(t) /\ m > x /\ EntryAt(t, m).val # Nil /\ m \in 0..size
    BY <2>1, <1>1, <1>6
  <2>4. /\ k \in Key /\ EntryAt(t, m).val \in Value /\ InTab(t, k, EntryAt(t, m).val) /\ FindIndex(t, k) = m
    BY <2>2, <2>3, EntryFound
  <2>5. k \notin tr.seen
    BY <2>2, <2>3, <1>1, <1>2
  <2>6. ASSUME NEW y \in Indices(t), EntryAt(t, y).val # Nil
        PROVE  EntryAt(t, y).key \in tr.seen \cup {k} <=> y <= m
    <3>1. FindIndex(t, EntryAt(t, y).key) = y
      BY <2>6, EntryFound
    <3>2. EntryAt(t, y).key = k <=> y = m
      BY <3>1, <2>2, <2>4
    <3>3. y > x => m <= y
      BY <2>1, <2>6, <1>6
    <3>4. QED BY <3>2, <3>3, <2>3, <2>6, <1>1, <1>2
  <2>7. MetUpTo(t, FindIndex(t, k), tr.seen \cup {k})
    BY <2>3, <2>4, <2>6 DEF MetUpTo, size
  <2>8. Travelled(t, [on |-> TRUE, key |-> k, seen |-> tr.seen \cup {k}])
    BY <2>4, <2>7, <1>2 DEF Travelled
  <2>9. QED BY <2>4, <2>5, <2>8, <1>4 DEF k
<1>9. QED BY <1>7, <1>8

LEMMA TravelKept ==
  ASSUME NEW t, NEW u, u.sizearray = t.sizearray, u.sizenode = t.sizenode,
         NEW tr, Travelled(t, tr), FindIndex(u, tr.key) = FindIndex(t, tr.key),
         \A y \in Indices(t) : EntryAt(u, y).val # Nil =>
           EntryAt(t, y).val # Nil /\ EntryAt(u, y).key = EntryAt(t, y).key
  PROVE  Travelled(u, tr)
<1>1. Indices(u) = Indices(t)
  BY DEF Indices
<1>2. QED BY <1>1 DEF Travelled, MetUpTo

\* Tables with the same links and the same or fewer values.
LEMMA FewerEntries ==
  ASSUME NEW t, NEW u, Shaped(t), Shaped(u), u.sizearray = t.sizearray, u.sizenode = t.sizenode,
         \A x \in 1..t.sizearray : u.array[x] # Nil => t.array[x] # Nil,
         \A n \in Nodes(t) : u.node[n].val # Nil => t.node[n].val # Nil /\ u.node[n].key = t.node[n].key
  PROVE  \A y \in Indices(t) : EntryAt(u, y).val # Nil =>
           EntryAt(t, y).val # Nil /\ EntryAt(u, y).key = EntryAt(t, y).key
<1> SUFFICES ASSUME NEW y \in Indices(t), EntryAt(u, y).val # Nil
             PROVE  EntryAt(t, y).val # Nil /\ EntryAt(u, y).key = EntryAt(t, y).key
  OBVIOUS
<1>1. Nodes(u) = Nodes(t) /\ Indices(u) = Indices(t) /\ t.sizearray \in Nat
  BY HomesSame, FormRecord DEF Indices, Shaped
<1>2. CASE y \in 1..t.sizearray
  <2>1. EntryAt(u, y) = [key |-> IntKey(y), val |-> u.array[y]] /\ EntryAt(t, y) = [key |-> IntKey(y), val |-> t.array[y]]
    BY <1>2, EntryNode
  <2>2. QED BY <2>1, <1>2
<1>3. CASE y \notin 1..t.sizearray
  <2>1. PICK n \in Nodes(t) : /\ y = n + 1 + t.sizearray
                              /\ EntryAt(t, y) = [key |-> t.node[n].key, val |-> t.node[n].val]
    BY <1>3, EntryNode
  <2>2. EntryAt(u, y) = [key |-> u.node[n].key, val |-> u.node[n].val]
    BY <2>1, <1>1, NodeEntry
  <2>3. QED BY <2>1, <2>2
<1>4. QED BY <1>2, <1>3

LEMMA AliveIs ==
  ASSUME NEW k \in AnyKey, Alive(k), NEW o \in freed
  PROVE  Normal(k) # ObjKey(o)
<1>1. CASE Normal(k) = k
  BY <1>1 DEF Alive, ObjKey
<1>2. CASE Normal(k) # k
  <2>1. Normal(k).tt = "int"
    BY <1>2 DEF Normal, IntKey
  <2>2. QED BY <2>1 DEF ObjKey
<1>3. QED BY <1>1, <1>2

Full == Inv /\ TravInv /\ FreedInv

\* A traversal goes on after an assignment to a field that has a value.
LEMMA FastSetTravels ==
  ASSUME TableAssumption, Full, NEW k \in AnyKey, NEW v \in Value \cup {Nil}, FastSet(k, v)
  PROVE  TravInv' /\ FreedInv'
<1> DEFINE n == Normal(k)
<1>1. /\ phase = "idle" /\ Alive(k) /\ GetNormal(tab, n) # Nil /\ tab' = Set(tab, n, v)
      /\ map' = [map EXCEPT ![n] = v] /\ UNCHANGED <<flags, resize, trav, freed>>
  BY DEF FastSet, luaH_get
<1>2. n \in Key /\ \A o \in freed : n # ObjKey(o)
  BY <1>1, NormalIs, AliveIs
<1> HIDE DEF n
<1>3. /\ Shaped(tab) /\ Unstranded(tab) /\ TravInv /\ FreedInv /\ Travelled(tab, trav)
      /\ map \in [Key -> Value \cup {Nil}]
  BY <1>1 DEF Full, Inv, TabInv, TravInv, Content
<1>4. ~Absent(tab, n) /\ ~NeedsRehash(tab, n)
  BY <1>1, GetPresent
<1>5. /\ SameKeys(tab, tab')
      /\ \A x \in 1..tab.sizearray : tab'.array[x] = tab.array[x] \/ IntKey(x) = n
      /\ \A m \in Nodes(tab) : tab'.node[m].val = tab.node[m].val \/ tab.node[m].key = n
  BY <1>1, <1>2, <1>3, <1>4, SetPresent
<1>6. Shaped(tab') /\ Unstranded(tab')
  BY <1>1, <1>2, <1>3, <1>4, SetIs DEF Assigned
<1>7. /\ tab'.sizearray = tab.sizearray /\ tab'.sizenode = tab.sizenode /\ Succs(tab') = Succs(tab)
      /\ \A m \in Nodes(tab) : tab'.node[m].key = tab.node[m].key
  BY <1>3, <1>5, <1>6, SameShape DEF Shaped, SameKeys
<1>8. FindIndex(tab', trav.key) = FindIndex(tab, trav.key)
  BY <1>3, <1>6, <1>7, SameIndex DEF Travelled
<1>9. ASSUME NEW x \in 1..tab.sizearray, tab'.array[x] # Nil
      PROVE  tab.array[x] # Nil
  <2>1. CASE IntKey(x) = n
    <3>1. InArray(tab, n) /\ n.v = x
      BY <2>1 DEF InArray, IntKey
    <3>2. QED BY <3>1, <1>1 DEF GetNormal
  <2>2. CASE IntKey(x) # n
    BY <2>2, <1>5, <1>9
  <2>3. QED BY <2>1, <2>2
<1>10. ASSUME NEW m \in Nodes(tab), tab'.node[m].val # Nil
       PROVE  tab.node[m].val # Nil
  <2>1. CASE tab.node[m].key = n
    <3>1. ~InArray(tab, n)
      <4>1. Nodes(tab') = Nodes(tab)
        BY <1>7, HomesSame
      <4>2. QED BY <4>1, <2>1, <1>6, <1>7, <1>10 DEF Unstranded, InArray
    <3>2. m = Slot(tab, n) /\ Slot(tab, n) # -1
      BY <2>1, <1>2, <1>3, SlotIs
    <3>3. QED BY <3>1, <3>2, <1>1 DEF GetNormal
  <2>2. CASE tab.node[m].key # n
    BY <2>2, <1>5, <1>10
  <2>3. QED BY <2>1, <2>2
<1>11. Travelled(tab', trav)
  <2>1. \A y \in Indices(tab) : EntryAt(tab', y).val # Nil =>
           EntryAt(tab, y).val # Nil /\ EntryAt(tab', y).key = EntryAt(tab, y).key
    BY <1>3, <1>6, <1>7, <1>9, <1>10, FewerEntries
  <2>2. QED BY <2>1, <1>3, <1>7, <1>8, TravelKept
<1>12. TravInv'
  BY <1>1, <1>3, <1>11 DEF TravInv, resize
<1>13. FreedInv'
  <2>1. \A o \in freed : ObjKey(o) \in Key
    BY <1>3, KeyFacts DEF FreedInv
  <2>2. QED BY <2>1, <1>1, <1>2, <1>3 DEF FreedInv, resize
<1>14. QED BY <1>12, <1>13

\* A step that ends every traversal.
LEMMA TravelEnds ==
  ASSUME Shaped(tab'), trav' = NoTraversal
  PROVE  TravInv'
<1>1. NoTraversal.on = FALSE
  BY DEF NoTraversal
<1>2. Travelled(tab', NoTraversal)
  BY NothingMet
<1>3. QED BY <1>1, <1>2 DEF TravInv

LEMMA FinishSetTravels ==
  ASSUME TableAssumption, Full, Inv', NEW k \in AnyKey, NEW v \in Value \cup {Nil}, FinishSet(k, v)
  PROVE  TravInv' /\ FreedInv'
<1> DEFINE n == Normal(k)
<1>1. Alive(k) /\ FreedInv /\ Shaped(tab') /\ map \in [Key -> Value \cup {Nil}]
  BY DEF FinishSet, Full, Inv, TabInv, Content
<1>2. n \in Key /\ (\A o \in freed : n # ObjKey(o)) /\ \A o \in freed : ObjKey(o) \in Key
  BY <1>1, NormalIs, AliveIs, KeyFacts DEF FreedInv
<1>3. CASE NeedsRehash(tab, n) /\ Rehash(n, v)
  <2>1. trav' = NoTraversal /\ pending' = [key |-> n, val |-> v] /\ freed' = freed /\ map' = map
    BY <1>3 DEF Rehash, Resize
  <2> HIDE DEF n
  <2>2. pending'.key = n
    BY <2>1
  <2>3. FreedInv'
    BY <2>1, <2>2, <1>1, <1>2 DEF FreedInv
  <2>4. QED BY <2>1, <2>3, <1>1, TravelEnds
<1>4. CASE ~NeedsRehash(tab, n)
  <2>1. trav' = NoTraversal /\ map' = [map EXCEPT ![n] = v] /\ UNCHANGED <<resize, freed>>
    BY <1>4 DEF FinishSet
  <2> HIDE DEF n
  <2>2. FreedInv'
    BY <2>1, <1>1, <1>2 DEF FreedInv, resize
  <2>3. QED BY <2>1, <2>2, <1>1, TravelEnds
<1>5. QED BY <1>3, <1>4 DEF FinishSet

LEMMA ResizeTravels ==
  ASSUME TableAssumption, Full, Inv', luaH_resize
  PROVE  TravInv' /\ FreedInv'
<1>1. /\ Shaped(tab') /\ TravInv /\ FreedInv /\ ResizeInv /\ map \in [Key -> Value \cup {Nil}]
      /\ \A o \in freed : ObjKey(o) \in Key
  BY KeyFacts DEF Full, Inv, TabInv, Content, FreedInv
<1>2. phase # "idle" /\ trav' = trav /\ freed' = freed
  BY DEF luaH_resize, NewNodes, InsertElement, InsertNode, ResizeEnd, NodesFail
<1>3. TravInv'
  <2>1. trav' = NoTraversal
    BY <1>1, <1>2 DEF TravInv
  <2>2. QED BY <2>1, <1>1, TravelEnds
<1>4. CASE NewNodes \/ InsertElement \/ InsertNode
  <2>1. pending' = pending /\ map' = map
    BY <1>4 DEF NewNodes, InsertElement, InsertNode
  <2>2. QED BY <2>1, <1>1, <1>2, <1>3 DEF FreedInv
<1>5. \A o : Nothing.key # ObjKey(o)
  BY DEF Nothing, NilKey, ObjKey
<1>6. CASE ResizeEnd
  <2>1. pending' = Nothing
    BY <1>6 DEF ResizeEnd, Idle
  <2>2. CASE map' = map
    BY <2>1, <2>2, <1>1, <1>2, <1>3, <1>5 DEF FreedInv
  <2>3. CASE pending # Nothing /\ map' = [map EXCEPT ![pending.key] = pending.val]
    BY <2>1, <2>3, <1>1, <1>2, <1>3, <1>5 DEF FreedInv
  <2>4. QED BY <2>2, <2>3, <1>6 DEF ResizeEnd
<1>7. CASE NodesFail
  <2>1. pending' = Nothing /\ map' = map
    BY <1>7 DEF NodesFail, Idle
  <2>2. QED BY <2>1, <1>1, <1>2, <1>3, <1>5 DEF FreedInv
<1>8. QED BY <1>4, <1>6, <1>7 DEF luaH_resize

LEMMA TraverseTravels ==
  ASSUME TableAssumption, Full, Traverse
  PROVE  TravInv' /\ FreedInv'
<1> DEFINE k == luaH_next(tab, trav.key)
<1>1. /\ phase = "idle" /\ UNCHANGED <<tab, flags, resize, freed, map>>
      /\ trav' = IF k = NilKey THEN NoTraversal ELSE [on |-> TRUE, key |-> k, seen |-> trav.seen \cup {k}]
  BY DEF Traverse
<1>2. TabInv /\ TravInv /\ FreedInv /\ Travelled(tab, trav)
  BY <1>1 DEF Full, Inv, TravInv
<1>3. Shaped(tab) /\ Unstranded(tab) /\ KeyedArray(tab) /\ Sized(tab)
  BY <1>1, <1>2 DEF TabInv
<1>4. k # NilKey => Travelled(tab, [on |-> TRUE, key |-> k, seen |-> trav.seen \cup {k}])
  BY <1>2, <1>3, NextIs
<1> HIDE DEF k
<1>5. FreedInv'
  BY <1>1, <1>2 DEF FreedInv, resize
<1>6. CASE k = NilKey
  BY <1>1, <1>3, <1>5, <1>6, TravelEnds
<1>7. CASE k # NilKey
  <2> DEFINE w == trav.seen \cup {k}
  <2>1. trav' = [on |-> TRUE, key |-> k, seen |-> w] /\ phase' = "idle" /\ Travelled(tab', trav')
    BY <1>1, <1>4, <1>7 DEF resize
  <2> HIDE DEF w
  <2>2. trav'.key = k /\ trav'.seen = w /\ trav'.on = TRUE
    BY <2>1
  <2>3. QED BY <2>1, <2>2, <1>5 DEF TravInv
<1>8. QED BY <1>6, <1>7

LEMMA CollectTravels ==
  ASSUME TableAssumption, Full, Inv', NEW o \in Object, Collect(o)
  PROVE  TravInv' /\ FreedInv'
<1> DEFINE m == Slot(tab, ObjKey(o))
<1>1. /\ phase \in {"idle", "vector"} /\ luaH_get(tab, ObjKey(o)) = Nil
      /\ tab' = (IF m = -1 THEN tab ELSE [tab EXCEPT !.node[m].key = DeadKey(o)])
      /\ flags' = flags /\ map' = map /\ UNCHANGED resize /\ trav' = trav
      /\ freed' = freed \/ (ObjKey(o) \notin {trav.key, pending.key} /\ freed' = freed \cup {o})
  BY DEF Collect
<1>2. Inv /\ TabInv /\ Shaped(tab) /\ Shaped(tab') /\ TravInv /\ FreedInv /\ ResizeInv
  BY DEF Full, Inv, TabInv
<1>3. ObjKey(o) \in Key /\ ~InArray(tab, ObjKey(o))
  BY <1>2, ObjectNode
<1>4. map[ObjKey(o)] = Nil
  <2>1. phase # "insert"
    BY <1>1
  <2>2. QED BY <2>1, <1>1, <1>2, <1>3, GetMap
<1>5. FreedInv'
  BY <1>1, <1>2, <1>4 DEF FreedInv, resize
<1> HIDE DEF m
<1>6. CASE m = -1
  BY <1>1, <1>2, <1>5, <1>6 DEF TravInv, resize
<1>7. CASE m # -1
  <2>1. m \in Nodes(tab) /\ tab.node[m].key = ObjKey(o) /\ tab.node[m].val = Nil
    BY <1>1, <1>2, <1>7, ObjectNode DEF m
  <2>2. /\ tab'.sizearray = tab.sizearray /\ tab'.array = tab.array
        /\ tab'.sizenode = tab.sizenode /\ Succs(tab') = Succs(tab)
        /\ \A n \in Nodes(tab) : /\ tab'.node[n].val = tab.node[n].val
                                 /\ tab'.node[n].key = IF n = m THEN DeadKey(o) ELSE tab.node[n].key
    <3> DEFINE u == [tab EXCEPT !.node[m].key = DeadKey(o)]
    <3>1. /\ u.sizearray = tab.sizearray /\ u.array = tab.array
          /\ u.sizenode = tab.sizenode /\ Succs(u) = Succs(tab)
          /\ \A n \in Nodes(tab) : /\ u.node[n].val = tab.node[n].val
                                   /\ u.node[n].key = IF n = m THEN DeadKey(o) ELSE tab.node[n].key
      BY <2>1, <1>2, KillIs
    <3>2. tab' = u
      BY <1>1, <1>7
    <3> HIDE DEF u
    <3>3. QED BY <3>1, <3>2
  <2>3. ASSUME Travelled(tab, trav)
        PROVE  Travelled(tab', trav)
    <3>1. trav.key \in Key \cup {NilKey}
      BY <2>3 DEF Travelled
    \* The key that was killed is found where it was.
    <3>2. DeadKey(o) \in Wanted(trav.key) <=> ObjKey(o) \in Wanted(trav.key)
      <4>1. \A w : DeadKey(o) # ObjKey(w) /\ (DeadKey(o) = DeadKey(w) <=> o = w)
        BY DEF DeadKey, ObjKey
      <4>2. DeadKey(o).tt = "dead" /\ ObjKey(o).tt = "obj" /\ ObjKey(o).v = o
        BY DEF DeadKey, ObjKey
      <4>3. DeadKey(o) # trav.key
        BY <3>1, KeyFacts DEF NilKey, DeadKey
      <4>4. CASE trav.key.tt = "obj"
        <5>1. Wanted(trav.key) = {trav.key, DeadKey(trav.key.v)}
          BY <4>4 DEF Wanted
        <5>2. \A w : DeadKey(w) # ObjKey(o)
          BY DEF DeadKey, ObjKey
        <5>3. trav.key \in Key
          BY <3>1, <4>4 DEF NilKey
        <5>4. PICK w \in Object : trav.key = ObjKey(w)
          <6>1. PICK q \in AnyKey : trav.key = Normal(q)
            BY <5>3 DEF Key
          <6>2. q.tt = "obj" /\ trav.key = q
            BY <6>1, <4>4 DEF AnyKey, Normal, IntKey, FloatKey, ObjKey
          <6>3. QED BY <6>2 DEF AnyKey, IntKey, FloatKey, ObjKey
        <5>5. trav.key.v = w
          BY <5>4 DEF ObjKey
        <5>6. QED BY <5>1, <5>2, <5>4, <5>5, <4>1, <4>2, <4>3
      <4>5. CASE trav.key.tt # "obj"
        BY <4>2, <4>3, <4>5 DEF Wanted
      <4>6. QED BY <4>4, <4>5
    <3>3. \A n \in Nodes(tab) : tab'.node[n].key \in Wanted(trav.key) <=> tab.node[n].key \in Wanted(trav.key)
      BY <3>2, <2>1, <2>2
    <3>4. FindIndex(tab', trav.key) = FindIndex(tab, trav.key)
      BY <3>1, <3>3, <2>2, <1>2, SameIndex
    <3>5. \A y \in Indices(tab) : EntryAt(tab', y).val # Nil =>
             EntryAt(tab, y).val # Nil /\ EntryAt(tab', y).key = EntryAt(tab, y).key
      <4>1. \A n \in Nodes(tab) : tab'.node[n].val # Nil =>
              tab.node[n].val # Nil /\ tab'.node[n].key = tab.node[n].key
        BY <2>1, <2>2
      <4>2. QED BY <4>1, <2>2, <1>2, FewerEntries
    <3>6. QED BY <3>4, <3>5, <2>2, <2>3, TravelKept
  <2>4. TravInv'
    BY <2>3, <1>1, <1>2 DEF TravInv, resize
  <2>5. QED BY <2>4, <1>5
<1>8. QED BY <1>6, <1>7

\* An address is used again: no entry with a value has it.
LEMMA NewObjectTravels ==
  ASSUME TableAssumption, Full, NEW o \in Object, NewObject(o)
  PROVE  TravInv' /\ FreedInv'
<1>1. /\ phase = "idle" /\ o \in freed /\ freed' = freed \ {o}
      /\ trav' = [trav EXCEPT !.seen = @ \ {ObjKey(o)}] /\ UNCHANGED <<tab, flags, resize, map>>
  BY DEF NewObject
<1>2. TabInv /\ TravInv /\ FreedInv /\ Content /\ Travelled(tab, trav)
  BY <1>1 DEF Full, Inv, TravInv
<1>3. Shaped(tab) /\ Unstranded(tab) /\ KeyedArray(tab) /\ Sized(tab)
  BY <1>1, <1>2 DEF TabInv
<1>4. FreedInv'
  BY <1>1, <1>2 DEF FreedInv, resize
<1>5. map[ObjKey(o)] = Nil
  BY <1>1, <1>2 DEF FreedInv
<1>6. ASSUME NEW y \in Indices(tab), EntryAt(tab, y).val # Nil
      PROVE  EntryAt(tab, y).key # ObjKey(o)
  <2>1. EntryAt(tab, y).key \in Key /\ EntryAt(tab, y).val \in Value /\ InTab(tab, EntryAt(tab, y).key, EntryAt(tab, y).val)
    BY <1>3, <1>6, EntryFound
  <2>2. map[EntryAt(tab, y).key] = EntryAt(tab, y).val
    BY <2>1, <1>2 DEF Content
  <2>3. QED BY <2>2, <1>5, <1>6
<1>7. TravInv'
  <2>1. CASE ~trav.on
    <3>1. trav = NoTraversal
      BY <2>1, <1>2 DEF TravInv
    <3>2. trav' = NoTraversal
      BY <3>1, <1>1 DEF NoTraversal
    <3>3. QED BY <3>2, <1>1, <1>3, TravelEnds
  <2>2. CASE trav.on
    <3> DEFINE q == trav.key
               w == trav.seen
               x == w \ {ObjKey(o)}
    <3>0. trav = [on |-> TRUE, key |-> q, seen |-> w]
      BY <2>2, <1>2 DEF TravInv, NoTraversal
    <3> HIDE DEF q, w
    <3>4. trav' = [on |-> TRUE, key |-> q, seen |-> x]
      BY <3>0, <1>1
    <3>5. trav.key = q /\ trav.seen = w /\ trav'.key = q /\ trav'.seen = x /\ trav'.on = TRUE
      BY <3>0, <3>4
    <3>1. trav'.key = trav.key /\ trav'.on /\ trav'.seen = trav.seen \ {ObjKey(o)}
      BY <3>5
    <3>2. trav' = [on |-> TRUE, key |-> trav'.key, seen |-> trav'.seen]
      <4> HIDE DEF x
      <4>1. QED BY <3>4, <3>5
    <3>3. QED BY <3>1, <3>2, <2>2, <1>1, <1>2, <1>6 DEF TravInv, Travelled, MetUpTo, resize
  <2>3. QED BY <2>1, <2>2
<1>8. QED BY <1>4, <1>7

(***************************************************************************)
(* The steps                                                               *)
(***************************************************************************)
LEMMA InitFull ==
  ASSUME TableAssumption, TableInit
  PROVE  Full
<1>1. Inv
  BY InitInv
<1>2. TravInv
  <2>1. trav = NoTraversal /\ Shaped(tab)
    BY <1>1 DEF TableInit, Inv, TabInv
  <2>2. NoTraversal.on = FALSE
    BY DEF NoTraversal
  <2>3. Travelled(tab, NoTraversal)
    BY <2>1, NothingMet
  <2>4. QED BY <2>1, <2>2, <2>3 DEF TravInv
<1>3. FreedInv
  BY DEF TableInit, FreedInv
<1>4. QED BY <1>1, <1>2, <1>3 DEF Full

LEMMA SameFull ==
  ASSUME Full, UNCHANGED <<tab, resize, trav, freed, map>>
  PROVE  TravInv' /\ FreedInv'
BY DEF Full, TravInv, FreedInv, resize

LEMMA StepFull ==
  ASSUME TableAssumption, Full, MemoryNext
  PROVE  Full'
<1>1. Inv'
  BY StepInv DEF MemoryNext, Full
<1>2. ASSUME NEW k \in AnyKey, NEW v \in Value \cup {Nil}, FastSet(k, v) \/ FinishSet(k, v)
      PROVE  TravInv' /\ FreedInv'
  BY <1>1, <1>2, FastSetTravels, FinishSetTravels
<1>3. ASSUME NEW k \in AnyKey, ArrayFails(k)
      PROVE  TravInv' /\ FreedInv'
  <2>1. trav' = NoTraversal /\ UNCHANGED <<resize, freed, map>>
    BY <1>3 DEF ArrayFails
  <2>2. Shaped(tab') /\ FreedInv
    BY <1>1 DEF Inv, TabInv, Full
  <2>3. FreedInv'
    BY <2>1, <2>2 DEF FreedInv, resize
  <2>4. QED BY <2>1, <2>2, <2>3, TravelEnds
<1>4. ASSUME NEW s \in ArraySizes, SetList(s)
      PROVE  TravInv' /\ FreedInv'
  <2>1. trav' = NoTraversal /\ pending' = Nothing /\ UNCHANGED <<freed, map>>
    BY <1>4 DEF SetList, Resize
  <2>2. Shaped(tab') /\ FreedInv
    BY <1>1 DEF Inv, TabInv, Full
  <2>3. \A o : Nothing.key # ObjKey(o)
    BY DEF Nothing, NilKey, ObjKey
  <2>4. FreedInv'
    BY <2>1, <2>2, <2>3 DEF FreedInv
  <2>5. QED BY <2>1, <2>2, <2>4, TravelEnds
<1>5. ASSUME NEW e \in Event, FastTM(e)
      PROVE  TravInv' /\ FreedInv'
  BY <1>5, SameFull DEF FastTM
<1>6. ASSUME NEW o \in Object, Collect(o) \/ NewObject(o)
      PROVE  TravInv' /\ FreedInv'
  BY <1>1, <1>6, CollectTravels, NewObjectTravels
<1>7. TravInv' /\ FreedInv'
  BY <1>1, <1>2, <1>3, <1>4, <1>5, <1>6, ResizeTravels, TraverseTravels DEF MemoryNext, TableNext
<1>8. QED BY <1>1, <1>7 DEF Full

LEMMA FullAlways ==
  ASSUME TableAssumption
  PROVE  MemorySpec => []Full
<1>1. TableInit => Full
  BY InitFull
<1>2. Full /\ [MemoryNext]_tvars => Full'
  <2>1. ASSUME Full, UNCHANGED tvars
        PROVE  Full'
    BY <2>1, StutterInv, SameFull DEF tvars, Full
  <2>2. QED BY <2>1, StepFull
<1>3. QED BY <1>1, <1>2, PTL DEF MemorySpec

(***************************************************************************)
(* What they keep                                                          *)
(***************************************************************************)
\* Both vectors have their sizes, powers of two for the nodes, and every offset leads to a
\* node, whatever moved (setnodevector, setarrayvector, luaH_newkey).
THEOREM TableTypesAlways ==
  ASSUME TableAssumption
  PROVE  MemorySpec => []TableTypes
<1>1. ASSUME Full
      PROVE  TableTypes
  <2>1. Shaped(tab) /\ Sized(tab) /\ flags \subseteq Event
    BY <1>1 DEF Full, Inv, TabInv, FlagsInv
  <2>2. Form(tab) /\ Linked(tab)
    BY <2>1, ShapedLinked
  <2>3. /\ tab.sizearray \in Nat /\ tab.array \in [1..tab.sizearray -> Value \cup {Nil}]
        /\ tab.node \in [Nodes(tab) -> Node] /\ tab.lastfree \in -1..tab.sizenode
    BY <2>2, FormRecord
  <2>4. ASSUME NEW n \in Nodes(tab)
        PROVE  NodeOK(tab.node[n]) /\ n + tab.node[n].next \in Nodes(tab)
    <3>1. tab.node[n] \in Node
      BY <2>3
    <3>2. Succs(tab)[n] \in Nodes(tab) /\ Succs(tab)[n] = n + tab.node[n].next
      BY <2>2 DEF Linked, Chained, Succs
    <3>3. QED BY <3>1, <3>2 DEF NodeOK, Node
  <2>5. QED BY <2>1, <2>3, <2>4 DEF TableTypes, Sized, Nodes
<1>2. QED BY <1>1, FullAlways, PTL

\* What a key finds is what was assigned to it last, whatever was rehashed, moved, killed
\* and used again since (luaH_get, luaH_newkey, luaH_resize, removeentry).
THEOREM HoldsMapAlways ==
  ASSUME TableAssumption
  PROVE  MemorySpec => []HoldsMap
<1>1. ASSUME Full
      PROVE  HoldsMap
  <2>1. SUFFICES ASSUME phase = "idle", NEW k \in Key
                 PROVE  luaH_get(tab, k) = map[k]
    BY DEF HoldsMap
  <2>2. Inv /\ Unstranded(tab)
    BY <1>1, <2>1 DEF Full, Inv, TabInv
  <2>3. QED BY <2>1, <2>2, GetMap
<1>2. QED BY <1>1, FullAlways, PTL

\* A key that a traversal would list has a value when it is looked up (luaH_next, luaH_get).
THEOREM ListedHasValueAlways ==
  ASSUME TableAssumption
  PROVE  MemorySpec => []ListedHasValue
<1>1. ASSUME Full
      PROVE  ListedHasValue
  <2>1. SUFFICES ASSUME phase = "idle", NEW n \in DOMAIN tab.node, tab.node[n].val # Nil
                 PROVE  luaH_get(tab, tab.node[n].key) # Nil
    BY DEF ListedHasValue
  <2>2. Shaped(tab) /\ Unstranded(tab)
    BY <1>1, <2>1 DEF Full, Inv, TabInv
  <2>3. tab.node \in [Nodes(tab) -> Node] /\ n \in Nodes(tab) /\ ValuesLive(tab)
    BY <2>2, FormRecord DEF Shaped
  <2>4. tab.node[n].val \in Value /\ tab.node[n].key \in Key
    BY <2>1, <2>3 DEF Node, ValuesLive
  <2>5. InTab(tab, tab.node[n].key, tab.node[n].val)
    BY <2>3 DEF InTab
  <2>6. QED BY <2>1, <2>2, <2>4, <2>5, GetIs
<1>2. QED BY <1>1, FullAlways, PTL

\* A metamethod that the cache of a metatable says is absent is absent (luaT_gettm,
\* invalidateTMcache).
THEOREM AbsentEventsAlways ==
  ASSUME TableAssumption
  PROVE  MemorySpec => []AbsentEvents
<1>1. ASSUME Full
      PROVE  AbsentEvents
  <2>1. SUFFICES ASSUME NEW e \in flags
                 PROVE  luaH_get(tab, ObjKey(e)) = Nil
    BY DEF AbsentEvents
  <2>2. Inv /\ Shaped(tab) /\ e \in Object /\ map[ObjKey(e)] = Nil
    BY <1>1 DEF Full, Inv, TabInv, FlagsInv, TableAssumption
  <2>3. ObjKey(e) \in Key /\ ~InArray(tab, ObjKey(e))
    BY <2>2, ObjectNode
  <2>4. QED BY <2>2, <2>3, GetPart
<1>2. QED BY <1>1, FullAlways, PTL

\* The length is a border of the two parts together, whatever was removed from either
\* (luaH_getn, unbound_search).
THEOREM LengthIsBorderAlways ==
  ASSUME TableAssumption
  PROVE  MemorySpec => []LengthIsBorder
<1>1. ASSUME Full
      PROVE  LengthIsBorder
  <2>1. SUFFICES ASSUME phase = "idle"
                 PROVE  Border(tab, luaH_getn(tab))
    BY DEF LengthIsBorder, Border, HasOrZero
  <2>2. Shaped(tab) /\ Unstranded(tab)
    BY <1>1, <2>1 DEF Full, Inv, TabInv
  <2>3. QED BY <2>2, LengthIs
<1>2. QED BY <1>1, FullAlways, PTL

\* A traversal that only clears fields, whose keys the collector may free meanwhile, never
\* fails, meets no key twice and has met all that have a value when it ends (luaH_next,
\* findindex).
THEOREM TraversalMeetsAllAlways ==
  ASSUME TableAssumption
  PROVE  MemorySpec => []TraversalMeetsAll
<1>1. ASSUME Full
      PROVE  TraversalMeetsAll
  <2> DEFINE n == luaH_next(tab, trav.key)
  <2>1. SUFFICES ASSUME trav.on
                 PROVE  /\ n # Error /\ n \notin trav.seen
                        /\ n = NilKey => \A k \in Key : luaH_get(tab, k) # Nil => k \in trav.seen
    BY DEF TraversalMeetsAll
  <2>2. TabInv /\ TravInv /\ phase = "idle" /\ Travelled(tab, trav)
    BY <1>1, <2>1 DEF Full, Inv, TravInv
  <2>3. Shaped(tab) /\ Unstranded(tab) /\ KeyedArray(tab) /\ Sized(tab)
    BY <2>2 DEF TabInv
  <2>4. /\ n # Error /\ n \notin trav.seen
        /\ n = NilKey => \A k \in Key, v \in Value : InTab(tab, k, v) => k \in trav.seen
    BY <2>2, <2>3, NextIs
  <2> HIDE DEF n
  <2>5. ASSUME NEW k \in Key, luaH_get(tab, k) # Nil
        PROVE  \E v \in Value : InTab(tab, k, v)
    BY <2>3, <2>5, GetIs
  <2>6. QED BY <2>4, <2>5
<1>2. QED BY <1>1, FullAlways, PTL

(***************************************************************************)
(* A rehash finds room for all that luaH_resize inserts again              *)
(***************************************************************************)
\* Keys that have a place in an array part of that size.
Bound(k, size) == k.tt = "int" /\ k.v \in 1..size
\* Entries of both vectors, and perhaps the pending one, told apart.
Items(E, N, P) == ({1} \X E) \cup ({2} \X N) \cup ({3} \X P)
\* Those that will need a node: before the nodes are there, and among those left.
OutElements(t, size) == {x \in UsedElements(t) : x > size}
OutNodes(t, size) == {n \in UsedNodes(t) : ~Bound(t.node[n].key, size)}
LeftElements == {x \in DOMAIN slice : x >= i /\ slice[x] # Nil}
LeftNodes == {n \in 0..j : nold[n].val # Nil /\ ~Bound(nold[n].key, nasize)}
NewEntry(entry, size) == IF entry = Nothing \/ Bound(entry.key, size) THEN {} ELSE {0}
Out(t, size, entry) == Items(OutElements(t, size), OutNodes(t, size), NewEntry(entry, size))
Awaited == Items(LeftElements, LeftNodes, NewEntry(pending, nasize))
AtMost(S, n) == IsFiniteSet(S) /\ n \in Int /\ Cardinality(S) <= n
RoomInv ==
  /\ phase = "vector" => AtMost(Out(tab, nasize, pending), nhsize)
  /\ phase = "insert" => /\ AtMost(Awaited, Cardinality(FreeNodes(tab)))
                         /\ tab.sizearray = nasize
LEMMA ItemsFinite ==
  ASSUME NEW E, IsFiniteSet(E), NEW N, IsFiniteSet(N), NEW P \in SUBSET {0}
  PROVE  /\ IsFiniteSet(Items(E, N, P))
         /\ Cardinality(Items(E, N, P)) = Cardinality(E) + Cardinality(N) + Cardinality(P)
<1> DEFINE A == {1} \X E
           B == {2} \X N
           C == {3} \X P
<1>1. IsFiniteSet(P)
  BY FS_Singleton, FS_Subset
<1>2. /\ IsFiniteSet({1}) /\ Cardinality({1}) = 1 /\ IsFiniteSet({2}) /\ Cardinality({2}) = 1
      /\ IsFiniteSet({3}) /\ Cardinality({3}) = 1
      /\ Cardinality(E) \in Nat /\ Cardinality(N) \in Nat /\ Cardinality(P) \in Nat
  BY <1>1, FS_Singleton, FS_CardinalityType
<1>3. /\ IsFiniteSet(A) /\ Cardinality(A) = Cardinality(E)
      /\ IsFiniteSet(B) /\ Cardinality(B) = Cardinality(N)
      /\ IsFiniteSet(C) /\ Cardinality(C) = Cardinality(P)
  <2>1. IsFiniteSet({1} \X E) /\ Cardinality({1} \X E) = Cardinality({1}) * Cardinality(E)
    BY <1>2, FS_Product
  <2>2. IsFiniteSet({2} \X N) /\ Cardinality({2} \X N) = Cardinality({2}) * Cardinality(N)
    BY <1>2, FS_Product
  <2>3. IsFiniteSet({3} \X P) /\ Cardinality({3} \X P) = Cardinality({3}) * Cardinality(P)
    BY <1>1, <1>2, FS_Product
  <2>4. QED BY <2>1, <2>2, <2>3, <1>2
<1>4. A \cap B = {} /\ (A \cup B) \cap C = {} /\ Items(E, N, P) = (A \cup B) \cup C
  BY DEF Items
<1> HIDE DEF A, B, C
<1>5. /\ IsFiniteSet(A \cup B)
      /\ Cardinality(A \cup B) = Cardinality(A) + Cardinality(B) - Cardinality({})
  BY <1>3, <1>4, FS_Union
<1>6. /\ IsFiniteSet((A \cup B) \cup C)
      /\ Cardinality((A \cup B) \cup C) = Cardinality(A \cup B) + Cardinality(C) - Cardinality({})
  BY <1>3, <1>4, <1>5, FS_Union
<1>7. Cardinality({}) = 0
  BY FS_EmptySet
<1>8. QED BY <1>2, <1>3, <1>4, <1>5, <1>6, <1>7

\* With one entry less, or with as many.
LEMMA OneLess ==
  ASSUME NEW S, NEW T, NEW n \in Int, AtMost(S, n), T \in SUBSET S
  PROVE  AtMost(T, n) /\ ((\E x \in S : x \notin T) => AtMost(T, n - 1))
<1>1. IsFiniteSet(S) /\ Cardinality(S) \in Nat /\ Cardinality(S) <= n
  BY FS_CardinalityType DEF AtMost
<1>2. IsFiniteSet(T) /\ Cardinality(T) \in Nat /\ Cardinality(T) <= Cardinality(S)
  BY <1>1, FS_Subset, FS_CardinalityType
<1>3. ASSUME NEW x \in S, x \notin T
      PROVE  Cardinality(T) <= Cardinality(S) - 1
  <2>1. Cardinality(S) = Cardinality(T) => S = T
    BY <1>1, FS_Subset
  <2>2. QED BY <2>1, <1>1, <1>2, <1>3
<1>4. QED BY <1>1, <1>2, <1>3 DEF AtMost

LEMMA FreeFinite ==
  ASSUME NEW t, Form(t)
  PROVE  /\ IsFiniteSet(FreeNodes(t)) /\ Cardinality(FreeNodes(t)) \in Nat
         /\ FreeNodes(t) \in SUBSET Nodes(t)
<1>1. t.lastfree \in -1..t.sizenode /\ t.sizenode \in Nat \ {0}
  BY FormRecord
<1>2. FreeNodes(t) \in SUBSET Nodes(t)
  BY <1>1 DEF FreeNodes, Nodes
<1>3. IsFiniteSet(Nodes(t))
  BY <1>1, FS_Interval DEF Nodes
<1>4. QED BY <1>2, <1>3, FS_Subset, FS_CardinalityType

\* An assignment takes one free node, and none if the key has a place in the array.
Spares(t, u, x) == \A n \in FreeNodes(t) : n # x => n \in FreeNodes(u)
LEMMA OverSpares ==
  ASSUME TableAssumption, NEW t, NEW k, NEW v, Placing(t, k, v), NEW m \in Nodes(t)
  PROVE  Spares(t, [t EXCEPT !.node[m] = [key |-> k, val |-> v, next |-> @.next]], m)
<1> DEFINE first == [key |-> k, val |-> v, next |-> t.node[m].next]
           u == [t EXCEPT !.node[m] = first]
<1>1. Form(t)
  BY DEF Placing, Shaped
<1>2. /\ t = [sizearray |-> t.sizearray, array |-> t.array, sizenode |-> t.sizenode,
              node |-> t.node, lastfree |-> t.lastfree]
      /\ t.node \in [Nodes(t) -> Node]
  BY <1>1, FormRecord
<1> HIDE DEF first
<1>3. u.node = [t.node EXCEPT ![m] = first] /\ u.lastfree = t.lastfree
  BY <1>2
<1> HIDE DEF u
<1>4. \A n \in Nodes(t) : n # m => u.node[n] = t.node[n]
  BY <1>2, <1>3
<1>5. FreeNodes(t) \in SUBSET Nodes(t)
  BY <1>1, FreeFinite
<1>6. Spares(t, u, m)
  BY <1>3, <1>4, <1>5 DEF Spares, FreeNodes
<1>7. QED BY <1>6 DEF u, first

\* The two ways that take the last free node f.
LEMMA LastSpares ==
  ASSUME NEW t, Form(t), FreeNodes(t) # {}, NEW m \in Nodes(t), t.node[m].key # NilKey, NEW u,
         u.lastfree = Max(FreeNodes(t)),
         \A n \in Nodes(t) : n # m /\ n # Max(FreeNodes(t)) => u.node[n].key = t.node[n].key
  PROVE  Spares(t, u, Max(FreeNodes(t)))
<1> DEFINE f == Max(FreeNodes(t))
<1>1. t.lastfree \in -1..t.sizenode /\ t.sizenode \in Nat \ {0}
  BY FormRecord
<1>2. FreeNodes(t) \in SUBSET Nodes(t) /\ FreeNodes(t) \in SUBSET Nat
  <2>1. FreeNodes(t) \in SUBSET Nodes(t)
    BY FreeFinite
  <2>2. QED BY <2>1, <1>1 DEF Nodes
<1>3. f \in FreeNodes(t) /\ \A n \in FreeNodes(t) : n <= f
  <2>1. t.sizenode \in Nat /\ \A x \in FreeNodes(t) : x <= t.sizenode
    BY <1>1 DEF FreeNodes
  <2>2. QED BY <2>1, <1>2, MaxIs
<1>4. u.lastfree = f /\ \A n \in Nodes(t) : n # m /\ n # f => u.node[n].key = t.node[n].key
  OBVIOUS
<1> HIDE DEF f
<1>5. ASSUME NEW n \in FreeNodes(t), n # f
      PROVE  n \in FreeNodes(u)
  <2>1. n \in Nat /\ f \in Nat /\ n <= f /\ n \in Nodes(t) /\ t.node[n].key = NilKey
    BY <1>2, <1>3 DEF FreeNodes
  <2>2. n # m
    BY <2>1
  <2>3. n \in 0..(f - 1)
    BY <2>1, <1>5
  <2>4. u.node[n].key = NilKey
    BY <2>1, <2>2, <1>4, <1>5
  <2>5. QED BY <2>3, <2>4, <1>4 DEF FreeNodes
<1>6. Spares(t, u, f)
  BY <1>5 DEF Spares
<1>7. QED BY <1>6 DEF f

LEMMA SetSpares ==
  ASSUME TableAssumption, NEW t, Shaped(t), Unstranded(t),
         NEW k \in Key, NEW v \in Value \cup {Nil}, ~NeedsRehash(t, k)
  PROVE  /\ \E x : Spares(t, Set(t, k, v), x)
         /\ InArray(t, k) => \A x : Spares(t, Set(t, k, v), x)
<1>1. /\ t = [sizearray |-> t.sizearray, array |-> t.array, sizenode |-> t.sizenode,
              node |-> t.node, lastfree |-> t.lastfree]
      /\ t.node \in [Nodes(t) -> Node] /\ Form(t)
  BY FormRecord DEF Shaped
<1>2. FreeNodes(t) \in SUBSET Nodes(t)
  BY <1>1, FreeFinite
<1> DEFINE u == Set(t, k, v)
<1>3. CASE InArray(t, k)
  <2>1. u = [t EXCEPT !.array[k.v] = v]
    BY <1>3 DEF Set
  <2> HIDE DEF u
  <2>2. u.node = t.node /\ u.lastfree = t.lastfree
    BY <2>1, <1>1
  <2>3. \A x : Spares(t, u, x)
    BY <2>2 DEF Spares, FreeNodes
  <2>4. QED BY <2>3 DEF u
<1>4. CASE ~InArray(t, k) /\ Slot(t, k) # -1
  <2> DEFINE s == Slot(t, k)
  <2>1. u = [t EXCEPT !.node[s].val = v]
    BY <1>4 DEF Set, Absent
  <2> HIDE DEF u, s
  <2>2. u.node = [t.node EXCEPT ![s].val = v] /\ u.lastfree = t.lastfree
    BY <2>1, <1>1
  <2>3. \A n \in Nodes(t) : u.node[n].key = t.node[n].key
    BY <2>2, <1>1 DEF Node
  <2>4. Spares(t, u, 0)
    BY <2>2, <2>3, <1>2 DEF Spares, FreeNodes
  <2>5. QED BY <2>4, <1>4 DEF u
<1>5. CASE ~InArray(t, k) /\ Slot(t, k) = -1
  <2> DEFINE m == MainPosition(t, k)
             f == Max(FreeNodes(t))
  <2>1. Placing(t, k, v)
    <3>1. \A n \in Nodes(t) : t.node[n].key # k
      BY <1>5, SlotIs
    <3>2. QED BY <3>1, <1>5 DEF Placing
  <2>2. u = NewKeyInRoom(t, k, v)
    BY <1>5 DEF Set, Absent
  <2>3. Taken(t, m) => FreeNodes(t) # {}
    BY <1>5 DEF NeedsRehash, Absent, NoRoom
  <2>4. CASE ~Taken(t, m)
    <3>1. u = [t EXCEPT !.node[m] = [key |-> k, val |-> v, next |-> @.next]]
      BY <2>2, <2>4 DEF NewKeyInRoom
    <3>2. m \in Nodes(t)
      BY <2>1, PlacingFacts
    <3> HIDE DEF u, m
    <3>3. Spares(t, u, m)
      BY <2>1, <3>1, <3>2, OverSpares
    <3>4. QED BY <3>3, <1>5 DEF u
  <2>5. CASE Taken(t, m)
    <3>1. /\ f \in Nodes(t) /\ m \in Nodes(t) /\ f # m /\ t.node[m].key \in Key
          /\ FreeNodes(t) # {}
      BY <2>1, <2>3, <2>5, TakenFacts
    <3>2. t.node[m].key # NilKey
      BY <3>1, KeyFacts DEF NodeKey
    <3> DEFINE next == t.node[m].next
               p == Previous(t, MainPosition(t, t.node[m].key), m)
               new == [key |-> k, val |-> v, next |-> 0]
               moved == [t.node[m] EXCEPT !.next = IF next = 0 THEN 0 ELSE next + m - f]
               first == [key |-> k, val |-> v, next |-> IF next = 0 THEN 0 ELSE m + next - f]
    <3>3. \/ u = [t EXCEPT !.node[p].next = f - p, !.node[f] = moved, !.node[m] = new, !.lastfree = f]
          \/ u = [t EXCEPT !.node[f] = first, !.node[m].next = f - m, !.lastfree = f]
      BY <2>2, <2>5 DEF NewKeyInRoom, MoveColliding, InsertAfter
    <3> HIDE DEF u, m, f, next, p, new, moved, first
    <3>4. /\ u.lastfree = f
          /\ \/ u.node = [[[t.node EXCEPT ![p].next = f - p] EXCEPT ![f] = moved] EXCEPT ![m] = new]
             \/ u.node = [[t.node EXCEPT ![f] = first] EXCEPT ![m].next = f - m]
      BY <3>3, <1>1
    <3>5. ASSUME NEW n \in Nodes(t), n # m, n # f
          PROVE  u.node[n].key = t.node[n].key
      <4>1. t.node[n] \in Node
        BY <1>1
      <4>2. u.node[n] = t.node[n] \/ u.node[n] = [t.node[n] EXCEPT !.next = f - p]
        BY <3>4, <3>5, <1>1
      <4>3. QED BY <4>1, <4>2 DEF Node
    <3>6. Spares(t, u, f)
      <4>1. \A n \in Nodes(t) : n # m /\ n # f => u.node[n].key = t.node[n].key
        BY <3>5
      <4>2. QED BY <3>1, <3>2, <3>4, <4>1, <1>1, LastSpares DEF f
    <3>7. QED BY <3>6, <1>5 DEF u
  <2>6. QED BY <2>4, <2>5
<1>6. QED BY <1>3, <1>4, <1>5

LEMMA SparesCount ==
  ASSUME NEW t, NEW u, Form(t), Form(u), NEW x, Spares(t, u, x)
  PROVE  /\ Cardinality(FreeNodes(u)) >= Cardinality(FreeNodes(t)) - 1
         /\ x \notin FreeNodes(t) => Cardinality(FreeNodes(u)) >= Cardinality(FreeNodes(t))
         /\ Cardinality(FreeNodes(t)) \in Nat /\ Cardinality(FreeNodes(u)) \in Nat
<1>1. /\ IsFiniteSet(FreeNodes(t)) /\ Cardinality(FreeNodes(t)) \in Nat
      /\ IsFiniteSet(FreeNodes(u)) /\ Cardinality(FreeNodes(u)) \in Nat
  BY FreeFinite
<1> DEFINE S == FreeNodes(t) \ {x}
<1>2. /\ IsFiniteSet(S) /\ Cardinality(S) >= Cardinality(FreeNodes(t)) - 1
      /\ x \notin FreeNodes(t) => Cardinality(S) = Cardinality(FreeNodes(t))
  BY <1>1, FS_RemoveElement
<1>3. S \in SUBSET FreeNodes(u)
  BY DEF Spares
<1> HIDE DEF S
<1>4. Cardinality(S) <= Cardinality(FreeNodes(u)) /\ Cardinality(S) \in Nat
  BY <1>1, <1>2, <1>3, FS_Subset, FS_CardinalityType
<1>5. QED BY <1>1, <1>2, <1>4

\* The counts of rehash are enough: what gets a place in the array is counted there once.
LEMMA CountedIs ==
  ASSUME TableAssumption, NEW t, Shaped(t), Sized(t), NEW k \in Key, NEW v
  PROVE  AtMost(Out(t, ArraySize(t, k), [key |-> k, val |-> v]), HashSize(t, k))
<1> DEFINE U == UsedElements(t)
           N == UsedNodes(t)
           a == ArraySize(t, k)
           C == {x \in Candidates(t, k) : x <= a}
           Place(y) == IF y[1] = 1 THEN y[2]
                       ELSE ArrayIndex(IF y[1] = 2 THEN t.node[y[2]].key ELSE k)
           all == Items(U, N, {0})
           out == Out(t, a, [key |-> k, val |-> v])
           in == all \ out
           got == {y \in in : Place(y) \in C}
           f == [y \in got |-> Place(y)]
<1>1. /\ IsFiniteSet(U) /\ IsFiniteSet(N) /\ IsFiniteSet(Candidates(t, k))
      /\ U \in SUBSET (1..t.sizearray) /\ N \in SUBSET Nodes(t)
      /\ Candidates(t, k) \in SUBSET (Nat \ {0})
  BY CandidatesFinite
<1>2. a \in 0..twoto[MAXABITS] /\ twoto[MAXABITS] \in Nat /\ HashSize(t, k) \in Int
  BY SizesAre, ComputeSizesIs
<1>3. /\ \A n \in N : t.node[n].key \in Key
      /\ t.sizearray \in Nat
  BY FormRecord DEF Shaped, ValuesLive, Nodes, UsedNodes
<1>4. IsFiniteSet(C) /\ Cardinality(C) \in Nat
  <2>1. C \in SUBSET Candidates(t, k)
    OBVIOUS
  <2> HIDE DEF C
  <2>2. QED BY <2>1, <1>1, FS_Subset, FS_CardinalityType
<1>5. IsFiniteSet(all) /\ Cardinality(all) = TotalUse(t)
  <2>1. /\ IsFiniteSet(Items(U, N, {0}))
        /\ Cardinality(Items(U, N, {0})) = Cardinality(U) + Cardinality(N) + Cardinality({0})
    BY <1>1, ItemsFinite
  <2>2. Cardinality({0}) = 1
    BY FS_Singleton
  <2>3. QED BY <2>1, <2>2 DEF TotalUse
<1>6. out \in SUBSET all
  BY DEF Out, Items, OutElements, OutNodes, NewEntry
\* Whatever is not out has a place, and these are all the places.
<1>7. ASSUME NEW x \in C
      PROVE  \E y \in in : Place(y) = x
  <2>1. /\ x \in Nat /\ x # 0 /\ x <= a /\ a \in Nat
        /\ x \in U \/ (\E n \in N : x = ArrayIndex(t.node[n].key)) \/ x = ArrayIndex(k)
    BY <1>1, <1>2 DEF Candidates
  <2>2. ASSUME NEW q \in Key, x = ArrayIndex(q)
        PROVE  Bound(q, a)
    <3>1. q.tt = "int" /\ q.v = x
      BY <2>1, <2>2 DEF ArrayIndex
    <3>2. QED BY <3>1, <2>1 DEF Bound
  <2> HIDE DEF U, N, a
  <2>3. CASE x \in U
    <3> DEFINE y == <<1, x>>
    <3>1. y \in all
      BY <2>3 DEF Items
    <3>2. y \notin out
      BY <2>1 DEF Out, Items, OutElements
    <3>3. Place(y) = x
      OBVIOUS
    <3> HIDE DEF Place, all, out, y
    <3>4. QED BY <3>1, <3>2, <3>3
  <2>4. CASE \E n \in N : x = ArrayIndex(t.node[n].key)
    <3>1. PICK n \in N : x = ArrayIndex(t.node[n].key)
      BY <2>4
    <3> DEFINE y == <<2, n>>
    <3>2. y \in all
      BY DEF Items
    <3>3. Bound(t.node[n].key, a)
      BY <3>1, <2>2, <1>3
    <3>4. y \notin out
      BY <3>3 DEF Out, Items, OutNodes
    <3>5. Place(y) = x
      BY <3>1
    <3> HIDE DEF Place, all, out, y
    <3>6. QED BY <3>2, <3>4, <3>5
  <2>5. CASE x = ArrayIndex(k)
    <3> DEFINE y == <<3, 0>>
    <3>1. y \in all
      BY DEF Items
    <3>2. Bound(k, a)
      BY <2>2, <2>5
    <3>3. y \notin out
      BY <3>2 DEF Out, Items, NewEntry
    <3>4. Place(y) = x
      BY <2>5
    <3> HIDE DEF Place, all, out, y
    <3>5. QED BY <3>1, <3>3, <3>4
  <2>6. QED BY <2>1, <2>3, <2>4, <2>5
<1> HIDE DEF all, out, Place, C, U, N, a
<1>8. f \in Surjection(got, C)
  <2>1. f \in [got -> C]
    OBVIOUS
  <2>2. \A x \in C : \E y \in got : f[y] = x
    BY <1>7
  <2> HIDE DEF f, got
  <2>3. QED BY <2>1, <2>2 DEF Surjection
<1>9. IsFiniteSet(in) /\ Cardinality(in) = Cardinality(all) - Cardinality(out)
  <2>1. all \cap out = out
    BY <1>6
  <2>2. QED BY <2>1, <1>5, FS_Difference
<1>10. IsFiniteSet(out) /\ Cardinality(out) \in Nat
  BY <1>5, <1>6, FS_Subset, FS_CardinalityType
<1>11. Cardinality(C) <= Cardinality(in)
  <2>1. got \in SUBSET in
    OBVIOUS
  <2> HIDE DEF got, f, in
  <2>2. IsFiniteSet(got) /\ Cardinality(got) <= Cardinality(in) /\ Cardinality(got) \in Nat
    BY <2>1, <1>9, FS_Subset, FS_CardinalityType
  <2>3. Cardinality(C) <= Cardinality(got)
    BY <2>2, <1>8, FS_Surjection
  <2>4. Cardinality(in) \in Nat
    BY <1>9, FS_CardinalityType
  <2>5. QED BY <2>2, <2>3, <2>4, <1>4
<1>12. HashSize(t, k) = TotalUse(t) - Cardinality(C)
  BY DEF HashSize, C, a
<1> HIDE DEF in
<1>13. TotalUse(t) \in Nat
  BY <1>5, FS_CardinalityType
<1>14. AtMost(out, HashSize(t, k))
  BY <1>2, <1>4, <1>5, <1>9, <1>10, <1>11, <1>12, <1>13 DEF AtMost
<1>15. QED BY <1>14 DEF out, a

\* luaH_resize begins: of the table that it works on, the entries are those of before.
LEMMA RoomBegins ==
  ASSUME TableAssumption, Shaped(tab), NEW t, Shaped(t), t.sizearray = tab.sizearray,
         t.array = tab.array, t.node = tab.node, NEW asize \in Nat, NEW hsize, NEW entry,
         AtMost(Out(tab, asize, entry), hsize), Resize(t, asize, hsize, entry)
  PROVE  RoomInv'
<1>1. /\ tab' = (IF asize > t.sizearray THEN SetArrayVector(t, asize) ELSE t)
      /\ phase' = "vector" /\ nasize' = asize /\ nhsize' = hsize /\ pending' = entry
  BY DEF Resize
<1>2. tab.sizearray \in Nat
  BY FormRecord DEF Shaped
<1>3. OutElements(tab', asize) = OutElements(tab, asize) /\ tab'.node = tab.node
  <2>1. CASE asize > t.sizearray
    <3> DEFINE u == SetArrayVector(t, asize)
    <3>1. /\ u.sizearray = asize /\ u.node = t.node
      BY ArrayVectorIs
    <3>2. tab' = u
      BY <1>1, <2>1
    <3> HIDE DEF u
    <3>3. OutElements(tab', asize) = {}
      BY <3>1, <3>2 DEF OutElements, UsedElements
    <3>4. OutElements(tab, asize) = {}
      BY <1>2, <2>1 DEF OutElements, UsedElements
    <3>5. QED BY <3>1, <3>2, <3>3, <3>4
  <2>2. CASE ~(asize > t.sizearray)
    BY <1>1, <2>2 DEF OutElements, UsedElements
  <2>3. QED BY <2>1, <2>2
<1>4. Out(tab', asize, entry) = Out(tab, asize, entry)
  BY <1>3 DEF Out, OutNodes, UsedNodes
<1>5. QED BY <1>1, <1>4 DEF RoomInv

LEMMA FinishSetRoom ==
  ASSUME TableAssumption, Inv, NEW k \in AnyKey, NEW v \in Value \cup {Nil}, FinishSet(k, v)
  PROVE  RoomInv'
<1> DEFINE n == Normal(k)
<1>1. n \in Key
  BY NormalIs
<1>2. phase = "idle" /\ Shaped(tab) /\ Sized(tab)
  BY DEF FinishSet, Inv, TabInv
<1>3. CASE NeedsRehash(tab, n) /\ Rehash(n, v)
  <2> DEFINE t == [tab EXCEPT !.lastfree = IF IsDummy(tab) THEN -1 ELSE 0]
             entry == [key |-> n, val |-> v]
  <2>1. Shaped(t) /\ t.sizearray = tab.sizearray /\ t.array = tab.array /\ t.node = tab.node
    BY <1>2, FreePosFails DEF SameEntries
  <2>2. Resize(t, ArraySize(tab, n), HashSize(tab, n), entry)
    BY <1>3 DEF Rehash
  <2>3. ArraySize(tab, n) \in Nat
    BY <1>1, <1>2, SizesAre, ComputeSizesIs
  <2>4. AtMost(Out(tab, ArraySize(tab, n), entry), HashSize(tab, n))
    BY <1>1, <1>2, CountedIs
  <2> HIDE DEF t, entry, n
  <2>5. QED BY <2>1, <2>2, <2>3, <2>4, <1>2, RoomBegins
<1>4. CASE ~NeedsRehash(tab, n)
  <2>1. phase' = "idle"
    BY <1>2, <1>4 DEF FinishSet, resize
  <2>2. QED BY <2>1 DEF RoomInv
<1>5. QED BY <1>3, <1>4 DEF FinishSet

LEMMA SetListRoom ==
  ASSUME TableAssumption, Inv, NEW size \in ArraySizes, SetList(size)
  PROVE  RoomInv'
<1>1. /\ phase = "idle" /\ Shaped(tab) /\ Sized(tab) /\ size \in Nat /\ size > tab.sizearray
      /\ Resize(tab, size, AllocSizeNode(tab), Nothing)
  BY ComputeSizesIs DEF SetList, Inv, TabInv, TableAssumption
<1>2. tab.sizenode \in Nat \ {0} /\ tab.sizearray \in Nat /\ DOMAIN tab.node = Nodes(tab)
  BY <1>1, FormRecord DEF Shaped
<1> DEFINE N == OutNodes(tab, size)
<1>3. OutElements(tab, size) = {} /\ NewEntry(Nothing, size) = {}
  BY <1>1, <1>2 DEF OutElements, UsedElements, NewEntry
<1>4. N \in SUBSET Nodes(tab) /\ (IsDummy(tab) => N = {})
  <2>1. N \in SUBSET Nodes(tab) /\ \A n \in N : tab.node[n].val # Nil
    BY <1>2 DEF OutNodes, UsedNodes
  <2>2. IsDummy(tab) => N = {}
    <3>1. NilKey \notin Key
      BY KeyFacts DEF NodeKey
    <3> HIDE DEF N
    <3>2. QED BY <2>1, <3>1, <1>1 DEF Shaped, DummyFree, ValuesLive
  <2>3. QED BY <2>1, <2>2
<1> HIDE DEF N
<1>5. IsFiniteSet(N) /\ Cardinality(N) <= AllocSizeNode(tab) /\ AllocSizeNode(tab) \in Int
  <2>1. IsFiniteSet(Nodes(tab)) /\ Cardinality(Nodes(tab)) = tab.sizenode
    BY <1>2, FS_Interval DEF Nodes
  <2>2. IsFiniteSet(N) /\ Cardinality(N) <= tab.sizenode
    BY <2>1, <1>4, FS_Subset
  <2>3. N = {} => Cardinality(N) = 0
    BY FS_EmptySet
  <2>4. QED BY <2>2, <2>3, <1>2, <1>4 DEF AllocSizeNode
<1>6. AtMost(Out(tab, size, Nothing), AllocSizeNode(tab))
  <2>1. IsFiniteSet({}) /\ Cardinality({}) = 0
    BY FS_EmptySet
  <2>2. /\ IsFiniteSet(Items({}, N, {}))
        /\ Cardinality(Items({}, N, {})) = Cardinality({}) + Cardinality(N) + Cardinality({})
    BY <2>1, <1>5, ItemsFinite
  <2>3. Cardinality(N) \in Nat
    BY <1>5, FS_CardinalityType
  <2>4. Out(tab, size, Nothing) = Items({}, N, {})
    BY <1>3 DEF Out, N
  <2>5. QED BY <2>1, <2>2, <2>3, <2>4, <1>5 DEF AtMost
<1>7. QED BY <1>1, <1>6, RoomBegins

\* The new nodes are at least as many as were asked for, and all free.
LEMMA NewNodesRoom ==
  ASSUME TableAssumption, Inv, RoomInv, NewNodes
  PROVE  RoomInv'
<1> DEFINE u == SetNodeVector(tab, nhsize)
           S == tab.sizearray
<1>1. /\ phase = "vector" /\ ~TableOverflow(nhsize) /\ phase' = "insert"
      /\ slice' = [x \in (nasize + 1)..S |-> tab.array[x]] /\ i' = nasize + 1
      /\ nold' = tab.node /\ j' = AllocSizeNode(tab) - 1 /\ tab' = SetArrayVector(u, nasize)
      /\ nasize' = nasize /\ pending' = pending
  BY DEF NewNodes
<1>2. Shaped(tab) /\ nasize \in 0..S /\ nhsize \in Int
  BY <1>1 DEF Inv, TabInv, ResizeInv
<1>3. S \in Nat /\ tab.sizenode \in Nat \ {0} /\ DOMAIN tab.node = Nodes(tab)
  BY <1>2, FormRecord DEF Shaped
<1>4. /\ Shaped(u) /\ nhsize <= AllocSizeNode(u) /\ FreeNodes(u) = 0..(AllocSizeNode(u) - 1)
      /\ u.sizenode \in Nat \ {0}
  <2>1. /\ Shaped(u) /\ nhsize <= AllocSizeNode(u) /\ FreeNodes(u) = 0..(AllocSizeNode(u) - 1)
    BY <1>1, <1>2, NodeVectorIs
  <2> HIDE DEF u
  <2>2. QED BY <2>1, FormRecord DEF Shaped
<1> HIDE DEF u
<1>5. tab'.sizearray = nasize /\ FreeNodes(tab') = FreeNodes(u)
  <2> DEFINE w == SetArrayVector(u, nasize)
  <2>1. nasize \in Nat
    BY <1>2, <1>3
  <2>2. w.sizearray = nasize /\ w.node = u.node /\ w.lastfree = u.lastfree
    BY <2>1, <1>4, ArrayVectorIs
  <2>3. tab' = w
    BY <1>1
  <2> HIDE DEF w
  <2>4. QED BY <2>2, <2>3 DEF FreeNodes
<1>6. nhsize <= Cardinality(FreeNodes(u)) /\ Cardinality(FreeNodes(u)) \in Nat
  <2>1. AllocSizeNode(u) \in Nat
    BY <1>4 DEF AllocSizeNode
  <2>2. Cardinality(FreeNodes(u)) = AllocSizeNode(u)
    BY <2>1, <1>4, FS_Interval
  <2>3. QED BY <2>1, <2>2, <1>4
<1>7. LeftElements' = OutElements(tab, nasize)
  <2>1. DOMAIN (slice') = (nasize + 1)..S /\ \A x \in (nasize + 1)..S : slice'[x] = tab.array[x]
    BY <1>1
  <2>2. LeftElements' = {x \in DOMAIN (slice') : x >= i' /\ slice'[x] # Nil}
    BY DEF LeftElements
  <2>3. LeftElements' = {x \in (nasize + 1)..S : tab.array[x] # Nil}
    BY <2>1, <2>2, <1>1, <1>2, <1>3
  <2>4. OutElements(tab, nasize) = {x \in 1..S : tab.array[x] # Nil /\ x > nasize}
    BY DEF OutElements, UsedElements
  <2>5. QED BY <2>3, <2>4, <1>2, <1>3
<1>8. LeftNodes' = OutNodes(tab, nasize)
  <2>1. LeftNodes' = {n \in 0..j' : tab.node[n].val # Nil /\ ~Bound(tab.node[n].key, nasize)}
    BY <1>1 DEF LeftNodes
  <2>2. OutNodes(tab, nasize) = {n \in Nodes(tab) : tab.node[n].val # Nil /\ ~Bound(tab.node[n].key, nasize)}
    BY <1>3 DEF OutNodes, UsedNodes
  <2>3. CASE ~IsDummy(tab)
    <3>1. 0..j' = Nodes(tab)
      BY <2>3, <1>1, <1>3 DEF AllocSizeNode, Nodes
    <3>2. QED BY <3>1, <2>1, <2>2
  <2>4. CASE IsDummy(tab)
    <3>1. 0..j' = {}
      BY <2>4, <1>1 DEF AllocSizeNode
    <3>2. NilKey \notin Key
      BY KeyFacts DEF NodeKey
    <3>3. \A n \in Nodes(tab) : tab.node[n].val = Nil
      BY <2>4, <3>2, <1>2 DEF Shaped, DummyFree, ValuesLive
    <3>4. QED BY <3>1, <3>3, <2>1, <2>2
  <2>5. QED BY <2>3, <2>4
<1>9. Awaited' = Out(tab, nasize, pending)
  BY <1>1, <1>7, <1>8 DEF Awaited, Out
<1>10. AtMost(Awaited', Cardinality(FreeNodes(tab')))
  <2>1. AtMost(Out(tab, nasize, pending), nhsize)
    BY <1>1 DEF RoomInv
  <2>2. IsFiniteSet(Awaited') /\ Cardinality(Awaited') <= nhsize /\ Cardinality(Awaited') \in Nat
    BY <2>1, <1>9, FS_CardinalityType DEF AtMost
  <2>3. QED BY <2>2, <1>2, <1>5, <1>6 DEF AtMost
<1>11. QED BY <1>1, <1>5, <1>10 DEF RoomInv

\* One entry of the loops.
LEMMA ReinsertRoom ==
  ASSUME TableAssumption, Inv, RoomInv, phase = "insert",
         NEW k, NEW v \in Value \cup {Nil}, v # Nil => k \in Key, Reinsert(k, v),
         NEW rest \in SUBSET Awaited,
         v # Nil /\ ~Bound(k, nasize) => \E x \in Awaited : x \notin rest
  PROVE  AtMost(rest, Cardinality(FreeNodes(tab'))) /\ tab'.sizearray = nasize
<1> DEFINE n == Cardinality(FreeNodes(tab))
<1>1. AtMost(Awaited, n) /\ tab.sizearray = nasize /\ TabInv /\ Shaped(tab) /\ Unstranded(tab)
  BY DEF RoomInv, Inv, TabInv
<1>2. n \in Int
  BY <1>1 DEF AtMost
<1> HIDE DEF n
<1>3. AtMost(rest, n) /\ ((\E x \in Awaited : x \notin rest) => AtMost(rest, n - 1))
  BY <1>1, <1>2, OneLess
<1>4. CASE v = Nil
  <2>1. tab' = tab
    BY <1>4 DEF Reinsert
  <2>2. QED BY <2>1, <1>1, <1>3 DEF n
<1>5. CASE v # Nil
  <2>1. k \in Key /\ ~NeedsRehash(tab, k) /\ tab' = Set(tab, k, v)
    BY <1>5 DEF Reinsert
  <2>2. Shaped(tab') /\ tab'.sizearray = tab.sizearray
    BY <2>1, <1>1, SetStep DEF TabInv
  <2>3. Form(tab) /\ Form(tab')
    BY <1>1, <2>2 DEF Shaped
  <2>4. /\ \E x : Spares(tab, tab', x)
        /\ InArray(tab, k) => \A x : Spares(tab, tab', x)
    BY <2>1, <1>1, SetSpares
  <2>5. Cardinality(FreeNodes(tab')) \in Nat /\ Cardinality(FreeNodes(tab')) >= n - 1
    BY <2>3, <2>4, SparesCount DEF n
  <2>6. CASE Bound(k, nasize)
    <3>1. InArray(tab, k)
      BY <2>6, <1>1 DEF Bound, InArray
    <3>2. -1 \notin FreeNodes(tab)
      <4>1. FreeNodes(tab) \in SUBSET Nodes(tab) /\ tab.sizenode \in Nat
        BY <2>3, FreeFinite, FormRecord
      <4>2. -1 \notin Nodes(tab)
        BY <4>1 DEF Nodes
      <4>3. QED BY <4>1, <4>2
    <3>3. Cardinality(FreeNodes(tab')) >= n
      BY <2>3, <2>4, <3>1, <3>2, SparesCount DEF n
    <3>4. IsFiniteSet(rest) /\ Cardinality(rest) \in Nat /\ Cardinality(rest) <= n
      BY <1>3, FS_CardinalityType DEF AtMost
    <3>5. QED BY <3>3, <3>4, <2>2, <2>5, <1>1, <1>2 DEF AtMost
  <2>7. CASE ~Bound(k, nasize)
    <3>1. AtMost(rest, n - 1)
      BY <2>7, <1>3, <1>5
    <3>2. IsFiniteSet(rest) /\ Cardinality(rest) \in Nat /\ Cardinality(rest) <= n - 1
      BY <3>1, FS_CardinalityType DEF AtMost
    <3>3. QED BY <3>2, <2>2, <2>5, <1>1, <1>2 DEF AtMost
  <2>8. QED BY <2>6, <2>7
<1>6. QED BY <1>4, <1>5

LEMMA InsertElementRoom ==
  ASSUME TableAssumption, Inv, RoomInv, InsertElement
  PROVE  RoomInv'
<1>1. /\ phase = "insert" /\ i \in DOMAIN slice /\ Reinsert(IntKey(i), slice[i]) /\ i' = i + 1
      /\ phase' = phase /\ nasize' = nasize /\ slice' = slice /\ nold' = nold /\ j' = j
      /\ pending' = pending
  BY DEF InsertElement
<1>2. SliceInv
  BY <1>1 DEF Inv, ResizeInv
<1>3. PICK b \in Nat : DOMAIN slice = (nasize + 1)..b
  BY <1>2 DEF SliceInv
<1>4. /\ i \in Nat /\ nasize \in Int
      /\ slice[i] \in Value \cup {Nil} /\ (slice[i] # Nil => IntKey(i) \in Key)
  BY <1>1, <1>2 DEF SliceInv
<1>5. /\ LeftElements' \in SUBSET LeftElements
      /\ slice[i] # Nil => i \in LeftElements /\ i \notin LeftElements'
  BY <1>1, <1>3, <1>4 DEF LeftElements
<1>6. LeftNodes' = LeftNodes
  BY <1>1 DEF LeftNodes
<1>7. Awaited' \in SUBSET Awaited
  BY <1>1, <1>5, <1>6 DEF Awaited, Items
<1>8. slice[i] # Nil => \E x \in Awaited : x \notin Awaited'
  <2>1. slice[i] # Nil => <<1, i>> \in Awaited /\ <<1, i>> \notin Awaited'
    BY <1>5 DEF Awaited, Items
  <2>2. QED BY <2>1
<1>9. AtMost(Awaited', Cardinality(FreeNodes(tab'))) /\ tab'.sizearray = nasize
  BY <1>1, <1>4, <1>7, <1>8, ReinsertRoom
<1>10. QED BY <1>1, <1>9 DEF RoomInv

LEMMA InsertNodeRoom ==
  ASSUME TableAssumption, Inv, RoomInv, InsertNode
  PROVE  RoomInv'
<1>1. /\ phase = "insert" /\ j >= 0 /\ Reinsert(nold[j].key, nold[j].val) /\ j' = j - 1
      /\ phase' = phase /\ nasize' = nasize /\ slice' = slice /\ i' = i /\ nold' = nold
      /\ pending' = pending
  BY DEF InsertNode
<1>2. OldInv
  BY <1>1 DEF Inv, ResizeInv
<1>3. /\ j \in Int
      /\ nold[j].val \in Value \cup {Nil} /\ (nold[j].val # Nil => nold[j].key \in Key)
  BY <1>1, <1>2 DEF OldInv
<1>4. /\ LeftNodes' \in SUBSET LeftNodes
      /\ nold[j].val # Nil /\ ~Bound(nold[j].key, nasize) => j \in LeftNodes /\ j \notin LeftNodes'
  BY <1>1, <1>3 DEF LeftNodes
<1>5. LeftElements' = LeftElements
  BY <1>1 DEF LeftElements
<1>6. Awaited' \in SUBSET Awaited
  BY <1>1, <1>4, <1>5 DEF Awaited, Items
<1>7. nold[j].val # Nil /\ ~Bound(nold[j].key, nasize) => \E x \in Awaited : x \notin Awaited'
  <2>1. nold[j].val # Nil /\ ~Bound(nold[j].key, nasize) => <<2, j>> \in Awaited /\ <<2, j>> \notin Awaited'
    BY <1>4 DEF Awaited, Items
  <2>2. QED BY <2>1
<1>8. AtMost(Awaited', Cardinality(FreeNodes(tab'))) /\ tab'.sizearray = nasize
  BY <1>1, <1>3, <1>6, <1>7, ReinsertRoom
<1>9. QED BY <1>1, <1>8 DEF RoomInv

\* A key that is killed while memory is asked for has no value.
LEMMA CollectRoom ==
  ASSUME TableAssumption, Inv, RoomInv, NEW o \in Object, Collect(o)
  PROVE  RoomInv'
<1> DEFINE m == Slot(tab, ObjKey(o))
<1>1. /\ phase \in {"idle", "vector"} /\ luaH_get(tab, ObjKey(o)) = Nil
      /\ tab' = (IF m = -1 THEN tab ELSE [tab EXCEPT !.node[m].key = DeadKey(o)])
      /\ phase' = phase /\ nasize' = nasize /\ nhsize' = nhsize /\ pending' = pending
  BY DEF Collect, resize
<1>2. Shaped(tab)
  BY DEF Inv, TabInv
<1>3. DOMAIN tab.node = Nodes(tab)
  BY <1>2, FormRecord DEF Shaped
<1> HIDE DEF m
<1>4. CASE m = -1
  BY <1>1, <1>4 DEF RoomInv
<1>5. CASE m # -1
  <2>1. m \in Nodes(tab) /\ tab.node[m].key = ObjKey(o) /\ tab.node[m].val = Nil
    BY <1>1, <1>2, <1>5, ObjectNode DEF m
  <2>2. /\ Shaped(tab') /\ tab'.sizearray = tab.sizearray /\ tab'.array = tab.array
        /\ Nodes(tab') = Nodes(tab)
        /\ \A n \in Nodes(tab) : /\ tab'.node[n].val = tab.node[n].val
                                 /\ tab'.node[n].key = IF n = m THEN DeadKey(o) ELSE tab.node[n].key
    <3> DEFINE u == [tab EXCEPT !.node[m].key = DeadKey(o)]
    <3>1. /\ Shaped(u) /\ u.sizearray = tab.sizearray /\ u.array = tab.array /\ Nodes(u) = Nodes(tab)
          /\ \A n \in Nodes(tab) : /\ u.node[n].val = tab.node[n].val
                                   /\ u.node[n].key = IF n = m THEN DeadKey(o) ELSE tab.node[n].key
      BY <2>1, <1>2, KillIs
    <3>2. tab' = u
      BY <1>1, <1>5
    <3> HIDE DEF u
    <3>3. QED BY <3>1, <3>2
  <2>3. DOMAIN tab'.node = Nodes(tab)
    BY <2>2, FormRecord DEF Shaped
  <2>4. UsedNodes(tab') = UsedNodes(tab) /\ UsedElements(tab') = UsedElements(tab)
    BY <2>2, <2>3, <1>3 DEF UsedNodes, UsedElements
  <2>5. \A n \in UsedNodes(tab) : tab'.node[n].key = tab.node[n].key
    BY <2>1, <2>2, <1>3 DEF UsedNodes
  <2>6. OutNodes(tab', nasize) = OutNodes(tab, nasize) /\ OutElements(tab', nasize) = OutElements(tab, nasize)
    BY <2>4, <2>5 DEF OutNodes, OutElements
  <2>7. Out(tab', nasize, pending) = Out(tab, nasize, pending)
    BY <2>6 DEF Out
  <2>8. QED BY <2>7, <1>1 DEF RoomInv
<1>6. QED BY <1>4, <1>5

LEMMA RoomStep ==
  ASSUME TableAssumption, Inv, RoomInv, MemoryNext
  PROVE  RoomInv'
<1>1. ASSUME NEW k \in AnyKey, NEW v \in Value \cup {Nil}, FastSet(k, v) \/ FinishSet(k, v)
      PROVE  RoomInv'
  BY <1>1, FinishSetRoom DEF FastSet, resize, RoomInv
<1>2. ASSUME NEW k \in AnyKey, ArrayFails(k)
      PROVE  RoomInv'
  BY <1>2 DEF ArrayFails, resize, RoomInv
<1>3. ASSUME ResizeEnd \/ NodesFail
      PROVE  RoomInv'
  BY <1>3 DEF ResizeEnd, NodesFail, Idle, RoomInv
<1>4. ASSUME NEW e \in Event, FastTM(e)
      PROVE  RoomInv'
  BY <1>4 DEF FastTM, resize, RoomInv
<1>5. ASSUME Traverse
      PROVE  RoomInv'
  BY <1>5 DEF Traverse, resize, RoomInv
<1>6. ASSUME NEW o \in Object, NewObject(o)
      PROVE  RoomInv'
  BY <1>6 DEF NewObject, resize, RoomInv
<1>7. ASSUME luaH_resize
      PROVE  RoomInv'
  BY <1>3, <1>7, NewNodesRoom, InsertElementRoom, InsertNodeRoom DEF luaH_resize
<1>8. QED BY <1>1, <1>2, <1>4, <1>5, <1>6, <1>7, SetListRoom, CollectRoom DEF MemoryNext, TableNext

\* luaH_resize is never called again by the insertions that it makes: the nodes that rehash
\* and luaH_resizearray ask for are enough for what has no place in the array, whatever
\* collides, and for the key that luaH_newkey adds after it (rehash, computesizes, luaH_set).
THEOREM RoomForAllAlways ==
  ASSUME TableAssumption
  PROVE  MemorySpec => []RoomForAll
<1>1. TableInit => RoomInv
  BY DEF TableInit, RoomInv
<1>2. Full /\ RoomInv /\ [MemoryNext]_tvars => RoomInv'
  <2>1. ASSUME RoomInv, UNCHANGED tvars
        PROVE  RoomInv'
    <3>1. /\ tab' = tab /\ phase' = phase /\ nasize' = nasize /\ nhsize' = nhsize /\ slice' = slice
          /\ i' = i /\ nold' = nold /\ j' = j /\ pending' = pending
      BY <2>1 DEF tvars, resize
    <3>2. Awaited' = Awaited
      BY <3>1 DEF Awaited, LeftElements, LeftNodes
    <3>3. QED BY <2>1, <3>1, <3>2 DEF RoomInv
  <2>2. QED BY <2>1, RoomStep DEF Full
<1>3. ASSUME Full, RoomInv
      PROVE  RoomForAll
  <2>1. SUFFICES ASSUME phase = "insert"
                 PROVE  RoomForAll
    BY DEF RoomForAll
  <2>2. /\ AtMost(Awaited, Cardinality(FreeNodes(tab))) /\ tab.sizearray = nasize
        /\ SliceInv /\ OldInv
    BY <2>1, <1>3 DEF RoomInv, Full, Inv, ResizeInv
  <2>3. Awaited # {} => FreeNodes(tab) # {}
    <3>1. IsFiniteSet(Awaited) /\ Cardinality(Awaited) \in Nat
          /\ Cardinality(Awaited) <= Cardinality(FreeNodes(tab))
      BY <2>2, FS_CardinalityType DEF AtMost
    <3>2. FreeNodes(tab) = {} => Cardinality(FreeNodes(tab)) = 0
      BY FS_EmptySet
    <3>3. Cardinality(Awaited) = 0 => Awaited = {}
      BY <3>1, FS_EmptySet
    <3>4. QED BY <3>1, <3>2, <3>3
  <2>4. ASSUME NEW k, Awaited # {} \/ Bound(k, nasize)
        PROVE  EntryFits(k)
    BY <2>2, <2>3, <2>4 DEF EntryFits, NeedsRehash, Absent, NoRoom, Bound, InArray
  <2>5. ASSUME i \in DOMAIN slice, slice[i] # Nil
        PROVE  EntryFits(IntKey(i))
    <3>1. i \in LeftElements
      BY <2>2, <2>5 DEF LeftElements, SliceInv
    <3>2. <<1, i>> \in Awaited
      BY <3>1 DEF Awaited, Items
    <3>3. QED BY <3>2, <2>4
  <2>6. ASSUME j >= 0, nold[j].val # Nil
        PROVE  EntryFits(nold[j].key)
    <3>1. CASE Bound(nold[j].key, nasize)
      BY <3>1, <2>4
    <3>2. CASE ~Bound(nold[j].key, nasize)
      <4>1. j \in LeftNodes
        BY <2>2, <2>6, <3>2 DEF LeftNodes, OldInv
      <4>2. <<2, j>> \in Awaited
        BY <4>1 DEF Awaited, Items
      <4>3. QED BY <4>2, <2>4
    <3>3. QED BY <3>1, <3>2
  <2>7. ASSUME pending # Nothing
        PROVE  EntryFits(pending.key)
    <3>1. CASE Bound(pending.key, nasize)
      BY <3>1, <2>4
    <3>2. CASE ~Bound(pending.key, nasize)
      <4>1. 0 \in NewEntry(pending, nasize)
        BY <2>7, <3>2 DEF NewEntry
      <4>2. <<3, 0>> \in Awaited
        BY <4>1 DEF Awaited, Items
      <4>3. QED BY <4>2, <2>4
    <3>3. QED BY <3>1, <3>2
  <2>8. QED BY <2>5, <2>6, <2>7 DEF RoomForAll
<1>4. QED BY <1>1, <1>2, <1>3, FullAlways, PTL DEF MemorySpec
=============================================================================

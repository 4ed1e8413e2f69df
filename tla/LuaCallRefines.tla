--------------------------- MODULE LuaCallRefines ---------------------------
(***************************************************************************)
(* Proof that LuaCall implements LuaCoroutine: whatever is thrown away of  *)
(* the C stack, a program sees calls, protected calls and coroutines.      *)
(***************************************************************************)
EXTENDS LuaCallSound

(***************************************************************************)
(* What the abstract specification sees of values T of th and C of cs      *)
(***************************************************************************)
PcallsIn(C, t, i) == {j \in 1..Len(C) : PcallAt(C, t, j) /\ C[j].ci = i}
Shows(F, C, t, i) ==
  IF i = Len(F) THEN {}
  ELSE (IF F[i].yp THEN {F[i].handler} ELSE {}) \cup {C[j].handler : j \in PcallsIn(C, t, i)}
Seen(F, C, t) == [i \in 1..Len(F) |-> Shows(F, C, t, i)]
Resumers(C) == {<<C[r - 1].th, C[r].th>> : r \in {j \in 1..Len(C) : C[j].kind = "resume"}}
Ended(T) == {t \in Thread : T[t].status = "dead"}

LEMMA ViewRight ==
  ASSUME cs \in Seq(CEntry)
  PROVE  /\ acts = [t \in Thread |-> Seen(th[t].ci, cs, t)]
         /\ waits = Resumers(cs) /\ dead = Ended(th)
<1>1. \A t, i : Protects(t, i) = Shows(th[t].ci, cs, t, i)
  <2>1. ASSUME NEW t, NEW i PROVE Pcalls(t, i) = PcallsIn(cs, t, i)
    BY DEF Pcalls, PcallsIn, OnStack, PcallAt
  <2> QED BY <2>1 DEF Protects, Shows
<1>2. ASSUME NEW t \in Thread
      PROVE  [i \in 1..Len(th[t].ci) |-> Protects(t, i)] = Seen(th[t].ci, cs, t)
  BY <1>1 DEF Seen
<1>3. acts = [t \in Thread |-> Seen(th[t].ci, cs, t)] BY <1>2 DEF acts
<1> QED BY <1>3 DEF waits, Resumers, dead, Ended

\* A protected call begins in a frame above that of the one before.
LEMMA PcallOnce ==
  ASSUME NEW T, NEW C, Core(T, C), NEW t \in Thread,
         NEW i \in 1..Len(C), NEW j \in 1..Len(C), i < j, PcallAt(C, t, i), PcallAt(C, t, j)
  PROVE  C[i].ci < C[j].ci
<1>1. Sized(T, C) /\ Shape(C) /\ Frames(T, C) BY TypedSized DEF Core
<1>2. Len(C) \in Nat /\ i \in Nat /\ j \in Nat /\ i <= j - 1 /\ j - 1 \in 1..Len(C) /\ (j - 1) + 1 = j
  BY <1>1 DEF Sized
<1>3. C[j - 1].kind \in {"cfun", "hook"} /\ C[j - 1].th = t
  <2>1. Over(C[j], C[j - 1])
    <3>1. j - 1 \in 1..Len(C) - 1 BY <1>2
    <3>2. Over(C[(j - 1) + 1], C[j - 1]) BY <3>1, <1>1 DEF Shape
    <3> QED BY <3>2, <1>2
  <2> QED BY <2>1 DEF Over, PcallAt
<1>4. i < j - 1 BY <1>2, <1>3 DEF PcallAt
<1>5. C[i].ci = Height(T, C, i)
  <2>1. Framed(T, C, i) BY <1>1 DEF Frames
  <2> QED BY <2>1 DEF Framed, Works, PcallAt
<1>6. Height(T, C, j - 1) = C[j].ci
  <2>1. j - 1 < Len(C) BY <1>2
  <2> QED BY <2>1, <1>2 DEF Height, Owns, PcallAt
<1>7. Framed(T, C, j - 1) /\ C[j].ci \in Nat BY <1>1, <1>2 DEF Frames, Sized
<1>8. CASE C[j - 1].kind = "cfun"
  <2>1. C[j - 1].ci = C[j].ci BY <1>6, <1>7, <1>8 DEF Framed, Works
  <2>2. Height(T, C, i) < C[j - 1].ci
    <3>1. i \in 1..(j - 1) - 1 BY <1>2, <1>4
    <3> QED BY <3>1, <1>1, <1>2, <1>3, <1>8 DEF Frames, Owns, PcallAt
  <2> QED BY <2>1, <2>2, <1>5
<1>9. CASE C[j - 1].kind = "hook"
  <2>1. j - 2 \in 1..Len(C) /\ (j - 2) + 1 = j - 1 /\ i <= j - 2 BY <1>2, <1>4
  <2>2. C[j - 2].kind = "exec" /\ C[j - 2].th = t
    <3>1. j - 2 \in 1..Len(C) - 1 BY <1>2, <2>1
    <3>2. Over(C[(j - 2) + 1], C[j - 2]) BY <3>1, <1>1 DEF Shape
    <3> QED BY <3>2, <2>1, <1>3, <1>9 DEF Over
  <2>3. i < j - 2 BY <2>1, <2>2, <1>2 DEF PcallAt
  <2>4. Height(T, C, i) < C[j - 2].ci
    <3>1. i \in 1..(j - 2) - 1 BY <2>1, <2>3, <1>2
    <3> QED BY <3>1, <2>1, <1>1, <2>2 DEF Frames, Owns, PcallAt
  <2>5. Height(T, C, j - 2) = C[j].ci
    <3>1. j - 2 < Len(C) BY <1>2
    <3>2. Height(T, C, j - 2) = C[j - 1].ci BY <3>1, <2>1, <1>9 DEF Height, Owns
    <3>3. C[j - 1].ci = Height(T, C, j - 1) BY <1>7, <1>9 DEF Framed, Works
    <3> QED BY <3>2, <3>3, <1>6
  <2>6. C[j - 2].ci \in 1..Height(T, C, j - 2)
    <3>1. Framed(T, C, j - 2) BY <2>1, <1>1 DEF Frames
    <3> QED BY <3>1, <2>2 DEF Framed, Works
  <2>7. Height(T, C, i) \in Int /\ C[i].ci \in Nat BY <1>5, <1>1 DEF Sized
  <2> QED BY <2>4, <2>5, <2>6, <2>7, <1>5, <1>7
<1> QED BY <1>3, <1>8, <1>9

\* An activation protects nothing or makes one protected call.
OneCall(X) == X = {} \/ \E h \in Handlers : X = {h}
LEMMA ShowsRight ==
  ASSUME NEW T, NEW C, Core(T, C), NEW t \in Thread, NEW i \in 1..Len(T[t].ci),
         T[t].status # "dead" \/ OnCStack(C, t)
  PROVE  OneCall(Shows(T[t].ci, C, t, i))
<1> DEFINE F == T[t].ci
<1>1. Sized(T, C) /\ Typed(T, C) /\ HandlersOf(T, C, t) BY TypedSized DEF Core, ThreadRight
<1>2. F \in Seq(Frame) /\ F[i] \in Frame /\ C \in Seq(CEntry) BY <1>1 DEF Typed, State
<1>3. F[i].handler \in Handlers /\ F[i].yp \in BOOLEAN BY <1>2 DEF Frame
<1>4. ASSUME NEW j \in PcallsIn(C, t, i) PROVE ~F[i].yp /\ C[j].handler \in Handlers
  <2>1. j \in 1..Len(C) /\ PcallAt(C, t, j) /\ C[j].ci = i BY DEF PcallsIn
  <2>2. i \in C[j].ci..Len(F) /\ i >= 1 BY <2>1, <1>1 DEF Sized
  <2>3. C[j] \in CEntry BY <2>1, <1>2
  <2> QED BY <2>1, <2>2, <2>3, <1>1 DEF HandlersOf, CEntry
<1>5. ASSUME NEW j \in PcallsIn(C, t, i), NEW k \in PcallsIn(C, t, i) PROVE j = k
  <2>1. /\ j \in 1..Len(C) /\ PcallAt(C, t, j) /\ C[j].ci = i
        /\ k \in 1..Len(C) /\ PcallAt(C, t, k) /\ C[k].ci = i
    BY DEF PcallsIn
  <2>2. ~(C[j].ci < C[k].ci) /\ ~(C[k].ci < C[j].ci) BY <2>1
  <2>3. ~(j < k) /\ ~(k < j) BY <2>1, <2>2, PcallOnce
  <2> QED BY <2>1, <2>3
<1> HIDE DEF F
<1>6. CASE PcallsIn(C, t, i) = {}
  <2>1. {C[j].handler : j \in PcallsIn(C, t, i)} = {} BY <1>6
  <2> QED BY <2>1, <1>3 DEF Shows, F, OneCall
<1>7. CASE PcallsIn(C, t, i) # {}
  <2>1. PICK j \in PcallsIn(C, t, i) : TRUE BY <1>7
  <2>2. {C[k].handler : k \in PcallsIn(C, t, i)} = {C[j].handler} BY <2>1, <1>5
  <2> QED BY <2>1, <2>2, <1>4 DEF Shows, F, OneCall
<1> QED BY <1>6, <1>7

\* The types of what is seen.
LEMMA SeenType ==
  ASSUME NEW T, NEW C, Typed(T, C), NEW t \in Thread
  PROVE  /\ Seen(T[t].ci, C, t) \in Seq(SUBSET Handlers)
         /\ Len(Seen(T[t].ci, C, t)) = Len(T[t].ci) /\ Len(T[t].ci) \in Nat
         /\ \A i \in 1..Len(T[t].ci) : Seen(T[t].ci, C, t)[i] = Shows(T[t].ci, C, t, i)
<1> DEFINE F == T[t].ci
<1>1. F \in Seq(Frame) /\ C \in Seq(CEntry) BY DEF Typed, State
<1>2. ASSUME NEW i \in 1..Len(F) PROVE Shows(F, C, t, i) \in SUBSET Handlers
  <2>0. F[i] \in Frame BY <1>1
  <2>1. F[i].handler \in Handlers BY <2>0 DEF Frame
  <2>2. \A j \in PcallsIn(C, t, i) : C[j].handler \in Handlers
    <3>1. \A j \in PcallsIn(C, t, i) : C[j] \in CEntry BY <1>1 DEF PcallsIn
    <3> QED BY <3>1 DEF CEntry
  <2>3. {C[j].handler : j \in PcallsIn(C, t, i)} \subseteq Handlers BY <2>2
  <2> QED BY <2>1, <2>3 DEF Shows
<1>3. Len(F) \in Nat BY <1>1
<1> HIDE DEF F
<1> QED BY <1>2, <1>3 DEF Seen, F

(***************************************************************************)
(* A step of thread t that neither resumes nor leaves.  Above the first k  *)
(* entries there are only those of t; its first m - 1 frames and their     *)
(* protected calls stay.                                                   *)
(***************************************************************************)
InTail(C, t, k, m) ==
  \A i \in k + 1..Len(C) : C[i].th = t /\ C[i].kind # "resume" /\ (C[i].kind = "pcall" => C[i].ci >= m)
Prefix(C, D, k) == k \in 1..Len(C) /\ k <= Len(D) /\ \A i \in 1..k : D[i] = C[i]
SameFrames(F, G, m) ==
  /\ m <= Len(F) /\ m <= Len(G)
  /\ \A i \in 1..m - 1 : G[i].yp = F[i].yp /\ G[i].handler = F[i].handler
Inside(T, C, S, D, t, k, m) ==
  /\ Prefix(C, D, k) /\ InTail(C, t, k, m) /\ InTail(D, t, k, m) /\ SameFrames(T[t].ci, S[t].ci, m)
  /\ C[Len(C)].th = t /\ D[Len(D)].th = t /\ Others(T, S, t)
  /\ T[t].status # "dead" /\ S[t].status # "dead"

LEMMA LowPcalls ==
  ASSUME NEW C, NEW t, NEW k \in Nat, NEW m \in Nat, NEW x, NEW i \in Nat, Len(C) \in Nat,
         InTail(C, t, k, m), x # t \/ i < m, NEW j \in PcallsIn(C, x, i)
  PROVE  j \in 1..k
<1>1. j \in 1..Len(C) /\ C[j].th = x /\ C[j].kind = "pcall" /\ C[j].ci = i BY DEF PcallsIn, PcallAt
<1>2. CASE j \in k + 1..Len(C) BY <1>1, <1>2 DEF InTail
<1> QED BY <1>1, <1>2
LEMMA SamePcalls ==
  ASSUME NEW C, NEW D, NEW t, NEW k, NEW m \in Nat, NEW x, NEW i \in Nat,
         Len(C) \in Nat, Len(D) \in Nat,
         Prefix(C, D, k), InTail(C, t, k, m), InTail(D, t, k, m), x # t \/ i < m
  PROVE  /\ PcallsIn(D, x, i) = PcallsIn(C, x, i)
         /\ \A j \in PcallsIn(C, x, i) : D[j] = C[j]
<1>1. k \in 1..Len(C) /\ k <= Len(D) /\ k \in Nat /\ \A j \in 1..k : D[j] = C[j] BY DEF Prefix
<1>2. ASSUME NEW j \in PcallsIn(C, x, i) PROVE j \in PcallsIn(D, x, i) /\ D[j] = C[j]
  <2>1. j \in 1..k BY <1>1, LowPcalls
  <2>2. D[j] = C[j] /\ j \in 1..Len(D) BY <2>1, <1>1
  <2> QED BY <2>2 DEF PcallsIn, PcallAt
<1>3. ASSUME NEW j \in PcallsIn(D, x, i) PROVE j \in PcallsIn(C, x, i)
  <2>1. j \in 1..k BY <1>1, LowPcalls
  <2>2. D[j] = C[j] /\ j \in 1..Len(C) BY <2>1, <1>1
  <2> QED BY <2>2 DEF PcallsIn, PcallAt
<1> QED BY <1>2, <1>3

\* What such a step leaves.
LEMMA InsideLeaves ==
  ASSUME NEW T, NEW C, NEW S, NEW D, NEW t \in Thread, NEW k, NEW m \in Nat,
         Typed(T, C), Typed(S, D), Shape(C), Inside(T, C, S, D, t, k, m)
  PROVE  /\ Resumers(D) = Resumers(C) /\ Ended(S) = Ended(T)
         /\ \A x \in Thread : x # t => Seen(S[x].ci, D, x) = Seen(T[x].ci, C, x)
         /\ \A i \in 1..m - 1 : Shows(S[t].ci, D, t, i) = Shows(T[t].ci, C, t, i)
<1>1. /\ Len(C) \in Nat /\ Len(D) \in Nat /\ k \in 1..Len(C) /\ k <= Len(D)
      /\ \A j \in 1..k : D[j] = C[j]
  BY DEF Typed, Inside, Prefix
<1>2. ASSUME NEW x \in Thread, NEW i \in Nat, x # t \/ i < m
      PROVE  /\ PcallsIn(D, x, i) = PcallsIn(C, x, i)
             /\ {D[j].handler : j \in PcallsIn(D, x, i)} = {C[j].handler : j \in PcallsIn(C, x, i)}
  <2>1. Prefix(C, D, k) /\ InTail(C, t, k, m) /\ InTail(D, t, k, m) BY DEF Inside
  <2>2. /\ PcallsIn(D, x, i) = PcallsIn(C, x, i)
        /\ \A j \in PcallsIn(C, x, i) : D[j] = C[j]
    BY <2>1, <1>1, <1>2, SamePcalls
  <2> QED BY <2>2
<1>3. Resumers(D) = Resumers(C)
  <2>1. \A j \in 1..Len(C) : C[j].kind = "resume" => j \in 1..k BY <1>1 DEF Inside, InTail
  <2>2. \A j \in 1..Len(D) : D[j].kind = "resume" => j \in 1..k BY <1>1 DEF Inside, InTail
  <2>3. {j \in 1..Len(D) : D[j].kind = "resume"} = {j \in 1..Len(C) : C[j].kind = "resume"}
    BY <2>1, <2>2, <1>1
  <2>4. ASSUME NEW j \in {i \in 1..Len(C) : C[i].kind = "resume"}
        PROVE  D[j - 1] = C[j - 1] /\ D[j] = C[j]
    <3>1. j \in 1..k /\ j # 1 BY <2>1, <1>1 DEF Shape, Based
    <3>2. j - 1 \in 1..k BY <3>1, <1>1
    <3> QED BY <3>1, <3>2, <1>1
  <2> QED BY <2>3, <2>4 DEF Resumers
<1>4. Ended(S) = Ended(T) BY DEF Ended, Inside, Others
<1>5. ASSUME NEW x \in Thread, x # t PROVE Seen(S[x].ci, D, x) = Seen(T[x].ci, C, x)
  <2>1. S[x] = T[x] BY <1>5 DEF Inside, Others
  <2>2. ASSUME NEW i \in 1..Len(T[x].ci) PROVE Shows(T[x].ci, D, x, i) = Shows(T[x].ci, C, x, i)
    <3>1. i \in Nat OBVIOUS
    <3>2. {D[j].handler : j \in PcallsIn(D, x, i)} = {C[j].handler : j \in PcallsIn(C, x, i)}
      BY <3>1, <1>2, <1>5
    <3> QED BY <3>2 DEF Shows
  <2> QED BY <2>1, <2>2 DEF Seen
<1>6. ASSUME NEW i \in 1..m - 1 PROVE Shows(S[t].ci, D, t, i) = Shows(T[t].ci, C, t, i)
  <2> DEFINE F == T[t].ci
             G == S[t].ci
  <2>1. i \in Nat /\ i < m OBVIOUS
  <2>2. {D[j].handler : j \in PcallsIn(D, t, i)} = {C[j].handler : j \in PcallsIn(C, t, i)}
    BY <2>1, <1>2
  <2>3. m <= Len(F) /\ m <= Len(G) /\ G[i].yp = F[i].yp /\ G[i].handler = F[i].handler
    BY DEF Inside, SameFrames
  <2>4. Len(F) \in Nat /\ Len(G) \in Nat BY SeenType
  <2> HIDE DEF F, G
  <2>5. i # Len(F) /\ i # Len(G) BY <2>1, <2>3, <2>4
  <2>6. Shows(G, D, t, i) = Shows(F, C, t, i) BY <2>2, <2>3, <2>5 DEF Shows
  <2> QED BY <2>6 DEF F, G
<1> QED BY <1>3, <1>4, <1>5, <1>6

(***************************************************************************)
(* Steps of the abstract specification                                     *)
(***************************************************************************)
View ==
  /\ acts = [t \in Thread |-> Seen(th[t].ci, cs, t)]
  /\ waits = Resumers(cs) /\ dead = Ended(th)
  /\ L = cs[Len(cs)].th /\ L \in Thread
LEMMA ViewNow == CInv => View
<1> SUFFICES ASSUME CInv PROVE View
  OBVIOUS
<1>1. cs \in Seq(CEntry) /\ L = cs[Len(cs)].th /\ L \in Thread
  BY Running DEF Typical, Current
<1> QED BY <1>1, ViewRight DEF View
LEMMA ViewThen == CInv' => View'
BY ViewNow, PTL

\* What a step inside of the thread that runs is.
LEMMA InsideMine ==
  ASSUME CInv, CInv', NEW k, NEW m \in Nat, Inside(th, cs, th', cs', L, k, m)
  PROVE  /\ Coroutines!mine = Seen(th[L].ci, cs, L)
         /\ Coroutines!Mine(Seen(th'[L].ci, cs', L))
         /\ \A i \in 1..m - 1 : Shows(th'[L].ci, cs', L, i) = Shows(th[L].ci, cs, L, i)
<1>1. Typed(th, cs) /\ Typed(th', cs') /\ Shape(cs) /\ L \in Thread
  BY ViewNow DEF CInv, Core, View
<1>2. View /\ View' BY ViewNow, ViewThen
<1>3. /\ Resumers(cs') = Resumers(cs) /\ Ended(th') = Ended(th)
      /\ \A x \in Thread : x # L => Seen(th'[x].ci, cs', x) = Seen(th[x].ci, cs, x)
      /\ \A i \in 1..m - 1 : Shows(th'[L].ci, cs', L, i) = Shows(th[L].ci, cs, L, i)
  BY <1>1, InsideLeaves
<1>4. L' = L /\ waits' = waits /\ dead' = dead BY <1>2, <1>3 DEF View, Inside
<1>5. acts = [t \in Thread |-> Seen(th[t].ci, cs, t)] BY <1>2 DEF View
<1>6. acts' = [t \in Thread |-> Seen(th'[t].ci, cs', t)] BY <1>2 DEF View
<1>7. acts' = [acts EXCEPT ![L] = Seen(th'[L].ci, cs', L)] BY <1>1, <1>3, <1>5, <1>6
<1>8. acts[L] = Seen(th[L].ci, cs, L) BY <1>1, <1>5
<1> QED BY <1>3, <1>4, <1>7, <1>8 DEF Coroutines!mine, Coroutines!Mine

\* Nothing that is seen changes.
LEMMA InsideSame ==
  ASSUME CInv, CInv', NEW k, NEW m, m = Len(th[L].ci), m = Len(th'[L].ci),
         Inside(th, cs, th', cs', L, k, m)
  PROVE  UNCHANGED Coroutines!cvars
<1>1. Typed(th, cs) /\ Typed(th', cs') /\ L \in Thread BY ViewNow DEF CInv, Core, View
<1>2. m \in Nat BY <1>1, SeenType
<1>3. /\ Coroutines!mine = Seen(th[L].ci, cs, L)
      /\ Coroutines!Mine(Seen(th'[L].ci, cs', L))
      /\ \A i \in 1..m - 1 : Shows(th'[L].ci, cs', L, i) = Shows(th[L].ci, cs, L, i)
  BY <1>2, InsideMine
<1>4. Seen(th'[L].ci, cs', L) = Seen(th[L].ci, cs, L)
  <2>1. ASSUME NEW i \in 1..m PROVE Shows(th'[L].ci, cs', L, i) = Shows(th[L].ci, cs, L, i)
    <3>1. CASE i = m BY <3>1 DEF Shows
    <3>2. CASE i # m
      <4>1. i \in 1..m - 1 BY <3>2, <1>2
      <4> QED BY <4>1, <1>3
    <3> QED BY <3>1, <3>2
  <2> QED BY <2>1 DEF Seen
<1>5. acts \in [Thread -> {acts[t] : t \in Thread}] BY ViewNow DEF View
<1>6. acts' = acts /\ L' = L /\ waits' = waits /\ dead' = dead
  BY <1>3, <1>4, <1>5 DEF Coroutines!Mine, Coroutines!mine
<1> QED BY <1>6 DEF Coroutines!cvars

\* A call: one more frame.
LEMMA InsideCall ==
  ASSUME CInv, CInv', NEW k, NEW m, m = Len(th[L].ci), m >= 1, Len(th'[L].ci) = m + 1,
         Inside(th, cs, th', cs', L, k, m)
  PROVE  Coroutines!CNext
<1>1. Typed(th, cs) /\ Typed(th', cs') /\ L \in Thread /\ Core(th', cs') BY ViewNow DEF CInv, Core, View
<1>2. m \in Nat BY <1>1, SeenType
<1> DEFINE A == Seen(th[L].ci, cs, L)
           B == Seen(th'[L].ci, cs', L)
<1>3. /\ Coroutines!mine = A /\ Coroutines!Mine(B)
      /\ \A i \in 1..m - 1 : Shows(th'[L].ci, cs', L, i) = Shows(th[L].ci, cs, L, i)
  BY <1>2, InsideMine
<1>4. /\ A \in Seq(SUBSET Handlers) /\ Len(A) = m
      /\ \A i \in 1..m : A[i] = Shows(th[L].ci, cs, L, i)
  BY <1>1, SeenType
<1>5. /\ B \in Seq(SUBSET Handlers) /\ Len(B) = m + 1
      /\ \A i \in 1..m + 1 : B[i] = Shows(th'[L].ci, cs', L, i)
  BY <1>1, SeenType
<1>6. m \in 1..m /\ m + 1 \in 1..m + 1 /\ m \in 1..m + 1 /\ \A i \in 1..m - 1 : i \in 1..m /\ i \in 1..m + 1
  BY <1>2
<1>7. A[m] = {} /\ B[m + 1] = {} BY <1>4, <1>5, <1>6 DEF Shows
<1>8. \A i \in 1..m - 1 : B[i] = A[i] BY <1>3, <1>4, <1>5, <1>6
<1>9. B[m] = {} \/ \E h \in Handlers : B[m] = {h}
  <2>1. m \in 1..Len(th'[L].ci) BY <1>6
  <2>2. th'[L].status # "dead" BY DEF Inside
  <2>3. OneCall(Shows(th'[L].ci, cs', L, m)) BY <1>1, <2>1, <2>2, ShowsRight
  <2> QED BY <2>3, <1>5, <1>6 DEF OneCall
<1> HIDE DEF A, B
<1>10. CASE B[m] = {}
  <2>1. ASSUME NEW i \in 1..m PROVE B[i] = A[i]
    <3>1. i = m \/ i \in 1..m - 1 BY <1>2
    <3> QED BY <3>1, <1>7, <1>8, <1>10
  <2>2. B = Append(A, {}) BY <2>1, <1>2, <1>4, <1>5, <1>7
  <2> QED BY <2>2, <1>3 DEF Coroutines!CNext, Coroutines!Call
<1>11. ASSUME NEW h \in Handlers, B[m] = {h} PROVE Coroutines!CNext
  <2> DEFINE E == [A EXCEPT ![Len(A)] = {h}]
  <2>1. E \in Seq(SUBSET Handlers) /\ Len(E) = m /\ \A i \in 1..m : E[i] = IF i = m THEN {h} ELSE A[i]
    BY <1>2, <1>4
  <2> HIDE DEF E
  <2>2. ASSUME NEW i \in 1..m PROVE B[i] = E[i]
    <3>1. i = m \/ i \in 1..m - 1 BY <1>2
    <3>2. i \in 1..m - 1 => i # m BY <1>2
    <3> QED BY <2>1, <3>1, <3>2, <1>8, <1>11
  <2>3. B = Append(E, {}) BY <2>1, <2>2, <1>2, <1>5, <1>7
  <2>4. A # << >> BY <1>2, <1>4
  <2>5. Coroutines!Protect(h) BY <2>3, <2>4, <1>3 DEF Coroutines!Protect, E
  <2> QED BY <2>5, <1>11 DEF Coroutines!CNext, Handlers
<1> QED BY <1>9, <1>10, <1>11

\* What is left of a sequence when its first n elements are, the last one without protection.
LEMMA CutSequence ==
  ASSUME NEW A \in Seq(SUBSET Handlers), NEW B \in Seq(SUBSET Handlers), NEW n \in Nat,
         Len(B) = n, n <= Len(A), n >= 1 => B[n] = {}, \A i \in 1..n - 1 : B[i] = A[i]
  PROVE  B = [i \in 1..n |-> IF i = n THEN {} ELSE A[i]]
<1>1. ASSUME NEW i \in 1..n PROVE B[i] = IF i = n THEN {} ELSE A[i]
  <2>1. CASE i = n BY <2>1
  <2>2. CASE i # n
    <3>1. i \in 1..n - 1 BY <2>2
    <3> QED BY <3>1, <2>2
  <2> QED BY <2>1, <2>2
<1> QED BY <1>1

\* A return: one frame less.
LEMMA InsideReturn ==
  ASSUME CInv, CInv', NEW k, NEW m, m = Len(th'[L].ci), Len(th[L].ci) = m + 1,
         Inside(th, cs, th', cs', L, k, m)
  PROVE  Coroutines!CNext
<1>1. Typed(th, cs) /\ Typed(th', cs') /\ L \in Thread BY ViewNow DEF CInv, Core, View
<1>2. m \in Nat BY <1>1, SeenType
<1> DEFINE A == Seen(th[L].ci, cs, L)
           B == Seen(th'[L].ci, cs', L)
<1>3. /\ Coroutines!mine = A /\ Coroutines!Mine(B)
      /\ \A i \in 1..m - 1 : Shows(th'[L].ci, cs', L, i) = Shows(th[L].ci, cs, L, i)
  BY <1>2, InsideMine
<1>4. /\ A \in Seq(SUBSET Handlers) /\ Len(A) = m + 1
      /\ \A i \in 1..m + 1 : A[i] = Shows(th[L].ci, cs, L, i)
  BY <1>1, SeenType
<1>5. /\ B \in Seq(SUBSET Handlers) /\ Len(B) = m
      /\ \A i \in 1..m : B[i] = Shows(th'[L].ci, cs', L, i)
  BY <1>1, SeenType
<1>6. \A i \in 1..m - 1 : i \in 1..m /\ i \in 1..m + 1 BY <1>2
<1>7. m >= 1 => B[m] = {}
  <2>1. m >= 1 => m \in 1..m BY <1>2
  <2> QED BY <2>1, <1>5 DEF Shows
<1>8. \A i \in 1..m - 1 : B[i] = A[i] BY <1>3, <1>4, <1>5, <1>6
<1> HIDE DEF A, B
<1>9. B = [i \in 1..m |-> IF i = m THEN {} ELSE A[i]] BY <1>2, <1>4, <1>5, <1>7, <1>8, CutSequence
<1>10. A # << >> /\ Len(A) - 1 = m BY <1>2, <1>4
<1>11. Coroutines!Return BY <1>3, <1>9, <1>10 DEF Coroutines!Return
<1> QED BY <1>11 DEF Coroutines!CNext

\* An error that is caught: the first m frames stay, and the last of them made the innermost
\* protected call.
LEMMA InsideCaught ==
  ASSUME CInv, CInv', NEW k, NEW m, m = Len(th'[L].ci), m >= 1, m < Len(th[L].ci),
         Shows(th[L].ci, cs, L, m) # {},
         \A i \in m + 1..Len(th[L].ci) : Shows(th[L].ci, cs, L, i) = {},
         Inside(th, cs, th', cs', L, k, m)
  PROVE  Coroutines!CNext
<1>1. Typed(th, cs) /\ Typed(th', cs') /\ L \in Thread BY ViewNow DEF CInv, Core, View
<1>2. m \in Nat /\ Len(th[L].ci) \in Nat BY <1>1, SeenType
<1> DEFINE A == Seen(th[L].ci, cs, L)
           B == Seen(th'[L].ci, cs', L)
           n == Len(th[L].ci)
<1>3. /\ Coroutines!mine = A /\ Coroutines!Mine(B)
      /\ \A i \in 1..m - 1 : Shows(th'[L].ci, cs', L, i) = Shows(th[L].ci, cs, L, i)
  BY <1>2, InsideMine
<1>4. /\ A \in Seq(SUBSET Handlers) /\ Len(A) = n
      /\ \A i \in 1..n : A[i] = Shows(th[L].ci, cs, L, i)
  BY <1>1, SeenType
<1>5. /\ B \in Seq(SUBSET Handlers) /\ Len(B) = m
      /\ \A i \in 1..m : B[i] = Shows(th'[L].ci, cs', L, i)
  BY <1>1, SeenType
<1>6. /\ \A i \in 1..m - 1 : i \in 1..m /\ i \in 1..n
      /\ m \in 1..m /\ m \in 1..n /\ \A i \in m + 1..n : i \in 1..n
  BY <1>2
<1>7. B[m] = {} BY <1>5, <1>6 DEF Shows
<1>8. \A i \in 1..m - 1 : B[i] = A[i] BY <1>3, <1>4, <1>5, <1>6
<1>9. A[m] # {} /\ \A i \in m + 1..n : A[i] = {} BY <1>4, <1>6
<1> HIDE DEF A, B, n
<1>10. m <= Len(A) BY <1>2, <1>4 DEF n
<1>11. B = [i \in 1..m |-> IF i = m THEN {} ELSE A[i]] BY <1>2, <1>5, <1>7, <1>8, <1>10, CutSequence
<1>12. m \in Coroutines!Guarded BY <1>3, <1>4, <1>6, <1>9 DEF Coroutines!Guarded
<1>13. ASSUME NEW i \in Coroutines!Guarded PROVE i <= m
  <2>1. i \in 1..n /\ A[i] # {} BY <1>3, <1>4 DEF Coroutines!Guarded
  <2>2. i \notin m + 1..n BY <2>1, <1>9
  <2> QED BY <2>1, <2>2, <1>2 DEF n
<1>14. Coroutines!Caught BY <1>3, <1>11, <1>12, <1>13 DEF Coroutines!Caught
<1> QED BY <1>14 DEF Coroutines!CNext

(***************************************************************************)
(* A thread is left at its lua_resume, entry r                             *)
(***************************************************************************)
Left(T, C, S, D, t, r) ==
  /\ r \in 2..Len(C) /\ C[r].kind = "resume" /\ C[r].th = t /\ C[Len(C)].th = t
  /\ Kept(C, D, r - 1) /\ Others(T, S, t) /\ S[t].ci = T[t].ci
  /\ \A j \in 1..Len(C) : ~PcallAt(C, t, j)
LEMMA LeftSeen ==
  ASSUME NEW T, NEW C, NEW S, NEW D, NEW t \in Thread, NEW r,
         Typed(T, C), Typed(S, D), Shape(C), Left(T, C, S, D, t, r)
  PROVE  /\ <<C[r - 1].th, t>> \in Resumers(C) /\ C[r - 1].th \in Thread /\ D[Len(D)].th = C[r - 1].th
         /\ Resumers(D) = Resumers(C) \ {<<C[r - 1].th, t>>}
         /\ \A x \in Thread : Seen(S[x].ci, D, x) = Seen(T[x].ci, C, x)
<1>1. /\ Len(C) \in Nat /\ r \in 2..Len(C) /\ r \in Nat /\ r \in 1..Len(C) /\ r - 1 \in 1..Len(C)
      /\ C[r].kind = "resume" /\ C[r].th = t /\ C[Len(C)].th = t
      /\ Len(D) = r - 1 /\ \A i \in 1..r - 1 : D[i] = C[i]
  BY DEF Left, Kept, Typed
<1>2. \A i \in 1..r - 1 : C[i].th # t BY <1>1 DEF Shape, ResumedOnce
<1>3. ASSUME NEW i \in r..Len(C) PROVE C[i].th = t
  <2>1. Len(C) \in 1..Len(C) BY <1>1
  <2> QED BY <2>1, <1>1 DEF Shape, Together
<1>4. ASSUME NEW i \in r + 1..Len(C) PROVE C[i].kind # "resume"
  <2>1. i \in 1..Len(C) /\ i \in r..Len(C) /\ r \in 1..i - 1 BY <1>1
  <2>2. C[i].th = t BY <2>1, <1>3
  <2> QED BY <2>1, <2>2, <1>1 DEF Shape, ResumedOnce
<1>5. {j \in 1..Len(C) : C[j].kind = "resume"} = {j \in 1..Len(D) : D[j].kind = "resume"} \cup {r}
  <2>1. ASSUME NEW j \in 1..Len(C), C[j].kind = "resume" PROVE j = r \/ j \in 1..r - 1
    <3>1. j \notin r + 1..Len(C) BY <2>1, <1>4
    <3> QED BY <3>1, <1>1
  <2>2. \A j \in 1..r - 1 : j \in 1..Len(C) BY <1>1
  <2> QED BY <2>1, <2>2, <1>1
<1>6. ASSUME NEW j \in {i \in 1..Len(D) : D[i].kind = "resume"}
      PROVE  D[j - 1] = C[j - 1] /\ D[j] = C[j] /\ C[j].th # t
  <2>1. j \in 1..r - 1 BY <1>1
  <2>2. D[j] = C[j] /\ C[j].kind = "resume" BY <2>1, <1>1
  <2>3. j # 1 BY <2>2 DEF Shape, Based
  <2>4. j - 1 \in 1..r - 1 BY <2>1, <2>3, <1>1
  <2> QED BY <2>1, <2>2, <2>4, <1>1, <1>2
<1>7. Resumers(C) = Resumers(D) \cup {<<C[r - 1].th, t>>}
  <2>1. Resumers(C) = {<<C[j - 1].th, C[j].th>> : j \in {i \in 1..Len(D) : D[i].kind = "resume"} \cup {r}}
    BY <1>5 DEF Resumers
  <2>2. Resumers(D) = {<<C[j - 1].th, C[j].th>> : j \in {i \in 1..Len(D) : D[i].kind = "resume"}}
    BY <1>6 DEF Resumers
  <2> QED BY <2>1, <2>2, <1>1
<1>8. <<C[r - 1].th, t>> \notin Resumers(D) BY <1>6 DEF Resumers
<1>9. C[r - 1].th \in Thread /\ D[Len(D)].th = C[r - 1].th
  <2>1. C[r - 1] \in CEntry BY <1>1 DEF Typed
  <2>2. r - 1 \in 1..r - 1 BY <1>1
  <2> QED BY <2>1, <2>2, <1>1 DEF CEntry
<1>10. ASSUME NEW x \in Thread PROVE Seen(S[x].ci, D, x) = Seen(T[x].ci, C, x)
  <2>1. S[x].ci = T[x].ci BY DEF Left, Others
  <2>2. ASSUME NEW i PROVE PcallsIn(D, x, i) = PcallsIn(C, x, i) /\ \A j \in PcallsIn(C, x, i) : D[j] = C[j]
    <3>1. ASSUME NEW j \in PcallsIn(C, x, i) PROVE j \in 1..r - 1
      <4>1. j \in 1..Len(C) /\ C[j].th = x /\ PcallAt(C, x, j) BY DEF PcallsIn, PcallAt
      <4>2. x # t BY <4>1 DEF Left
      <4>3. j \notin r..Len(C) BY <4>1, <4>2, <1>3
      <4> QED BY <4>1, <4>3, <1>1
    <3>2. \A j \in 1..r - 1 : j \in 1..Len(C) /\ D[j] = C[j] BY <1>1
    <3> QED BY <3>1, <3>2, <1>1 DEF PcallsIn, PcallAt
  <2>3. ASSUME NEW i PROVE Shows(T[x].ci, D, x, i) = Shows(T[x].ci, C, x, i)
    <3>1. {D[j].handler : j \in PcallsIn(D, x, i)} = {C[j].handler : j \in PcallsIn(C, x, i)} BY <2>2
    <3> QED BY <3>1 DEF Shows
  <2> QED BY <2>1, <2>3 DEF Seen
<1> QED BY <1>1, <1>7, <1>8, <1>9, <1>10 DEF Resumers

LEMMA LeaveSteps ==
  ASSUME CInv, CInv', NEW r, Left(th, cs, th', cs', L, r)
  PROVE  Coroutines!Leave /\ acts' = acts
<1>1. Typed(th, cs) /\ Typed(th', cs') /\ Shape(cs) /\ L \in Thread
  BY ViewNow DEF CInv, Core, View
<1>2. View /\ View' BY ViewNow, ViewThen
<1> DEFINE x == cs[r - 1].th
<1>3. /\ <<x, L>> \in Resumers(cs) /\ x \in Thread /\ cs'[Len(cs')].th = x
      /\ Resumers(cs') = Resumers(cs) \ {<<x, L>>}
      /\ \A y \in Thread : Seen(th'[y].ci, cs', y) = Seen(th[y].ci, cs, y)
  BY <1>1, LeftSeen
<1> HIDE DEF x
<1>4. L' = x /\ <<x, L>> \in waits /\ waits' = waits \ {<<x, L>>} BY <1>2, <1>3 DEF View
<1>5. acts = [t \in Thread |-> Seen(th[t].ci, cs, t)] BY <1>2 DEF View
<1>6. acts' = [t \in Thread |-> Seen(th'[t].ci, cs', t)] BY <1>2 DEF View
<1>7. acts' = acts BY <1>3, <1>5, <1>6
<1> QED BY <1>3, <1>4, <1>7 DEF Coroutines!Leave

\* A yield, or the end of the thread.
LEMMA LeaveYields ==
  ASSUME CInv, CInv', NEW r, Left(th, cs, th', cs', L, r), th'[L].status = th[L].status
  PROVE  Coroutines!CNext
<1>1. Coroutines!Leave /\ acts' = acts BY LeaveSteps
<1>2. \A x \in Thread : th'[x].status = th[x].status BY DEF Left, Others
<1>3. dead = Ended(th) /\ dead' = Ended(th') BY ViewNow, ViewThen DEF View
<1>4. dead' = dead BY <1>2, <1>3 DEF Ended
<1> QED BY <1>1, <1>4 DEF Coroutines!CNext, Coroutines!Yield
\* An error that nothing catches.
LEMMA LeaveDies ==
  ASSUME CInv, CInv', NEW r, Left(th, cs, th', cs', L, r), th'[L].status = "dead",
         \A i \in 1..Len(th[L].ci) : ~th[L].ci[i].yp
  PROVE  Coroutines!CNext
<1>1. Coroutines!Leave /\ acts' = acts BY LeaveSteps
<1>2. \A x \in Thread : x # L => th'[x].status = th[x].status BY DEF Left, Others
<1>3. dead = Ended(th) /\ dead' = Ended(th') /\ L \in Thread BY ViewNow, ViewThen DEF View
<1>4. dead' = dead \cup {L} BY <1>2, <1>3 DEF Ended
<1>5. Coroutines!Guarded = {}
  <2>1. Typed(th, cs) BY DEF CInv, Core
  <2>2. Coroutines!mine = Seen(th[L].ci, cs, L) BY ViewNow, <1>3 DEF View, Coroutines!mine
  <2>3. ASSUME NEW i \in 1..Len(th[L].ci) PROVE Shows(th[L].ci, cs, L, i) = {}
    <3>1. PcallsIn(cs, L, i) = {} BY DEF PcallsIn, Left
    <3> QED BY <3>1 DEF Shows
  <2>4. /\ Len(Seen(th[L].ci, cs, L)) = Len(th[L].ci)
        /\ \A i \in 1..Len(th[L].ci) : Seen(th[L].ci, cs, L)[i] = Shows(th[L].ci, cs, L, i)
    BY <2>1, <1>3, SeenType
  <2> QED BY <2>2, <2>3, <2>4 DEF Coroutines!Guarded
<1> QED BY <1>1, <1>4, <1>5 DEF Coroutines!CNext, Coroutines!Uncaught

(***************************************************************************)
(* luaD_throw and the end of lua_resume                                    *)
(***************************************************************************)
LEMMA BecomesRight ==
  ASSUME CInv, NEW u, NEW c, Becomes(u, c)
  PROVE  /\ th'[L] = u /\ cs' = c /\ Others(th, th', L)
         /\ th[L] = l /\ l \in State /\ l.ci \in Seq(Frame) /\ Len(l.ci) \in Nat
         /\ L \in Thread /\ L = cs[Len(cs)].th /\ cs \in Seq(CEntry) /\ Len(cs) \in Nat /\ Len(cs) >= 1
         /\ Top(cs) = cs[Len(cs)] /\ l.status # "dead"
BY Running DEF Typical, Current, Becomes, Others

LEMMA CaughtSees ==
  ASSUME CInv, NEW t \in State, NEW e \in CEntry
  PROVE  /\ luaD_shrinkstack(t).ci = t.ci /\ luaD_shrinkstack(t).status = t.status
         /\ Resumed(t, e).ci = t.ci /\ Resumed(t, e).status = t.status
BY DEF luaD_shrinkstack, Resumed, State

\* The frames that the luaD_pcall at entry i leaves.
LEMMA PcallHeight ==
  ASSUME CInv, NEW i \in 2..Len(cs), PcallAt(cs, L, i)
  PROVE  /\ cs[i].ci \in 1..Len(th[L].ci) /\ cs[i - 1].th = L
         /\ \A f \in cs[i].ci..Len(th[L].ci) : f >= 1 => ~th[L].ci[f].yp
<1>1. Len(cs) \in Nat /\ cs \in Seq(CEntry) /\ L \in Thread BY Running DEF Current, Typical
<1>2. cs[i].kind = "pcall" /\ cs[i].th = L BY DEF PcallAt
<1> DEFINE n == i - 1
<1>3. n \in 1..Len(cs) /\ i \in 1..Len(cs) /\ n + 1 = i /\ n < Len(cs) BY <1>1
<1> HIDE DEF n
<1>4. cs[n].kind \in {"cfun", "hook"} /\ cs[n].th = L BY <1>2, CallerOf DEF n
<1>5. Frames(th, cs) /\ HandlersOf(th, cs, L) BY <1>1 DEF CInv, Core, ThreadRight
<1>6. Framed(th, cs, i) /\ Framed(th, cs, n) BY <1>3, <1>5 DEF Frames
<1>7. Height(th, cs, n) = cs[i].ci BY <1>2, <1>3 DEF Height, Owns
<1>8. cs[i].ci \in 0..Len(th[L].ci) /\ cs[i].ci >= 1
  BY <1>4, <1>6, <1>7 DEF Framed, Works
<1>9. \A f \in cs[i].ci..Len(th[L].ci) : f >= 1 => ~th[L].ci[f].yp
  BY <1>3, <1>5 DEF HandlersOf, PcallAt
<1> QED BY <1>4, <1>8, <1>9 DEF n

LEMMA PcallCatches ==
  ASSUME CInv, CInv', NEW i, Arrives(i), cs[i].kind = "pcall",
         Becomes(Caught(cs[i]), SubSeq(cs, 1, i - 1))
  PROVE  Coroutines!CNext \/ UNCHANGED Coroutines!cvars
<1> DEFINE m == cs[i].ci
           n == Len(th[L].ci)
<1>1. /\ i \in 2..Len(cs) /\ i < Len(cs) /\ cs[i].th = L /\ \A j \in i + 1..Len(cs) : ~Jumps(j)
      /\ cs[i] \in CEntry /\ cs \in Seq(CEntry) /\ Len(cs) \in Nat /\ cs[Len(cs)].th = L
      /\ th[L] = l /\ l \in State /\ l.ci \in Seq(Frame) /\ L \in Thread /\ l.status # "dead"
  BY Running DEF Arrives, Current
<1>2. i \in 1..Len(cs) /\ i - 1 \in 1..Len(cs) /\ i - 1 \in Nat /\ PcallAt(cs, L, i) BY <1>1 DEF PcallAt
<1>3. /\ m \in 1..n /\ cs[i - 1].th = L /\ n \in Nat /\ m \in Nat
      /\ \A f \in m..n : f >= 1 => ~th[L].ci[f].yp
  BY <1>1, <1>2, PcallHeight
<1>4. th'[L] = Caught(cs[i]) /\ cs' = SubSeq(cs, 1, i - 1) /\ Others(th, th', L)
  BY BecomesRight
<1>5. Caught(cs[i]).ci = SubSeq(l.ci, 1, m) /\ Caught(cs[i]).status = l.status
  <2> DEFINE g == SubSeq(l.ci, 1, m)
             x == cs[i]
  <2>1. g \in Seq(Frame) BY <1>1, <1>3
  <2> HIDE DEF g
  <2>2. x.ncc \in Int /\ x.nny \in Int /\ x.allowhook \in BOOLEAN /\ x.errfunc \in Handlers BY <1>1 DEF CEntry
  <2> DEFINE t == [l EXCEPT !.ci = g, !.ncc = x.ncc, !.allowhook = x.allowhook, !.nny = x.nny, !.errfunc = x.errfunc]
  <2>3. t \in State /\ t.ci = g /\ t.status = l.status BY <1>1, <2>1, <2>2 DEF State
  <2>4. Caught(cs[i]) = luaD_shrinkstack(t) BY DEF Caught, g
  <2> HIDE DEF t, x
  <2> QED BY <2>3, <2>4, <1>1, CaughtSees DEF g
<1>6. Len(th'[L].ci) = m /\ \A f \in 1..m : th'[L].ci[f] = th[L].ci[f]
  <2>1. m \in 1..Len(l.ci) BY <1>1, <1>3
  <2> HIDE DEF m
  <2>2. Len(SubSeq(l.ci, 1, m)) = m /\ \A f \in 1..m : SubSeq(l.ci, 1, m)[f] = l.ci[f] BY <2>1, <1>1
  <2> QED BY <2>2, <1>1, <1>4, <1>5
<1>7. Len(cs') = i - 1 /\ \A j \in 1..i - 1 : cs'[j] = cs[j] BY <1>1, <1>4
<1>8. ASSUME NEW j \in i..Len(cs) PROVE cs[j].th = L
  <2>1. Len(cs) \in 1..Len(cs) BY <1>1
  <2> QED BY <2>1, <1>1, <1>2 DEF CInv, Core, Shape, Together
<1>9. ASSUME NEW j \in (i - 1) + 1..Len(cs)
      PROVE  cs[j].th = L /\ cs[j].kind # "resume" /\ (cs[j].kind = "pcall" => j = i)
  <2>1. j \in i..Len(cs) BY <1>1
  <2>2. j = i \/ j \in i + 1..Len(cs) BY <1>1
  <2> QED BY <2>1, <2>2, <1>1, <1>8 DEF Jumps
<1>10. Inside(th, cs, th', cs', L, i - 1, m)
  <2>1. Prefix(cs, cs', i - 1) BY <1>2, <1>7 DEF Prefix
  <2>2. InTail(cs, L, i - 1, m) BY <1>3, <1>9 DEF InTail
  <2>3. InTail(cs', L, i - 1, m) BY <1>2, <1>7 DEF InTail
  <2>4. SameFrames(th[L].ci, th'[L].ci, m)
    <3>1. \A f \in 1..m - 1 : f \in 1..m BY <1>3
    <3> QED BY <3>1, <1>3, <1>6 DEF SameFrames
  <2>5. cs'[Len(cs')].th = L
    <3>1. i - 1 \in 1..i - 1 BY <1>2
    <3> QED BY <3>1, <1>3, <1>7
  <2> QED BY <2>1, <2>2, <2>3, <2>4, <2>5, <1>1, <1>4, <1>5 DEF Inside
<1> HIDE DEF m, n
<1>11. CASE m = n BY <1>6, <1>10, <1>11, InsideSame DEF n
<1>12. CASE m < n
  <2>1. Shows(th[L].ci, cs, L, m) # {}
    <3>1. i \in PcallsIn(cs, L, m) BY <1>2 DEF PcallsIn, m
    <3>2. cs[i].handler \in {cs[j].handler : j \in PcallsIn(cs, L, m)} BY <3>1
    <3>3. m # Len(th[L].ci) BY <1>3, <1>12 DEF n
    <3> QED BY <3>2, <3>3 DEF Shows
  <2>2. ASSUME NEW f \in m + 1..n PROVE Shows(th[L].ci, cs, L, f) = {}
    <3>1. ~th[L].ci[f].yp BY <1>3
    <3>2. ASSUME NEW j \in PcallsIn(cs, L, f) PROVE FALSE
      <4>1. j \in 1..Len(cs) /\ PcallAt(cs, L, j) /\ cs[j].ci = f BY DEF PcallsIn
      <4>2. CASE j < i
        <5>1. cs[j].ci < cs[i].ci BY <4>1, <4>2, <1>1, <1>2, PcallOnce DEF CInv
        <5> QED BY <5>1, <4>1, <1>3 DEF m
      <4>3. CASE j = i BY <4>1, <4>3, <1>3 DEF m
      <4>4. CASE j > i
        <5>1. j \in i + 1..Len(cs) BY <4>1, <4>4, <1>1
        <5> QED BY <5>1, <4>1, <1>1 DEF Jumps, PcallAt
      <4> QED BY <4>1, <4>2, <4>3, <4>4, <1>1
    <3>3. PcallsIn(cs, L, f) = {} BY <3>2
    <3> QED BY <3>1, <3>3 DEF Shows
  <2>3. m >= 1 BY <1>3
  <2> QED BY <2>1, <2>2, <2>3, <1>6, <1>10, <1>12, InsideCaught DEF n
<1> QED BY <1>3, <1>11, <1>12

\* What a thread leaves at its lua_resume.
LEMMA LeavingRight ==
  ASSUME CInv, NEW i \in 2..Len(cs), cs[i].kind = "resume", cs[i].th = L,
         \A j \in 1..Len(cs) : ~PcallAt(cs, L, j),
         NEW u, Becomes(u, SubSeq(cs, 1, i - 1)), u.ci = l.ci
  PROVE  Left(th, cs, th', cs', L, i)
<1>1. /\ th'[L] = u /\ cs' = SubSeq(cs, 1, i - 1) /\ Others(th, th', L) /\ th[L] = l
      /\ L = cs[Len(cs)].th /\ cs \in Seq(CEntry)
  BY BecomesRight
<1>2. Kept(cs, cs', i - 1) BY <1>1, CutKeeps
<1> QED BY <1>1, <1>2 DEF Left
LEMMA YieldLeaves ==
  ASSUME CInv, CInv', NEW i, Arrives(i), cs[i].kind = "resume",
         Becomes(Resumed(l, cs[i]), SubSeq(cs, 1, i - 1))
  PROVE  Coroutines!CNext
<1>1. i \in 2..Len(cs) /\ cs[i].th = L /\ cs[i] \in CEntry BY DEF Arrives
<1>2. \A j \in 1..Len(cs) : ~PcallAt(cs, L, j) BY NoPcallLeft
<1>3. th'[L] = Resumed(l, cs[i]) /\ th[L] = l /\ l \in State BY BecomesRight
<1>4. Resumed(l, cs[i]).ci = l.ci /\ Resumed(l, cs[i]).status = l.status BY <1>1, <1>3, CaughtSees
<1>5. Left(th, cs, th', cs', L, i) BY <1>1, <1>2, <1>4, LeavingRight
<1> QED BY <1>3, <1>4, <1>5, LeaveYields
LEMMA DeathLeaves ==
  ASSUME CInv, CInv', NEW i, Arrives(i), cs[i].kind = "resume", findpcall = {},
         Becomes([Resumed(l, cs[i]) EXCEPT !.status = "dead"], SubSeq(cs, 1, i - 1))
  PROVE  Coroutines!CNext
<1> DEFINE t == Resumed(l, cs[i])
           u == [t EXCEPT !.status = "dead"]
<1>1. i \in 2..Len(cs) /\ cs[i].th = L /\ cs[i] \in CEntry BY DEF Arrives
<1>2. \A j \in 1..Len(cs) : ~PcallAt(cs, L, j) BY NoPcallLeft
<1>3. th'[L] = u /\ th[L] = l /\ l \in State /\ l.ci \in Seq(Frame) BY BecomesRight
<1>4. t \in State /\ t.ci = l.ci BY <1>1, <1>3, ResumedRight
<1> HIDE DEF t
<1>5. u.ci = l.ci /\ u.status = "dead" BY <1>4 DEF State
<1>6. Becomes(u, SubSeq(cs, 1, i - 1)) BY DEF t
<1> HIDE DEF u
<1>7. Left(th, cs, th', cs', L, i) BY <1>1, <1>2, <1>5, <1>6, LeavingRight
<1>8. \A j \in 1..Len(th[L].ci) : ~th[L].ci[j].yp BY <1>3 DEF findpcall
<1> QED BY <1>3, <1>5, <1>7, <1>8, LeaveDies
LEMMA EndLeaves ==
  ASSUME CInv, CInv', ResumeEnd
  PROVE  Coroutines!CNext
<1> DEFINE i == Len(cs)
<1>1. Typical /\ Current BY Running
<1>2. Top(cs).kind = "resume" /\ Becomes(Resumed(l, Top(cs)), Pop(cs)) BY DEF ResumeEnd, At
<1>3. /\ i \in Nat /\ i >= 1 /\ cs[i] = Top(cs) /\ cs[i] \in CEntry /\ cs[i].th = L /\ th[L] = l
      /\ l \in State /\ i # 1
  BY <1>1, <1>2 DEF Current, Typical
<1>4. i >= 2 BY <1>3, NotAlone
<1>5. Becomes(Resumed(l, cs[i]), SubSeq(cs, 1, i - 1)) BY <1>2, <1>3 DEF Pop
<1>6. i \in 2..Len(cs) /\ i = Len(cs) BY <1>3, <1>4
<1> HIDE DEF i
<1>7. cs[i].kind = "resume" BY <1>2, <1>3
<1>8. \A j \in 1..i - 1 : cs[j].th # L BY <1>3, <1>6, <1>7, CallerOf
<1>9. ASSUME NEW j \in 1..Len(cs) PROVE ~PcallAt(cs, L, j)
  <2>1. j = i \/ j \in 1..i - 1 BY <1>6, <1>3
  <2> QED BY <2>1, <1>7, <1>8 DEF PcallAt
<1>10. Resumed(l, cs[i]).ci = l.ci /\ Resumed(l, cs[i]).status = l.status BY <1>3, CaughtSees
<1>11. Left(th, cs, th', cs', L, i) BY <1>3, <1>5, <1>6, <1>7, <1>9, <1>10, LeavingRight
<1>12. th'[L] = Resumed(l, cs[i]) BY <1>5, BecomesRight
<1> QED BY <1>3, <1>10, <1>11, <1>12, LeaveYields

LEMMA RecoverCatches ==
  ASSUME CInv, CInv', NEW i, Arrives(i), cs[i].kind = "resume", findpcall # {},
         Becomes(recover(cs[i]), SubSeq(cs, 1, i) \o
           <<Entry("unroll", L), [Entry("cfun", L) EXCEPT !.ci = Len(recover(cs[i]).ci)]>>)
  PROVE  Coroutines!CNext \/ UNCHANGED Coroutines!cvars
<1> DEFINE e == cs[i]
           m == CHOOSE j \in findpcall : \A k \in findpcall : k <= j
           f == l.ci[m]
           v == recover(e)
           g == [Entry("cfun", L) EXCEPT !.ci = Len(v.ci)]
           x == Entry("unroll", L)
           n == Len(th[L].ci)
<1>1. /\ i \in 2..Len(cs) /\ i < Len(cs) /\ e.th = L /\ \A j \in i + 1..Len(cs) : ~Jumps(j)
      /\ e \in CEntry /\ cs \in Seq(CEntry) /\ Len(cs) \in Nat /\ cs[Len(cs)].th = L
      /\ th[L] = l /\ l \in State /\ l.ci \in Seq(Frame) /\ L \in Thread /\ l.status # "dead"
      /\ Len(l.ci) \in Nat /\ e.kind = "resume"
  BY Running DEF Arrives, Current
<1>2. m \in 1..Len(l.ci) /\ f.yp BY LastMarked
<1>3. \A j \in m + 1..Len(l.ci) : ~l.ci[j].yp
  <2>1. findpcall \subseteq 1..Len(l.ci) BY <1>1 DEF findpcall
  <2>2. \E y \in findpcall : \A z \in findpcall : z <= y BY <1>1, <2>1, Largest
  <2>3. \A z \in findpcall : z <= m BY <2>2
  <2> HIDE DEF m
  <2>4. ASSUME NEW j \in m + 1..Len(l.ci), l.ci[j].yp PROVE FALSE
    <3>1. j \in 1..Len(l.ci) /\ ~(j <= m) BY <1>1, <1>2
    <3>2. j \in findpcall BY <3>1, <2>4, <1>1 DEF findpcall
    <3> QED BY <3>1, <3>2, <2>3
  <2> QED BY <2>4
<1>4. v = luaD_shrinkstack([l EXCEPT !.ci = Append(SubSeq(@, 1, m - 1), [f EXCEPT !.yp = FALSE]),
            !.ncc = e.ncc, !.allowhook = f.oah, !.nny = 0, !.errfunc = f.oef])
  BY DEF recover
<1>5. f = l.ci[m] OBVIOUS
<1>6. Becomes(v, SubSeq(cs, 1, i) \o <<x, g>>) OBVIOUS
<1> HIDE DEF m, f, v, e, n
<1>7. Len(v.ci) = m /\ (\A j \in 1..m - 1 : v.ci[j] = l.ci[j]) /\ v.status = l.status
  <2> DEFINE h == [f EXCEPT !.yp = FALSE]
             a == SubSeq(l.ci, 1, m - 1)
             b == Append(a, h)
             z == 0
  <2>1. f \in Frame BY <1>1, <1>2, <1>5
  <2>2. h \in Frame BY <2>1 DEF Frame
  <2>3. a \in Seq(Frame) /\ Len(a) = m - 1 /\ \A j \in 1..m - 1 : a[j] = l.ci[j] BY <1>1, <1>2
  <2> HIDE DEF h, a
  <2>4. b \in Seq(Frame) /\ Len(b) = m /\ \A j \in 1..m - 1 : b[j] = l.ci[j] BY <2>2, <2>3, <1>1, <1>2
  <2>5. e.ncc \in Int /\ f.oah \in BOOLEAN /\ f.oef \in Handlers /\ z \in Int BY <1>1, <2>1 DEF CEntry, Frame
  <2> DEFINE t == [l EXCEPT !.ci = b, !.ncc = e.ncc, !.allowhook = f.oah, !.nny = z, !.errfunc = f.oef]
  <2>6. v = luaD_shrinkstack(t) BY <1>4 DEF h, a
  <2> HIDE DEF b, z
  <2>7. t \in State /\ t.ci = b /\ t.status = l.status BY <1>1, <2>4, <2>5 DEF State
  <2> HIDE DEF t
  <2> QED BY <2>4, <2>6, <2>7, <1>1, CaughtSees
<1>8. /\ x.kind = "unroll" /\ x.th = L /\ g.kind = "cfun" /\ g.th = L /\ x \in CEntry /\ g \in CEntry
  <2>1. /\ Entry("unroll", L) \in CEntry /\ Entry("unroll", L).kind = "unroll" /\ Entry("unroll", L).th = L
        /\ Entry("cfun", L) \in CEntry /\ Entry("cfun", L).kind = "cfun" /\ Entry("cfun", L).th = L
    BY <1>1, EntryRight DEF Kinds
  <2>2. Len(v.ci) \in Nat BY <1>1, <1>2, <1>7
  <2> QED BY <2>1, <2>2 DEF CEntry
<1>9. th'[L] = v /\ cs' = SubSeq(cs, 1, i) \o <<x, g>> /\ Others(th, th', L)
  BY <1>6, BecomesRight
<1> HIDE DEF x, g
<1>10. /\ Len(cs') = i + 2 /\ (\A j \in 1..i : cs'[j] = cs[j]) /\ cs'[i + 1] = x /\ cs'[i + 2] = g
  <2> DEFINE B == SubSeq(cs, 1, i)
             D == B \o <<x, g>>
  <2>1. B \in Seq(CEntry) /\ Len(B) = i /\ \A j \in 1..i : B[j] = cs[j] BY <1>1
  <2> HIDE DEF B
  <2>2. i \in Nat BY <1>1
  <2>3. /\ Len(D) = i + 2 /\ (\A j \in 1..i : D[j] = B[j]) /\ D[i + 1] = x /\ D[i + 2] = g
    BY <2>1, <2>2, <1>8
  <2> HIDE DEF D
  <2>4. cs' = D BY <1>9 DEF D, B
  <2> QED BY <2>1, <2>3, <2>4
<1>11. \A j \in 1..Len(cs) : ~PcallAt(cs, L, j) BY <1>1, NoPcallLeft DEF e
<1>12. i \in 1..Len(cs) /\ i \in Nat /\ m \in Nat /\ m >= 1 /\ n \in Nat /\ m <= n /\ n = Len(l.ci)
  BY <1>1, <1>2 DEF n
<1>13. Inside(th, cs, th', cs', L, i, m)
  <2>1. Prefix(cs, cs', i) BY <1>10, <1>12 DEF Prefix
  <2>2. InTail(cs, L, i, m)
    <3>1. ASSUME NEW j \in i + 1..Len(cs) PROVE cs[j].th = L /\ cs[j].kind \notin {"resume", "pcall"}
      <4>1. cs[j].th = L
        <5>1. j \in 1..Len(cs) /\ Len(cs) \in 1..Len(cs) /\ j \in i..Len(cs) BY <1>1, <1>12
        <5> QED BY <5>1, <1>1, <1>12 DEF CInv, Core, Shape, Together, e
      <4> QED BY <4>1, <1>1 DEF Jumps
    <3> QED BY <3>1 DEF InTail
  <2>3. InTail(cs', L, i, m)
    <3>1. \A j \in i + 1..i + 2 : j = i + 1 \/ j = i + 2 BY <1>12
    <3> QED BY <3>1, <1>8, <1>10 DEF InTail
  <2>4. SameFrames(th[L].ci, th'[L].ci, m) BY <1>1, <1>7, <1>9, <1>12 DEF SameFrames
  <2>5. cs'[Len(cs')].th = L BY <1>8, <1>10
  <2> QED BY <2>1, <2>2, <2>3, <2>4, <2>5, <1>1, <1>7, <1>9 DEF Inside
<1>14. ASSUME NEW j PROVE PcallsIn(cs, L, j) = {} BY <1>11 DEF PcallsIn
<1>15. CASE m = n BY <1>1, <1>7, <1>9, <1>12, <1>13, <1>15, InsideSame
<1>16. CASE m < n
  <2>1. Shows(th[L].ci, cs, L, m) # {}
    <3>1. th[L].ci[m].yp /\ m # Len(th[L].ci) BY <1>1, <1>2, <1>5, <1>12, <1>16
    <3>2. th[L].ci[m].handler \in {th[L].ci[m].handler} OBVIOUS
    <3> QED BY <3>1, <3>2 DEF Shows
  <2>2. ASSUME NEW j \in m + 1..n PROVE Shows(th[L].ci, cs, L, j) = {}
    <3>1. ~th[L].ci[j].yp BY <1>1, <1>3, <1>12
    <3> QED BY <3>1, <1>14 DEF Shows
  <2> QED BY <2>1, <2>2, <1>1, <1>7, <1>9, <1>12, <1>13, <1>16, InsideCaught
<1> QED BY <1>12, <1>15, <1>16

LEMMA luaD_throwRefines ==
  ASSUME CallAssumption, CInv, CInv', luaD_throw
  PROVE  Coroutines!CNext \/ UNCHANGED Coroutines!cvars
<1> DEFINE i == errorJmp
           e == cs[i]
<1>1. At("throw") BY DEF luaD_throw
<1>2. Arrives(i) /\ e.kind \in {"pcall", "resume"} BY <1>1, Arriving
<1>3. CASE e.kind = "pcall"
  <2>1. Becomes(Caught(e), SubSeq(cs, 1, i - 1)) BY <1>3 DEF luaD_throw
  <2> QED BY <2>1, <1>2, <1>3, PcallCatches
<1>4. CASE e.kind = "resume"
  <2>1. l.status \in {"ok", "yield"} BY <1>2 DEF Arrives
  <2>2. CASE l.status = "yield"
    <3>1. Becomes(Resumed(l, e), SubSeq(cs, 1, i - 1)) BY <1>4, <2>2 DEF luaD_throw
    <3> QED BY <3>1, <1>2, <1>4, YieldLeaves
  <2>3. CASE l.status = "ok" /\ findpcall # {}
    <3>1. Becomes(recover(e), SubSeq(cs, 1, i) \o
            <<Entry("unroll", L), [Entry("cfun", L) EXCEPT !.ci = Len(recover(e).ci)]>>)
      BY <1>4, <2>3 DEF luaD_throw
    <3> QED BY <3>1, <2>3, <1>2, <1>4, RecoverCatches
  <2>4. CASE l.status = "ok" /\ findpcall = {}
    <3>1. Becomes([Resumed(l, e) EXCEPT !.status = "dead"], SubSeq(cs, 1, i - 1))
      BY <1>4, <2>4 DEF luaD_throw
    <3> QED BY <3>1, <2>4, <1>2, <1>4, DeathLeaves
  <2> QED BY <2>1, <2>2, <2>3, <2>4
<1> QED BY <1>2, <1>3, <1>4

(***************************************************************************)
(* Steps of the thread that runs, which gets state u and leaves the C      *)
(* stack c; m frames are those of which at most the last one changes       *)
(***************************************************************************)
StackStep(c, k, m) ==
  Prefix(cs, c, k) /\ InTail(cs, L, k, m) /\ InTail(c, L, k, m) /\ c[Len(c)].th = L
LEMMA LocalInside ==
  ASSUME CInv, NEW u, NEW c, NEW k, NEW m, Becomes(u, c), u.status # "dead",
         StackStep(c, k, m), SameFrames(l.ci, u.ci, m)
  PROVE  Inside(th, cs, th', cs', L, k, m)
BY BecomesRight DEF Inside, StackStep
LEMMA LocalSame ==
  ASSUME CInv, CInv', NEW u, NEW c, NEW k, Becomes(u, c), u.status # "dead",
         StackStep(c, k, Len(l.ci)), SameFrames(l.ci, u.ci, Len(l.ci)), Len(u.ci) = Len(l.ci)
  PROVE  UNCHANGED Coroutines!cvars
<1>1. Inside(th, cs, th', cs', L, k, Len(l.ci)) BY LocalInside
<1>2. th'[L] = u /\ th[L] = l BY BecomesRight
<1> QED BY <1>1, <1>2, InsideSame
LEMMA LocalCall ==
  ASSUME CInv, CInv', NEW u, NEW c, NEW k, Becomes(u, c), u.status # "dead", Len(l.ci) >= 1,
         StackStep(c, k, Len(l.ci)), SameFrames(l.ci, u.ci, Len(l.ci)), Len(u.ci) = Len(l.ci) + 1
  PROVE  Coroutines!CNext
<1>1. Inside(th, cs, th', cs', L, k, Len(l.ci)) BY LocalInside
<1>2. th'[L] = u /\ th[L] = l BY BecomesRight
<1> QED BY <1>1, <1>2, InsideCall
LEMMA LocalReturn ==
  ASSUME CInv, CInv', NEW u, NEW c, NEW k, Becomes(u, c), u.status # "dead",
         StackStep(c, k, Len(u.ci)), SameFrames(l.ci, u.ci, Len(u.ci)), Len(l.ci) = Len(u.ci) + 1
  PROVE  Coroutines!CNext
<1>1. Inside(th, cs, th', cs', L, k, Len(u.ci)) BY LocalInside
<1>2. th'[L] = u /\ th[L] = l BY BecomesRight
<1> QED BY <1>1, <1>2, InsideReturn

\* What becomes of the C stack.
LEMMA StackSame ==
  ASSUME CInv, NEW m
  PROVE  StackStep(cs, Len(cs), m)
<1>1. Len(cs) \in Nat /\ Len(cs) >= 1 /\ L = cs[Len(cs)].th BY Running DEF Current
<1>2. Prefix(cs, cs, Len(cs)) BY <1>1 DEF Prefix
<1>3. InTail(cs, L, Len(cs), m) BY <1>1 DEF InTail
<1> QED BY <1>1, <1>2, <1>3 DEF StackStep
LEMMA StackOn ==
  ASSUME NEW c \in Seq(CEntry), NEW k, NEW m, StackStep(c, k, m), Len(cs) \in Nat,
         NEW f \in CEntry, f.th = L, f.kind # "resume", f.kind = "pcall" => f.ci >= m
  PROVE  StackStep(Append(c, f), k, m) /\ Append(c, f) \in Seq(CEntry)
<1> DEFINE D == Append(c, f)
<1>1. /\ D \in Seq(CEntry) /\ Len(D) = Len(c) + 1 /\ Len(c) \in Nat /\ D[Len(c) + 1] = f
      /\ \A i \in 1..Len(c) : D[i] = c[i]
  OBVIOUS
<1> HIDE DEF D
<1>2. k \in 1..Len(cs) /\ k <= Len(c) /\ \A i \in 1..k : c[i] = cs[i] BY DEF StackStep, Prefix
<1>3. Prefix(cs, D, k) BY <1>1, <1>2 DEF Prefix
<1>4. InTail(D, L, k, m)
  <2>1. ASSUME NEW i \in k + 1..Len(D)
        PROVE  D[i].th = L /\ D[i].kind # "resume" /\ (D[i].kind = "pcall" => D[i].ci >= m)
    <3>1. CASE i = Len(c) + 1 BY <3>1, <1>1
    <3>2. CASE i # Len(c) + 1
      <4>1. i \in k + 1..Len(c) /\ i \in 1..Len(c) BY <3>2, <1>1, <1>2
      <4> QED BY <4>1, <1>1 DEF StackStep, InTail
    <3> QED BY <3>1, <3>2
  <2> QED BY <2>1 DEF InTail
<1> QED BY <1>1, <1>3, <1>4 DEF StackStep, D
LEMMA StackPush ==
  ASSUME CInv, NEW m, NEW f \in CEntry, f.th = L, f.kind # "resume", f.kind = "pcall" => f.ci >= m
  PROVE  StackStep(Append(cs, f), Len(cs), m) /\ Append(cs, f) \in Seq(CEntry)
<1>1. cs \in Seq(CEntry) /\ Len(cs) \in Nat BY Running DEF Typical
<1> QED BY <1>1, StackSame, StackOn
\* The top entry goes, or another one replaces it.
LEMMA StackTail ==
  ASSUME CInv, NEW m, Len(cs) >= 2, Top(cs).kind # "resume", Top(cs).kind = "pcall" => Top(cs).ci >= m
  PROVE  /\ Len(cs) \in Nat /\ Len(cs) - 1 \in 1..Len(cs) /\ InTail(cs, L, Len(cs) - 1, m)
         /\ cs[Len(cs) - 1].th = L
<1>1. /\ Len(cs) \in Nat /\ L = cs[Len(cs)].th /\ Top(cs) = cs[Len(cs)]
  BY Running DEF Current
<1>2. \A i \in (Len(cs) - 1) + 1..Len(cs) : i = Len(cs) BY <1>1
<1>3. InTail(cs, L, Len(cs) - 1, m) BY <1>1, <1>2 DEF InTail
<1>4. cs[Len(cs) - 1].th = L
  <2>1. Over(cs[(Len(cs) - 1) + 1], cs[Len(cs) - 1])
    <3>1. Len(cs) - 1 \in 1..Len(cs) - 1 BY <1>1
    <3> QED BY <3>1 DEF CInv, Core, Shape
  <2>2. (Len(cs) - 1) + 1 = Len(cs) BY <1>1
  <2> QED BY <2>1, <2>2, <1>1 DEF Over
<1> QED BY <1>1, <1>3, <1>4
LEMMA StackPop ==
  ASSUME CInv, NEW m, Len(cs) >= 2, Top(cs).kind # "resume", Top(cs).kind = "pcall" => Top(cs).ci >= m
  PROVE  StackStep(Pop(cs), Len(cs) - 1, m)
<1> DEFINE D == Pop(cs)
           n == Len(cs)
<1>1. /\ n \in Nat /\ n - 1 \in 1..n /\ InTail(cs, L, n - 1, m) /\ cs[n - 1].th = L
  BY StackTail
<1>2. cs \in Seq(CEntry) BY Running DEF Typical
<1>3. Kept(cs, D, n - 1) BY <1>2, PopKeeps
<1> HIDE DEF D, n
<1>4. Len(D) = n - 1 /\ \A i \in 1..n - 1 : D[i] = cs[i] BY <1>3 DEF Kept
<1>5. Prefix(cs, D, n - 1) BY <1>1, <1>4 DEF Prefix, n
<1>6. InTail(D, L, n - 1, m) BY <1>1, <1>4 DEF InTail
<1>7. D[Len(D)].th = L
  <2>1. n - 1 \in 1..n - 1 BY <1>1
  <2> QED BY <2>1, <1>1, <1>4
<1> QED BY <1>1, <1>5, <1>6, <1>7 DEF StackStep, D, n
LEMMA StackTurn ==
  ASSUME CInv, NEW m, Len(cs) >= 2, Top(cs).kind \notin {"resume", "pcall"},
         NEW x \in CEntry, x.th = L, x.kind \notin {"resume", "pcall"}
  PROVE  StackStep(SetTop(cs, x), Len(cs) - 1, m) /\ SetTop(cs, x) \in Seq(CEntry)
<1> DEFINE D == SetTop(cs, x)
           n == Len(cs)
<1>1. /\ n \in Nat /\ n - 1 \in 1..n /\ InTail(cs, L, n - 1, m) BY StackTail
<1>2. cs \in Seq(CEntry) BY Running DEF Typical
<1>3. D \in Seq(CEntry) /\ Len(D) = n /\ D[n] = x /\ \A i \in 1..n - 1 : D[i] = cs[i]
  BY <1>1, <1>2, SetTopSets
<1> HIDE DEF D, n
<1>4. Prefix(cs, D, n - 1) BY <1>1, <1>3 DEF Prefix, n
<1>5. InTail(D, L, n - 1, m)
  <2>1. \A i \in (n - 1) + 1..n : i = n BY <1>1
  <2> QED BY <2>1, <1>3 DEF InTail
<1> QED BY <1>1, <1>3, <1>4, <1>5 DEF StackStep, D, n

\* What becomes of the frames.
LEMMA FramesSame ==
  ASSUME CInv
  PROVE  SameFrames(l.ci, l.ci, Len(l.ci)) /\ Len(l.ci) \in Nat
BY Running DEF SameFrames, Typical
LEMMA FramesTopSet ==
  ASSUME CInv, NEW r, NEW x, TopSet(l.ci, r, x)
  PROVE  SameFrames(l.ci, r, Len(l.ci)) /\ Len(r) = Len(l.ci) /\ Len(l.ci) \in Nat
BY Running DEF SameFrames, Typical, TopSet
LEMMA FramesPush ==
  ASSUME CInv, NEW r \in Seq(Frame), Len(r) = Len(l.ci), SameFrames(l.ci, r, Len(l.ci)), NEW x \in Frame
  PROVE  SameFrames(l.ci, Append(r, x), Len(l.ci)) /\ Len(Append(r, x)) = Len(l.ci) + 1
<1> DEFINE n == Len(l.ci)
           s == Append(r, x)
<1>1. n \in Nat BY Running DEF Typical
<1>2. Len(r) = n /\ SameFrames(l.ci, r, n) OBVIOUS
<1> HIDE DEF n
<1>3. Len(s) = n + 1 /\ \A i \in 1..n : s[i] = r[i] BY <1>1, <1>2
<1> HIDE DEF s
<1>4. \A i \in 1..n - 1 : i \in 1..n BY <1>1
<1>5. n <= Len(s) BY <1>1, <1>3
<1> QED BY <1>2, <1>3, <1>4, <1>5 DEF SameFrames, n, s

\* luaD_call: an error, or a call.
Entered(t, u) == u.ci = t.ci \/ \E x \in Frame : u.ci = Append(t.ci, x)
LEMMA EnterEffect ==
  ASSUME CInv, NEW t \in State, NEW c \in Seq(CEntry),
         NEW lua \in BOOLEAN, NEW counted \in BOOLEAN, NEW ny \in BOOLEAN, NEW yp \in BOOLEAN,
         Enter(t, c, lua, counted, ny, yp)
  PROVE  \E u, f : /\ Becomes(u, Append(c, f)) /\ f \in CEntry /\ f.th = L
                   /\ f.kind \in {"raise", "throw", "exec", "cfun"}
                   /\ u.status = t.status /\ Entered(t, u)
<1> DEFINE called == [t EXCEPT !.ncc = @ + (IF counted THEN 1 ELSE 0),
                               !.nny = @ + (IF ny THEN 1 ELSE 0)]
           fails(kind) == [Here(kind) EXCEPT !.counted = counted, !.ny = ny]
           x == IF lua THEN LuaFrame(TRUE) ELSE CFrame
           f == [Entry(IF lua THEN "exec" ELSE "cfun", L) EXCEPT
                   !.ci = Len(t.ci) + 1, !.counted = counted, !.ny = ny, !.yp = yp]
<1>0. Typical BY Running
<1>1. L \in Thread /\ t.ci \in Seq(Frame) /\ Len(t.ci) \in Nat BY <1>0 DEF Typical, State
<1>2. /\ called \in State /\ called.ci = t.ci /\ called.status = t.status /\ called.big \in BOOLEAN
  <2>1. t.ncc \in Int /\ t.nny \in Int BY DEF State
  <2>2. t.ncc + (IF counted THEN 1 ELSE 0) \in Int /\ t.nny + (IF ny THEN 1 ELSE 0) \in Int
    BY <2>1
  <2>3. called \in State BY <2>2 DEF State
  <2> QED BY <2>3 DEF State
<1>3. ASSUME NEW kind \in {"raise", "throw"}
      PROVE  fails(kind) \in CEntry /\ fails(kind).kind = kind /\ fails(kind).th = L
  <2>1. kind \in Kinds BY DEF Kinds
  <2>2. Here(kind) \in CEntry /\ Here(kind).kind = kind /\ Here(kind).th = L BY <2>1, <1>0, HereRight
  <2> QED BY <2>2 DEF CEntry
<1>4. x \in Frame BY LuaFrameRight, CFrameRight
<1>5. f \in CEntry /\ f.kind \in {"exec", "cfun"} /\ f.th = L
  <2> DEFINE kind == IF lua THEN "exec" ELSE "cfun"
  <2>1. kind \in Kinds /\ kind \in {"exec", "cfun"} BY DEF Kinds
  <2>2. Entry(kind, L) \in CEntry /\ Entry(kind, L).kind = kind /\ Entry(kind, L).th = L
    BY <2>1, <1>1, EntryRight
  <2>3. Len(t.ci) + 1 \in Nat BY <1>1
  <2> HIDE DEF kind
  <2>4. f = [Entry(kind, L) EXCEPT !.ci = Len(t.ci) + 1, !.counted = counted, !.ny = ny, !.yp = yp]
    BY DEF kind
  <2>5. f \in CEntry /\ f.kind = kind /\ f.th = L BY <2>2, <2>3, <2>4 DEF CEntry
  <2> QED BY <2>1, <2>5
<1>6. \/ \E kind \in {"raise", "throw"}, big \in BOOLEAN :
           Becomes([called EXCEPT !.big = big], Append(c, fails(kind)))
      \/ Becomes(Push(called, x), Append(c, f))
  <2>1. \/ Becomes(called, Append(c, fails("raise"))) \/ Becomes(called, Append(c, fails("throw")))
        \/ Becomes([called EXCEPT !.big = TRUE], Append(c, fails("raise")))
        \/ Becomes(Push(called, x), Append(c, f))
    BY DEF Enter
  <2>2. called = [called EXCEPT !.big = called.big] /\ called.big \in BOOLEAN BY <1>2 DEF State
  <2> HIDE DEF called, fails, x, f
  <2> QED BY <2>1, <2>2
<1> HIDE DEF called, fails, x, f
<1>7. ASSUME NEW kind \in {"raise", "throw"}, NEW big \in BOOLEAN,
             Becomes([called EXCEPT !.big = big], Append(c, fails(kind)))
      PROVE  \E u, g : /\ Becomes(u, Append(c, g)) /\ g \in CEntry /\ g.th = L
                       /\ g.kind \in {"raise", "throw", "exec", "cfun"}
                       /\ u.status = t.status /\ Entered(t, u)
  <2> DEFINE u == [called EXCEPT !.big = big]
  <2>1. u.ci = t.ci /\ u.status = t.status /\ Becomes(u, Append(c, fails(kind))) BY <1>2, <1>7 DEF State
  <2> HIDE DEF u
  <2>2. Entered(t, u) BY <2>1 DEF Entered
  <2> QED BY <2>1, <2>2, <1>3
<1>8. ASSUME Becomes(Push(called, x), Append(c, f))
      PROVE  \E u, g : /\ Becomes(u, Append(c, g)) /\ g \in CEntry /\ g.th = L
                       /\ g.kind \in {"raise", "throw", "exec", "cfun"}
                       /\ u.status = t.status /\ Entered(t, u)
  <2> DEFINE u == Push(called, x)
  <2>1. u = [called EXCEPT !.ci = Append(called.ci, x)] BY DEF Push
  <2>2. Becomes(u, Append(c, f)) BY <1>8
  <2> HIDE DEF u
  <2>3. u.ci = Append(t.ci, x) /\ u.status = t.status BY <2>1, <1>2 DEF State
  <2>4. Entered(t, u) BY <2>3, <1>4 DEF Entered
  <2> QED BY <2>2, <2>3, <2>4, <1>5
<1> QED BY <1>6, <1>7, <1>8

LEMMA EnterRefines ==
  ASSUME CInv, CInv', NEW t \in State, NEW c \in Seq(CEntry),
         NEW lua \in BOOLEAN, NEW counted \in BOOLEAN, NEW ny \in BOOLEAN, NEW yp \in BOOLEAN,
         Enter(t, c, lua, counted, ny, yp), t.status # "dead",
         NEW k, StackStep(c, k, Len(l.ci)), Len(l.ci) >= 1,
         SameFrames(l.ci, t.ci, Len(l.ci)), Len(t.ci) = Len(l.ci)
  PROVE  Coroutines!CNext \/ UNCHANGED Coroutines!cvars
<1>1. PICK u, f : /\ Becomes(u, Append(c, f)) /\ f \in CEntry /\ f.th = L
                  /\ f.kind \in {"raise", "throw", "exec", "cfun"}
                  /\ u.status = t.status /\ Entered(t, u)
  BY EnterEffect
<1>2. Len(cs) \in Nat BY Running DEF Current
<1>3. StackStep(Append(c, f), k, Len(l.ci)) BY <1>1, <1>2, StackOn
<1>4. CASE u.ci = t.ci BY <1>1, <1>3, <1>4, LocalSame
<1>5. ASSUME NEW x \in Frame, u.ci = Append(t.ci, x) PROVE Coroutines!CNext
  <2>1. t.ci \in Seq(Frame) BY DEF State
  <2>2. SameFrames(l.ci, u.ci, Len(l.ci)) /\ Len(u.ci) = Len(l.ci) + 1 BY <2>1, <1>5, FramesPush
  <2> QED BY <1>1, <1>3, <2>2, LocalCall
<1> QED BY <1>1, <1>4, <1>5 DEF Entered

\* Where an error is raised there is a frame.
LEMMA RaisedAbove ==
  ASSUME CInv, Top(cs).kind = "raise"
  PROVE  Len(l.ci) >= 1
<1> DEFINE n == Len(cs)
<1>1. Typical /\ Current BY Running
<1>2. n \in Nat /\ n >= 1 /\ n # 1 /\ L = cs[n].th /\ cs[n] = Top(cs) /\ cs[n].ci = Len(l.ci) /\ Len(l.ci) \in Nat
      /\ L \in Thread /\ n = Len(cs)
  BY <1>1 DEF Typical, Current, Works
<1>3. Shape(cs) /\ Frames(th, cs) BY DEF CInv, Core
<1> HIDE DEF n
<1>4. n >= 2 BY <1>2, NotAlone
<1>5. ASSUME NEW i \in 1..n - 1, cs[i].th = L, cs[i].kind \in {"exec", "cfun", "ret"}
      PROVE  Len(l.ci) >= 1
  <2>1. i \in 1..n /\ n \in 1..n BY <1>2
  <2>2. Framed(th, cs, i) BY <2>1, <1>2, <1>3 DEF Frames
  <2> DEFINE h == Height(th, cs, i)
  <2>3. h \in 0..Len(th[L].ci) /\ (cs[i].kind = "exec" => cs[i].ci \in 1..h)
        /\ (cs[i].kind \in {"cfun", "ret"} => h >= 1)
    BY <2>2, <1>5 DEF Framed, Works
  <2>4. h <= cs[n].ci BY <2>1, <1>2, <1>3, <1>5 DEF Frames, Owns
  <2> HIDE DEF h
  <2>5. h \in Nat /\ h >= 1 BY <2>3, <1>5
  <2> QED BY <2>4, <2>5, <1>2
<1>6. CASE L = mainthread
  <2>1. cs[1].th = L /\ cs[1].kind = "cfun" /\ 1 \in 1..n - 1 BY <1>2, <1>3, <1>4, <1>6 DEF Shape, Based
  <2> QED BY <2>1, <1>5
<1>7. CASE L # mainthread
  <2>1. n \in 1..Len(cs) BY <1>2
  <2>2. PICK r \in 2..n : cs[r].kind = "resume" /\ cs[r].th = L BY <2>1, <1>2, <1>3, <1>7 DEF Shape, ResumedOnce
  <2>3. r # n BY <2>2, <1>2
  <2>4. r \in 1..n - 1 /\ r + 1 \in 1..n /\ r \in 1..n BY <2>2, <2>3, <1>2
  <2>5. ASSUME NEW i \in r..n PROVE cs[i].th = L
    <3>1. i \in r..n /\ r \in 1..Len(cs) /\ n \in 1..Len(cs) BY <2>4, <2>1, <1>2
    <3> QED BY <3>1, <2>2, <1>2, <1>3 DEF Shape, Together
  <2>6. Over(cs[r + 1], cs[r]) BY <2>4, <1>2, <1>3 DEF Shape
  <2>7. cs[r + 1].kind \in {"exec", "cfun", "unroll"}
    <3>1. Holds(cs[r + 1]) BY <2>4, <1>2, <1>3 DEF Shape
    <3> QED BY <3>1, <2>2, <2>6 DEF Over, Holds, Kinds
  <2>8. r + 1 # n BY <2>7, <1>2
  <2>9. r + 1 \in 1..n - 1 /\ r + 2 \in 1..n /\ r + 1 \in r..n /\ (r + 1) + 1 = r + 2 /\ r + 2 \in r..n
    BY <2>4, <2>8, <1>2
  <2>10. CASE cs[r + 1].kind # "unroll"
    <3>1. cs[r + 1].th = L /\ cs[r + 1].kind \in {"exec", "cfun", "ret"} BY <2>5, <2>7, <2>9, <2>10
    <3> QED BY <3>1, <2>9, <1>5
  <2>11. CASE cs[r + 1].kind = "unroll"
    <3>1. Over(cs[(r + 1) + 1], cs[r + 1]) BY <2>9, <1>2, <1>3 DEF Shape
    <3>2. Over(cs[r + 2], cs[r + 1]) BY <3>1, <2>9
    <3>3. Holds(cs[r + 2]) BY <2>9, <1>2, <1>3 DEF Shape
    <3>4. cs[r + 2].kind \in {"exec", "cfun", "ret"}
      BY <3>2, <3>3, <2>11 DEF Over, Holds, Kinds
    <3>5. r + 2 # n BY <3>4, <1>2
    <3>6. r + 2 \in 1..n - 1 BY <3>5, <2>9, <1>2
    <3>7. cs[r + 2].th = L BY <2>5, <2>9
    <3> QED BY <3>4, <3>6, <3>7, <1>5
  <2> QED BY <2>10, <2>11
<1> QED BY <1>6, <1>7

(***************************************************************************)
(* Calls and returns                                                       *)
(***************************************************************************)
LEMMA InterruptSeen ==
  ASSUME CallAssumption, CInv, Executes, NEW op \in {"call", "metamethod"}
  PROVE  /\ Interrupt(op) \in State /\ Interrupt(op).status # "dead" /\ Len(l.ci) >= 1
         /\ SameFrames(l.ci, Interrupt(op).ci, Len(l.ci)) /\ Len(Interrupt(op).ci) = Len(l.ci)
<1> DEFINE x == [ci EXCEPT !.op = op]
           u == Interrupt(op)
<1>1. Len(l.ci) >= 1 /\ ci.lua /\ ~ci.yp /\ ci \in Frame /\ l.status = "ok" BY TopFrame
<1>2. x \in Frame /\ x.lua = ci.lua /\ x.fresh = ci.fresh /\ ~x.yp BY <1>1 DEF Frame
<1>3. u = [l EXCEPT !.ci = SetTop(@, x)] BY DEF Interrupt
<1> HIDE DEF x, u
<1>4. u \in State /\ Same(l, u) /\ TopSet(l.ci, u.ci, x) BY <1>2, <1>3, TopTouched
<1>5. SameFrames(l.ci, u.ci, Len(l.ci)) /\ Len(u.ci) = Len(l.ci) BY <1>4, FramesTopSet
<1>6. u.status # "dead" BY <1>1, <1>4 DEF Same
<1> QED BY <1>1, <1>4, <1>5, <1>6 DEF u

LEMMA CallCRefines ==
  ASSUME CallAssumption, CInv, CInv', CallC
  PROVE  Coroutines!CNext \/ UNCHANGED Coroutines!cvars
<1>1. Executes /\ Enter(Interrupt("call"), cs, FALSE, FALSE, FALSE, FALSE) BY DEF CallC
<1>2. /\ Interrupt("call") \in State /\ Interrupt("call").status # "dead" /\ Len(l.ci) >= 1
      /\ SameFrames(l.ci, Interrupt("call").ci, Len(l.ci)) /\ Len(Interrupt("call").ci) = Len(l.ci)
  BY <1>1, InterruptSeen
<1>3. cs \in Seq(CEntry) /\ StackStep(cs, Len(cs), Len(l.ci)) BY Running, StackSame DEF Typical
<1> QED BY <1>1, <1>2, <1>3, EnterRefines
LEMMA CallTMRefines ==
  ASSUME CallAssumption, CInv, CInv', NEW lua \in BOOLEAN, CallTM(lua)
  PROVE  Coroutines!CNext \/ UNCHANGED Coroutines!cvars
<1> DEFINE t == Interrupt("metamethod")
<1>1. Executes /\ Enter(t, cs, lua, TRUE, FALSE, FALSE) BY DEF CallTM
<1>2. /\ t \in State /\ t.status # "dead" /\ Len(l.ci) >= 1
      /\ SameFrames(l.ci, t.ci, Len(l.ci)) /\ Len(t.ci) = Len(l.ci)
  BY <1>1, InterruptSeen
<1> HIDE DEF t
<1>3. cs \in Seq(CEntry) /\ StackStep(cs, Len(cs), Len(l.ci)) BY Running, StackSame DEF Typical
<1> QED BY <1>1, <1>2, <1>3, EnterRefines
LEMMA CallLuaRefines ==
  ASSUME CallAssumption, CInv, CInv', CallLua
  PROVE  Coroutines!CNext \/ UNCHANGED Coroutines!cvars
<1> DEFINE t == Interrupt("call")
<1>1. Executes BY DEF CallLua
<1>2. /\ t \in State /\ t.status # "dead" /\ Len(l.ci) >= 1
      /\ SameFrames(l.ci, t.ci, Len(l.ci)) /\ Len(t.ci) = Len(l.ci)
  BY <1>1, InterruptSeen
<1>3. \/ \E kind \in {"raise", "throw"} : Becomes([t EXCEPT !.big = TRUE], Append(cs, Here(kind)))
      \/ Becomes(Push(t, LuaFrame(FALSE)), cs)
  BY DEF CallLua
<1> HIDE DEF t
<1>4. ASSUME NEW kind \in {"raise", "throw"}, Becomes([t EXCEPT !.big = TRUE], Append(cs, Here(kind)))
      PROVE  UNCHANGED Coroutines!cvars
  <2> DEFINE u == [t EXCEPT !.big = TRUE]
  <2>1. u.ci = t.ci /\ u.status = t.status /\ Becomes(u, Append(cs, Here(kind))) BY <1>2, <1>4 DEF State
  <2> HIDE DEF u
  <2>2. kind \in Kinds BY DEF Kinds
  <2>3. Here(kind) \in CEntry /\ Here(kind).kind = kind /\ Here(kind).th = L BY <2>2, HereRight, Running
  <2>4. StackStep(Append(cs, Here(kind)), Len(cs), Len(l.ci)) BY <2>3, StackPush
  <2> QED BY <2>1, <2>4, <1>2, LocalSame
<1>5. ASSUME Becomes(Push(t, LuaFrame(FALSE)), cs) PROVE Coroutines!CNext
  <2> DEFINE x == LuaFrame(FALSE)
             u == Push(t, x)
  <2>1. x \in Frame BY LuaFrameRight
  <2> HIDE DEF x
  <2>2. u.ci = Append(t.ci, x) /\ u.status = t.status /\ t.ci \in Seq(Frame) BY <1>2 DEF Push, State
  <2>3. Becomes(u, cs) BY <1>5 DEF x
  <2> HIDE DEF u
  <2>4. SameFrames(l.ci, u.ci, Len(l.ci)) /\ Len(u.ci) = Len(l.ci) + 1 BY <2>1, <2>2, <1>2, FramesPush
  <2>5. StackStep(cs, Len(cs), Len(l.ci)) BY StackSame
  <2> QED BY <2>2, <2>3, <2>4, <2>5, <1>2, LocalCall
<1> QED BY <1>3, <1>4, <1>5

LEMMA lua_callkRefines ==
  ASSUME CallAssumption, CInv, CInv', NEW lua \in BOOLEAN, NEW k \in Ks, lua_callk(k, lua)
  PROVE  Coroutines!CNext \/ UNCHANGED Coroutines!cvars
<1>1. InC BY DEF lua_callk
<1>2. /\ l.status = "ok" /\ Len(l.ci) >= 1 /\ ~ci.yp /\ ci = l.ci[Len(l.ci)] /\ ci \in Frame
  BY <1>1, CFunctionRuns
<1>3. cs \in Seq(CEntry) /\ l \in State /\ StackStep(cs, Len(cs), Len(l.ci))
  BY Running, StackSame DEF Typical
<1>4. CASE k = "some" /\ l.nny = 0
  <2> DEFINE x == [ci EXCEPT !.k = k]
             u == [l EXCEPT !.ci = SetTop(@, x)]
  <2>1. At("cfun") BY <1>1, <1>4 DEF Ks, InC
  <2>2. k \in {"none", "some", "junk"} BY DEF Ks
  <2>3. x \in Frame /\ x.lua = ci.lua /\ x.fresh = ci.fresh /\ ~x.yp BY <2>2, <1>2 DEF Frame
  <2>4. Enter(u, cs, lua, TRUE, FALSE, FALSE) BY <1>4 DEF lua_callk
  <2> HIDE DEF x
  <2>5. u \in State /\ Same(l, u) /\ TopSet(l.ci, u.ci, x) BY <2>1, <2>3, TopTouched
  <2> HIDE DEF u
  <2>6. SameFrames(l.ci, u.ci, Len(l.ci)) /\ Len(u.ci) = Len(l.ci) BY <2>5, FramesTopSet
  <2>7. u.status # "dead" BY <2>5, <1>2 DEF Same
  <2> QED BY <2>4, <2>5, <2>6, <2>7, <1>2, <1>3, EnterRefines
<1>5. CASE ~(k = "some" /\ l.nny = 0)
  <2>1. Enter(l, cs, lua, TRUE, TRUE, FALSE) BY <1>5 DEF lua_callk
  <2>2. SameFrames(l.ci, l.ci, Len(l.ci)) BY FramesSame
  <2>3. l.status # "dead" BY <1>2
  <2> QED BY <2>1, <2>2, <2>3, <1>2, <1>3, EnterRefines
<1> QED BY <1>4, <1>5

LEMMA PcallSeen ==
  ASSUME CInv, NEW h \in Handlers
  PROVE  Pcall(h) \in CEntry /\ Pcall(h).kind = "pcall" /\ Pcall(h).th = L /\ Pcall(h).ci = Len(l.ci)
<1>1. Typical BY Running
<1>2. "pcall" \in Kinds BY DEF Kinds
<1>3. /\ Here("pcall") \in CEntry /\ Here("pcall").kind = "pcall" /\ Here("pcall").th = L
      /\ Here("pcall").ci = Len(l.ci)
  BY <1>1, <1>2, HereRight
<1>4. l.nny \in Int /\ l.ncc \in Int /\ l.errfunc \in Handlers /\ l.allowhook \in BOOLEAN
  BY <1>1 DEF Typical, State
<1> QED BY <1>3, <1>4 DEF Pcall, CEntry

LEMMA lua_pcallkRefines ==
  ASSUME CallAssumption, CInv, CInv', NEW lua \in BOOLEAN, NEW k \in Ks, NEW h \in Handlers,
         lua_pcallk(k, h, lua)
  PROVE  Coroutines!CNext \/ UNCHANGED Coroutines!cvars
<1>1. Typical /\ Current BY Running
<1>2. l \in State /\ l.ci \in Seq(Frame) /\ Len(l.ci) \in Nat /\ cs \in Seq(CEntry)
  BY <1>1 DEF Typical
<1>3. l.status = "ok" /\ Len(l.ci) >= 1 /\ ci = l.ci[Len(l.ci)] /\ ci \in Frame
  <2>1. CASE InC BY <2>1, CFunctionRuns
  <2>2. CASE Host
    <3>1. At("cfun") BY <2>2, <1>1 DEF Host, Current, At
    <3>2. l.status = "ok" /\ Len(l.ci) >= 1 BY <3>1, TopFrame
    <3> QED BY <3>2, TopFrame
  <2> QED BY <2>1, <2>2 DEF lua_pcallk
<1>4. l.status # "dead" /\ SameFrames(l.ci, l.ci, Len(l.ci)) BY <1>3, FramesSame
<1>5. CASE k = "none" \/ l.nny > 0
  <2> DEFINE u == [l EXCEPT !.errfunc = h]
             D == Append(cs, Pcall(h))
  <2>1. Enter(u, D, lua, TRUE, TRUE, FALSE) BY <1>5 DEF lua_pcallk
  <2>2. u \in State /\ u.ci = l.ci /\ u.status = l.status BY <1>2 DEF State
  <2>3. Pcall(h) \in CEntry /\ Pcall(h).kind = "pcall" /\ Pcall(h).th = L /\ Pcall(h).ci = Len(l.ci)
    BY PcallSeen
  <2>4. D \in Seq(CEntry) /\ StackStep(D, Len(cs), Len(l.ci)) BY <2>3, <1>2, StackPush
  <2> HIDE DEF u, D
  <2> QED BY <2>1, <2>2, <2>4, <1>3, <1>4, EnterRefines
<1>6. CASE ~(k = "none" \/ l.nny > 0)
  <2> DEFINE x == Ypcall(k, h)
             u == [l EXCEPT !.errfunc = h, !.ci = SetTop(@, x)]
  <2>1. Enter(u, cs, lua, TRUE, FALSE, TRUE) BY <1>6 DEF lua_pcallk
  <2>2. x \in Frame
    <3>1. l.errfunc \in Handlers /\ l.allowhook \in BOOLEAN BY <1>2 DEF State
    <3>2. k \in {"none", "some", "junk"} BY DEF Ks
    <3> QED BY <3>1, <3>2, <1>3 DEF Ypcall, Frame
  <2> HIDE DEF x
  <2>3. SetTop(l.ci, x) \in Seq(Frame) /\ TopSet(l.ci, SetTop(l.ci, x), x)
    BY <2>2, <1>2, <1>3 DEF TopSet, SetTop, Top
  <2>4. u \in State /\ u.ci = SetTop(l.ci, x) /\ u.status = l.status BY <2>3, <1>2 DEF State
  <2> HIDE DEF u
  <2>5. SameFrames(l.ci, u.ci, Len(l.ci)) /\ Len(u.ci) = Len(l.ci) BY <2>3, <2>4, FramesTopSet
  <2>6. StackStep(cs, Len(cs), Len(l.ci)) BY StackSame
  <2> QED BY <2>1, <2>4, <2>5, <2>6, <1>2, <1>3, <1>4, EnterRefines
<1> QED BY <1>5, <1>6

LEMMA luaG_errormsgRefines ==
  ASSUME CallAssumption, CInv, CInv', NEW lua \in BOOLEAN, luaG_errormsg(lua)
  PROVE  Coroutines!CNext \/ UNCHANGED Coroutines!cvars
<1> DEFINE x == [Top(cs) EXCEPT !.kind = "throw"]
           D == SetTop(cs, x)
<1>1. Typical /\ Current BY Running
<1>2. Top(cs).kind = "raise" BY DEF luaG_errormsg, At
<1>3. Becomes(l, D) \/ Enter(l, D, lua, TRUE, TRUE, FALSE) BY DEF luaG_errormsg
<1>4. x \in CEntry /\ x.th = L /\ x.kind = "throw" BY <1>1 DEF Current, CEntry, Kinds
<1> HIDE DEF x
<1>5. l \in State /\ l.status # "dead" /\ Len(cs) \in Nat /\ Len(cs) >= 1 /\ Len(cs) # 1
      /\ Len(l.ci) \in Nat
  BY <1>1, <1>2 DEF Typical, Current
<1>6. Len(cs) >= 2 BY <1>5, NotAlone
<1>7. D \in Seq(CEntry) /\ StackStep(D, Len(cs) - 1, Len(l.ci)) BY <1>2, <1>4, <1>6, StackTurn
<1>8. SameFrames(l.ci, l.ci, Len(l.ci)) BY FramesSame
<1> HIDE DEF D
<1>9. CASE Becomes(l, D) BY <1>5, <1>7, <1>8, <1>9, LocalSame
<1>10. CASE Enter(l, D, lua, TRUE, TRUE, FALSE)
  <2>1. Len(l.ci) >= 1 BY <1>2, RaisedAbove
  <2> QED BY <2>1, <1>5, <1>7, <1>8, <1>10, EnterRefines
<1> QED BY <1>3, <1>9, <1>10

\* The last frame changes, if there is one.
LEMMA SetTopShort ==
  ASSUME NEW s \in Seq(Frame), NEW x, Len(s) >= 1 => x \in Frame
  PROVE  Len(SetTop(s, x)) = Len(s) /\ \A i \in 1..Len(s) - 1 : SetTop(s, x)[i] = s[i]
<1>1. Len(s) \in Nat OBVIOUS
<1>2. CASE Len(s) >= 1 BY <1>1, <1>2, SetTopSets
<1>3. CASE ~(Len(s) >= 1)
  <2>1. Len(s) = 0 BY <1>1, <1>3
  <2>2. s = << >> BY <2>1
  <2>3. SetTop(s, x) = << >> BY <2>2 DEF SetTop
  <2> QED BY <2>2, <2>3
<1> QED BY <1>2, <1>3

\* The frames without the last one.
Fewer(s, r) == Len(r) = Len(s) - 1 /\ \A i \in 1..Len(s) - 2 : r[i] = s[i]
LEMMA FewerFrames ==
  ASSUME CInv, Len(l.ci) >= 1, NEW r, Fewer(l.ci, r)
  PROVE  SameFrames(l.ci, r, Len(r)) /\ Len(l.ci) = Len(r) + 1
<1> DEFINE n == Len(l.ci)
<1>1. n \in Nat BY Running DEF Typical
<1>2. Len(r) = n - 1 /\ \A i \in 1..n - 2 : r[i] = l.ci[i] BY DEF Fewer
<1>3. n >= 1 /\ n = Len(l.ci) OBVIOUS
<1> HIDE DEF n
<1>4. \A i \in 1..Len(r) - 1 : i \in 1..n - 2 BY <1>1, <1>2
<1>5. Len(r) <= n /\ n = Len(r) + 1 BY <1>1, <1>2
<1> QED BY <1>2, <1>3, <1>4, <1>5 DEF SameFrames
LEMMA PopFewer ==
  ASSUME NEW s \in Seq(Frame), Len(s) >= 1
  PROVE  Pop(s) \in Seq(Frame) /\ Len(Pop(s)) = Len(s) - 1 /\ Fewer(s, Pop(s))
<1>1. Len(s) \in Nat OBVIOUS
<1>2. Pop(s) \in Seq(Frame) /\ Len(Pop(s)) = Len(s) - 1 /\ \A i \in 1..Len(s) - 1 : Pop(s)[i] = s[i]
  <2>1. Len(s) - 1 \in 1..Len(s) \/ Len(s) - 1 = 0
    <3> DEFINE n == Len(s)
    <3>1. n \in Nat /\ n >= 1 BY <1>1
    <3> HIDE DEF n
    <3>2. n - 1 \in 1..n \/ n - 1 = 0 BY <3>1
    <3> QED BY <3>2 DEF n
  <2>2. Pop(s) \in Seq(Frame) /\ Len(Pop(s)) = Len(s) - 1 BY <1>1, <2>1 DEF Pop
  <2>3. \A i \in 1..Len(s) - 1 : Pop(s)[i] = s[i] BY <1>1 DEF Pop
  <2> QED BY <2>2, <2>3
<1>3. \A i \in 1..Len(s) - 2 : i \in 1..Len(s) - 1 BY <1>1
<1> QED BY <1>2, <1>3 DEF Fewer
LEMMA SetTopFewer ==
  ASSUME NEW s \in Seq(Frame), Len(s) >= 1, NEW r \in Seq(Frame), Fewer(s, r), NEW x,
         Len(r) >= 1 => x \in Frame
  PROVE  Fewer(s, SetTop(r, x))
<1>1. Len(s) \in Nat /\ Len(r) = Len(s) - 1 BY DEF Fewer
<1>2. Len(SetTop(r, x)) = Len(r) /\ \A i \in 1..Len(r) - 1 : SetTop(r, x)[i] = r[i] BY SetTopShort
<1>3. \A i \in 1..Len(s) - 2 : i \in 1..Len(r) - 1 BY <1>1
<1> QED BY <1>1, <1>2, <1>3 DEF Fewer

LEMMA BackSeen ==
  ASSUME CInv, Len(l.ci) >= 1, NEW v, v = Back([l EXCEPT !.ci = Pop(@)], Top(cs))
  PROVE  v.status = l.status /\ Fewer(l.ci, v.ci)
<1> DEFINE t == [l EXCEPT !.ci = Pop(@)]
           e == Top(cs)
           u == Back0(t, e)
           f == Top(u.ci)
           x == [f EXCEPT !.yp = FALSE]
           y == [f EXCEPT !.op = "none"]
<1>1. l \in State /\ l.ci \in Seq(Frame) /\ e \in CEntry BY Running DEF Typical, Current
<1>2. Pop(l.ci) \in Seq(Frame) /\ Fewer(l.ci, Pop(l.ci)) BY <1>1, PopFewer
<1>3. t \in State /\ t.ci = Pop(l.ci) /\ t.status = l.status BY <1>1, <1>2 DEF State
<1> HIDE DEF t, e
<1>4. u \in State /\ u.ci = t.ci /\ u.status = t.status
  <2>1. t.ncc \in Int /\ t.nny \in Int BY <1>3 DEF State
  <2>2. t.ncc - (IF e.counted THEN 1 ELSE 0) \in Int /\ t.nny - (IF e.ny THEN 1 ELSE 0) \in Int
    BY <2>1
  <2> QED BY <2>2, <1>3 DEF State, Back0
<1>5. v = IF e.yp THEN [u EXCEPT !.ci = SetTop(@, x), !.errfunc = f.oef]
          ELSE IF u.ci # << >> /\ f.lua /\ Len(cs) > 1 /\ cs[Len(cs) - 1].kind = "exec"
               THEN [u EXCEPT !.ci = SetTop(@, y)] ELSE u
  BY DEF Back, Back0, t, e
<1> HIDE DEF u
<1>6. u.ci \in Seq(Frame) /\ Fewer(l.ci, u.ci) BY <1>2, <1>3, <1>4
<1>7. Len(u.ci) >= 1 => f \in Frame BY <1>6 DEF Top
<1>8. Len(u.ci) >= 1 => x \in Frame /\ y \in Frame BY <1>7 DEF Frame
<1>9. v = [u EXCEPT !.ci = SetTop(@, x), !.errfunc = f.oef] \/ v = [u EXCEPT !.ci = SetTop(@, y)] \/ v = u
  BY <1>5
<1> HIDE DEF f, x, y
<1>10. v.status = u.status /\ (v.ci = SetTop(u.ci, x) \/ v.ci = SetTop(u.ci, y) \/ v.ci = u.ci)
  BY <1>4, <1>9 DEF State
<1>11. Fewer(l.ci, SetTop(u.ci, x)) /\ Fewer(l.ci, SetTop(u.ci, y)) BY <1>1, <1>6, <1>8, SetTopFewer
<1> QED BY <1>3, <1>4, <1>6, <1>10, <1>11

LEMMA BackRefines ==
  ASSUME CallAssumption, CInv, CInv', l.status = "ok", Len(cs) >= 2,
         Top(cs).kind \in {"exec", "cfun", "ret"}, Len(l.ci) >= 1,
         Becomes(Back([l EXCEPT !.ci = Pop(@)], Top(cs)), Pop(cs))
  PROVE  Coroutines!CNext
<1> DEFINE v == Back([l EXCEPT !.ci = Pop(@)], Top(cs))
<1>1. v.status = l.status /\ Fewer(l.ci, v.ci) BY BackSeen
<1>2. Becomes(v, Pop(cs)) OBVIOUS
<1> HIDE DEF v
<1>3. SameFrames(l.ci, v.ci, Len(v.ci)) /\ Len(l.ci) = Len(v.ci) + 1 BY <1>1, FewerFrames
<1>4. StackStep(Pop(cs), Len(cs) - 1, Len(v.ci)) BY StackPop
<1>5. v.status # "dead" BY <1>1
<1> QED BY <1>2, <1>3, <1>4, <1>5, LocalReturn

LEMMA CReturnRefines ==
  ASSUME CallAssumption, CInv, CInv', CReturn
  PROVE  Coroutines!CNext
<1>1. Typical /\ Current BY Running
<1>2. /\ Top(cs).kind \in {"cfun", "ret"} /\ Len(cs) # 1
      /\ Becomes(Back([l EXCEPT !.ci = Pop(@)], Top(cs)), Pop(cs))
  BY DEF CReturn, At, Host
<1>3. l.status = "ok" /\ Len(cs) \in Nat /\ Len(cs) >= 1 BY <1>1, <1>2 DEF Current
<1>4. Len(cs) >= 2 BY <1>2, <1>3, NotAlone
<1>5. Len(l.ci) >= 1 BY <1>1, <1>2 DEF Current, Works
<1>6. Top(cs).kind \in {"exec", "cfun", "ret"} BY <1>2
<1> QED BY <1>2, <1>3, <1>4, <1>5, <1>6, BackRefines

LEMMA LuaReturnRefines ==
  ASSUME CallAssumption, CInv, CInv', LuaReturn
  PROVE  Coroutines!CNext
<1>1. Executes BY DEF LuaReturn
<1>2. /\ Len(cs) >= 2 /\ l.status = "ok" /\ Len(l.ci) >= 1 /\ Top(cs).kind = "exec"
  BY <1>1, TopFrame DEF Executes, At
<1>3. l \in State /\ l.ci \in Seq(Frame) /\ Len(l.ci) \in Nat BY Running DEF Typical
<1>4. CASE ci.fresh
  <2>1. Becomes(Back([l EXCEPT !.ci = Pop(@)], Top(cs)), Pop(cs)) BY <1>4 DEF LuaReturn
  <2>2. Top(cs).kind \in {"exec", "cfun", "ret"} BY <1>2
  <2> QED BY <2>1, <2>2, <1>2, BackRefines
<1>5. CASE ~ci.fresh
  <2> DEFINE R == Pop(l.ci)
             x == [Top(R) EXCEPT !.op = "none"]
             t == [l EXCEPT !.ci = R]
             u == [t EXCEPT !.ci = SetTop(@, x)]
  <2>1. Becomes(u, cs) BY <1>5 DEF LuaReturn
  <2>2. R \in Seq(Frame) /\ Fewer(l.ci, R) BY <1>2, <1>3, PopFewer
  <2> HIDE DEF R
  <2>3. Len(R) >= 1 => Top(R) \in Frame BY <2>2 DEF Top
  <2>4. Len(R) >= 1 => x \in Frame BY <2>3 DEF Frame
  <2> HIDE DEF x
  <2>5. t \in State /\ t.ci = R /\ t.status = l.status BY <2>2, <1>3 DEF State
  <2> HIDE DEF t
  <2>6. u.ci = SetTop(R, x) /\ u.status = l.status BY <2>5 DEF State
  <2> HIDE DEF u
  <2>7. Fewer(l.ci, u.ci) BY <2>2, <2>4, <2>6, <1>2, <1>3, SetTopFewer
  <2>8. SameFrames(l.ci, u.ci, Len(u.ci)) /\ Len(l.ci) = Len(u.ci) + 1 BY <2>7, <1>2, FewerFrames
  <2>9. StackStep(cs, Len(cs), Len(u.ci)) BY StackSame
  <2>10. u.status # "dead" BY <2>6, <1>2
  <2> QED BY <2>1, <2>8, <2>9, <2>10, LocalReturn
<1> QED BY <1>4, <1>5

(***************************************************************************)
(* Steps that do not show                                                  *)
(***************************************************************************)
\* Only the last frame changes, if any.
LEMMA TouchUnseen ==
  ASSUME CInv, CInv', NEW u, NEW c, NEW k, Becomes(u, c), u.status # "dead", StackStep(c, k, Len(l.ci)),
         NEW x, u.ci = SetTop(l.ci, x), Len(l.ci) >= 1 => x \in Frame
  PROVE  UNCHANGED Coroutines!cvars
<1> DEFINE s == l.ci
<1>1. s \in Seq(Frame) /\ Len(s) \in Nat /\ s = l.ci BY Running DEF Typical
<1> HIDE DEF s
<1>2. Len(SetTop(s, x)) = Len(s) /\ \A i \in 1..Len(s) - 1 : SetTop(s, x)[i] = s[i] BY <1>1, SetTopShort
<1>3. SameFrames(s, SetTop(s, x), Len(s)) BY <1>1, <1>2 DEF SameFrames
<1> QED BY <1>1, <1>2, <1>3, LocalSame
LEMMA KeepUnseen ==
  ASSUME CInv, CInv', NEW u, NEW c, NEW k, Becomes(u, c), u.status # "dead", StackStep(c, k, Len(l.ci)),
         u.ci = l.ci
  PROVE  UNCHANGED Coroutines!cvars
<1>1. SameFrames(l.ci, l.ci, Len(l.ci)) BY FramesSame
<1> QED BY <1>1, LocalSame
LEMMA HereOn ==
  ASSUME CInv, NEW kind \in {"hook", "raise", "throw", "exec", "cfun"}
  PROVE  StackStep(Append(cs, Here(kind)), Len(cs), Len(l.ci))
<1>1. kind \in Kinds BY DEF Kinds
<1>2. Here(kind) \in CEntry /\ Here(kind).kind = kind /\ Here(kind).th = L BY <1>1, Running, HereRight
<1> QED BY <1>2, StackPush

LEMMA FailUnseen ==
  ASSUME CInv, CInv', RunError \/ MemoryError
  PROVE  UNCHANGED Coroutines!cvars
<1>1. PICK kind \in {"raise", "throw"} : Becomes(l, Append(cs, Here(kind))) BY DEF RunError, MemoryError
<1>2. l.status # "dead" BY Running DEF Current
<1>3. StackStep(Append(cs, Here(kind)), Len(cs), Len(l.ci)) BY HereOn
<1> QED BY <1>1, <1>2, <1>3, KeepUnseen
LEMMA PcallEndUnseen ==
  ASSUME CInv, CInv', PcallEnd
  PROVE  UNCHANGED Coroutines!cvars
<1> DEFINE u == [l EXCEPT !.errfunc = Top(cs).errfunc]
<1>1. Typical /\ Current BY Running
<1>2. Top(cs).kind = "pcall" /\ Becomes(u, Pop(cs)) BY DEF PcallEnd, At
<1>3. u.ci = l.ci /\ u.status = l.status /\ l.status # "dead" BY <1>1 DEF Typical, Current, State
<1> HIDE DEF u
<1>4. Len(cs) \in Nat /\ Len(cs) >= 1 /\ Len(cs) # 1 /\ Top(cs).ci = Len(l.ci) /\ Len(l.ci) \in Nat
  BY <1>1, <1>2 DEF Current, Works, Typical
<1>5. Len(cs) >= 2 BY <1>4, NotAlone
<1>6. StackStep(Pop(cs), Len(cs) - 1, Len(l.ci)) BY <1>2, <1>4, <1>5, StackPop
<1> QED BY <1>2, <1>3, <1>6, KeepUnseen
LEMMA HookUnseen ==
  ASSUME CInv, CInv', Hook
  PROVE  UNCHANGED Coroutines!cvars
<1>1. Executes BY DEF Hook
<1>2. l.status = "ok" /\ ci \in Frame /\ l \in State BY <1>1, TopFrame, Running DEF Typical
<1>3. CASE ci.hookyield
  <2> DEFINE x == [ci EXCEPT !.hookyield = FALSE]
             u == [l EXCEPT !.ci = SetTop(@, x)]
  <2>1. Becomes(u, cs) BY <1>3 DEF Hook
  <2>2. x \in Frame BY <1>2 DEF Frame
  <2> HIDE DEF x
  <2>3. u.ci = SetTop(l.ci, x) /\ u.status = l.status BY <1>2 DEF State
  <2> HIDE DEF u
  <2>4. StackStep(cs, Len(cs), Len(l.ci)) BY StackSame
  <2>5. u.status # "dead" BY <2>3, <1>2
  <2> QED BY <2>1, <2>2, <2>3, <2>4, <2>5, TouchUnseen
<1>4. CASE ~ci.hookyield
  <2> DEFINE u == [l EXCEPT !.allowhook = FALSE]
  <2>1. Becomes(u, Append(cs, Here("hook"))) BY <1>4 DEF Hook
  <2>2. u.ci = l.ci /\ u.status = l.status BY <1>2 DEF State
  <2> HIDE DEF u
  <2>3. StackStep(Append(cs, Here("hook")), Len(cs), Len(l.ci)) BY HereOn
  <2>4. u.status # "dead" BY <2>2, <1>2
  <2> QED BY <2>1, <2>2, <2>3, <2>4, KeepUnseen
<1> QED BY <1>3, <1>4
LEMMA HookReturnUnseen ==
  ASSUME CInv, CInv', HookReturn
  PROVE  UNCHANGED Coroutines!cvars
<1> DEFINE u == [l EXCEPT !.allowhook = TRUE]
<1>1. At("hook") /\ Top(cs).kind = "hook" BY DEF HookReturn, At
<1>2. Len(cs) >= 2 /\ Len(l.ci) >= 1 BY <1>1, TopFrame
<1>3. ci \in Frame BY <1>2, TopFrame
<1>4. l \in State /\ l.status # "dead" /\ Top(cs) \in CEntry /\ Top(cs).th = L
  BY Running DEF Typical, Current
<1>5. u \in State /\ u.ci = l.ci /\ u.status = l.status BY <1>4 DEF State
<1>6. CASE l.status = "yield"
  <2> DEFINE x == [ci EXCEPT !.hookyield = TRUE]
             v == [u EXCEPT !.ci = SetTop(@, x)]
             e == [Top(cs) EXCEPT !.kind = "throw"]
  <2>1. Becomes(v, SetTop(cs, e)) BY <1>6 DEF HookReturn
  <2>2. x \in Frame BY <1>3 DEF Frame
  <2>3. e \in CEntry /\ e.th = L /\ e.kind = "throw" BY <1>4 DEF CEntry, Kinds
  <2> HIDE DEF x, u, e
  <2>4. v.ci = SetTop(l.ci, x) /\ v.status = l.status BY <1>5 DEF State
  <2> HIDE DEF v
  <2>5. StackStep(SetTop(cs, e), Len(cs) - 1, Len(l.ci)) BY <2>3, <1>1, <1>2, StackTurn
  <2>6. v.status # "dead" BY <2>4, <1>4
  <2> QED BY <2>1, <2>2, <2>4, <2>5, <2>6, TouchUnseen
<1>7. CASE l.status # "yield"
  <2>1. Becomes(u, Pop(cs)) BY <1>7 DEF HookReturn
  <2> HIDE DEF u
  <2>2. StackStep(Pop(cs), Len(cs) - 1, Len(l.ci)) BY <1>1, <1>2, StackPop
  <2>3. u.status # "dead" BY <1>4, <1>5
  <2> QED BY <2>1, <2>2, <2>3, <1>5, KeepUnseen
<1> QED BY <1>6, <1>7
LEMMA lua_yieldkUnseen ==
  ASSUME CInv, CInv', NEW k \in Ks, lua_yieldk(k)
  PROVE  UNCHANGED Coroutines!cvars
<1>1. InC BY DEF lua_yieldk
<1>2. l.status = "ok" /\ ci \in Frame BY <1>1, CFunctionRuns
<1>3. l \in State /\ StackStep(cs, Len(cs), Len(l.ci)) BY Running, StackSame DEF Typical
<1>4. CASE l.nny > 0
  <2>1. Becomes(l, Append(cs, Here("raise"))) BY <1>4 DEF lua_yieldk
  <2>2. StackStep(Append(cs, Here("raise")), Len(cs), Len(l.ci)) /\ l.status # "dead" BY <1>2, HereOn
  <2> QED BY <2>1, <2>2, KeepUnseen
<1>5. CASE ~(l.nny > 0) /\ At("hook")
  <2> DEFINE v == [l EXCEPT !.status = "yield"]
  <2>1. Becomes(v, cs) BY <1>5 DEF lua_yieldk
  <2>2. v.ci = l.ci /\ v.status # "dead" BY <1>3 DEF State
  <2> HIDE DEF v
  <2> QED BY <2>1, <2>2, <1>3, KeepUnseen
<1>6. CASE ~(l.nny > 0) /\ ~At("hook")
  <2> DEFINE x == [ci EXCEPT !.k = k]
             v == [l EXCEPT !.status = "yield", !.ci = SetTop(@, x)]
  <2>1. Becomes(v, Append(cs, Here("throw"))) BY <1>6 DEF lua_yieldk
  <2>2. k \in {"none", "some", "junk"} BY DEF Ks
  <2>3. x \in Frame BY <2>2, <1>2 DEF Frame
  <2> HIDE DEF x
  <2>4. v.ci = SetTop(l.ci, x) /\ v.status # "dead" BY <1>3 DEF State
  <2> HIDE DEF v
  <2>5. StackStep(Append(cs, Here("throw")), Len(cs), Len(l.ci)) BY HereOn
  <2> QED BY <2>1, <2>3, <2>4, <2>5, TouchUnseen
<1> QED BY <1>4, <1>5, <1>6
LEMMA unrollUnseen ==
  ASSUME CInv, CInv', unroll
  PROVE  UNCHANGED Coroutines!cvars
<1>1. Typical /\ Current BY Running
<1>2. Top(cs).kind = "unroll" /\ At("unroll") BY DEF unroll, At
<1>3. /\ l \in State /\ l.status # "dead" /\ l.ci \in Seq(Frame) /\ Len(l.ci) \in Nat
      /\ Len(cs) \in Nat /\ Len(cs) >= 1 /\ Len(cs) # 1
  BY <1>1, <1>2 DEF Typical, Current
<1>4. CASE l.ci = << >>
  <2>1. Becomes(l, Pop(cs)) BY <1>4 DEF unroll
  <2>2. Len(cs) >= 2 BY <1>3, NotAlone
  <2>3. StackStep(Pop(cs), Len(cs) - 1, Len(l.ci)) BY <2>2, <1>2, StackPop
  <2> QED BY <2>1, <2>3, <1>3, KeepUnseen
<1>5. CASE l.ci # << >>
  <2>1. Len(l.ci) >= 1 BY <1>3, <1>5
  <2>2. ci \in Frame BY <2>1, TopFrame
  <2>3. CASE ci.lua
    <3> DEFINE x == [ci EXCEPT !.op = "none"]
               s == SetTop(l.ci, x)
               y == [Top(s) EXCEPT !.fresh = TRUE]
               u == [l EXCEPT !.ci = Fresh(s)]
    <3>1. Becomes(u, Append(cs, Here("exec"))) BY <2>3, <1>5 DEF unroll
    <3>2. x \in Frame BY <2>2 DEF Frame
    <3>3. /\ s \in Seq(Frame) /\ Len(s) = Len(l.ci) /\ Top(s) = x
          /\ \A i \in 1..Len(l.ci) - 1 : s[i] = l.ci[i]
      <4> DEFINE F == l.ci
      <4>1. F \in Seq(Frame) /\ Len(F) >= 1 BY <2>1, <1>3
      <4>2. s = SetTop(F, x) OBVIOUS
      <4> HIDE DEF F, x
      <4>3. /\ SetTop(F, x) \in Seq(Frame) /\ Len(SetTop(F, x)) = Len(F) /\ Top(SetTop(F, x)) = x
            /\ \A i \in 1..Len(F) - 1 : SetTop(F, x)[i] = F[i]
        BY <4>1, <3>2, SetTopSets
      <4> QED BY <4>2, <4>3 DEF F
    <3> HIDE DEF x, s
    <3>4. y \in Frame BY <3>2, <3>3 DEF Frame
    <3>5. u.ci = SetTop(s, y) /\ u.status = l.status BY <1>3 DEF State, Fresh
    <3> HIDE DEF y, u
    <3>6. Len(s) >= 1 BY <2>1, <3>3
    <3>7. Len(u.ci) = Len(s) /\ \A i \in 1..Len(s) - 1 : u.ci[i] = s[i] BY <3>3, <3>4, <3>5, SetTopShort
    <3>8. Len(u.ci) = Len(l.ci) /\ \A i \in 1..Len(l.ci) - 1 : u.ci[i] = l.ci[i] BY <3>3, <3>7
    <3>9. SameFrames(l.ci, u.ci, Len(l.ci)) BY <3>8, <1>3 DEF SameFrames
    <3>10. StackStep(Append(cs, Here("exec")), Len(cs), Len(l.ci)) BY HereOn
    <3>11. u.status # "dead" BY <3>5, <1>3
    <3> QED BY <3>1, <3>8, <3>9, <3>10, <3>11, LocalSame
  <2>4. CASE ~ci.lua
    <3> DEFINE x == [ci EXCEPT !.yp = FALSE]
               u == [l EXCEPT !.ci = SetTop(@, x), !.errfunc = IF ci.yp THEN ci.oef ELSE @]
    <3>1. Becomes(u, Append(cs, Here("cfun"))) BY <2>4, <1>5 DEF unroll
    <3>2. x \in Frame BY <2>2 DEF Frame
    <3> HIDE DEF x
    <3>3. u.ci = SetTop(l.ci, x) /\ u.status = l.status BY <1>3 DEF State
    <3> HIDE DEF u
    <3>4. StackStep(Append(cs, Here("cfun")), Len(cs), Len(l.ci)) BY HereOn
    <3>5. u.status # "dead" BY <3>3, <1>3
    <3> QED BY <3>1, <3>2, <3>3, <3>4, <3>5, TouchUnseen
  <2> QED BY <2>3, <2>4
<1> QED BY <1>4, <1>5

(***************************************************************************)
(* lua_resume                                                              *)
(***************************************************************************)
Restarts(T, C, S, D, t) ==
  /\ Len(C) >= 1 /\ Len(D) >= Len(C) + 1 /\ \A i \in 1..Len(C) : D[i] = C[i]
  /\ D[Len(C) + 1].kind = "resume" /\ D[Len(C) + 1].th = t
  /\ \A i \in Len(C) + 2..Len(D) : D[i].kind \notin {"resume", "pcall"}
  /\ D[Len(D)].th = t /\ ~OnCStack(C, t) /\ Others(T, S, t)
  /\ T[t].status # "dead" /\ S[t].status # "dead"
\* What the thread that is resumed has: the activations that it had, or the first one.
SeenAgain(T, C, S, D, t) ==
  Seen(S[t].ci, D, t) = IF Seen(T[t].ci, C, t) = << >> THEN <<{}>> ELSE Seen(T[t].ci, C, t)
LEMMA RestartSeen ==
  ASSUME NEW T, NEW C, NEW S, NEW D, NEW t \in Thread, Typed(T, C), Typed(S, D), Shape(C),
         Restarts(T, C, S, D, t)
  PROVE  /\ t # mainthread /\ \A x : <<x, t>> \notin Resumers(C)
         /\ Resumers(D) = Resumers(C) \cup {<<C[Len(C)].th, t>>}
         /\ Ended(S) = Ended(T) /\ t \notin Ended(T)
         /\ \A x \in Thread : x # t => Seen(S[x].ci, D, x) = Seen(T[x].ci, C, x)
         /\ \A i : PcallsIn(C, t, i) = {} /\ PcallsIn(D, t, i) = {}
<1>1. /\ Len(C) \in Nat /\ Len(D) \in Nat /\ Len(C) >= 1 /\ Len(D) >= Len(C) + 1
      /\ \A i \in 1..Len(C) : D[i] = C[i]
      /\ D[Len(C) + 1].kind = "resume" /\ D[Len(C) + 1].th = t
      /\ \A i \in Len(C) + 2..Len(D) : D[i].kind \notin {"resume", "pcall"}
      /\ ~OnCStack(C, t)
  BY DEF Typed, Restarts
<1>2. t # mainthread
  <2>1. 1 \in 1..Len(C) /\ C[1].th = mainthread BY <1>1 DEF Shape, Based
  <2> QED BY <2>1, <1>1 DEF OnCStack
<1>3. \A x : <<x, t>> \notin Resumers(C) BY <1>1 DEF Resumers, OnCStack
<1>4. {j \in 1..Len(D) : D[j].kind = "resume"} = {j \in 1..Len(C) : C[j].kind = "resume"} \cup {Len(C) + 1}
  <2>1. \A j \in 1..Len(D) : j \in 1..Len(C) \/ j = Len(C) + 1 \/ j \in Len(C) + 2..Len(D) BY <1>1
  <2>2. \A j \in 1..Len(C) : j \in 1..Len(D) BY <1>1
  <2>3. Len(C) + 1 \in 1..Len(D) BY <1>1
  <2> QED BY <2>1, <2>2, <2>3, <1>1
<1>5. ASSUME NEW j \in {i \in 1..Len(C) : C[i].kind = "resume"} PROVE D[j - 1] = C[j - 1] /\ D[j] = C[j]
  <2>1. j # 1 BY DEF Shape, Based
  <2>2. j - 1 \in 1..Len(C) BY <2>1, <1>1
  <2> QED BY <2>2, <1>1
<1>6. Resumers(D) = Resumers(C) \cup {<<C[Len(C)].th, t>>}
  <2>1. (Len(C) + 1) - 1 = Len(C) /\ Len(C) \in 1..Len(C) BY <1>1
  <2>2. D[(Len(C) + 1) - 1] = C[Len(C)] BY <2>1, <1>1
  <2>3. Resumers(C) = {<<D[j - 1].th, D[j].th>> : j \in {i \in 1..Len(C) : C[i].kind = "resume"}}
    BY <1>5 DEF Resumers
  <2>4. Resumers(D) = {<<D[j - 1].th, D[j].th>> : j \in {i \in 1..Len(C) : C[i].kind = "resume"} \cup {Len(C) + 1}}
    BY <1>4 DEF Resumers
  <2>5. <<D[(Len(C) + 1) - 1].th, D[Len(C) + 1].th>> = <<C[Len(C)].th, t>> BY <2>2, <1>1
  <2> HIDE DEF Resumers
  <2> DEFINE X == {i \in 1..Len(C) : C[i].kind = "resume"}
             m == Len(C) + 1
  <2>6. Resumers(D) = {<<D[j - 1].th, D[j].th>> : j \in X \cup {m}} BY <2>4
  <2>7. Resumers(C) = {<<D[j - 1].th, D[j].th>> : j \in X} BY <2>3
  <2>8. <<D[m - 1].th, D[m].th>> = <<C[Len(C)].th, t>> BY <2>5
  <2> HIDE DEF X, m
  <2> QED BY <2>6, <2>7, <2>8
<1>7. Ended(S) = Ended(T) /\ t \notin Ended(T) BY DEF Ended, Restarts, Others
<1>8. ASSUME NEW x \in Thread, NEW i PROVE PcallsIn(D, x, i) = PcallsIn(C, x, i)
  <2>1. \A j \in 1..Len(D) : j \in 1..Len(C) \/ D[j].kind # "pcall"
    <3>1. \A j \in 1..Len(D) : j \in 1..Len(C) \/ j = Len(C) + 1 \/ j \in Len(C) + 2..Len(D) BY <1>1
    <3> QED BY <3>1, <1>1
  <2>2. \A j \in 1..Len(C) : j \in 1..Len(D) BY <1>1
  <2> QED BY <2>1, <2>2, <1>1 DEF PcallsIn, PcallAt
<1>9. \A i : PcallsIn(C, t, i) = {} /\ PcallsIn(D, t, i) = {}
  BY <1>1, <1>8 DEF PcallsIn, PcallAt, OnCStack
<1>10. ASSUME NEW x \in Thread, x # t PROVE Seen(S[x].ci, D, x) = Seen(T[x].ci, C, x)
  <2>1. S[x] = T[x] BY <1>10 DEF Restarts, Others
  <2>2. ASSUME NEW i PROVE Shows(T[x].ci, D, x, i) = Shows(T[x].ci, C, x, i)
    <3>1. PcallsIn(D, x, i) = PcallsIn(C, x, i) BY <1>8
    <3>2. \A j \in PcallsIn(C, x, i) : D[j] = C[j] BY <1>1 DEF PcallsIn
    <3>3. {D[j].handler : j \in PcallsIn(D, x, i)} = {C[j].handler : j \in PcallsIn(C, x, i)}
      BY <3>1, <3>2
    <3> QED BY <3>3 DEF Shows
  <2> QED BY <2>1, <2>2 DEF Seen
<1> QED BY <1>2, <1>3, <1>6, <1>7, <1>9, <1>10

LEMMA RestartRefines ==
  ASSUME CInv, CInv', NEW t \in Thread, Restarts(th, cs, th', cs', t), SeenAgain(th, cs, th', cs', t)
  PROVE  Coroutines!CNext
<1>1. Typed(th, cs) /\ Typed(th', cs') /\ Shape(cs) BY DEF CInv, Core
<1>2. View /\ View' BY ViewNow, ViewThen
<1>3. /\ t # mainthread /\ \A x : <<x, t>> \notin Resumers(cs)
      /\ Resumers(cs') = Resumers(cs) \cup {<<cs[Len(cs)].th, t>>}
      /\ Ended(th') = Ended(th) /\ t \notin Ended(th)
      /\ \A x \in Thread : x # t => Seen(th'[x].ci, cs', x) = Seen(th[x].ci, cs, x)
  BY <1>1, RestartSeen
<1>4. /\ t \notin dead /\ UNCHANGED dead /\ waits' = waits \cup {<<L, t>>} /\ L' = t
      /\ \A x \in Thread : <<x, t>> \notin waits
  BY <1>2, <1>3 DEF View, Restarts
<1>5. acts = [x \in Thread |-> Seen(th[x].ci, cs, x)] BY <1>2 DEF View
<1>6. acts' = [x \in Thread |-> Seen(th'[x].ci, cs', x)] BY <1>2 DEF View
<1>7. Seen(th'[t].ci, cs', t) = IF acts[t] = << >> THEN <<{}>> ELSE acts[t] BY <1>5 DEF SeenAgain
<1>8. acts' = [acts EXCEPT ![t] = IF acts[t] = << >> THEN <<{}>> ELSE acts[t]]
  BY <1>3, <1>5, <1>6, <1>7
<1>9. Coroutines!Resume(t) BY <1>3, <1>4, <1>8 DEF Coroutines!Resume
<1> QED BY <1>9 DEF Coroutines!CNext

\* The frames of the thread before and after.
LEMMA SameAgain ==
  ASSUME NEW F \in Seq(Frame), NEW G \in Seq(Frame), NEW C, NEW D, NEW t,
         \A i : PcallsIn(C, t, i) = {} /\ PcallsIn(D, t, i) = {},
         \/ Len(F) = 0 /\ Len(G) = 1
         \/ Len(F) >= 1 /\ Len(G) = Len(F) /\ \A i \in 1..Len(F) - 1 : G[i] = F[i]
  PROVE  Seen(G, D, t) = IF Seen(F, C, t) = << >> THEN <<{}>> ELSE Seen(F, C, t)
<1>1. Len(F) \in Nat /\ Len(G) \in Nat OBVIOUS
<1>2. CASE Len(F) = 0 /\ Len(G) = 1
  <2>1. Seen(F, C, t) = << >> BY <1>2 DEF Seen
  <2>2. \A i \in 1..1 : Shows(G, D, t, i) = {} BY <1>2 DEF Shows
  <2>3. Seen(G, D, t) = [i \in 1..1 |-> {}] BY <2>2, <1>2 DEF Seen
  <2>4. [i \in 1..1 |-> {}] = <<{}>> OBVIOUS
  <2> QED BY <2>1, <2>3, <2>4
<1>3. CASE Len(F) >= 1 /\ Len(G) = Len(F) /\ \A i \in 1..Len(F) - 1 : G[i] = F[i]
  <2>1. ASSUME NEW i \in 1..Len(F) PROVE Shows(G, D, t, i) = Shows(F, C, t, i)
    <3>1. CASE i = Len(F) BY <3>1, <1>3 DEF Shows
    <3>2. CASE i # Len(F)
      <4>1. G[i] = F[i] BY <3>2, <1>1, <1>3
      <4>2. {D[j].handler : j \in PcallsIn(D, t, i)} = {} /\ {C[j].handler : j \in PcallsIn(C, t, i)} = {}
        OBVIOUS
      <4> QED BY <4>1, <4>2, <1>3 DEF Shows
    <3> QED BY <3>1, <3>2
  <2>2. Seen(G, D, t) = Seen(F, C, t) BY <2>1, <1>3 DEF Seen
  <2>3. Seen(F, C, t) # << >>
    <3>1. DOMAIN Seen(F, C, t) = 1..Len(F) BY DEF Seen
    <3>2. 1 \in 1..Len(F) BY <1>1, <1>3
    <3> QED BY <3>1, <3>2
  <2> QED BY <2>2, <2>3
<1> QED BY <1>2, <1>3

\* C stack overflow: only ncc of the thread changes.
LEMMA RefusedUnseen ==
  ASSUME CInv, CInv', NEW t \in Thread, NEW n, th' = [th EXCEPT ![t].ncc = n], cs' = cs
  PROVE  UNCHANGED Coroutines!cvars
<1>1. th \in [Thread -> State] BY Running DEF Typical
<1>2. ASSUME NEW x \in Thread PROVE th'[x].ci = th[x].ci /\ th'[x].status = th[x].status
  <2>1. th[x] \in State BY <1>1
  <2> QED BY <2>1, <1>1 DEF State
<1>3. View /\ View' BY ViewNow, ViewThen
<1>4. acts' = acts BY <1>2, <1>3 DEF View
<1>5. waits' = waits /\ L' = L BY <1>3 DEF View
<1>6. dead' = dead BY <1>2, <1>3 DEF View, Ended
<1> QED BY <1>4, <1>5, <1>6 DEF Coroutines!cvars

LEMMA lua_resumeRefines ==
  ASSUME CallAssumption, CInv, CInv', NEW t \in Thread, NEW lua \in BOOLEAN, lua_resume(t, lua)
  PROVE  Coroutines!CNext \/ UNCHANGED Coroutines!cvars
<1> DEFINE n == l.ncc + 1
           s == Starts(t, lua)
           G == IF Top(s).lua THEN Fresh(s) ELSE s
           F == th[t].ci
           R == IF th[t].status = "yield" THEN Pop(F) ELSE << >>
<1>1. InC /\ ~Refused(t) BY DEF lua_resume
<1>2. Resumable(t) BY <1>1, MayResume
<1>3. n \in Int BY Running DEF Typical, State
<1>4. CASE n >= MAXCCALLS
  <2>1. th' = [th EXCEPT ![t].ncc = n] /\ cs' = cs BY <1>4 DEF lua_resume
  <2> HIDE DEF n
  <2> QED BY <2>1, RefusedUnseen
<1>5. CASE ~(n >= MAXCCALLS)
  <2> DEFINE q == th[t].status
             r == Resuming(t, th[t].nny, n)
             x == Entry("unroll", t)
             g == GoingOn(t, Top(s), Len(s))
             u == GoesOn(th[t], n, G)
             D0 == ResumeStack(cs, q, r, x)
             D == ResumedStack(cs, q, r, x, g)
             S == [th EXCEPT ![t] = u]
  <2>1. th' = S /\ cs' = D BY <1>5 DEF lua_resume, GoesOn, Resuming, GoingOn, ResumedStack
  <2>2. Starting(t, s, G, R) BY <1>2, StartsRight
  <2>3. /\ th[t] \in State /\ th[t].nny \in Int /\ q \in {"ok", "yield"} /\ ~OnCStack(cs, t)
        /\ F \in Seq(Frame) /\ Len(F) \in Nat /\ (q = "ok" => F = << >>) /\ (q = "yield" => Len(F) >= 1)
    BY <1>2 DEF Resumable, State, Ready
  <2>4. Len(R) = IF q = "yield" THEN Len(F) - 1 ELSE 0
    <3> HIDE DEF F
    <3>1. q = "yield" => Len(Pop(F)) = Len(F) - 1 BY <2>3, PopFewer
    <3> QED BY <3>1
  <2>5. /\ G \in Seq(Frame) /\ Len(s) = Len(G) /\ Len(G) = Len(R) + 1 /\ Len(R) \in Nat
        /\ Top(s).lua \in BOOLEAN /\ \A i \in 1..Len(R) : G[i] = F[i]
    BY <2>2 DEF Starting
  <2> HIDE DEF R
  <2>6. \/ Len(F) = 0 /\ Len(G) = 1
        \/ Len(F) >= 1 /\ Len(G) = Len(F) /\ \A i \in 1..Len(F) - 1 : G[i] = F[i]
    <3>1. CASE q = "yield"
      <4>1. Len(R) = Len(F) - 1 /\ Len(F) >= 1 BY <3>1, <2>3, <2>4
      <4> HIDE DEF F, G
      <4> QED BY <4>1, <2>3, <2>5
    <3>2. CASE q = "ok"
      <4>1. Len(R) = 0 /\ Len(F) = 0 BY <3>2, <2>3, <2>4
      <4> HIDE DEF F, G
      <4> QED BY <4>1, <2>5
    <3> QED BY <3>1, <3>2, <2>3
  <2>7. u \in State /\ u.status = "ok" /\ u.ci = G
    <3> HIDE DEF n, G
    <3> QED BY <2>3, <2>5, <1>3, GoesOnRight
  <2>8. r \in CEntry /\ r.kind = "resume" /\ r.th = t
    <3> HIDE DEF n
    <3> QED BY <2>3, <1>3, ResumeEntry
  <2>9. g \in CEntry /\ g.th = t /\ g.kind \in {"exec", "ret", "cfun"}
    <3>1. Len(s) \in Nat BY <2>5
    <3> HIDE DEF s
    <3> QED BY <3>1, <2>5, GoesRight
  <2>10. x \in CEntry /\ x.kind = "unroll" /\ x.th = t BY EntryRight DEF Kinds
  <2> HIDE DEF n, s, G, r, x, g, u
  <2>11. cs \in Seq(CEntry) /\ Len(cs) \in Nat /\ Len(cs) >= 1 BY Running DEF Typical, Current
  <2>12. Stacked(cs, q, r, x, g, D0, D)
    <3> HIDE DEF q
    <3> QED BY <2>8, <2>9, <2>10, <2>11, ResumeStackRight
  <2> HIDE DEF D0, D, S, q
  <2>13. Restarts(th, cs, th', cs', t)
    <3>1. th'[t] = u /\ Others(th, th', t)
      <4>1. th \in [Thread -> State] BY Running DEF Typical
      <4> QED BY <4>1, <2>1 DEF S, Others
    <3>2. th[t].status # "dead" /\ th'[t].status # "dead" BY <3>1, <2>3, <2>7 DEF q
    <3>3. /\ D0 \in Seq(CEntry) /\ D = Append(D0, g)
          /\ Len(D0) = IF q = "yield" THEN Len(cs) + 2 ELSE Len(cs) + 1
          /\ \A i \in 1..Len(cs) : D0[i] = cs[i]
          /\ D0[Len(cs) + 1] = r /\ (q = "yield" => D0[Len(cs) + 2] = x)
      BY <2>12 DEF Stacked
    <3>4. /\ Len(D) = Len(D0) + 1 /\ Len(D0) \in Nat /\ D[Len(D0) + 1] = g
          /\ \A i \in 1..Len(D0) : D[i] = D0[i]
      BY <3>3
    <3>5. Len(D0) >= Len(cs) + 1 BY <3>3, <2>11
    <3>6. \A i \in 1..Len(cs) : D[i] = cs[i] /\ i \in 1..Len(D0) BY <3>3, <3>4, <3>5, <2>11
    <3>7. Len(cs) + 1 \in 1..Len(D0) BY <3>4, <3>5, <2>11
    <3>8. D[Len(cs) + 1] = r BY <3>3, <3>4, <3>7
    <3>9. ASSUME NEW i \in Len(cs) + 2..Len(D) PROVE D[i] = g \/ D[i] = x
      <4>1. CASE i = Len(D0) + 1 BY <4>1, <3>4
      <4>2. CASE i # Len(D0) + 1
        <5>1. i \in 1..Len(D0) /\ i = Len(cs) + 2 /\ q = "yield" BY <4>2, <3>3, <3>4, <2>11
        <5> QED BY <5>1, <3>3, <3>4
      <4> QED BY <4>1, <4>2
    <3>10. Len(D) >= Len(cs) + 1 /\ D[Len(D)] = g BY <3>4, <3>5, <2>11
    <3> QED BY <3>1, <3>2, <3>6, <3>8, <3>9, <3>10, <2>1, <2>3, <2>8, <2>9, <2>10, <2>11 DEF Restarts
  <2>14. SeenAgain(th, cs, th', cs', t)
    <3>1. th'[t].ci = G
      <4>1. th \in [Thread -> State] BY Running DEF Typical
      <4> QED BY <4>1, <2>1, <2>7 DEF S
    <3>2. \A i : PcallsIn(cs, t, i) = {} /\ PcallsIn(cs', t, i) = {}
      <4>1. Typed(th, cs) /\ Typed(th', cs') /\ Shape(cs) BY DEF CInv, Core
      <4> QED BY <4>1, <2>13, RestartSeen
    <3>3. F = th[t].ci OBVIOUS
    <3> HIDE DEF F
    <3>4. Seen(G, cs', t) = IF Seen(F, cs, t) = << >> THEN <<{}>> ELSE Seen(F, cs, t)
      <4>1. F \in Seq(Frame) /\ G \in Seq(Frame) BY <2>3, <2>5
      <4>2. \/ Len(F) = 0 /\ Len(G) = 1
            \/ Len(F) >= 1 /\ Len(G) = Len(F) /\ \A i \in 1..Len(F) - 1 : G[i] = F[i]
        BY <2>6
      <4> QED BY ONLY <4>1, <4>2, <3>2, SameAgain
    <3> QED BY <3>1, <3>3, <3>4 DEF SeenAgain
  <2> QED BY <2>13, <2>14, RestartRefines
<1> QED BY <1>4, <1>5

(***************************************************************************)
(* The refinement                                                          *)
(***************************************************************************)
LEMMA CallInitRefines ==
  ASSUME CallAssumption, Init
  PROVE  Coroutines!CInit
<1>1. CInv BY CallInit
<1>2. View BY <1>1, ViewNow
<1>3. /\ cs \in Seq(CEntry) /\ Len(cs) = 1 /\ cs[1].kind = "cfun" /\ cs[1].th = mainthread
      /\ \A i \in 1..Len(cs) : i = 1
  BY InitialStack
<1>4. L = mainthread BY <1>2, <1>3 DEF View
<1>5. waits = {}
  <2>1. {j \in 1..Len(cs) : cs[j].kind = "resume"} = {} BY <1>3
  <2> QED BY <2>1, <1>2 DEF View, Resumers
<1>6. ASSUME NEW t \in Thread
      PROVE  th[t].status = "ok" /\ th[t].ci = IF t = mainthread THEN <<CFrame>> ELSE << >>
  BY DEF Init, NewThread
<1>7. dead = {} BY <1>2, <1>6 DEF View, Ended
<1>8. ASSUME NEW t \in Thread PROVE Seen(th[t].ci, cs, t) = IF t = mainthread THEN <<{}>> ELSE << >>
  <2> DEFINE F == th[t].ci
  <2>1. CASE t = mainthread
    <3>1. Len(F) = 1 BY <2>1, <1>6
    <3> HIDE DEF F
    <3>2. \A i \in 1..1 : Shows(F, cs, t, i) = {} BY <3>1 DEF Shows
    <3>3. Seen(F, cs, t) = [i \in 1..1 |-> {}] BY <3>1, <3>2 DEF Seen
    <3>4. [i \in 1..1 |-> {}] = <<{}>> OBVIOUS
    <3> QED BY <3>3, <3>4, <2>1 DEF F
  <2>2. CASE t # mainthread
    <3>1. Len(F) = 0 BY <2>2, <1>6
    <3> HIDE DEF F
    <3>2. Seen(F, cs, t) = << >> BY <3>1 DEF Seen
    <3> QED BY <3>2, <2>2 DEF F
  <2> QED BY <2>1, <2>2
<1>9. acts = [t \in Thread |-> IF t = mainthread THEN <<{}>> ELSE << >>] BY <1>2, <1>8 DEF View
<1> QED BY <1>4, <1>5, <1>7, <1>9 DEF Coroutines!CInit

LEMMA CallNextRefines ==
  ASSUME CallAssumption, CInv, CInv', [Next]_cavars
  PROVE  [Coroutines!CNext]_Coroutines!cvars
<1> DEFINE Goal == Coroutines!CNext \/ UNCHANGED Coroutines!cvars
<1>0. ASSUME Goal PROVE [Coroutines!CNext]_Coroutines!cvars BY <1>0
<1>1. ASSUME UNCHANGED cavars PROVE Goal
  <2>1. th' = th /\ cs' = cs BY <1>1 DEF cavars
  <2>2. View /\ View' BY ViewNow, ViewThen
  <2>3. acts' = acts /\ waits' = waits /\ dead' = dead /\ L' = L BY <2>1, <2>2 DEF View
  <2> QED BY <2>3 DEF Coroutines!cvars
<1>2. ASSUME CallLua PROVE Goal BY <1>2, CallLuaRefines
<1>3. ASSUME CallC PROVE Goal BY <1>3, CallCRefines
<1>4. ASSUME Hook PROVE Goal BY <1>4, HookUnseen
<1>5. ASSUME RunError \/ MemoryError PROVE Goal BY <1>5, FailUnseen
<1>6. ASSUME NEW lua \in BOOLEAN, CallTM(lua) PROVE Goal BY <1>6, CallTMRefines
<1>7. ASSUME NEW lua \in BOOLEAN, NEW k \in Ks, lua_callk(k, lua) PROVE Goal BY <1>7, lua_callkRefines
<1>8. ASSUME NEW lua \in BOOLEAN, NEW k \in Ks, NEW h \in Handler \cup {NoHandler}, lua_pcallk(k, h, lua)
      PROVE Goal
  <2>1. h \in Handlers BY DEF Handlers
  <2> QED BY <2>1, <1>8, lua_pcallkRefines
<1>9. ASSUME NEW t \in Thread, NEW lua \in BOOLEAN, lua_resume(t, lua) PROVE Goal
  BY <1>9, lua_resumeRefines
<1>10. ASSUME NEW k \in Ks, lua_yieldk(k) PROVE Goal BY <1>10, lua_yieldkUnseen
<1>11. ASSUME NEW lua \in BOOLEAN, luaG_errormsg(lua) PROVE Goal BY <1>11, luaG_errormsgRefines
<1>12. ASSUME LuaReturn PROVE Goal BY <1>12, LuaReturnRefines
<1>13. ASSUME HookReturn PROVE Goal BY <1>13, HookReturnUnseen
<1>14. ASSUME PcallEnd PROVE Goal BY <1>14, PcallEndUnseen
<1>15. ASSUME CReturn PROVE Goal BY <1>15, CReturnRefines
<1>16. ASSUME luaD_throw PROVE Goal BY <1>16, luaD_throwRefines
<1>17. ASSUME unroll PROVE Goal BY <1>17, unrollUnseen
<1>18. ASSUME ResumeEnd PROVE Goal BY <1>18, EndLeaves
<1>19. Goal
  <2> HIDE DEF Goal
  <2> QED BY <1>1, <1>2, <1>3, <1>4, <1>5, <1>6, <1>7, <1>8, <1>9, <1>10, <1>11, <1>12, <1>13, <1>14,
             <1>15, <1>16, <1>17, <1>18 DEF Next
<1> QED BY <1>0, <1>19

\* Every step of ldo.c is a step of the coroutines as a program knows them, or one that it
\* does not see: an error goes back to the innermost protected call of its coroutine, also
\* when yields have thrown away the C frames of lua_pcallk (findpcall, recover), a coroutine
\* that yields keeps its activations, and only an error that nothing catches ends one.
THEOREM CallsImplementCoroutines ==
  ASSUME CallAssumption
  PROVE  Spec => ImplementsCoroutines
<1>1. Init => CInv /\ Coroutines!CInit BY CallInit, CallInitRefines
<1>2. CInv /\ [Next]_cavars => CInv' BY CallNext
<1>3. CInv /\ CInv' /\ [Next]_cavars => [Coroutines!CNext]_Coroutines!cvars BY CallNextRefines
<1> QED BY <1>1, <1>2, <1>3, PTL DEF Spec, ImplementsCoroutines, Coroutines!CSpec
=============================================================================

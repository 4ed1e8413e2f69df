---------------------------- MODULE LuaCallSound ----------------------------
(***************************************************************************)
(* Proofs about LuaCall, for any number of coroutines and any limits.      *)
(* The invariant is stated of a value T of th and a value C of cs, so that *)
(* a step can be taken apart into smaller ones that each preserve it.      *)
(***************************************************************************)
EXTENDS LuaCall, FiniteSetTheorems, WellFoundedInduction, TLAPS

(***************************************************************************)
(* The inductive invariant                                                 *)
(***************************************************************************)
Handlers == Handler \cup {NoHandler}
Frame == [lua : BOOLEAN, fresh : BOOLEAN, op : {"none", "call", "metamethod"}, hookyield : BOOLEAN,
          k : {"none", "some", "junk"}, yp : BOOLEAN, oef : Handlers, oah : BOOLEAN, handler : Handlers]
State == [ci : Seq(Frame), status : {"ok", "yield", "dead"}, nny : Int, ncc : Int,
          errfunc : Handlers, allowhook : BOOLEAN, big : BOOLEAN, fun : BOOLEAN]
Kinds == {"exec", "cfun", "hook", "pcall", "resume", "unroll", "ret", "raise", "throw"}
CEntry == [kind : Kinds,
           th : Thread, counted : BOOLEAN, ny : BOOLEAN, yp : BOOLEAN, ci : Nat, nny : Int, ncc : Int,
           errfunc : Handlers, allowhook : BOOLEAN, handler : Handlers]
Typed(T, C) == T \in [Thread -> State] /\ C \in Seq(CEntry)

\* What an entry may be on top of, and what it may hold.
Over(f, e) ==
  /\ f.kind = "resume" => e.kind \in {"cfun", "hook"}
  /\ f.kind # "resume" => f.th = e.th
  /\ f.kind = "unroll" => e.kind = "resume"
  /\ f.kind = "ret" => e.kind = "unroll"
  /\ f.kind = "hook" => e.kind = "exec"
  /\ f.kind = "pcall" => e.kind \in {"cfun", "hook"}
  /\ f.kind \in {"raise", "throw"} => e.kind \in {"exec", "cfun", "hook", "pcall", "throw"}
  /\ f.yp => e.kind = "cfun" /\ f.kind \in {"exec", "cfun"}
  /\ e.kind \notin {"ret", "raise"}
  /\ e.kind \in {"pcall", "throw"} => f.ny
  /\ e.kind = "hook" => f.ny \/ f.kind \in {"pcall", "resume", "raise", "throw"}
Holds(e) ==
  /\ e.kind \in Kinds
  /\ e.kind \in {"hook", "pcall", "resume", "unroll", "ret"} => ~e.counted /\ ~e.ny /\ ~e.yp
  /\ e.kind = "raise" => ~e.yp
  /\ e.kind \in {"resume", "unroll"} => e.ci = 0

\* The first entry is the host program.  The entries of a thread follow each other; it is
\* resumed below them, and only once.
Based(C) ==
  /\ Len(C) >= 1 /\ C[1].kind = "cfun" /\ C[1].th = mainthread /\ C[1].ci = 1
  /\ ~C[1].counted /\ ~C[1].ny /\ ~C[1].yp
  /\ Len(C) > 1 => C[2].kind = "pcall"
Together(C) ==
  \A i, j \in 1..Len(C) : C[i].th = C[j].th => \A k \in i..j : C[k].th = C[i].th
ResumedOnce(C) ==
  /\ \A i \in 1..Len(C) : C[i].th # mainthread =>
       \E r \in 2..i : C[r].kind = "resume" /\ C[r].th = C[i].th
  /\ \A i \in 1..Len(C) : C[i].kind = "resume" => \A j \in 1..i - 1 : C[j].th # C[i].th
Shape(C) ==
  /\ Based(C) /\ Together(C) /\ ResumedOnce(C)
  /\ \A i \in 1..Len(C) - 1 : Over(C[i + 1], C[i])
  /\ \A i \in 1..Len(C) : Holds(C[i])

\* The frames that entry i and what is below it have.
Owns(e) == e.kind \in {"exec", "cfun", "ret"}
Height(T, C, i) ==
  IF i < Len(C) /\ C[i + 1].kind # "resume"
  THEN IF Owns(C[i + 1]) THEN C[i + 1].ci - 1 ELSE C[i + 1].ci
  ELSE Len(T[C[i].th].ci)
\* Entry e runs in the frame at the top of the h first ones, or among them.
Works(e, F, h) ==
  /\ h \in 0..Len(F)
  /\ e.kind = "exec" => /\ e.ci \in 1..h
                        /\ \A f \in e.ci..h : F[f].lua /\ (F[f].fresh <=> f = e.ci)
  /\ e.kind \in {"cfun", "ret"} => e.ci = h /\ h >= 1 /\ ~F[h].lua
  /\ e.kind = "ret" => F[h].k = "none" /\ ~F[h].yp
  /\ e.kind \in {"hook", "pcall", "raise", "throw"} => e.ci = h
  /\ e.kind = "hook" => h >= 1 /\ F[h].lua /\ F[h].op = "none"
  /\ e.kind = "resume" => h = 0
\* A C function is marked while the call f that it protects goes on.
Marks(e, F, f) ==
  e.kind = "cfun" => IF F[e.ci].yp THEN f.yp \/ f.kind \in {"raise", "throw"} ELSE ~f.yp
Framed(T, C, i) ==
  /\ Works(C[i], T[C[i].th].ci, Height(T, C, i))
  /\ i < Len(C) => Marks(C[i], T[C[i].th].ci, C[i + 1])
Frames(T, C) ==
  /\ \A i \in 1..Len(C) : Framed(T, C, i)
  /\ \A j \in 1..Len(C) : \A i \in 1..j - 1 :
       C[i].th = C[j].th => IF Owns(C[j]) THEN Height(T, C, i) < C[j].ci
                                          ELSE Height(T, C, i) <= C[j].ci

\* The frames that can be continued without the C function that ran, and those whose
\* function waits at entry j for what is on top of it and cannot be yielded across.
Continues(f) == f.lua \/ f.k = "some"
Waits(C, t, f, j) ==
  /\ C[j].th = t /\ C[j].kind \in {"cfun", "ret"} /\ C[j].ci = f
  /\ j < Len(C) => C[j + 1].kind \in {"pcall", "resume", "raise", "throw"} \/ C[j + 1].ny
OnCStack(C, t) == \E i \in 1..Len(C) : C[i].th = t
YieldsOf(T, C, t) ==
  LET F == T[t].ci IN
  /\ OnCStack(C, t) => \A f \in 1..Len(F) : Continues(F[f]) \/ \E j \in 1..Len(C) : Waits(C, t, f, j)
  /\ \A p \in 1..Len(F) :
       F[p].yp => ~F[p].lua /\ F[p].oah /\ p <= MAXSTACK /\ \A f \in 1..p : Continues(F[f])

\* h is the handler of the last pcall of t before entry n, or else of the last yieldable one
\* in the frames F up to m.
PcallAt(C, t, i) == C[i].th = t /\ C[i].kind = "pcall"
LastYp(F, m, h) ==
  /\ \A p \in 1..m : F[p].yp /\ (\A q \in p + 1..m : ~F[q].yp) => h = F[p].handler
  /\ (\A p \in 1..m : ~F[p].yp) => h = NoHandler
InForceAt(F, C, t, n, m, h) ==
  /\ \A i \in 1..n - 1 : PcallAt(C, t, i) /\ (\A j \in i + 1..n - 1 : ~PcallAt(C, t, j))
                         => h = C[i].handler
  /\ (\A i \in 1..n - 1 : ~PcallAt(C, t, i)) => LastYp(F, m, h)
HandlersOf(T, C, t) ==
  LET F == T[t].ci IN
  /\ T[t].status # "dead" => InForceAt(F, C, t, Len(C) + 1, Len(F), T[t].errfunc)
  /\ \A i \in 1..Len(C) : PcallAt(C, t, i) =>
       /\ InForceAt(F, C, t, i, Len(F), C[i].errfunc)
       /\ \A f \in C[i].ci..Len(F) : f >= 1 => ~F[f].yp
  /\ \A p \in 1..Len(F) : F[p].yp => LastYp(F, p - 1, F[p].oef)

NoHook(C, t, n) == \A i \in 1..n : ~(C[i].th = t /\ C[i].kind = "hook")
HooksOf(T, C, t) ==
  /\ \A i \in 1..Len(C) : C[i].th = t /\ C[i].kind = "hook" => NoHook(C, t, i - 1)
  /\ T[t].status # "dead" => (T[t].allowhook <=> NoHook(C, t, Len(C)))
  /\ \A i \in 1..Len(C) : PcallAt(C, t, i) => (C[i].allowhook <=> NoHook(C, t, i - 1))

Handling(C, t, n) == \E i \in 1..n : C[i].th = t /\ C[i].kind \in {"raise", "throw"}
BoundOf(T, C, t) ==
  /\ T[t].status # "dead" => IF T[t].big THEN Handling(C, t, Len(C)) ELSE Len(T[t].ci) <= MAXSTACK
  /\ \A i \in 1..Len(C) : C[i].th = t => C[i].ci <= MAXSTACK \/ Handling(C, t, i)

Counted(C, t, n) == Cardinality({i \in 1..n : C[i].th = t /\ C[i].counted})
Ny(C, t, n) == Cardinality({i \in 1..n : C[i].th = t /\ C[i].ny})
\* The counters of thread t began with b and z.
Counts(T, C, t, b, z) ==
  /\ T[t].ncc = b + Counted(C, t, Len(C))
  /\ T[t].nny = z + Ny(C, t, Len(C))
  /\ \A i \in 1..Len(C) : C[i].kind = "pcall" /\ C[i].th = t =>
       C[i].ncc = b + Counted(C, t, i - 1) /\ C[i].nny = z + Ny(C, t, i - 1)
CountsRight(T, C) ==
  /\ Counts(T, C, mainthread, 0, 1)
  /\ \A t \in Thread : OnCStack(C, t) \/ T[t].nny = 1
  /\ \A r \in 2..Len(C) : C[r].kind = "resume" =>
       /\ C[r].nny = 1 /\ C[r].ncc = T[C[r - 1].th].ncc + 1
       /\ Counts(T, C, C[r].th, C[r].ncc, 0)

\* A thread that has yielded can go on.
Ready(T, t) ==
  LET F == T[t].ci
      n == Len(F) IN
  /\ n >= 1 /\ ~T[t].big
  /\ \A f \in 1..n - 1 : Continues(F[f])
  /\ IF F[n].lua THEN F[n].op = "none" ELSE F[n].k # "junk" /\ ~F[n].yp
StatusOf(T, C, t) ==
  /\ T[t].status = "dead" => ~OnCStack(C, t)
  /\ T[t].status = "yield" => Ready(T, t)
  /\ T[t].status = "ok" /\ ~OnCStack(C, t) => T[t].ci = << >>
  /\ T[t].status = "yield" /\ OnCStack(C, t) =>
       /\ C[Len(C)].th = t /\ C[Len(C)].kind \in {"hook", "throw"} /\ T[t].nny = 0
       /\ C[Len(C)].kind = "throw" => T[t].allowhook
  /\ OnCStack(C, t) /\ C[Len(C)].th # t => T[t].ci # << >>

ThreadRight(T, C, t) ==
  YieldsOf(T, C, t) /\ HandlersOf(T, C, t) /\ HooksOf(T, C, t) /\ BoundOf(T, C, t) /\ StatusOf(T, C, t)
Core(T, C) ==
  /\ Typed(T, C) /\ Shape(C) /\ Frames(T, C) /\ CountsRight(T, C)
  /\ \A t \in Thread : ThreadRight(T, C, t)
TopRight(T, C) ==
  LET e == C[Len(C)]
      f == T[e.th].ci[e.ci] IN
  /\ e.kind = "exec" => T[e.th].ci[Len(T[e.th].ci)].op = "none"
  /\ e.kind = "cfun" => ~f.yp
CInv == Core(th, cs) /\ TopRight(th, cs)
(***************************************************************************)
(* What the types say, in the form that the proofs use                     *)
(***************************************************************************)
Sized(T, C) ==
  /\ \A x \in Thread : Len(T[x].ci) \in Nat /\ T[x].ncc \in Int /\ T[x].nny \in Int
  /\ Len(C) \in Nat
  /\ \A i \in 1..Len(C) : /\ C[i].th \in Thread /\ C[i].ci \in Nat
                          /\ C[i].ncc \in Int /\ C[i].nny \in Int
LEMMA TypedSized ==
  ASSUME NEW T, NEW C, Typed(T, C)
  PROVE  Sized(T, C)
<1>1. ASSUME NEW x \in Thread PROVE Len(T[x].ci) \in Nat /\ T[x].ncc \in Int /\ T[x].nny \in Int
  <2>1. T[x] \in State BY DEF Typed
  <2>2. T[x].ci \in Seq(Frame) /\ T[x].ncc \in Int /\ T[x].nny \in Int BY <2>1 DEF State
  <2> QED BY <2>2
<1>2. Len(C) \in Nat BY DEF Typed
<1>3. ASSUME NEW i \in 1..Len(C)
      PROVE  C[i].th \in Thread /\ C[i].ci \in Nat /\ C[i].ncc \in Int /\ C[i].nny \in Int
  <2>1. C[i] \in CEntry BY DEF Typed
  <2> QED BY <2>1 DEF CEntry
<1> QED BY <1>1, <1>2, <1>3 DEF Sized

(***************************************************************************)
(* How the C stack changes                                                 *)
(***************************************************************************)
Added(C, D, n, f) ==
  Len(C) = n /\ Len(D) = n + 1 /\ (\A i \in 1..n : D[i] = C[i]) /\ D[n + 1] = f
Kept(C, D, n) == n \in 1..Len(C) /\ Len(D) = n /\ \A i \in 1..n : D[i] = C[i]
\* The last n entries of t, on top.
Upper(C, n, t) == \A i \in n + 1..Len(C) : C[i].th = t
Others(T, S, t) == \A x \in Thread : x # t => S[x] = T[x]

LEMMA ShapeAdded ==
  ASSUME NEW C, NEW D, NEW n \in Nat, NEW f, Shape(C), Added(C, D, n, f),
         Over(f, C[n]), Holds(f),
         f.kind = "resume" => \A i \in 1..n : C[i].th # f.th,
         n = 1 => f.kind = "pcall"
  PROVE  Shape(D)
<1> USE DEF Added
<1>1. n >= 1 BY DEF Shape, Based
<1>2. Based(D) BY <1>1 DEF Shape, Based
<1>3. Together(D)
  <2> SUFFICES ASSUME NEW i \in 1..n + 1, NEW j \in 1..n + 1, D[i].th = D[j].th, NEW k \in i..j
               PROVE  D[k].th = D[i].th
      BY DEF Together
  <2>1. CASE j <= n BY <2>1 DEF Shape, Together
  <2>2. CASE j = n + 1 /\ i = n + 1 BY <2>2
  <2>3. CASE j = n + 1 /\ i <= n
    <3>1. f.kind # "resume" BY <2>3
    <3>2. D[j].th = C[n].th BY <2>3, <3>1 DEF Over
    <3>3. CASE k = n + 1 BY <2>3, <3>3
    <3>4. CASE k <= n
      <4>1. i \in 1..n /\ n \in 1..n /\ k \in i..n /\ C[i].th = C[n].th BY <2>3, <3>4, <3>2, <1>1
      <4>2. C[k].th = C[i].th BY <4>1 DEF Shape, Together
      <4> QED BY <4>1, <4>2, <3>4
    <3> QED BY <3>3, <3>4
  <2> QED BY <2>1, <2>2, <2>3
<1>4. ResumedOnce(D)
  <2>1. ASSUME NEW i \in 1..n + 1, D[i].th # mainthread
        PROVE  \E r \in 2..i : D[r].kind = "resume" /\ D[r].th = D[i].th
    <3>1. CASE i <= n
      <4>1. i \in 1..Len(C) /\ C[i].th # mainthread BY <3>1, <2>1
      <4>2. PICK r \in 2..i : C[r].kind = "resume" /\ C[r].th = C[i].th BY <4>1 DEF Shape, ResumedOnce
      <4> QED BY <4>2, <3>1
    <3>2. CASE i = n + 1 /\ f.kind = "resume" BY <3>2, <1>1
    <3>3. CASE i = n + 1 /\ f.kind # "resume"
      <4>1. D[i].th = C[n].th BY <3>3 DEF Over
      <4>2. n \in 1..Len(C) /\ C[n].th # mainthread BY <4>1, <2>1, <1>1
      <4>3. PICK r \in 2..n : C[r].kind = "resume" /\ C[r].th = C[n].th BY <4>2 DEF Shape, ResumedOnce
      <4> QED BY <4>1, <4>3, <3>3
    <3> QED BY <3>1, <3>2, <3>3
  <2>2. ASSUME NEW i \in 1..n + 1, D[i].kind = "resume", NEW j \in 1..i - 1
        PROVE  D[j].th # D[i].th
    <3>1. CASE i <= n BY <3>1, <2>2 DEF Shape, ResumedOnce
    <3>2. CASE i = n + 1 BY <3>2, <2>2
    <3> QED BY <3>1, <3>2
  <2> QED BY <2>1, <2>2 DEF ResumedOnce
<1>5. ASSUME NEW i \in 1..n PROVE Over(D[i + 1], D[i])
  <2>1. CASE i < n BY <2>1 DEF Shape
  <2>2. CASE i = n BY <2>2
  <2> QED BY <2>1, <2>2
<1>6. ASSUME NEW i \in 1..n + 1 PROVE Holds(D[i]) BY DEF Shape
<1> QED BY <1>2, <1>3, <1>4, <1>5, <1>6 DEF Shape

LEMMA ShapeKept ==
  ASSUME NEW C, NEW D, NEW n, Shape(C), Len(C) \in Nat, Kept(C, D, n)
  PROVE  Shape(D)
<1> USE DEF Kept
<1>2. Based(D) BY DEF Shape, Based
<1>3. Together(D) BY DEF Shape, Together
<1>4. ResumedOnce(D)
  <2>1. ASSUME NEW i \in 1..n, D[i].th # mainthread
        PROVE  \E r \in 2..i : D[r].kind = "resume" /\ D[r].th = D[i].th
    <3>1. PICK r \in 2..i : C[r].kind = "resume" /\ C[r].th = C[i].th BY <2>1 DEF Shape, ResumedOnce
    <3> QED BY <3>1
  <2>2. ASSUME NEW i \in 1..n, D[i].kind = "resume", NEW j \in 1..i - 1 PROVE D[j].th # D[i].th
    <3>1. C[i].kind = "resume" /\ i \in 1..Len(C) /\ D[i] = C[i] BY <2>2
    <3>2. C[j].th # C[i].th BY <3>1 DEF Shape, ResumedOnce
    <3>3. D[j] = C[j] BY <2>2
    <3> QED BY <3>1, <3>2, <3>3
  <2> QED BY <2>1, <2>2 DEF ResumedOnce
<1>5. ASSUME NEW i \in 1..n - 1 PROVE Over(D[i + 1], D[i]) BY DEF Shape
<1>6. ASSUME NEW i \in 1..n PROVE Holds(D[i]) BY DEF Shape
<1> QED BY <1>2, <1>3, <1>4, <1>5, <1>6 DEF Shape

\* luaG_errormsg and luaG_traceexec: what runs at the top begins to throw.
Rekinded(C, D, n) ==
  /\ Len(C) = n /\ Len(D) = n /\ (\A i \in 1..n - 1 : D[i] = C[i])
  /\ D[n].kind = "throw" /\ C[n].kind \in {"raise", "hook"} /\ D[n].th = C[n].th
  /\ D[n].counted = C[n].counted /\ D[n].ny = C[n].ny /\ D[n].yp = C[n].yp /\ D[n].ci = C[n].ci
LEMMA ShapeRekinded ==
  ASSUME NEW C, NEW D, NEW n \in Nat, Shape(C), Rekinded(C, D, n)
  PROVE  Shape(D)
<1> USE DEF Rekinded
<1>1. n > 1 BY DEF Shape, Based
<1>7. ASSUME NEW i \in 1..n PROVE D[i].th = C[i].th /\ (D[i].kind = "resume" <=> C[i].kind = "resume") OBVIOUS
<1>8. ~C[n].yp BY <1>1 DEF Shape, Holds
<1>2. Based(D)
  <2>1. n = 2 => C[2].kind = "pcall" BY <1>1 DEF Shape, Based
  <2> QED BY <1>1, <2>1 DEF Shape, Based
<1>3. Together(D) BY <1>7 DEF Shape, Together
<1>4. ResumedOnce(D)
  <2>1. ASSUME NEW i \in 1..n, D[i].th # mainthread
        PROVE  \E r \in 2..i : D[r].kind = "resume" /\ D[r].th = D[i].th
    <3>1. PICK r \in 2..i : C[r].kind = "resume" /\ C[r].th = C[i].th BY <2>1, <1>7 DEF Shape, ResumedOnce
    <3> QED BY <3>1, <1>7
  <2>2. ASSUME NEW i \in 1..n, D[i].kind = "resume", NEW j \in 1..i - 1 PROVE D[j].th # D[i].th
    <3>1. C[i].kind = "resume" /\ i \in 1..Len(C) BY <2>2, <1>7
    <3>2. C[j].th # C[i].th BY <3>1 DEF Shape, ResumedOnce
    <3>3. j \in 1..n BY <2>2
    <3> QED BY <3>2, <3>3, <1>7
  <2> QED BY <2>1, <2>2 DEF ResumedOnce
<1>5. ASSUME NEW i \in 1..n - 1 PROVE Over(D[i + 1], D[i])
  <2>1. CASE i < n - 1 BY <2>1 DEF Shape
  <2>2. CASE i = n - 1
    <3>1. Over(C[n], C[n - 1]) BY <2>2, <1>1 DEF Shape
    <3> QED BY <2>2, <3>1, <1>8 DEF Over
  <2> QED BY <2>1, <2>2
<1>6. ASSUME NEW i \in 1..n PROVE Holds(D[i])
  <2>1. CASE i < n BY <2>1 DEF Shape
  <2>2. CASE i = n BY <2>2, <1>8 DEF Holds, Kinds
  <2> QED BY <2>1, <2>2
<1> QED BY <1>2, <1>3, <1>4, <1>5, <1>6 DEF Shape

(***************************************************************************)
(* The frames that belong to the entries                                   *)
(***************************************************************************)
\* A thread waits for the one that it resumed, which is another.
LEMMA Resumer ==
  ASSUME NEW C, Len(C) \in Nat, Shape(C), NEW i \in 1..Len(C), NEW j \in i + 1..Len(C),
         C[i + 1].kind = "resume"
  PROVE  C[i].th # C[j].th
<1> SUFFICES ASSUME C[i].th = C[j].th PROVE FALSE OBVIOUS
<1>1. i + 1 \in i..j /\ j \in 1..Len(C) /\ i + 1 \in 1..Len(C) /\ i \in 1..(i + 1) - 1 OBVIOUS
<1>2. C[i + 1].th = C[i].th BY <1>1 DEF Shape, Together
<1> QED BY <1>1, <1>2 DEF Shape, ResumedOnce

\* An entry works on frames that exist.
LEMMA OwnFrames ==
  ASSUME NEW T, NEW C, Sized(T, C), Shape(C), Frames(T, C), NEW i \in 1..Len(C)
  PROVE  C[i].ci <= Height(T, C, i) /\ Height(T, C, i) \in 0..Len(T[C[i].th].ci)
<1>1. Framed(T, C, i) /\ Holds(C[i]) BY DEF Frames, Shape
<1>2. Height(T, C, i) \in 0..Len(T[C[i].th].ci) BY <1>1 DEF Framed, Works
<1>3. C[i].ci \in Nat /\ Len(T[C[i].th].ci) \in Nat BY DEF Sized
<1>4. C[i].ci <= Height(T, C, i) BY <1>1, <1>2, <1>3 DEF Framed, Works, Holds, Kinds
<1> QED BY <1>1, <1>2, <1>3, <1>4

\* Frames of another stack that agree with the ones an entry works in.
LEMMA WorksAgree ==
  ASSUME NEW e, NEW F, NEW G, NEW h, Works(e, F, h), Len(F) \in Nat, Len(G) \in Nat, h <= Len(G),
         \A i \in 1..h : G[i] = F[i]
  PROVE  Works(e, G, h)
<1>1. h \in Nat BY DEF Works
<1>2. ASSUME e.kind = "exec"
      PROVE  e.ci \in 1..h /\ \A f \in e.ci..h : G[f].lua /\ (G[f].fresh <=> f = e.ci)
  <2>1. e.ci \in 1..h /\ \A f \in e.ci..h : F[f].lua /\ (F[f].fresh <=> f = e.ci) BY <1>2 DEF Works
  <2>2. \A f \in e.ci..h : G[f] = F[f] BY <1>1, <2>1
  <2> QED BY <2>1, <2>2
<1>3. h >= 1 => G[h] = F[h] BY <1>1
<1> QED BY <1>1, <1>2, <1>3 DEF Works

\* Entry f comes on top of e, perhaps with a frame of its own; unroll goes on with the last
\* frame there was.
FrameAdded(F, G, e, f) ==
  /\ \A i \in 1..Len(F) : G[i] = F[i]
  /\ f.ci = Len(G)
  /\ Works(f, G, Len(G)) /\ Marks(e, F, f)
  /\ IF e.kind = "unroll" THEN Owns(f) /\ Len(G) \in {Len(F), Len(F) + 1}
     ELSE IF Owns(f) THEN Len(G) = Len(F) + 1 ELSE Len(G) = Len(F)
LEMMA FramesAdded ==
  ASSUME NEW T, NEW C, NEW S, NEW D, NEW n \in Nat, NEW t \in Thread, NEW f,
         Sized(T, C), Sized(S, D), Shape(C), Shape(D), Frames(T, C), Added(C, D, n, f), t = C[n].th,
         Others(T, S, t), f.kind # "resume",
         FrameAdded(T[t].ci, S[t].ci, C[n], f)
  PROVE  Frames(S, D)
<1> DEFINE F == T[t].ci
           G == S[t].ci
<1> USE DEF Added
<1>0. F = T[t].ci /\ G = S[t].ci OBVIOUS
<1>17. FrameAdded(F, G, C[n], f) OBVIOUS
<1> HIDE DEF F, G
<1>1. n >= 1 /\ n \in 1..Len(C) BY DEF Shape, Based
<1>2. f.th = t /\ f.kind \in Kinds
  <2>1. Over(D[n + 1], D[n]) /\ Holds(D[n + 1]) BY <1>1 DEF Shape
  <2> QED BY <2>1, <1>1 DEF Over, Holds
<1>3. Len(F) \in Nat /\ Len(G) \in Nat BY <1>0 DEF Sized
<1>4. ASSUME NEW i \in 1..n - 1 PROVE Height(S, D, i) = Height(T, C, i)
  <2>1. CASE C[i + 1].kind # "resume" BY <2>1, <1>4 DEF Height
  <2>2. CASE C[i + 1].kind = "resume"
    <3>4. i \in 1..Len(C) /\ n \in i + 1..Len(C) /\ Len(C) \in Nat BY <1>1, <1>4
    <3>1. C[i].th # t BY <2>2, <3>4, Resumer
    <3>2. C[i].th \in Thread BY <1>4, <1>1 DEF Sized
    <3>3. S[C[i].th] = T[C[i].th] BY <3>1, <3>2 DEF Others
    <3> QED BY <2>2, <1>4, <3>3 DEF Height
  <2> QED BY <2>1, <2>2
<1>5. Height(T, C, n) = Len(F) BY <1>0 DEF Height
<1>14. f.ci = Len(G) BY <1>17 DEF FrameAdded
<1>6. Height(S, D, n) = IF Owns(f) THEN Len(G) - 1 ELSE Len(G) BY <1>1, <1>2, <1>14 DEF Height
<1>7. Height(S, D, n + 1) = Len(G) BY <1>0, <1>2 DEF Height
<1>8. C[n].kind # "unroll" => Height(S, D, n) = Len(F) BY <1>6, <1>3, <1>17 DEF FrameAdded
<1>13. C[n].kind = "unroll" => Height(S, D, n) = Len(G) - 1 BY <1>6, <1>3, <1>17 DEF FrameAdded
<1>15. \A i \in 1..Len(F) : G[i] = F[i] BY <1>17 DEF FrameAdded
<1>16. Len(G) >= Len(F) BY <1>3, <1>17 DEF FrameAdded
<1>9. ASSUME C[n].kind = "unroll", NEW i \in 1..n - 1, C[i].th = t
      PROVE  Height(T, C, i) = 0 /\ f.ci >= 1 /\ Owns(f)
  <2>1. n > 1 BY <1>9
  <2>2. C[n - 1].kind = "resume" /\ C[n - 1].th = t
    <3>1. Over(C[(n - 1) + 1], C[n - 1]) BY <2>1 DEF Shape
    <3> QED BY <3>1, <1>9 DEF Over
  <2>3. n - 1 \in 1..Len(C) BY <2>1
  <2>4. \A j \in 1..(n - 1) - 1 : C[j].th # t BY <2>2, <2>3 DEF Shape, ResumedOnce
  <2>5. i = n - 1
    <3>1. i \notin 1..(n - 1) - 1 BY <2>4, <1>9
    <3> QED BY <3>1, <2>1
  <2>6. Works(C[i], T[C[i].th].ci, Height(T, C, i)) BY <2>3, <2>5 DEF Frames, Framed
  <2>7. Height(T, C, i) = 0 BY <2>2, <2>5, <2>6 DEF Works
  <2>8. Works(f, G, Len(G)) /\ Owns(f) BY <1>9, <1>17 DEF FrameAdded
  <2> QED BY <2>7, <2>8, <1>3, <1>14 DEF Works, Owns
<1>10. ASSUME NEW i \in 1..n PROVE Framed(S, D, i)
  <2>1. Framed(T, C, i) /\ C[i].th \in Thread BY <1>1, <1>10 DEF Frames, Sized
  <2>2. CASE i < n /\ C[i].th # t
    <3>1. S[C[i].th] = T[C[i].th] BY <2>1, <2>2 DEF Others
    <3>2. D[i] = C[i] /\ D[i + 1] = C[i + 1] /\ Height(S, D, i) = Height(T, C, i) /\ i < Len(C)
      BY <2>2, <1>4
    <3> QED BY <2>1, <3>1, <3>2 DEF Framed
  <2>3. CASE i < n /\ C[i].th = t
    <3>1. Works(C[i], F, Height(T, C, i)) /\ Marks(C[i], F, C[i + 1]) BY <1>0, <2>1, <2>3 DEF Framed
    <3>2. D[i] = C[i] /\ D[i + 1] = C[i + 1] /\ Height(S, D, i) = Height(T, C, i)
      BY <2>3, <1>4
    <3>3. Height(T, C, i) \in 0..Len(F) BY <3>1 DEF Works
    <3>4. Works(C[i], G, Height(T, C, i)) BY <3>1, <3>3, <1>3, <1>15, <1>16, WorksAgree
    <3>5. C[i].kind = "cfun" => G[C[i].ci] = F[C[i].ci] BY <3>1, <3>3, <1>15 DEF Works
    <3>6. Marks(C[i], G, C[i + 1]) BY <3>1, <3>5 DEF Marks
    <3> QED BY <1>0, <3>2, <3>4, <3>6, <2>3 DEF Framed
  <2>4. CASE i = n
    <3>1. D[n] = C[n] /\ D[n + 1] = f OBVIOUS
    <3>7. Works(C[n], F, Len(F)) BY <1>0, <2>1, <2>4, <1>5 DEF Framed
    <3>2. Works(C[n], G, Height(S, D, n))
      <4>1. CASE C[n].kind = "unroll"
        <5>1. Len(G) >= 1 BY <4>1, <1>3, <1>14, <1>17 DEF FrameAdded, Works, Owns
        <5> QED BY <4>1, <5>1, <1>13, <1>3 DEF Works
      <4>2. CASE C[n].kind # "unroll" BY <4>2, <3>7, <1>8, <1>3, <1>15, <1>16, WorksAgree
      <4> QED BY <4>1, <4>2
    <3>3. C[n].kind = "cfun" => G[C[n].ci] = F[C[n].ci] BY <3>7, <1>15 DEF Works
    <3>4. Marks(C[n], G, f) BY <3>3, <1>17 DEF Marks, FrameAdded
    <3> QED BY <1>0, <3>1, <3>2, <3>4, <2>4 DEF Framed
  <2> QED BY <2>2, <2>3, <2>4, <1>10
<1>11. Framed(S, D, n + 1)
  <2>1. Works(f, G, Len(G)) BY <1>17 DEF FrameAdded
  <2> QED BY <1>0, <1>2, <1>7, <2>1 DEF Framed
<1>12. ASSUME NEW j \in 1..n + 1, NEW i \in 1..j - 1, D[i].th = D[j].th
       PROVE  IF Owns(D[j]) THEN Height(S, D, i) < D[j].ci ELSE Height(S, D, i) <= D[j].ci
  <2>1. CASE j <= n
    <3>1. D[i] = C[i] /\ D[j] = C[j] /\ Height(S, D, i) = Height(T, C, i) BY <2>1, <1>12, <1>4
    <3> QED BY <2>1, <3>1, <1>12 DEF Frames
  <2>2. CASE j = n + 1 /\ i = n BY <2>2, <1>3, <1>6, <1>14
  <2>3. CASE j = n + 1 /\ i < n
    <3>1. D[i] = C[i] /\ C[i].th = t /\ i \in 1..n - 1 BY <2>3, <1>2, <1>12
    <3>2. CASE C[n].kind = "unroll"
      <4>1. Height(S, D, i) = 0 /\ f.ci >= 1 /\ Owns(f) BY <3>1, <3>2, <1>4, <1>9
      <4> QED BY <4>1, <2>3, <1>3, <1>14
    <3>3. CASE C[n].kind # "unroll"
      <4>1. Height(S, D, i) = Height(T, C, i) /\ Height(S, D, n) = Len(F) BY <3>1, <3>3, <1>4, <1>8
      <4>2. IF Owns(C[n]) THEN Height(T, C, i) < C[n].ci ELSE Height(T, C, i) <= C[n].ci
        BY <3>1, <1>1 DEF Frames
      <4>3. C[n].ci <= Len(F) BY <1>1, <1>5, OwnFrames
      <4>4. Height(T, C, i) \in Nat /\ C[n].ci \in Nat
        <5>1. i \in 1..Len(C) BY <3>1
        <5>2. Height(T, C, i) \in 0..Len(F) BY <5>1, <3>1, <1>0, OwnFrames
        <5>3. C[n].ci \in Nat BY <1>1 DEF Sized
        <5> QED BY <5>2, <5>3, <1>3
      <4>5. Height(T, C, i) <= Len(F) BY <4>2, <4>3, <4>4, <1>3
      <4>6. Height(S, D, n) = IF Owns(f) THEN f.ci - 1 ELSE f.ci BY <1>6, <1>14
      <4>7. D[j] = f /\ f.ci \in Nat BY <2>3, <1>3, <1>14
      <4> HIDE DEF Added
      <4>8. CASE Owns(f) BY <4>1, <4>4, <4>5, <4>6, <4>7, <4>8, <1>3
      <4>9. CASE ~Owns(f) BY <4>1, <4>4, <4>5, <4>6, <4>7, <4>9, <1>3
      <4> QED BY <4>7, <4>8, <4>9
    <3> QED BY <3>2, <3>3
  <2> QED BY <2>1, <2>2, <2>3, <1>12
<1> QED BY <1>10, <1>11, <1>12 DEF Frames

\* The stack of t is cut back to what entry n had, or t is left altogether.
CutBack(T, C, S, n, t) ==
  /\ Len(S[t].ci) = Height(T, C, n)
  /\ \A i \in 1..Len(S[t].ci) : S[t].ci[i] = T[t].ci[i]
LEMMA FramesKept ==
  ASSUME NEW T, NEW C, NEW S, NEW D, NEW n, NEW t \in Thread,
         Sized(T, C), Sized(S, D), Shape(C), Frames(T, C), Kept(C, D, n), n < Len(C),
         Others(T, S, t),
         C[n + 1].th = t,
         C[n + 1].kind = "resume" \/ CutBack(T, C, S, n, t)
  PROVE  Frames(S, D)
<1>1. Len(C) \in Nat /\ n \in 1..Len(C) /\ Len(D) = n /\ \A i \in 1..n : D[i] = C[i] BY DEF Sized, Kept
<1>2. ASSUME C[n + 1].kind # "resume" PROVE C[n].th = t /\ CutBack(T, C, S, n, t)
  <2>1. Over(C[n + 1], C[n]) BY <1>1 DEF Shape
  <2> QED BY <2>1, <1>2 DEF Over
<1>3. ASSUME C[n + 1].kind = "resume", NEW i \in 1..n PROVE C[i].th # t
  <2>1. n + 1 \in 1..Len(C) /\ i \in 1..(n + 1) - 1 BY <1>1
  <2> QED BY <2>1, <1>3 DEF Shape, ResumedOnce
<1>4. ASSUME NEW i \in 1..n, C[i].th # t PROVE S[C[i].th] = T[C[i].th]
  BY <1>1, <1>4 DEF Others, Sized
<1>5. ASSUME NEW i \in 1..n PROVE Height(S, D, i) = Height(T, C, i)
  <2>1. CASE i < n /\ C[i + 1].kind # "resume"
    <3>1. D[i + 1] = C[i + 1] /\ i < Len(C) /\ i < Len(D) BY <1>1, <2>1
    <3> QED BY <2>1, <3>1 DEF Height
  <2>2. CASE i < n /\ C[i + 1].kind = "resume"
    <3>1. D[i + 1] = C[i + 1] /\ D[i] = C[i] BY <1>1, <2>2
    <3>2. i \in 1..Len(C) /\ n + 1 \in i + 1..Len(C) BY <1>1, <2>2
    <3>3. C[i].th # t BY <2>2, <3>2, <1>1, Resumer
    <3> QED BY <2>2, <3>1, <3>3, <1>4 DEF Height
  <2>3. CASE i = n /\ C[n + 1].kind = "resume"
    <3>1. C[n].th # t BY <2>3, <1>3, <1>1
    <3>2. D[n] = C[n] /\ S[C[n].th] = T[C[n].th] BY <1>1, <1>4, <3>1
    <3> QED BY <2>3, <3>2, <1>1 DEF Height
  <2>4. CASE i = n /\ C[n + 1].kind # "resume"
    <3>1. Height(S, D, n) = Len(S[D[n].th].ci) BY <1>1 DEF Height
    <3> QED BY <2>4, <3>1, <1>1, <1>2 DEF CutBack
  <2> QED BY <2>1, <2>2, <2>3, <2>4, <1>1
<1>6. ASSUME NEW i \in 1..n PROVE Framed(S, D, i)
  <2> DEFINE F == T[C[i].th].ci
             G == S[C[i].th].ci
  <2>1. Framed(T, C, i) /\ C[i].th \in Thread /\ D[i] = C[i] /\ i \in 1..Len(C) BY <1>1 DEF Frames, Sized
  <2>2. Works(C[i], F, Height(T, C, i)) /\ Marks(C[i], F, C[i + 1]) BY <2>1, <1>1 DEF Framed
  <2>3. i < n => D[i + 1] = C[i + 1] BY <1>1
  <2>4. CASE C[i].th # t
    <3>1. G = F BY <2>4, <1>4
    <3> QED BY <3>1, <2>1, <2>2, <2>3, <1>1, <1>5 DEF Framed
  <2>5. CASE C[i].th = t
    <3>1. C[n + 1].kind # "resume" BY <1>3, <2>5
    <3>2. Len(G) = Height(T, C, n) /\ \A j \in 1..Len(G) : G[j] = F[j]
      BY <1>2, <2>5, <3>1 DEF CutBack
    <3>3. Len(F) \in Nat /\ Len(G) \in Nat BY <2>1 DEF Sized
    <3>4. Height(T, C, i) \in 0..Len(F) BY <2>2 DEF Works
    <3>5. Height(T, C, i) = Height(S, D, i) BY <1>5
    <3>6. Height(T, C, i) <= Len(G)
      <4>1. CASE i = n BY <4>1, <3>2, <3>3
      <4>2. CASE i < n
        <5>1. C[n].th = C[i].th BY <1>2, <3>1, <2>5
        <5>2. IF Owns(C[n]) THEN Height(T, C, i) < C[n].ci ELSE Height(T, C, i) <= C[n].ci
          BY <4>2, <5>1, <1>1 DEF Frames
        <5>3. C[n].ci <= Height(T, C, n) /\ C[n].ci \in Nat BY <1>1, OwnFrames DEF Sized
        <5> QED BY <5>2, <5>3, <3>2, <3>3, <3>4
      <4> QED BY <4>1, <4>2, <1>1
    <3>7. Works(C[i], G, Height(T, C, i))
      <4>1. \A j \in 1..Height(T, C, i) : G[j] = F[j] BY <3>2, <3>3, <3>4, <3>6
      <4> QED BY <2>2, <3>3, <3>6, <4>1, WorksAgree
    <3>10. C[i].kind = "cfun" => C[i].ci = Height(T, C, i) /\ Height(T, C, i) >= 1 BY <2>2 DEF Works
    <3>8. C[i].kind = "cfun" => G[C[i].ci] = F[C[i].ci] BY <3>10, <3>2, <3>3, <3>4, <3>6
    <3>9. Marks(C[i], G, C[i + 1]) BY <2>2, <3>8 DEF Marks
    <3> QED BY <3>5, <3>7, <3>9, <2>1, <2>3, <1>1 DEF Framed
  <2> QED BY <2>4, <2>5
<1>7. ASSUME NEW j \in 1..n, NEW i \in 1..j - 1, D[i].th = D[j].th
      PROVE  IF Owns(D[j]) THEN Height(S, D, i) < D[j].ci ELSE Height(S, D, i) <= D[j].ci
  <2>1. D[i] = C[i] /\ D[j] = C[j] /\ Height(S, D, i) = Height(T, C, i) /\ j \in 1..Len(C)
    BY <1>1, <1>5
  <2> QED BY <2>1, <1>7 DEF Frames
<1> QED BY <1>1, <1>6, <1>7 DEF Frames

\* Only what the last entry works with changes.
LEMMA FramesTop ==
  ASSUME NEW T, NEW C, NEW S, NEW n, NEW t \in Thread,
         Sized(T, C), Sized(S, C), Shape(C), Frames(T, C), n = Len(C), t = C[n].th,
         Others(T, S, t),
         C[n].kind \in {"exec", "cfun", "unroll"}, Works(C[n], S[t].ci, Len(S[t].ci)),
         \A i \in 1..C[n].ci - 1 : S[t].ci[i] = T[t].ci[i]
  PROVE  Frames(S, C)
<1> DEFINE F == T[t].ci
           G == S[t].ci
<1>a. F = T[t].ci /\ G = S[t].ci OBVIOUS
<1>b. Works(C[n], G, Len(G)) OBVIOUS
<1>c. \A i \in 1..C[n].ci - 1 : G[i] = F[i] OBVIOUS
<1> HIDE DEF F, G
<1> USE <1>a, <1>b, <1>c
<1>1. n \in Nat /\ n >= 1 BY DEF Sized, Shape, Based
<1>2. Len(F) \in Nat /\ Len(G) \in Nat BY DEF Sized
<1>3. ASSUME NEW i \in 1..n - 1 PROVE Height(S, C, i) = Height(T, C, i)
  <2>1. CASE C[i + 1].kind # "resume" BY <1>1, <2>1 DEF Height
  <2>2. CASE C[i + 1].kind = "resume"
    <3>1. i \in 1..Len(C) /\ n \in i + 1..Len(C) BY <1>1
    <3>2. C[i].th # t BY <2>2, <3>1, <1>1, Resumer
    <3>3. C[i].th \in Thread BY <3>1 DEF Sized
    <3> QED BY <2>2, <3>2, <3>3 DEF Height, Others
  <2> QED BY <2>1, <2>2
<1>4. Height(S, C, n) = Len(G) BY DEF Height
<1>5. ASSUME NEW i \in 1..n - 1, C[i].th = t
      PROVE  Height(T, C, i) < C[n].ci \/ Height(T, C, i) = 0
  <2>1. IF Owns(C[n]) THEN Height(T, C, i) < C[n].ci ELSE Height(T, C, i) <= C[n].ci
    BY <1>1, <1>5 DEF Frames
  <2>2. C[n].kind = "unroll" => C[n].ci = 0 BY <1>1 DEF Shape, Holds
  <2>3. i \in 1..Len(C) BY <1>1
  <2>4. Height(T, C, i) \in Nat BY <2>3, <1>2, <1>5, OwnFrames DEF Sized
  <2> QED BY <2>1, <2>2, <2>4 DEF Owns
<1>6. C[n].ci \in Nat /\ C[n].ci <= Len(G)
  <2>1. C[n].kind = "unroll" => C[n].ci = 0 BY <1>1 DEF Shape, Holds
  <2> QED BY <1>1, <1>2, <2>1 DEF Sized, Works
<1>7. ASSUME NEW i \in 1..n - 1 PROVE Framed(S, C, i)
  <2>1. Framed(T, C, i) /\ C[i].th \in Thread /\ i \in 1..Len(C) /\ i < Len(C)
    BY <1>1 DEF Frames, Sized
  <2>2. CASE C[i].th # t BY <2>1, <2>2, <1>3 DEF Framed, Others
  <2>3. CASE C[i].th = t
    <3>1. Works(C[i], F, Height(T, C, i)) /\ Marks(C[i], F, C[i + 1]) BY <2>1, <2>3 DEF Framed
    <3>2. Height(T, C, i) \in 0..Len(F) BY <3>1 DEF Works
    <3>3. Height(T, C, i) <= Len(G) /\ \A j \in 1..Height(T, C, i) : G[j] = F[j]
      BY <1>2, <1>5, <1>6, <2>3, <3>2
    <3>4. Works(C[i], G, Height(T, C, i)) BY <1>2, <3>1, <3>3, WorksAgree
    <3>7. C[i].kind = "cfun" => C[i].ci = Height(T, C, i) /\ Height(T, C, i) >= 1 BY <3>1 DEF Works
    <3>5. C[i].kind = "cfun" => G[C[i].ci] = F[C[i].ci] BY <3>7, <3>2, <3>3
    <3>6. Marks(C[i], G, C[i + 1]) BY <3>1, <3>5 DEF Marks
    <3> QED BY <2>3, <3>4, <3>6, <1>3 DEF Framed
  <2> QED BY <2>2, <2>3
<1>8. Framed(S, C, n) BY <1>4 DEF Framed
<1>9. \A i \in 1..Len(C) : Framed(S, C, i) BY <1>1, <1>7, <1>8
<1>10. ASSUME NEW j \in 1..Len(C), NEW i \in 1..j - 1, C[i].th = C[j].th
      PROVE  IF Owns(C[j]) THEN Height(S, C, i) < C[j].ci ELSE Height(S, C, i) <= C[j].ci
  BY <1>1, <1>3, <1>10 DEF Frames
<1> QED BY <1>9, <1>10 DEF Frames

\* Stacks that differ in what no entry looks at.
Alike(F, G) ==
  /\ Len(G) = Len(F)
  /\ \A i \in 1..Len(F) : /\ G[i].lua = F[i].lua /\ G[i].fresh = F[i].fresh /\ G[i].op = F[i].op
                          /\ G[i].k = F[i].k /\ G[i].yp = F[i].yp /\ G[i].oef = F[i].oef
                          /\ G[i].oah = F[i].oah /\ G[i].handler = F[i].handler
LEMMA FramesAlike ==
  ASSUME NEW T, NEW C, NEW S, Sized(T, C), Sized(S, C), Frames(T, C),
         \A x \in Thread : Alike(T[x].ci, S[x].ci)
  PROVE  Frames(S, C)
<1>1. ASSUME NEW i \in 1..Len(C) PROVE Height(S, C, i) = Height(T, C, i)
  BY DEF Sized, Alike, Height
<1>2. ASSUME NEW i \in 1..Len(C) PROVE Framed(S, C, i)
  <2> DEFINE F == T[C[i].th].ci
             G == S[C[i].th].ci
             h == Height(T, C, i)
  <2>1. Alike(F, G) /\ Len(F) \in Nat BY DEF Sized
  <2>2. Framed(T, C, i) BY DEF Frames
  <2>3. Works(C[i], F, h) BY <2>2 DEF Framed
  <2> HIDE DEF F, G, h
  <2>4. h \in 0..Len(F) /\ Len(G) = Len(F) BY <2>1, <2>3 DEF Works, Alike
  <2>5. ASSUME C[i].kind = "exec"
        PROVE  C[i].ci \in 1..h /\ \A f \in C[i].ci..h : G[f].lua /\ (G[f].fresh <=> f = C[i].ci)
    <3>1. C[i].ci \in 1..h /\ \A f \in C[i].ci..h : F[f].lua /\ (F[f].fresh <=> f = C[i].ci)
      BY <2>3, <2>5 DEF Works
    <3>2. \A f \in C[i].ci..h : G[f].lua = F[f].lua /\ G[f].fresh = F[f].fresh
      BY <2>1, <2>4, <3>1 DEF Alike
    <3> QED BY <3>1, <3>2
  <2>6. h >= 1 => G[h].lua = F[h].lua /\ G[h].k = F[h].k /\ G[h].yp = F[h].yp /\ G[h].op = F[h].op
    BY <2>1, <2>4 DEF Alike
  <2>7. Works(C[i], G, h)
    <3>1. h \in 0..Len(G) BY <2>4
    <3>2. C[i].kind \in {"cfun", "ret"} => C[i].ci = h /\ h >= 1 /\ ~G[h].lua BY <2>3, <2>6 DEF Works
    <3>3. C[i].kind = "ret" => G[h].k = "none" /\ ~G[h].yp BY <2>3, <2>6 DEF Works
    <3>4. C[i].kind = "hook" => h >= 1 /\ G[h].lua /\ G[h].op = "none" BY <2>3, <2>6 DEF Works
    <3>5. /\ C[i].kind \in {"hook", "pcall", "raise", "throw"} => C[i].ci = h
          /\ C[i].kind = "resume" => h = 0
      BY <2>3 DEF Works
    <3> QED BY <2>5, <3>1, <3>2, <3>3, <3>4, <3>5 DEF Works
  <2>8. ASSUME i < Len(C) PROVE Marks(C[i], G, C[i + 1])
    <3>1. Marks(C[i], F, C[i + 1]) BY <2>2, <2>8 DEF Framed, F
    <3>2. C[i].kind = "cfun" => C[i].ci = h /\ h >= 1 BY <2>3 DEF Works
    <3> QED BY <2>6, <3>1, <3>2 DEF Marks
  <2> QED BY <2>7, <2>8, <1>1 DEF Framed, G, h
<1>3. ASSUME NEW j \in 1..Len(C), NEW i \in 1..j - 1, C[i].th = C[j].th
      PROVE  IF Owns(C[j]) THEN Height(S, C, i) < C[j].ci ELSE Height(S, C, i) <= C[j].ci
  <2>1. i \in 1..Len(C) BY DEF Sized
  <2> QED BY <2>1, <1>1, <1>3 DEF Frames
<1> QED BY <1>2, <1>3 DEF Frames

LEMMA FramesRekinded ==
  ASSUME NEW T, NEW C, NEW D, NEW n \in Nat, Sized(T, C), Shape(C), Frames(T, C), Rekinded(C, D, n)
  PROVE  Frames(T, D)
<1>1. /\ Len(C) = n /\ Len(D) = n /\ \A i \in 1..n - 1 : D[i] = C[i]
      /\ D[n].kind = "throw" /\ C[n].kind \in {"raise", "hook"} /\ D[n].th = C[n].th
      /\ D[n].ci = C[n].ci /\ D[n].yp = C[n].yp /\ n > 1
  BY DEF Rekinded, Shape, Based
<1>2. ASSUME NEW i \in 1..n
      PROVE  /\ D[i].th = C[i].th /\ D[i].ci = C[i].ci /\ (Owns(D[i]) <=> Owns(C[i]))
             /\ D[i].kind = "resume" <=> C[i].kind = "resume"
  BY <1>1 DEF Owns
<1>3. ASSUME NEW i \in 1..n PROVE Height(T, D, i) = Height(T, C, i)
  <2>1. CASE i < n
    <3>1. i + 1 \in 1..n BY <2>1, <1>1
    <3> QED BY <3>1, <2>1, <1>1, <1>2 DEF Height
  <2>2. CASE i = n BY <2>2, <1>1 DEF Height
  <2> QED BY <2>1, <2>2
<1>4. ASSUME NEW i \in 1..n PROVE Framed(T, D, i)
  <2>1. Framed(T, C, i) BY <1>1 DEF Frames
  <2>2. CASE i < n - 1
    <3>1. D[i] = C[i] /\ D[i + 1] = C[i + 1] BY <2>2, <1>1
    <3> QED BY <3>1, <2>1, <2>2, <1>1, <1>3 DEF Framed
  <2>3. CASE i = n - 1
    <3>1. D[i] = C[i] BY <2>3, <1>1
    <3>2. Works(C[i], T[C[i].th].ci, Height(T, C, i)) /\ Marks(C[i], T[C[i].th].ci, C[n])
      BY <2>1, <2>3, <1>1 DEF Framed
    <3>3. Marks(C[i], T[C[i].th].ci, D[n])
      <4>1. Over(C[n], C[i])
        <5>1. i \in 1..Len(C) - 1 /\ n = i + 1 BY <2>3, <1>1
        <5> QED BY <5>1 DEF Shape
      <4>2. C[n].kind = "hook" => C[i].kind # "cfun" BY <4>1 DEF Over
      <4> QED BY <4>2, <3>2, <1>1 DEF Marks
    <3> QED BY <3>1, <3>2, <3>3, <2>3, <1>1, <1>3 DEF Framed
  <2>4. CASE i = n
    <3>1. Works(C[n], T[C[n].th].ci, Height(T, C, n)) BY <2>1, <2>4 DEF Framed
    <3>2. Works(D[n], T[C[n].th].ci, Height(T, C, n)) BY <3>1, <1>1 DEF Works
    <3> QED BY <3>2, <2>4, <1>1, <1>3 DEF Framed
  <2> QED BY <2>2, <2>3, <2>4
<1>5. ASSUME NEW j \in 1..n, NEW i \in 1..j - 1, D[i].th = D[j].th
      PROVE  IF Owns(D[j]) THEN Height(T, D, i) < D[j].ci ELSE Height(T, D, i) <= D[j].ci
  <2>1. i \in 1..n BY <1>1
  <2> QED BY <2>1, <1>1, <1>2, <1>3, <1>5 DEF Frames
<1> QED BY <1>1, <1>4, <1>5 DEF Frames

\* D has the first m entries of C, and t resumed above them: in unroll when it has frames.
Atop(C, D, m, t) ==
  /\ m \in 1..Len(C) /\ Len(D) \in {m + 1, m + 2} /\ \A i \in 1..m : D[i] = C[i]
  /\ D[m + 1].kind = "resume" /\ D[m + 1].th = t
  /\ Len(D) = m + 2 => D[m + 2].kind = "unroll" /\ D[m + 2].th = t
LEMMA FramesResumed ==
  ASSUME NEW T, NEW C, NEW S, NEW D, NEW m, NEW t \in Thread,
         Sized(T, C), Sized(S, D), Shape(C), Shape(D), Frames(T, C), Atop(C, D, m, t),
         IF m < Len(C) THEN C[m + 1].kind = "resume"
         ELSE C[m].kind = "cfun" => ~T[C[m].th].ci[C[m].ci].yp,
         Others(T, S, t), Len(D) = m + 1 => Len(S[t].ci) = 0
  PROVE  Frames(S, D)
<1>1. /\ Len(C) \in Nat /\ m \in 1..Len(C) /\ Len(D) \in {m + 1, m + 2} /\ \A i \in 1..m : D[i] = C[i]
      /\ D[m + 1].kind = "resume" /\ D[m + 1].th = t
      /\ Len(D) = m + 2 => D[m + 2].kind = "unroll" /\ D[m + 2].th = t
  BY DEF Sized, Atop
<1>2. ASSUME NEW i \in 1..m PROVE C[i].th # t
  <2>1. m + 1 \in 1..Len(D) /\ i \in 1..(m + 1) - 1 BY <1>1
  <2> QED BY <2>1, <1>1 DEF Shape, ResumedOnce
<1>3. ASSUME NEW i \in 1..m PROVE S[C[i].th] = T[C[i].th]
  BY <1>1, <1>2 DEF Others, Sized
<1>4. ASSUME NEW i \in 1..m PROVE Height(S, D, i) = Height(T, C, i)
  <2>1. CASE i < m
    <3>1. D[i] = C[i] /\ D[i + 1] = C[i + 1] /\ i < Len(C) /\ i < Len(D) BY <2>1, <1>1
    <3> QED BY <3>1, <1>3 DEF Height
  <2>2. CASE i = m
    <3>1. D[i] = C[i] /\ i < Len(D) BY <2>2, <1>1
    <3>2. Height(S, D, i) = Len(S[C[i].th].ci) BY <3>1, <2>2, <1>1 DEF Height
    <3>3. Height(T, C, i) = Len(T[C[i].th].ci) BY <2>2, <1>1 DEF Height
    <3> QED BY <3>2, <3>3, <1>3
  <2> QED BY <2>1, <2>2, <1>1
<1>5. D[m + 1].ci = 0 /\ (Len(D) = m + 2 => D[m + 2].ci = 0) BY <1>1 DEF Shape, Holds
<1>6. Height(S, D, m + 1) = 0
  <2>1. CASE Len(D) = m + 1 BY <2>1, <1>1 DEF Height
  <2>2. CASE Len(D) = m + 2 BY <2>2, <1>1, <1>5 DEF Height, Owns
  <2> QED BY <2>1, <2>2, <1>1
<1>7. Len(D) = m + 2 => Height(S, D, m + 2) = Len(S[t].ci) BY <1>1 DEF Height
<1>8. Len(S[t].ci) \in Nat BY DEF Sized
<1>9. ASSUME NEW i \in 1..Len(D) PROVE Framed(S, D, i)
  <2>1. CASE i < m
    <3>1. Framed(T, C, i) BY <2>1, <1>1 DEF Frames
    <3>2. i < Len(C) /\ i \in 1..m /\ i + 1 \in 1..m BY <2>1, <1>1
    <3>3. D[i] = C[i] /\ D[i + 1] = C[i + 1] BY <3>2, <1>1
    <3> QED BY <3>1, <3>2, <3>3, <1>3, <1>4 DEF Framed
  <2>2. CASE i = m
    <3>1. Framed(T, C, m) BY <1>1 DEF Frames
    <3>2. Works(C[m], T[C[m].th].ci, Height(T, C, m)) BY <3>1 DEF Framed
    <3>3. Works(D[m], S[D[m].th].ci, Height(S, D, m)) BY <3>2, <1>1, <1>3, <1>4
    <3>4. Marks(D[m], S[D[m].th].ci, D[m + 1])
      <4>1. Over(D[m + 1], D[m]) /\ Holds(D[m + 1]) BY <1>1 DEF Shape
      <4>2. ~D[m + 1].yp BY <4>1, <1>1 DEF Holds
      <4>3. C[m].kind = "cfun" => ~T[C[m].th].ci[C[m].ci].yp
        <5>1. CASE m < Len(C)
          <6>1. Marks(C[m], T[C[m].th].ci, C[m + 1]) BY <3>1, <5>1 DEF Framed
          <6>2. m + 1 \in 1..Len(C) /\ C[m + 1].kind = "resume" BY <1>1, <5>1
          <6>3. ~C[m + 1].yp BY <6>2 DEF Shape, Holds
          <6> QED BY <6>1, <6>2, <6>3 DEF Marks
        <5>2. CASE m = Len(C) BY <5>2
        <5> QED BY <5>1, <5>2, <1>1
      <4>5. m \in 1..m BY <1>1
      <4>4. D[m] = C[m] /\ S[C[m].th] = T[C[m].th] BY <1>1, <1>3, <4>5
      <4> QED BY <4>2, <4>3, <4>4 DEF Marks
    <3> QED BY <3>3, <3>4, <2>2 DEF Framed
  <2>3. CASE i = m + 1
    <3>1. Works(D[i], S[t].ci, 0) BY <2>3, <1>1, <1>8 DEF Works
    <3>2. Marks(D[i], S[t].ci, D[i + 1]) BY <2>3, <1>1 DEF Marks
    <3> QED BY <3>1, <3>2, <2>3, <1>1, <1>6 DEF Framed
  <2>4. CASE i = m + 2
    <3>1. Works(D[i], S[t].ci, Len(S[t].ci)) BY <2>4, <1>1, <1>8 DEF Works
    <3> QED BY <3>1, <2>4, <1>1, <1>7 DEF Framed
  <2> QED BY <2>1, <2>2, <2>3, <2>4, <1>1
<1>10. ASSUME NEW j \in 1..Len(D), NEW i \in 1..j - 1, D[i].th = D[j].th
       PROVE  IF Owns(D[j]) THEN Height(S, D, i) < D[j].ci ELSE Height(S, D, i) <= D[j].ci
  <2>1. CASE j <= m
    <3>1. D[i] = C[i] /\ D[j] = C[j] /\ i \in 1..m /\ j \in 1..Len(C) BY <2>1, <1>1
    <3> QED BY <3>1, <1>4, <1>10 DEF Frames
  <2>2. CASE j > m
    <3>1. D[j].th = t /\ ~Owns(D[j]) BY <2>2, <1>1 DEF Owns
    <3>2. i > m BY <3>1, <1>10, <1>1, <1>2
    <3>3. i = m + 1 /\ j = m + 2 BY <2>2, <3>2, <1>1
    <3>4. D[j].ci = 0 /\ Height(S, D, i) = 0 BY <3>3, <1>1, <1>5, <1>6
    <3> QED BY <3>1, <3>4
  <2> QED BY <2>1, <2>2, <1>1
<1> QED BY <1>9, <1>10 DEF Frames

(***************************************************************************)
(* Counting the entries of a thread                                        *)
(***************************************************************************)
\* Entries of one thread in another stack that agrees up to n.
LEMMA CountSame ==
  ASSUME NEW C, NEW D, NEW n, NEW m, NEW t, \A i \in 1..n : D[i] = C[i], m \in 0..n, n \in Nat
  PROVE  Counted(D, t, m) = Counted(C, t, m) /\ Ny(D, t, m) = Ny(C, t, m)
<1>1. \A i \in 1..m : D[i] = C[i] OBVIOUS
<1>2. {i \in 1..m : D[i].th = t /\ D[i].counted} = {i \in 1..m : C[i].th = t /\ C[i].counted} BY <1>1
<1>3. {i \in 1..m : D[i].th = t /\ D[i].ny} = {i \in 1..m : C[i].th = t /\ C[i].ny} BY <1>1
<1> QED BY <1>2, <1>3 DEF Counted, Ny

LEMMA CountType ==
  ASSUME NEW C, NEW n \in Nat, NEW t
  PROVE  Counted(C, t, n) \in Nat /\ Ny(C, t, n) \in Nat
<1> DEFINE A == {i \in 1..n : C[i].th = t /\ C[i].counted}
           B == {i \in 1..n : C[i].th = t /\ C[i].ny}
<1>1. IsFiniteSet(1..n) BY FS_Interval
<1>2. A \in SUBSET (1..n) /\ B \in SUBSET (1..n) OBVIOUS
<1>3. IsFiniteSet(A) /\ IsFiniteSet(B) BY <1>1, <1>2, FS_Subset
<1>4. Cardinality(A) \in Nat /\ Cardinality(B) \in Nat BY <1>3, FS_CardinalityType
<1> QED BY <1>4 DEF Counted, Ny

\* The next entry counts or does not.
LEMMA CountNext ==
  ASSUME NEW C, NEW n \in Nat, NEW t
  PROVE  /\ Counted(C, t, n + 1) = IF C[n + 1].th = t /\ C[n + 1].counted
                                   THEN Counted(C, t, n) + 1 ELSE Counted(C, t, n)
         /\ Ny(C, t, n + 1) = IF C[n + 1].th = t /\ C[n + 1].ny
                              THEN Ny(C, t, n) + 1 ELSE Ny(C, t, n)
<1>1. IsFiniteSet(1..n) BY FS_Interval
<1> DEFINE A(m) == {i \in 1..m : C[i].th = t /\ C[i].counted}
           B(m) == {i \in 1..m : C[i].th = t /\ C[i].ny}
<1>2. A(n) \in SUBSET (1..n) /\ B(n) \in SUBSET (1..n) OBVIOUS
<1>3. IsFiniteSet(A(n)) /\ IsFiniteSet(B(n)) BY <1>1, <1>2, FS_Subset
<1>4. A(n + 1) = IF C[n + 1].th = t /\ C[n + 1].counted THEN A(n) \cup {n + 1} ELSE A(n) OBVIOUS
<1>5. B(n + 1) = IF C[n + 1].th = t /\ C[n + 1].ny THEN B(n) \cup {n + 1} ELSE B(n) OBVIOUS
<1>6. n + 1 \notin A(n) /\ n + 1 \notin B(n) OBVIOUS
<1>7. Cardinality(A(n) \cup {n + 1}) = Cardinality(A(n)) + 1 BY <1>3, <1>6, FS_AddElement
<1>8. Cardinality(B(n) \cup {n + 1}) = Cardinality(B(n)) + 1 BY <1>3, <1>6, FS_AddElement
<1>9. Cardinality(A(n + 1)) = IF C[n + 1].th = t /\ C[n + 1].counted
                              THEN Cardinality(A(n)) + 1 ELSE Cardinality(A(n)) BY <1>4, <1>7
<1>10. Cardinality(B(n + 1)) = IF C[n + 1].th = t /\ C[n + 1].ny
                               THEN Cardinality(B(n)) + 1 ELSE Cardinality(B(n)) BY <1>5, <1>8
<1> QED BY <1>9, <1>10 DEF Counted, Ny

\* Entries that do not count.
LEMMA CountSkip ==
  ASSUME NEW C, NEW n \in Nat, NEW m \in Nat, NEW t, n <= m,
         \A i \in n + 1..m : C[i].th = t => ~C[i].counted /\ ~C[i].ny
  PROVE  Counted(C, t, m) = Counted(C, t, n) /\ Ny(C, t, m) = Ny(C, t, n)
<1>1. {i \in 1..m : C[i].th = t /\ C[i].counted} = {i \in 1..n : C[i].th = t /\ C[i].counted} OBVIOUS
<1>2. {i \in 1..m : C[i].th = t /\ C[i].ny} = {i \in 1..n : C[i].th = t /\ C[i].ny} OBVIOUS
<1> QED BY <1>1, <1>2 DEF Counted, Ny

LEMMA CountNone ==
  ASSUME NEW C, NEW t
  PROVE  Counted(C, t, 0) = 0 /\ Ny(C, t, 0) = 0
<1>1. {i \in 1..0 : C[i].th = t /\ C[i].counted} = {} /\ {i \in 1..0 : C[i].th = t /\ C[i].ny} = {} OBVIOUS
<1> QED BY <1>1, FS_EmptySet DEF Counted, Ny

(***************************************************************************)
(* The counters                                                            *)
(***************************************************************************)
\* The state u of a thread becomes v when an entry f of it is added.
CountedUp(u, v, f) ==
  /\ v.ncc = IF f.counted THEN u.ncc + 1 ELSE u.ncc
  /\ v.nny = IF f.ny THEN u.nny + 1 ELSE u.nny
  /\ f.kind = "pcall" => f.ncc = u.ncc /\ f.nny = u.nny
\* A counter goes on when a new entry of the thread counts itself.
LEMMA CountsAdded ==
  ASSUME NEW T, NEW C, NEW S, NEW D, NEW n \in Nat, NEW f, NEW t \in Thread, NEW b \in Int, NEW z \in Int,
         Sized(T, C), Added(C, D, n, f), f.th = t, Counts(T, C, t, b, z),
         CountedUp(T[t], S[t], f)
  PROVE  Counts(S, D, t, b, z)
<1>1. Len(C) = n /\ Len(D) = n + 1 /\ (\A i \in 1..n : D[i] = C[i]) /\ D[n + 1] = f BY DEF Added
<1>2. ASSUME NEW m \in 0..n
      PROVE  Counted(D, t, m) = Counted(C, t, m) /\ Ny(D, t, m) = Ny(C, t, m)
  <2>1. \A i \in 1..n : D[i] = C[i] BY <1>1
  <2> QED BY <2>1, CountSame
<1>3. /\ Counted(D, t, n + 1) = IF f.counted THEN Counted(D, t, n) + 1 ELSE Counted(D, t, n)
      /\ Ny(D, t, n + 1) = IF f.ny THEN Ny(D, t, n) + 1 ELSE Ny(D, t, n)
  BY <1>1, CountNext
<1>4. Counted(D, t, n) \in Nat /\ Ny(D, t, n) \in Nat BY CountType
<1>5. T[t].ncc = b + Counted(D, t, n) /\ T[t].nny = z + Ny(D, t, n)
  BY <1>1, <1>2 DEF Counts
<1>6. S[t].ncc = b + Counted(D, t, n + 1) /\ S[t].nny = z + Ny(D, t, n + 1)
  BY <1>3, <1>4, <1>5 DEF CountedUp
<1>7. ASSUME NEW i \in 1..n + 1, D[i].kind = "pcall", D[i].th = t
      PROVE  D[i].ncc = b + Counted(D, t, i - 1) /\ D[i].nny = z + Ny(D, t, i - 1)
  <2>1. CASE i <= n
    <3>1. i - 1 \in 0..n /\ i \in 1..Len(C) /\ D[i] = C[i] BY <2>1, <1>1
    <3> QED BY <3>1, <1>2, <1>7 DEF Counts
  <2>2. CASE i = n + 1 BY <2>2, <1>1, <1>5, <1>7 DEF CountedUp
  <2> QED BY <2>1, <2>2
<1> QED BY <1>1, <1>6, <1>7 DEF Counts

\* A counter after its thread has left the entries above n: it counts down what they
\* counted, or is set to what it was there.
LEMMA CountsKept ==
  ASSUME NEW T, NEW C, NEW S, NEW D, NEW n, NEW t \in Thread, NEW b \in Int, NEW z \in Int,
         Sized(T, C), Kept(C, D, n), Counts(T, C, t, b, z),
         S[t].ncc = b + Counted(C, t, n), S[t].nny = z + Ny(C, t, n)
  PROVE  Counts(S, D, t, b, z)
<1>1. Len(C) \in Nat /\ n \in 1..Len(C) /\ Len(D) = n /\ \A i \in 1..n : D[i] = C[i] BY DEF Sized, Kept
<1>2. \A m \in 0..n : Counted(D, t, m) = Counted(C, t, m) /\ Ny(D, t, m) = Ny(C, t, m)
  BY <1>1, CountSame
<1>3. ASSUME NEW i \in 1..n, D[i].kind = "pcall", D[i].th = t
      PROVE  D[i].ncc = b + Counted(D, t, i - 1) /\ D[i].nny = z + Ny(D, t, i - 1)
  <2>1. i - 1 \in 0..n /\ i \in 1..Len(C) /\ D[i] = C[i] BY <1>1
  <2> QED BY <2>1, <1>2, <1>3 DEF Counts
<1> QED BY <1>1, <1>2, <1>3 DEF Counts

\* The counters of a thread that is not concerned.
LEMMA CountsOther ==
  ASSUME NEW T, NEW C, NEW S, NEW D, NEW n \in Nat, NEW x, NEW b, NEW z,
         Len(C) \in Nat, Len(D) \in Nat, n <= Len(C), n <= Len(D), \A i \in 1..n : D[i] = C[i],
         \A i \in n + 1..Len(C) : C[i].th # x,
         \A i \in n + 1..Len(D) : D[i].th # x,
         S[x].ncc = T[x].ncc, S[x].nny = T[x].nny, Counts(T, C, x, b, z)
  PROVE  Counts(S, D, x, b, z)
<1>1. \A m \in 0..n : Counted(D, x, m) = Counted(C, x, m) /\ Ny(D, x, m) = Ny(C, x, m)
  BY CountSame
<1>2. Counted(D, x, Len(D)) = Counted(D, x, n) /\ Ny(D, x, Len(D)) = Ny(D, x, n) BY CountSkip
<1>3. Counted(C, x, Len(C)) = Counted(C, x, n) /\ Ny(C, x, Len(C)) = Ny(C, x, n) BY CountSkip
<1>4. n \in 0..n OBVIOUS
<1>5. S[x].ncc = b + Counted(D, x, Len(D)) /\ S[x].nny = z + Ny(D, x, Len(D))
  BY <1>1, <1>2, <1>3, <1>4 DEF Counts
<1>6. ASSUME NEW i \in 1..Len(D), D[i].kind = "pcall", D[i].th = x
      PROVE  D[i].ncc = b + Counted(D, x, i - 1) /\ D[i].nny = z + Ny(D, x, i - 1)
  <2>1. i \in 1..n BY <1>6
  <2>2. i - 1 \in 0..n /\ i \in 1..Len(C) /\ D[i] = C[i] BY <2>1
  <2> QED BY <2>2, <1>1, <1>6 DEF Counts
<1> QED BY <1>5, <1>6 DEF Counts

\* The counters of all threads when only the entries of one thread above n change.
LEMMA CountsStep ==
  ASSUME NEW T, NEW C, NEW S, NEW D, NEW n, NEW t \in Thread,
         Sized(T, C), Sized(S, D), Shape(C), Shape(D), CountsRight(T, C),
         n \in 1..Len(C), n <= Len(D), \A i \in 1..n : D[i] = C[i], C[n].th = t, Others(T, S, t),
         \A i \in n + 1..Len(C) : C[i].th = t,
         \A i \in n + 1..Len(D) : D[i].th = t,
         \A b, z \in Int : Counts(T, C, t, b, z) => Counts(S, D, t, b, z)
  PROVE  CountsRight(S, D)
<1>1. Len(C) \in Nat /\ Len(D) \in Nat /\ n \in Nat BY DEF Sized
<1>2. ASSUME NEW x \in Thread, NEW b \in Int, NEW z \in Int, Counts(T, C, x, b, z)
      PROVE  Counts(S, D, x, b, z)
  <2>1. CASE x = t BY <2>1, <1>2
  <2>2. CASE x # t
    <3>1. S[x] = T[x] BY <2>2 DEF Others
    <3>2. \A i \in n + 1..Len(C) : C[i].th # x BY <2>2
    <3>3. \A i \in n + 1..Len(D) : D[i].th # x BY <2>2
    <3>4. S[x].ncc = T[x].ncc /\ S[x].nny = T[x].nny BY <3>1
    <3>5. Len(C) \in Nat /\ Len(D) \in Nat /\ n \in Nat /\ n <= Len(C) BY <1>1
    <3>6. Counts(T, C, x, b, z) BY <1>2
    <3> QED BY <3>2, <3>3, <3>4, <3>5, <3>6, CountsOther
  <2> QED BY <2>1, <2>2
<1>3. Counts(S, D, mainthread, 0, 1)
  <2>1. mainthread \in Thread
    <3>1. 1 \in 1..Len(C) /\ C[1].th = mainthread BY <1>1 DEF Shape, Based
    <3> QED BY <3>1 DEF Sized
  <2> QED BY <2>1, <1>2 DEF CountsRight
<1>4. ASSUME NEW x \in Thread PROVE OnCStack(D, x) \/ S[x].nny = 1
  <2>1. CASE x = t
    <3>1. D[n].th = t /\ n \in 1..Len(D) BY <1>1
    <3> QED BY <3>1, <2>1 DEF OnCStack
  <2>2. CASE x # t /\ OnCStack(C, x)
    <3>1. PICK i \in 1..Len(C) : C[i].th = x BY <2>2 DEF OnCStack
    <3>2. i \in 1..n BY <3>1, <2>2, <1>1
    <3>3. D[i].th = x /\ i \in 1..Len(D) BY <3>1, <3>2, <1>1
    <3> QED BY <3>3 DEF OnCStack
  <2>3. CASE x # t /\ ~OnCStack(C, x) BY <2>3 DEF CountsRight, Others
  <2> QED BY <2>1, <2>2, <2>3
<1>5. ASSUME NEW r \in 2..Len(D), D[r].kind = "resume"
      PROVE  /\ D[r].nny = 1 /\ D[r].ncc = S[D[r - 1].th].ncc + 1
             /\ Counts(S, D, D[r].th, D[r].ncc, 0)
  <2>1. r <= n
    <3> SUFFICES ASSUME r > n PROVE FALSE BY <1>1
    <3>1. D[r].th = t /\ D[n].th = t /\ n \in 1..r - 1 /\ r \in 1..Len(D) BY <1>1
    <3> QED BY <3>1, <1>5 DEF Shape, ResumedOnce
  <2>2. D[r] = C[r] /\ r \in 2..Len(C) /\ D[r - 1] = C[r - 1] BY <1>1, <2>1
  <2>3. C[r].nny = 1 /\ C[r].ncc = T[C[r - 1].th].ncc + 1 /\ Counts(T, C, C[r].th, C[r].ncc, 0)
    BY <2>2, <1>5 DEF CountsRight
  <2>4. C[r - 1].th # t
    <3>1. r - 1 \in 1..Len(C) /\ n \in (r - 1) + 1..Len(C) /\ (r - 1) + 1 = r BY <1>1, <2>1
    <3> QED BY <3>1, <2>2, <1>5, <1>1, Resumer
  <2>5. S[C[r - 1].th] = T[C[r - 1].th]
    <3>1. r - 1 \in 1..Len(C) BY <2>2
    <3> QED BY <2>4, <3>1 DEF Others, Sized
  <2>6. C[r].th \in Thread /\ C[r].ncc \in Int BY <2>2 DEF Sized
  <2> QED BY <2>2, <2>3, <2>5, <2>6, <1>2
<1> QED BY <1>3, <1>4, <1>5 DEF CountsRight

\* lua_resume: the thread counts from the nesting of the one that resumes it.
LEMMA CountsResumed ==
  ASSUME NEW T, NEW C, NEW S, NEW D, NEW m, NEW t \in Thread,
         Sized(T, C), Sized(S, D), Shape(C), Shape(D), CountsRight(T, C), Atop(C, D, m, t), m = Len(C),
         Others(T, S, t),
         D[m + 1].nny = 1, D[m + 1].ncc = T[C[m].th].ncc + 1,
         S[t].ncc = D[m + 1].ncc, S[t].nny = 0
  PROVE  CountsRight(S, D)
<1>1. /\ m \in Nat /\ m >= 1 /\ Len(D) \in {m + 1, m + 2} /\ \A i \in 1..m : D[i] = C[i]
      /\ D[m + 1].kind = "resume" /\ D[m + 1].th = t
      /\ Len(D) = m + 2 => D[m + 2].kind = "unroll" /\ D[m + 2].th = t
  BY DEF Sized, Atop
<1>2. ASSUME NEW i \in 1..m PROVE C[i].th # t
  <2>1. m + 1 \in 1..Len(D) /\ i \in 1..(m + 1) - 1 BY <1>1
  <2> QED BY <2>1, <1>1 DEF Shape, ResumedOnce
<1>3. ASSUME NEW x \in Thread, x # t, NEW b \in Int, NEW z \in Int, Counts(T, C, x, b, z)
      PROVE  Counts(S, D, x, b, z)
  <2>1. S[x].ncc = T[x].ncc /\ S[x].nny = T[x].nny BY <1>3 DEF Others
  <2>2. \A i \in m + 1..Len(D) : D[i].th # x BY <1>1, <1>3
  <2>3. \A i \in m + 1..Len(C) : C[i].th # x BY <1>1
  <2>4. Len(C) \in Nat /\ Len(D) \in Nat /\ m <= Len(C) /\ m <= Len(D) BY <1>1
  <2> QED BY <1>1, <1>3, <2>1, <2>2, <2>3, <2>4, CountsOther
<1>4. C[1].th = mainthread /\ mainthread \in Thread /\ mainthread # t
  <2>1. 1 \in 1..Len(C) /\ C[1].th = mainthread BY <1>1 DEF Shape, Based
  <2> QED BY <1>1, <1>2, <2>1 DEF Sized
<1>5. Counts(S, D, mainthread, 0, 1) BY <1>3, <1>4 DEF CountsRight
<1>6. Counted(D, t, Len(D)) = 0 /\ Ny(D, t, Len(D)) = 0
  <2>1. ASSUME NEW i \in 0 + 1..Len(D), D[i].th = t PROVE ~D[i].counted /\ ~D[i].ny
    <3>1. i > m BY <1>1, <1>2, <2>1
    <3>2. i \in 1..Len(D) /\ D[i].kind \in {"resume", "unroll"} BY <1>1, <3>1
    <3> QED BY <3>2 DEF Shape, Holds
  <2>2. Len(D) \in Nat /\ 0 <= Len(D) BY <1>1
  <2>3. Counted(D, t, Len(D)) = Counted(D, t, 0) /\ Ny(D, t, Len(D)) = Ny(D, t, 0)
    BY <2>1, <2>2, CountSkip
  <2> QED BY <2>3, CountNone
<1>7. Counts(S, D, t, D[m + 1].ncc, 0)
  <2>1. ASSUME NEW i \in 1..Len(D), D[i].kind = "pcall" PROVE D[i].th # t
    <3>1. i \in 1..m BY <1>1, <2>1
    <3> QED BY <3>1, <1>1, <1>2
  <2>2. D[m + 1].ncc \in Int BY <1>1 DEF Sized
  <2> QED BY <1>6, <2>1, <2>2 DEF Counts
<1>8. ASSUME NEW x \in Thread PROVE OnCStack(D, x) \/ S[x].nny = 1
  <2>1. CASE x = t
    <3>1. m + 1 \in 1..Len(D) BY <1>1
    <3> QED BY <3>1, <2>1, <1>1 DEF OnCStack
  <2>2. CASE x # t /\ OnCStack(C, x)
    <3>1. PICK i \in 1..m : C[i].th = x BY <2>2 DEF OnCStack
    <3>2. D[i].th = x /\ i \in 1..Len(D) BY <3>1, <1>1
    <3> QED BY <3>2 DEF OnCStack
  <2>3. CASE x # t /\ ~OnCStack(C, x) BY <2>3 DEF CountsRight, Others
  <2> QED BY <2>1, <2>2, <2>3
<1>9. ASSUME NEW r \in 2..Len(D), D[r].kind = "resume"
      PROVE  /\ D[r].nny = 1 /\ D[r].ncc = S[D[r - 1].th].ncc + 1
             /\ Counts(S, D, D[r].th, D[r].ncc, 0)
  <2>0. ASSUME NEW i \in 1..m PROVE D[i] = C[i] /\ S[C[i].th] = T[C[i].th]
    BY <1>1, <1>2 DEF Others, Sized
  <2>1. CASE r <= m
    <3>1. D[r] = C[r] /\ r \in 2..Len(C) /\ D[r - 1] = C[r - 1] /\ S[C[r - 1].th] = T[C[r - 1].th]
      <4>1. r \in 1..m /\ r - 1 \in 1..m BY <2>1
      <4> QED BY <2>1, <4>1, <2>0
    <3>2. C[r].nny = 1 /\ C[r].ncc = T[C[r - 1].th].ncc + 1 /\ Counts(T, C, C[r].th, C[r].ncc, 0)
      BY <3>1, <1>9 DEF CountsRight
    <3>3. C[r].th \in Thread /\ C[r].ncc \in Int /\ C[r].th # t
      <4>1. r \in 1..m BY <2>1
      <4> QED BY <4>1, <1>2 DEF Sized
    <3> QED BY <3>1, <3>2, <3>3, <1>3
  <2>2. CASE r = m + 1
    <3>1. r - 1 = m /\ m \in 1..m BY <2>2, <1>1
    <3> QED BY <2>2, <3>1, <1>1, <1>7, <2>0
  <2>3. CASE r = m + 2 BY <2>3, <1>1, <1>9
  <2> QED BY <2>1, <2>2, <2>3, <1>1
<1> QED BY <1>5, <1>8, <1>9 DEF CountsRight

\* The end of lua_resume.
LEMMA CountsLeft ==
  ASSUME NEW T, NEW C, NEW S, NEW D, NEW n, NEW t \in Thread,
         Sized(T, C), Sized(S, D), Shape(C), CountsRight(T, C), Kept(C, D, n), n < Len(C),
         Others(T, S, t), Upper(C, n, t), C[n + 1].kind = "resume", S[t].nny = 1
  PROVE  CountsRight(S, D)
<1>1. Len(C) \in Nat /\ n \in 1..Len(C) /\ n \in Nat /\ Len(D) = n /\ \A i \in 1..n : D[i] = C[i]
  BY DEF Sized, Kept
<1>2. ASSUME NEW i \in 1..n PROVE C[i].th # t
  <2>1. n + 1 \in 1..Len(C) /\ i \in 1..(n + 1) - 1 /\ C[n + 1].th = t BY <1>1 DEF Upper
  <2> QED BY <2>1 DEF Shape, ResumedOnce
<1>3. ASSUME NEW x \in Thread, x # t, NEW b \in Int, NEW z \in Int, Counts(T, C, x, b, z)
      PROVE  Counts(S, D, x, b, z)
  <2>1. S[x].ncc = T[x].ncc /\ S[x].nny = T[x].nny BY <1>3 DEF Others
  <2>2. \A i \in n + 1..Len(D) : D[i].th # x BY <1>1
  <2>3. \A i \in n + 1..Len(C) : C[i].th # x BY <1>3 DEF Upper
  <2>4. Len(D) \in Nat /\ n <= Len(C) /\ n <= Len(D) BY <1>1
  <2> QED BY <1>1, <1>3, <2>1, <2>2, <2>3, <2>4, CountsOther
<1>4. C[1].th = mainthread /\ mainthread \in Thread /\ mainthread # t
  <2>1. 1 \in 1..n /\ C[1].th = mainthread BY <1>1 DEF Shape, Based
  <2> QED BY <1>1, <1>2, <2>1 DEF Sized
<1>5. Counts(S, D, mainthread, 0, 1) BY <1>3, <1>4 DEF CountsRight
<1>8. ASSUME NEW x \in Thread PROVE OnCStack(D, x) \/ S[x].nny = 1
  <2>1. CASE x = t BY <2>1
  <2>2. CASE x # t /\ OnCStack(C, x)
    <3>1. PICK i \in 1..Len(C) : C[i].th = x BY <2>2 DEF OnCStack
    <3>2. i \in 1..n BY <3>1, <2>2, <1>1 DEF Upper
    <3>3. D[i].th = x /\ i \in 1..Len(D) BY <3>1, <3>2, <1>1
    <3> QED BY <3>3 DEF OnCStack
  <2>3. CASE x # t /\ ~OnCStack(C, x) BY <2>3 DEF CountsRight, Others
  <2> QED BY <2>1, <2>2, <2>3
<1>9. ASSUME NEW r \in 2..Len(D), D[r].kind = "resume"
      PROVE  /\ D[r].nny = 1 /\ D[r].ncc = S[D[r - 1].th].ncc + 1
             /\ Counts(S, D, D[r].th, D[r].ncc, 0)
  <2>0. ASSUME NEW i \in 1..n PROVE D[i] = C[i] /\ S[C[i].th] = T[C[i].th]
    BY <1>1, <1>2 DEF Others, Sized
  <2>1. r \in 1..n /\ r - 1 \in 1..n BY <1>1
  <2>2. D[r] = C[r] /\ r \in 2..Len(C) /\ D[r - 1] = C[r - 1] /\ S[C[r - 1].th] = T[C[r - 1].th]
    BY <1>1, <2>1, <2>0
  <2>3. C[r].nny = 1 /\ C[r].ncc = T[C[r - 1].th].ncc + 1 /\ Counts(T, C, C[r].th, C[r].ncc, 0)
    BY <2>2, <1>9 DEF CountsRight
  <2>4. C[r].th \in Thread /\ C[r].ncc \in Int /\ C[r].th # t
    BY <2>1, <1>1, <1>2 DEF Sized
  <2> QED BY <2>2, <2>3, <2>4, <1>3
<1> QED BY <1>5, <1>8, <1>9 DEF CountsRight

\* recover: t goes back to its lua_resume, at r.
LEMMA CountsRecovered ==
  ASSUME NEW T, NEW C, NEW S, NEW D, NEW r, NEW t \in Thread,
         Sized(T, C), Shape(C), CountsRight(T, C), r \in 2..Len(C), C[r].kind = "resume", C[r].th = t,
         Len(D) = r + 1, \A i \in 1..r : D[i] = C[i], D[r + 1].kind = "unroll",
         ~D[r + 1].counted, ~D[r + 1].ny,
         S[t].ncc = C[r].ncc, S[t].nny = 0, NEW b \in Int, NEW z \in Int, Counts(T, C, t, b, z)
  PROVE  Counts(S, D, t, b, z)
<1>1. Len(C) \in Nat /\ r \in 1..Len(C) /\ r \in Nat BY DEF Sized
<1>2. \A i \in 1..r - 1 : C[i].th # t BY <1>1 DEF Shape, ResumedOnce
<1>3. ~C[r].counted /\ ~C[r].ny BY <1>1 DEF Shape, Holds
<1>4. Counted(D, t, Len(D)) = 0 /\ Ny(D, t, Len(D)) = 0
  <2>1. ASSUME NEW i \in 0 + 1..Len(D), D[i].th = t PROVE ~D[i].counted /\ ~D[i].ny
    <3>1. CASE i < r
      <4>1. i \in 1..r - 1 /\ i \in 1..r BY <3>1, <1>1
      <4>2. D[i] = C[i] BY <4>1
      <4>3. C[i].th # t BY <4>1, <1>2
      <4> QED BY <4>2, <4>3, <2>1
    <3>2. CASE i = r BY <3>2, <1>1, <1>3
    <3>3. CASE i = r + 1 BY <3>3
    <3> QED BY <3>1, <3>2, <3>3, <1>1
  <2>2. Len(D) \in Nat /\ 0 <= Len(D) BY <1>1
  <2>3. Counted(D, t, Len(D)) = Counted(D, t, 0) /\ Ny(D, t, Len(D)) = Ny(D, t, 0)
    BY <2>1, <2>2, CountSkip
  <2> QED BY <2>3, CountNone
<1>5. Counts(T, C, t, C[r].ncc, 0) BY DEF CountsRight
<1>6. Counted(C, t, Len(C)) \in Nat /\ Ny(C, t, Len(C)) \in Nat BY <1>1, CountType
<1>7. C[r].ncc \in Int BY <1>1 DEF Sized
<1>8. b = C[r].ncc /\ z = 0
  <2>1. T[t].ncc = b + Counted(C, t, Len(C)) /\ T[t].nny = z + Ny(C, t, Len(C)) BY DEF Counts
  <2>2. T[t].ncc = C[r].ncc + Counted(C, t, Len(C)) /\ T[t].nny = 0 + Ny(C, t, Len(C)) BY <1>5 DEF Counts
  <2> QED BY <2>1, <2>2, <1>6, <1>7
<1>9. ASSUME NEW i \in 1..Len(D), D[i].kind = "pcall" PROVE D[i].th # t
  <2>1. i \in 1..r - 1 BY <1>1, <1>9
  <2> QED BY <2>1, <1>1, <1>2
<1> QED BY <1>4, <1>7, <1>8, <1>9 DEF Counts

\* What CountsRight says of the thread that runs.
LEMMA CountsMine ==
  ASSUME NEW T, NEW C, NEW i \in 1..Len(C), Len(C) \in Nat, Shape(C), CountsRight(T, C), Sized(T, C)
  PROVE  \E b, z \in Int : /\ Counts(T, C, C[i].th, b, z) /\ z \in {0, 1}
                           /\ C[i].th = mainthread => z = 1
<1>1. CASE C[i].th = mainthread BY <1>1 DEF CountsRight
<1>2. CASE C[i].th # mainthread
  <2>1. PICK r \in 2..i : C[r].kind = "resume" /\ C[r].th = C[i].th
    BY <1>2 DEF Shape, ResumedOnce
  <2>2. r \in 2..Len(C) BY <2>1
  <2>3. Counts(T, C, C[i].th, C[r].ncc, 0) BY <2>1, <2>2 DEF CountsRight
  <2>4. C[r].ncc \in Int BY <2>2 DEF Sized
  <2> QED BY <2>3, <2>4, <1>2
<1> QED BY <1>1, <1>2

(***************************************************************************)
(* Threads that a step does not concern                                    *)
(***************************************************************************)
\* C and D agree up to n, and have only entries of t above.
Common(C, D, n, t) ==
  /\ n \in Nat /\ Len(C) \in Nat /\ Len(D) \in Nat /\ n <= Len(C) /\ n <= Len(D)
  /\ \A i \in 1..n : D[i] = C[i]
  /\ \A i \in n + 1..Len(C) : C[i].th = t
  /\ \A i \in n + 1..Len(D) : D[i].th = t
\* Both have the same entries of x.
Apart(C, D, n, x) ==
  /\ \A i \in 1..Len(D) : D[i].th = x => i \in 1..n /\ i \in 1..Len(C) /\ D[i] = C[i]
  /\ \A i \in 1..Len(C) : C[i].th = x => i \in 1..n /\ i \in 1..Len(D) /\ D[i] = C[i]
  /\ OnCStack(D, x) <=> OnCStack(C, x)
LEMMA OtherEntries ==
  ASSUME NEW C, NEW D, NEW n, NEW t, NEW x, x # t, Common(C, D, n, t)
  PROVE  Apart(C, D, n, x)
<1>1. ASSUME NEW i \in 1..Len(D), D[i].th = x PROVE i \in 1..n /\ i \in 1..Len(C) /\ D[i] = C[i]
  BY <1>1 DEF Common
<1>2. ASSUME NEW i \in 1..Len(C), C[i].th = x PROVE i \in 1..n /\ i \in 1..Len(D) /\ D[i] = C[i]
  BY <1>2 DEF Common
<1>3. OnCStack(D, x) <=> OnCStack(C, x) BY <1>1, <1>2 DEF OnCStack
<1> QED BY <1>1, <1>2, <1>3 DEF Apart

LEMMA OtherHooks ==
  ASSUME NEW T, NEW C, NEW S, NEW D, NEW n, NEW t, NEW x, x # t, Common(C, D, n, t), S[x] = T[x],
         HooksOf(T, C, x)
  PROVE  HooksOf(S, D, x)
<1>1. /\ \A i \in 1..Len(D) : D[i].th = x => i \in 1..n /\ i \in 1..Len(C) /\ D[i] = C[i]
      /\ \A i \in 1..Len(C) : C[i].th = x => i \in 1..n /\ i \in 1..Len(D) /\ D[i] = C[i]
  <2>1. Apart(C, D, n, x) BY OtherEntries
  <2> QED BY <2>1 DEF Apart
<1>2. n \in Nat /\ \A i \in 1..n : D[i] = C[i] BY DEF Common
<1>3. NoHook(D, x, Len(D)) <=> NoHook(C, x, Len(C)) BY <1>1 DEF NoHook
<1>4. ASSUME NEW i \in 1..n PROVE NoHook(D, x, i - 1) <=> NoHook(C, x, i - 1) BY <1>2 DEF NoHook
<1>5. ASSUME NEW i \in 1..Len(D), D[i].th = x, D[i].kind = "hook" PROVE NoHook(D, x, i - 1)
  BY <1>1, <1>4, <1>5 DEF HooksOf
<1>6. ASSUME NEW i \in 1..Len(D), PcallAt(D, x, i)
      PROVE  D[i].allowhook <=> NoHook(D, x, i - 1)
  <2>1. i \in 1..n /\ i \in 1..Len(C) /\ D[i] = C[i] BY <1>1, <1>6 DEF PcallAt
  <2>2. PcallAt(C, x, i) BY <2>1, <1>6 DEF PcallAt
  <2> QED BY <2>1, <2>2, <1>4 DEF HooksOf
<1> QED BY <1>3, <1>5, <1>6 DEF HooksOf

LEMMA OtherBound ==
  ASSUME NEW T, NEW C, NEW S, NEW D, NEW n, NEW t, NEW x, x # t, Common(C, D, n, t), S[x] = T[x],
         BoundOf(T, C, x)
  PROVE  BoundOf(S, D, x)
<1>1. /\ \A i \in 1..Len(D) : D[i].th = x => i \in 1..n /\ i \in 1..Len(C) /\ D[i] = C[i]
      /\ \A i \in 1..Len(C) : C[i].th = x => i \in 1..n /\ i \in 1..Len(D) /\ D[i] = C[i]
  <2>1. Apart(C, D, n, x) BY OtherEntries
  <2> QED BY <2>1 DEF Apart
<1>2. n \in Nat /\ \A i \in 1..n : D[i] = C[i] BY DEF Common
<1>3. Handling(D, x, Len(D)) <=> Handling(C, x, Len(C)) BY <1>1 DEF Handling
<1>4. ASSUME NEW i \in 1..n PROVE Handling(D, x, i) <=> Handling(C, x, i) BY <1>2 DEF Handling
<1>5. ASSUME NEW i \in 1..Len(D), D[i].th = x PROVE D[i].ci <= MAXSTACK \/ Handling(D, x, i)
  BY <1>1, <1>4, <1>5 DEF BoundOf
<1> QED BY <1>3, <1>5 DEF BoundOf

LEMMA OtherYields ==
  ASSUME NEW T, NEW C, NEW S, NEW D, NEW n, NEW t, NEW x, x # t, Common(C, D, n, t), S[x] = T[x],
         Shape(D), YieldsOf(T, C, x)
  PROVE  YieldsOf(S, D, x)
<1>1. /\ \A i \in 1..Len(C) : C[i].th = x => i \in 1..n /\ i \in 1..Len(D) /\ D[i] = C[i]
      /\ OnCStack(D, x) <=> OnCStack(C, x)
  <2>1. Apart(C, D, n, x) BY OtherEntries
  <2> QED BY <2>1 DEF Apart
<1>2. /\ n \in Nat /\ n <= Len(C) /\ Len(C) \in Nat /\ Len(D) \in Nat /\ \A i \in 1..n : D[i] = C[i]
      /\ \A i \in n + 1..Len(D) : D[i].th = t
  BY DEF Common
<1>3. ASSUME NEW f, NEW j \in 1..Len(C), Waits(C, x, f, j) PROVE Waits(D, x, f, j) /\ j \in 1..Len(D)
  <2>1. /\ C[j].th = x /\ C[j].kind \in {"cfun", "ret"} /\ C[j].ci = f
        /\ j < Len(C) => C[j + 1].kind \in {"pcall", "resume", "raise", "throw"} \/ C[j + 1].ny
    BY <1>3 DEF Waits
  <2>2. j \in 1..n /\ j \in 1..Len(D) /\ D[j] = C[j] BY <1>1, <2>1
  <2>3. ASSUME j < Len(D)
        PROVE  D[j + 1].kind \in {"pcall", "resume", "raise", "throw"} \/ D[j + 1].ny
    <3>1. CASE j < n
      <4>1. D[j + 1] = C[j + 1] /\ j < Len(C) BY <3>1, <1>2, <2>2
      <4> QED BY <2>1, <4>1
    <3>2. CASE j = n
      <4>1. D[j + 1].th = t /\ j \in 1..Len(D) - 1 BY <1>2, <2>3, <3>2, <2>2
      <4>2. Over(D[j + 1], D[j]) BY <4>1 DEF Shape
      <4>3. D[j + 1].kind = "resume" BY <4>1, <4>2, <2>1, <2>2 DEF Over
      <4> QED BY <4>3
    <3> QED BY <3>1, <3>2, <1>2, <2>2
  <2> QED BY <2>1, <2>2, <2>3 DEF Waits
<1>4. ASSUME OnCStack(D, x), NEW f \in 1..Len(S[x].ci)
      PROVE  Continues(S[x].ci[f]) \/ \E j \in 1..Len(D) : Waits(D, x, f, j)
  <2>1. Continues(T[x].ci[f]) \/ \E j \in 1..Len(C) : Waits(C, x, f, j) BY <1>1, <1>4 DEF YieldsOf
  <2> QED BY <2>1, <1>3
<1>5. \A p \in 1..Len(S[x].ci) : S[x].ci[p].yp =>
        /\ ~S[x].ci[p].lua /\ S[x].ci[p].oah /\ p <= MAXSTACK
        /\ \A f \in 1..p : Continues(S[x].ci[f])
  BY DEF YieldsOf
<1> QED BY <1>4, <1>5 DEF YieldsOf

LEMMA SameInForce ==
  ASSUME NEW F, NEW C, NEW D, NEW x, NEW n \in Nat, NEW m \in Nat, NEW M, NEW h,
         \A i \in 1..n : PcallAt(D, x, i) => i \in 1..m /\ PcallAt(C, x, i) /\ D[i] = C[i],
         \A i \in 1..m : PcallAt(C, x, i) => i \in 1..n /\ PcallAt(D, x, i),
         InForceAt(F, C, x, m + 1, M, h)
  PROVE  InForceAt(F, D, x, n + 1, M, h)
<1>1. ASSUME NEW i \in 1..n, PcallAt(D, x, i), \A j \in i + 1..n : ~PcallAt(D, x, j)
      PROVE  h = D[i].handler
  <2>1. i \in 1..m /\ PcallAt(C, x, i) /\ D[i] = C[i] BY <1>1
  <2>2. ASSUME NEW j \in i + 1..m PROVE ~PcallAt(C, x, j) BY <1>1, <2>2
  <2>3. (m + 1) - 1 = m OBVIOUS
  <2> QED BY <2>1, <2>2, <2>3 DEF InForceAt
<1>2. ASSUME \A i \in 1..n : ~PcallAt(D, x, i) PROVE LastYp(F, M, h)
  <2>1. \A i \in 1..(m + 1) - 1 : ~PcallAt(C, x, i) BY <1>2
  <2> QED BY <2>1 DEF InForceAt
<1>3. (n + 1) - 1 = n OBVIOUS
<1> QED BY <1>1, <1>2, <1>3 DEF InForceAt

LEMMA OtherHandlers ==
  ASSUME NEW T, NEW C, NEW S, NEW D, NEW n, NEW t, NEW x, x # t, Common(C, D, n, t), S[x] = T[x],
         HandlersOf(T, C, x)
  PROVE  HandlersOf(S, D, x)
<1> DEFINE F == T[x].ci
<1>1. /\ \A i \in 1..Len(D) : D[i].th = x => i \in 1..n /\ i \in 1..Len(C) /\ D[i] = C[i]
      /\ \A i \in 1..Len(C) : C[i].th = x => i \in 1..n /\ i \in 1..Len(D) /\ D[i] = C[i]
  <2>1. Apart(C, D, n, x) BY OtherEntries
  <2> QED BY <2>1 DEF Apart
<1>2. n \in Nat /\ Len(C) \in Nat /\ Len(D) \in Nat /\ \A i \in 1..n : D[i] = C[i] BY DEF Common
<1>3. /\ \A i \in 1..Len(D) : PcallAt(D, x, i) => i \in 1..Len(C) /\ PcallAt(C, x, i) /\ D[i] = C[i]
      /\ \A i \in 1..Len(C) : PcallAt(C, x, i) => i \in 1..Len(D) /\ PcallAt(D, x, i)
  BY <1>1 DEF PcallAt
<1>4. ASSUME S[x].status # "dead" PROVE InForceAt(F, D, x, Len(D) + 1, Len(F), S[x].errfunc)
  <2>1. InForceAt(F, C, x, Len(C) + 1, Len(F), S[x].errfunc) BY <1>4 DEF HandlersOf
  <2> QED BY <2>1, <1>2, <1>3, SameInForce
<1>5. ASSUME NEW i \in 1..Len(D), PcallAt(D, x, i)
      PROVE  /\ InForceAt(F, D, x, i, Len(F), D[i].errfunc)
             /\ \A f \in D[i].ci..Len(F) : f >= 1 => ~F[f].yp
  <2>1. i \in 1..n /\ i \in 1..Len(C) /\ D[i] = C[i] /\ PcallAt(C, x, i) BY <1>1, <1>5 DEF PcallAt
  <2>2. /\ InForceAt(F, C, x, i, Len(F), D[i].errfunc)
        /\ \A f \in D[i].ci..Len(F) : f >= 1 => ~F[f].yp
    BY <2>1 DEF HandlersOf
  <2>3. i - 1 \in Nat /\ (i - 1) + 1 = i BY <2>1
  <2>4. \A k \in 1..i - 1 : D[k] = C[k] BY <1>2, <2>1
  <2>5. /\ \A k \in 1..i - 1 : PcallAt(D, x, k) => PcallAt(C, x, k) /\ D[k] = C[k]
        /\ \A k \in 1..i - 1 : PcallAt(C, x, k) => PcallAt(D, x, k)
    BY <2>4 DEF PcallAt
  <2>6. InForceAt(F, C, x, (i - 1) + 1, Len(F), D[i].errfunc) BY <2>2, <2>3
  <2>7. InForceAt(F, D, x, (i - 1) + 1, Len(F), D[i].errfunc) BY <2>3, <2>5, <2>6, SameInForce
  <2> QED BY <2>2, <2>3, <2>7
<1>6. \A p \in 1..Len(F) : F[p].yp => LastYp(F, p - 1, F[p].oef) BY DEF HandlersOf
<1> QED BY <1>4, <1>5, <1>6 DEF HandlersOf

\* The thread at the top of the stack before or after may be the one that resumes t or that
\* t was resumed by: it is active.
LEMMA OtherStatus ==
  ASSUME NEW T, NEW C, NEW S, NEW D, NEW n, NEW t, NEW x, x # t, Common(C, D, n, t), S[x] = T[x],
         Len(C) > 0, Len(D) > 0,
         C[Len(C)].th = t \/ D[Len(D)].th = C[Len(C)].th
           \/ (T[C[Len(C)].th].status # "yield" /\ T[C[Len(C)].th].ci # << >>),
         StatusOf(T, C, x)
  PROVE  StatusOf(S, D, x)
<1>1. OnCStack(D, x) <=> OnCStack(C, x)
  <2>1. Apart(C, D, n, x) BY OtherEntries
  <2> QED BY <2>1 DEF Apart
<1>2. /\ n \in Nat /\ Len(C) \in Nat /\ Len(D) \in Nat /\ n <= Len(C) /\ n <= Len(D)
      /\ \A i \in 1..n : D[i] = C[i]
      /\ \A i \in n + 1..Len(C) : C[i].th = t
      /\ \A i \in n + 1..Len(D) : D[i].th = t
  BY DEF Common
<1>3. Ready(T, x) => Ready(S, x) BY DEF Ready
<1>4. ASSUME C[Len(C)].th = x PROVE n = Len(C)
  <2> SUFFICES ASSUME n # Len(C) PROVE FALSE OBVIOUS
  <2>1. Len(C) \in n + 1..Len(C) BY <1>2
  <2> QED BY <1>2, <1>4, <2>1
<1>5. ASSUME D[Len(D)].th = x PROVE n = Len(D)
  <2> SUFFICES ASSUME n # Len(D) PROVE FALSE OBVIOUS
  <2>1. Len(D) \in n + 1..Len(D) BY <1>2
  <2> QED BY <1>2, <1>5, <2>1
<1>6. ASSUME S[x].status = "yield", OnCStack(D, x)
      PROVE  /\ D[Len(D)].th = x /\ D[Len(D)].kind \in {"hook", "throw"} /\ S[x].nny = 0
             /\ D[Len(D)].kind = "throw" => S[x].allowhook
  <2>1. /\ C[Len(C)].th = x /\ C[Len(C)].kind \in {"hook", "throw"} /\ T[x].nny = 0
        /\ C[Len(C)].kind = "throw" => T[x].allowhook
    BY <1>1, <1>6 DEF StatusOf
  <2>2. D[Len(D)].th = x BY <2>1, <1>6
  <2>3. Len(C) = Len(D) /\ D[Len(D)] = C[Len(C)]
    <3>1. n = Len(C) /\ n = Len(D) BY <2>1, <2>2, <1>4, <1>5
    <3>2. n \in 1..n BY <3>1, <1>2
    <3> QED BY <3>1, <3>2, <1>2
  <2> QED BY <2>1, <2>2, <2>3
<1>7. ASSUME OnCStack(D, x), D[Len(D)].th # x PROVE S[x].ci # << >>
  BY <1>1, <1>7 DEF StatusOf
<1> QED BY <1>1, <1>3, <1>6, <1>7 DEF StatusOf

LEMMA OtherThreads ==
  ASSUME NEW T, NEW C, NEW S, NEW D, NEW n, NEW t, NEW x \in Thread, x # t, Common(C, D, n, t),
         Others(T, S, t), Shape(C), Shape(D),
         C[Len(C)].th = t \/ D[Len(D)].th = C[Len(C)].th
           \/ (T[C[Len(C)].th].status # "yield" /\ T[C[Len(C)].th].ci # << >>),
         ThreadRight(T, C, x)
  PROVE  ThreadRight(S, D, x)
<1>1. S[x] = T[x] BY DEF Others
<1>2. Len(C) > 0 /\ Len(D) > 0 BY DEF Shape, Based, Common
<1>3. YieldsOf(S, D, x) BY <1>1, OtherYields DEF ThreadRight
<1>4. HandlersOf(S, D, x) BY <1>1, OtherHandlers DEF ThreadRight
<1>5. HooksOf(S, D, x) BY <1>1, OtherHooks DEF ThreadRight
<1>6. BoundOf(S, D, x) BY <1>1, OtherBound DEF ThreadRight
<1>7. StatusOf(S, D, x)
  <2>1. StatusOf(T, C, x) BY DEF ThreadRight
  <2> QED BY <1>1, <1>2, <2>1, OtherStatus
<1> QED BY <1>3, <1>4, <1>5, <1>6, <1>7 DEF ThreadRight

(***************************************************************************)
(* The thread that runs, when an entry is added                            *)
(***************************************************************************)
HookAdded(u, v, f) ==
  /\ IF f.kind = "hook" THEN u.allowhook /\ ~v.allowhook ELSE v.allowhook = u.allowhook
  /\ f.kind = "pcall" => f.allowhook = u.allowhook
LEMMA HooksAdded ==
  ASSUME NEW T, NEW C, NEW S, NEW D, NEW n \in Nat, NEW t, NEW f, Added(C, D, n, f), f.th = t,
         HookAdded(T[t], S[t], f), T[t].status # "dead", HooksOf(T, C, t)
  PROVE  HooksOf(S, D, t)
<1>1. Len(C) = n /\ Len(D) = n + 1 /\ (\A i \in 1..n : D[i] = C[i]) /\ D[n + 1] = f BY DEF Added
<1>2. ASSUME NEW i \in 0..n PROVE NoHook(D, t, i) <=> NoHook(C, t, i)
  <2>1. \A k \in 1..i : D[k] = C[k] BY <1>1
  <2> QED BY <2>1 DEF NoHook
<1>3. T[t].allowhook <=> NoHook(D, t, n)
  <2>1. n \in 0..n OBVIOUS
  <2> QED BY <2>1, <1>1, <1>2 DEF HooksOf
<1>4. ASSUME NEW i \in 1..n + 1, D[i].th = t, D[i].kind = "hook" PROVE NoHook(D, t, i - 1)
  <2>1. CASE i <= n
    <3>1. i - 1 \in 0..n /\ i \in 1..Len(C) /\ D[i] = C[i] BY <2>1, <1>1
    <3> QED BY <3>1, <1>2, <1>4 DEF HooksOf
  <2>2. CASE i = n + 1
    <3>1. T[t].allowhook BY <2>2, <1>1, <1>4 DEF HookAdded
    <3> QED BY <3>1, <1>3, <2>2
  <2> QED BY <2>1, <2>2
<1>5. S[t].allowhook <=> NoHook(D, t, n + 1)
  <2>1. CASE f.kind = "hook"
    <3>1. ~S[t].allowhook BY <2>1 DEF HookAdded
    <3>2. ~NoHook(D, t, n + 1) BY <2>1, <1>1 DEF NoHook
    <3> QED BY <3>1, <3>2
  <2>2. CASE f.kind # "hook"
    <3>1. S[t].allowhook = T[t].allowhook BY <2>2 DEF HookAdded
    <3>2. NoHook(D, t, n + 1) <=> NoHook(D, t, n) BY <2>2, <1>1 DEF NoHook
    <3> QED BY <3>1, <3>2, <1>3
  <2> QED BY <2>1, <2>2
<1>6. ASSUME NEW i \in 1..n + 1, PcallAt(D, t, i) PROVE D[i].allowhook <=> NoHook(D, t, i - 1)
  <2>1. CASE i <= n
    <3>1. i - 1 \in 0..n /\ i \in 1..Len(C) /\ D[i] = C[i] BY <2>1, <1>1
    <3>2. PcallAt(C, t, i) BY <3>1, <1>6 DEF PcallAt
    <3> QED BY <3>1, <3>2, <1>2 DEF HooksOf
  <2>2. CASE i = n + 1
    <3>1. f.allowhook = T[t].allowhook BY <2>2, <1>1, <1>6 DEF HookAdded, PcallAt
    <3> QED BY <3>1, <1>1, <1>3, <2>2
  <2> QED BY <2>1, <2>2
<1> QED BY <1>1, <1>4, <1>5, <1>6 DEF HooksOf

BoundAdded(u, v, f) ==
  /\ u.big => v.big
  /\ f.kind \notin {"raise", "throw"} /\ v.big => u.big
  /\ f.ci = Len(v.ci)
  /\ ~v.big => Len(v.ci) <= MAXSTACK
LEMMA BoundsAdded ==
  ASSUME NEW T, NEW C, NEW S, NEW D, NEW n \in Nat, NEW t, NEW f, Added(C, D, n, f), f.th = t,
         BoundAdded(T[t], S[t], f), T[t].status # "dead", BoundOf(T, C, t)
  PROVE  BoundOf(S, D, t)
<1>1. Len(C) = n /\ Len(D) = n + 1 /\ (\A i \in 1..n : D[i] = C[i]) /\ D[n + 1] = f BY DEF Added
<1>2. ASSUME NEW i \in 0..n, Handling(C, t, i) PROVE Handling(D, t, i)
  BY <1>1, <1>2 DEF Handling
<1>3. Handling(C, t, n) => Handling(D, t, n + 1) BY <1>1 DEF Handling
<1>4. f.kind \in {"raise", "throw"} => Handling(D, t, n + 1) BY <1>1 DEF Handling
<1>5. S[t].big => Handling(D, t, n + 1) BY <1>1, <1>3, <1>4 DEF BoundOf, BoundAdded
<1>6. ASSUME NEW i \in 1..n + 1, D[i].th = t PROVE D[i].ci <= MAXSTACK \/ Handling(D, t, i)
  <2>1. CASE i <= n
    <3>1. i \in 1..Len(C) /\ D[i] = C[i] /\ i \in 0..n BY <2>1, <1>1
    <3> QED BY <3>1, <1>2, <1>6 DEF BoundOf
  <2>2. CASE i = n + 1
    <3>1. f.ci = Len(S[t].ci) /\ (~S[t].big => Len(S[t].ci) <= MAXSTACK) BY DEF BoundAdded
    <3>2. S[t].big \/ f.ci <= MAXSTACK BY <3>1
    <3>3. CASE S[t].big BY <3>3, <1>5, <2>2
    <3>4. CASE f.ci <= MAXSTACK BY <3>4, <1>1, <2>2
    <3> QED BY <3>2, <3>3, <3>4
  <2> QED BY <2>1, <2>2
<1>7. IF S[t].big THEN Handling(D, t, n + 1) ELSE Len(S[t].ci) <= MAXSTACK
  BY <1>5 DEF BoundAdded
<1> QED BY <1>1, <1>6, <1>7 DEF BoundOf

\* What it had of the stack stays; a new frame is the one of f.
YieldAdded(F, G, e, f) ==
  /\ Len(F) \in Nat /\ Len(G) \in Nat
  /\ Len(F) <= Len(G) /\ \A i \in 1..Len(F) : G[i] = F[i]
  /\ \A i \in Len(F) + 1..Len(G) : ~G[i].yp /\ (G[i].lua \/ (f.kind \in {"cfun", "ret"} /\ f.ci = i))
  /\ e.kind \in {"cfun", "ret"} => \/ f.kind \in {"pcall", "resume", "raise", "throw"}
                                   \/ f.ny \/ Continues(F[e.ci])
LEMMA YieldsAdded ==
  ASSUME NEW T, NEW C, NEW S, NEW D, NEW n \in Nat, NEW t, NEW f, Added(C, D, n, f), f.th = t,
         n >= 1, C[n].th = t,
         YieldAdded(T[t].ci, S[t].ci, C[n], f), YieldsOf(T, C, t)
  PROVE  YieldsOf(S, D, t)
<1> DEFINE F == T[t].ci
           G == S[t].ci
<1>0. F = T[t].ci /\ G = S[t].ci OBVIOUS
<1>1. Len(C) = n /\ Len(D) = n + 1 /\ (\A i \in 1..n : D[i] = C[i]) /\ D[n + 1] = f BY DEF Added
<1>2. OnCStack(C, t) BY <1>1 DEF OnCStack
<1>3. YieldAdded(F, G, C[n], f) OBVIOUS
<1>4. /\ \A i \in 1..Len(F) : Continues(F[i]) \/ \E j \in 1..Len(C) : Waits(C, t, i, j)
      /\ \A p \in 1..Len(F) :
           F[p].yp => ~F[p].lua /\ F[p].oah /\ p <= MAXSTACK /\ \A i \in 1..p : Continues(F[i])
  BY <1>2 DEF YieldsOf
<1> HIDE DEF F, G
<1>5. /\ Len(F) \in Nat /\ Len(G) \in Nat
      /\ Len(F) <= Len(G) /\ \A i \in 1..Len(F) : G[i] = F[i] BY <1>3 DEF YieldAdded
<1>6. ASSUME NEW i \in 1..Len(G) PROVE Continues(G[i]) \/ \E j \in 1..Len(D) : Waits(D, t, i, j)
  <2>1. CASE i > Len(F) /\ G[i].lua BY <2>1 DEF Continues
  <2>2. CASE i > Len(F) /\ ~G[i].lua
    <3>1. i \in Len(F) + 1..Len(G) BY <2>2, <1>5
    <3>2. f.kind \in {"cfun", "ret"} /\ f.ci = i BY <2>2, <3>1, <1>3 DEF YieldAdded
    <3>3. Waits(D, t, i, n + 1) BY <1>1, <3>2 DEF Waits
    <3>4. n + 1 \in 1..Len(D) BY <1>1
    <3> QED BY <3>3, <3>4
  <2>3. CASE i <= Len(F) /\ Continues(F[i])
    <3>1. G[i] = F[i] BY <2>3, <1>5
    <3> QED BY <3>1, <2>3
  <2>4. CASE i <= Len(F) /\ ~Continues(F[i])
    <3>1. i \in 1..Len(F) BY <2>4, <1>5
    <3>2. PICK j \in 1..Len(C) : Waits(C, t, i, j) BY <1>4, <2>4, <3>1
    <3>3. /\ C[j].th = t /\ C[j].kind \in {"cfun", "ret"} /\ C[j].ci = i
          /\ j < Len(C) => C[j + 1].kind \in {"pcall", "resume", "raise", "throw"} \/ C[j + 1].ny
      BY <3>2 DEF Waits
    <3>4. D[j] = C[j] /\ j \in 1..Len(D) /\ j < Len(D) BY <1>1
    <3>5. D[j + 1].kind \in {"pcall", "resume", "raise", "throw"} \/ D[j + 1].ny
      <4>1. CASE j < n
        <5>1. D[j + 1] = C[j + 1] /\ j < Len(C) BY <4>1, <1>1
        <5> QED BY <5>1, <3>3
      <4>2. CASE j = n
        <5>1. f.kind \in {"pcall", "resume", "raise", "throw"} \/ f.ny \/ Continues(F[C[n].ci])
          BY <4>2, <3>3, <1>3 DEF YieldAdded
        <5>2. ~Continues(F[C[n].ci]) BY <4>2, <3>3, <2>4
        <5> QED BY <5>1, <5>2, <4>2, <1>1
      <4> QED BY <4>1, <4>2, <1>1
    <3>6. Waits(D, t, i, j) BY <3>3, <3>4, <3>5 DEF Waits
    <3> QED BY <3>4, <3>6
  <2> QED BY <2>1, <2>2, <2>3, <2>4, <1>5
<1>7. ASSUME NEW p \in 1..Len(G), G[p].yp
      PROVE  ~G[p].lua /\ G[p].oah /\ p <= MAXSTACK /\ \A i \in 1..p : Continues(G[i])
  <2>1. p \in 1..Len(F)
    <3>1. p \in Len(F) + 1..Len(G) => ~G[p].yp BY <1>3 DEF YieldAdded
    <3> QED BY <3>1, <1>5, <1>7
  <2>2. G[p] = F[p] /\ \A i \in 1..p : G[i] = F[i] BY <2>1, <1>5
  <2>3. ~F[p].lua /\ F[p].oah /\ p <= MAXSTACK /\ \A i \in 1..p : Continues(F[i])
    BY <2>1, <2>2, <1>4, <1>7
  <2> QED BY <2>2, <2>3
<1> QED BY <1>0, <1>6, <1>7 DEF YieldsOf

\* The last marked frame is the same when no marked one is added above it or taken away.
LEMMA LastYpMore ==
  ASSUME NEW F, NEW G, NEW m \in Nat, NEW M \in Nat, NEW h, m <= M, \A i \in 1..m : G[i] = F[i],
         \A i \in m + 1..M : ~G[i].yp, LastYp(F, m, h)
  PROVE  LastYp(G, M, h)
<1>1. ASSUME NEW p \in 1..M, G[p].yp, \A q \in p + 1..M : ~G[q].yp PROVE h = G[p].handler
  <2>1. p \in 1..m BY <1>1
  <2>2. G[p] = F[p] BY <2>1
  <2>3. \A q \in p + 1..m : ~F[q].yp BY <1>1, <2>1
  <2> QED BY <1>1, <2>1, <2>2, <2>3 DEF LastYp
<1>2. ASSUME \A p \in 1..M : ~G[p].yp PROVE h = NoHandler
  <2>1. \A p \in 1..m : ~F[p].yp BY <1>2
  <2> QED BY <2>1 DEF LastYp
<1> QED BY <1>1, <1>2 DEF LastYp

LEMMA LastYpLess ==
  ASSUME NEW F, NEW G, NEW m \in Nat, NEW M \in Nat, NEW h, m <= M, \A i \in 1..m : G[i] = F[i],
         \A i \in m + 1..M : ~F[i].yp, LastYp(F, M, h)
  PROVE  LastYp(G, m, h)
<1>1. ASSUME NEW p \in 1..m, G[p].yp, \A q \in p + 1..m : ~G[q].yp PROVE h = G[p].handler
  <2>1. p \in 1..M /\ G[p] = F[p] BY <1>1
  <2>2. ASSUME NEW q \in p + 1..M PROVE ~F[q].yp
    <3>1. CASE q <= m
      <4>1. q \in 1..m /\ q \in p + 1..m BY <3>1, <2>2
      <4> QED BY <4>1, <1>1
    <3>2. CASE q > m BY <3>2, <2>2
    <3> QED BY <3>1, <3>2
  <2> QED BY <1>1, <2>1, <2>2 DEF LastYp
<1>2. ASSUME \A p \in 1..m : ~G[p].yp PROVE h = NoHandler
  <2>1. \A p \in 1..M : ~F[p].yp BY <1>2
  <2> QED BY <2>1 DEF LastYp
<1> QED BY <1>1, <1>2 DEF LastYp

LEMMA LastYpSame ==
  ASSUME NEW F, NEW G, NEW m \in Nat, NEW h, \A i \in 1..m : G[i] = F[i], LastYp(F, m, h)
  PROVE  LastYp(G, m, h)
<1>1. \A i \in m + 1..m : ~G[i].yp OBVIOUS
<1>2. m <= m OBVIOUS
<1> QED BY <1>1, <1>2, LastYpMore

\* Which call is in force depends on the pcall entries and the marked frames.
LEMMA InForceMore ==
  ASSUME NEW F, NEW G, NEW C, NEW t, NEW n, NEW m \in Nat, NEW M \in Nat, NEW h, m <= M,
         \A i \in 1..m : G[i] = F[i], \A i \in m + 1..M : ~G[i].yp,
         InForceAt(F, C, t, n, m, h)
  PROVE  InForceAt(G, C, t, n, M, h)
BY LastYpMore DEF InForceAt
LEMMA InForceLess ==
  ASSUME NEW F, NEW G, NEW C, NEW t, NEW n, NEW m \in Nat, NEW M \in Nat, NEW h, m <= M,
         \A i \in 1..m : G[i] = F[i], \A i \in m + 1..M : ~F[i].yp,
         InForceAt(F, C, t, n, M, h)
  PROVE  InForceAt(G, C, t, n, m, h)
BY LastYpLess DEF InForceAt

HandlerAdded(u, v, f) ==
  /\ Len(u.ci) \in Nat /\ Len(v.ci) \in Nat
  /\ Len(u.ci) <= Len(v.ci) /\ \A i \in 1..Len(u.ci) : v.ci[i] = u.ci[i]
  /\ \A i \in Len(u.ci) + 1..Len(v.ci) : ~v.ci[i].yp
  /\ IF f.kind = "pcall"
     THEN /\ v.errfunc = f.handler /\ f.errfunc = u.errfunc /\ Len(v.ci) = Len(u.ci)
          /\ \A i \in f.ci..Len(u.ci) : i >= 1 => ~u.ci[i].yp
     ELSE v.errfunc = u.errfunc
LEMMA HandlersAdded ==
  ASSUME NEW T, NEW C, NEW S, NEW D, NEW n \in Nat, NEW t, NEW f, Added(C, D, n, f), f.th = t,
         \A i \in 1..n : C[i].ci \in Nat,
         HandlerAdded(T[t], S[t], f), T[t].status # "dead", HandlersOf(T, C, t)
  PROVE  HandlersOf(S, D, t)
<1> DEFINE F == T[t].ci
           G == S[t].ci
<1>0. F = T[t].ci /\ G = S[t].ci OBVIOUS
<1>1. Len(C) = n /\ Len(D) = n + 1 /\ (\A i \in 1..n : D[i] = C[i]) /\ D[n + 1] = f BY DEF Added
<1>2. /\ Len(F) \in Nat /\ Len(G) \in Nat /\ Len(F) <= Len(G) /\ \A i \in 1..Len(F) : G[i] = F[i]
      /\ \A i \in Len(F) + 1..Len(G) : ~G[i].yp
  BY DEF HandlerAdded
<1>3. /\ InForceAt(F, C, t, n + 1, Len(F), T[t].errfunc)
      /\ \A i \in 1..n : PcallAt(C, t, i) =>
           /\ InForceAt(F, C, t, i, Len(F), C[i].errfunc)
           /\ \A g \in C[i].ci..Len(F) : g >= 1 => ~F[g].yp
      /\ \A p \in 1..Len(F) : F[p].yp => LastYp(F, p - 1, F[p].oef)
  BY <1>1 DEF HandlersOf
<1>4. f.kind = "pcall" =>
        /\ S[t].errfunc = f.handler /\ f.errfunc = T[t].errfunc /\ Len(G) = Len(F)
        /\ \A i \in f.ci..Len(F) : i >= 1 => ~F[i].yp
  BY DEF HandlerAdded
<1>5. f.kind # "pcall" => S[t].errfunc = T[t].errfunc BY DEF HandlerAdded
<1> HIDE DEF F, G
<1>6. ASSUME NEW i \in 1..n PROVE PcallAt(D, t, i) <=> PcallAt(C, t, i) BY <1>1 DEF PcallAt
<1>7. PcallAt(D, t, n + 1) <=> f.kind = "pcall" BY <1>1 DEF PcallAt
<1>8. ASSUME NEW k \in 0..n, NEW h, InForceAt(F, C, t, k + 1, Len(F), h)
      PROVE  InForceAt(G, D, t, k + 1, Len(G), h)
  <2>1. InForceAt(G, C, t, k + 1, Len(G), h) BY <1>2, <1>8, InForceMore
  <2>2. /\ \A i \in 1..k : PcallAt(D, t, i) => PcallAt(C, t, i) /\ D[i] = C[i]
        /\ \A i \in 1..k : PcallAt(C, t, i) => PcallAt(D, t, i)
    BY <1>1, <1>6
  <2>3. k \in Nat OBVIOUS
  <2> QED BY <2>1, <2>2, <2>3, SameInForce
<1>9. InForceAt(G, D, t, n + 1, Len(G), T[t].errfunc)
  <2>1. n \in 0..n OBVIOUS
  <2> QED BY <2>1, <1>3, <1>8
<1>10. InForceAt(G, D, t, (n + 1) + 1, Len(G), S[t].errfunc)
  <2>1. ((n + 1) + 1) - 1 = n + 1 /\ (n + 1) - 1 = n OBVIOUS
  <2>2. CASE f.kind = "pcall"
    <3>1. ASSUME NEW i \in 1..n + 1, PcallAt(D, t, i), \A j \in i + 1..n + 1 : ~PcallAt(D, t, j)
          PROVE  S[t].errfunc = D[i].handler
      <4>1. i = n + 1
        <5>1. i < n + 1 => n + 1 \in i + 1..n + 1 OBVIOUS
        <5> QED BY <5>1, <3>1, <2>2, <1>7
      <4> QED BY <4>1, <1>1, <1>4, <2>2
    <3>2. ~ \A i \in 1..n + 1 : ~PcallAt(D, t, i)
      <4>1. n + 1 \in 1..n + 1 OBVIOUS
      <4> QED BY <4>1, <1>7, <2>2
    <3> QED BY <3>1, <3>2, <2>1 DEF InForceAt
  <2>3. CASE f.kind # "pcall"
    <3>1. ASSUME NEW i \in 1..n + 1, PcallAt(D, t, i), \A j \in i + 1..n + 1 : ~PcallAt(D, t, j)
          PROVE  S[t].errfunc = D[i].handler
      <4>1. i \in 1..n /\ i # n + 1 BY <3>1, <2>3, <1>7
      <4>2. \A j \in i + 1..n : ~PcallAt(D, t, j) BY <3>1
      <4> QED BY <4>1, <4>2, <3>1, <1>5, <1>9, <2>3, <2>1 DEF InForceAt
    <3>2. ASSUME \A i \in 1..n + 1 : ~PcallAt(D, t, i) PROVE LastYp(G, Len(G), S[t].errfunc)
      <4>1. \A i \in 1..n : ~PcallAt(D, t, i) BY <3>2
      <4> QED BY <4>1, <1>5, <1>9, <2>3, <2>1 DEF InForceAt
    <3> QED BY <3>1, <3>2, <2>1 DEF InForceAt
  <2> QED BY <2>2, <2>3
<1>11. ASSUME NEW i \in 1..n + 1, PcallAt(D, t, i)
       PROVE  /\ InForceAt(G, D, t, i, Len(G), D[i].errfunc)
              /\ \A g \in D[i].ci..Len(G) : g >= 1 => ~G[g].yp
  <2>1. CASE i <= n
    <3>1. i \in 1..n /\ D[i] = C[i] /\ PcallAt(C, t, i) BY <2>1, <1>1, <1>6, <1>11
    <3>2. i - 1 \in 0..n /\ (i - 1) + 1 = i BY <2>1
    <3>3. InForceAt(F, C, t, (i - 1) + 1, Len(F), C[i].errfunc) BY <3>1, <3>2, <1>3
    <3>4. InForceAt(G, D, t, (i - 1) + 1, Len(G), C[i].errfunc) BY <3>2, <3>3, <1>8
    <3>5. ASSUME NEW g \in C[i].ci..Len(G), g >= 1 PROVE ~G[g].yp
      <4>1. CASE g > Len(F)
        <5>1. g \in Len(F) + 1..Len(G) BY <4>1, <1>2, <3>5, <3>1
        <5> QED BY <5>1, <1>2
      <4>2. CASE g <= Len(F)
        <5>1. g \in C[i].ci..Len(F) /\ g \in 1..Len(F) BY <4>2, <1>2, <3>5, <3>1
        <5>2. ~F[g].yp BY <5>1, <3>1, <3>5, <1>3
        <5> QED BY <5>1, <5>2, <1>2
      <4> QED BY <4>1, <4>2, <3>1, <1>2
    <3> QED BY <3>1, <3>2, <3>4, <3>5
  <2>2. CASE i = n + 1
    <3>1. f.kind = "pcall" /\ D[i] = f BY <2>2, <1>1, <1>7, <1>11
    <3>2. f.errfunc = T[t].errfunc /\ Len(G) = Len(F) /\ \A g \in f.ci..Len(F) : g >= 1 => ~F[g].yp
      BY <3>1, <1>4
    <3>3. ASSUME NEW g \in f.ci..Len(G), g >= 1 PROVE ~G[g].yp
      BY <3>2, <3>3, <1>2
    <3> QED BY <3>1, <3>2, <3>3, <2>2, <1>9
  <2> QED BY <2>1, <2>2
<1>12. ASSUME NEW p \in 1..Len(G), G[p].yp PROVE LastYp(G, p - 1, G[p].oef)
  <2>1. p \in 1..Len(F)
    <3>1. p > Len(F) => p \in Len(F) + 1..Len(G) BY <1>2
    <3> QED BY <3>1, <1>2, <1>12
  <2>2. G[p] = F[p] /\ \A i \in 1..p - 1 : G[i] = F[i] BY <2>1, <1>2
  <2>3. LastYp(F, p - 1, F[p].oef) BY <2>1, <2>2, <1>3, <1>12
  <2>4. p - 1 \in Nat BY <2>1
  <2>5. LastYp(G, p - 1, F[p].oef) BY <2>2, <2>3, <2>4, LastYpSame
  <2> QED BY <2>2, <2>5
<1> QED BY <1>0, <1>1, <1>10, <1>11, <1>12 DEF HandlersOf

(***************************************************************************)
(* The invariant, step by step                                             *)
(***************************************************************************)
\* It is enough to look at the thread that a step concerns.
LEMMA CoreStep ==
  ASSUME NEW T, NEW C, NEW S, NEW D, NEW n, NEW t \in Thread, Core(T, C),
         Typed(S, D), Shape(D), Frames(S, D), CountsRight(S, D), ThreadRight(S, D, t),
         Common(C, D, n, t), Others(T, S, t),
         C[Len(C)].th = t \/ D[Len(D)].th = C[Len(C)].th
           \/ (T[C[Len(C)].th].status # "yield" /\ T[C[Len(C)].th].ci # << >>)
  PROVE  Core(S, D)
<1>1. ASSUME NEW x \in Thread PROVE ThreadRight(S, D, x)
  <2>1. ThreadRight(T, C, x) /\ Shape(C) BY DEF Core
  <2>2. CASE x = t BY <2>2
  <2>3. CASE x # t BY <2>1, <2>3, OtherThreads
  <2> QED BY <2>2, <2>3
<1> QED BY <1>1 DEF Core

LEMMA StatusOk ==
  ASSUME NEW S, NEW D, NEW t, Len(D) \in Nat, Len(D) >= 1, D[Len(D)].th = t, S[t].status = "ok"
  PROVE  StatusOf(S, D, t)
<1>1. OnCStack(D, t) BY DEF OnCStack
<1> QED BY <1>1 DEF StatusOf

\* The thread t at the top of C, which runs.
Runs(T, C, t) == t \in Thread /\ Len(C) >= 1 /\ t = C[Len(C)].th /\ T[t].status = "ok"

\* t pushes the entry f.
Pushed(T, C, S, D, t, f) ==
  /\ Added(C, D, Len(C), f) /\ f.th = t /\ Others(T, S, t) /\ S[t].status = "ok"
  /\ f.kind # "resume" /\ Over(f, C[Len(C)]) /\ Holds(f) /\ (Len(C) = 1 => f.kind = "pcall")
  /\ FrameAdded(T[t].ci, S[t].ci, C[Len(C)], f)
  /\ CountedUp(T[t], S[t], f) /\ HookAdded(T[t], S[t], f) /\ BoundAdded(T[t], S[t], f)
  /\ YieldAdded(T[t].ci, S[t].ci, C[Len(C)], f) /\ HandlerAdded(T[t], S[t], f)
LEMMA CorePushed ==
  ASSUME NEW T, NEW C, NEW S, NEW D, NEW t, NEW f, Core(T, C), Typed(S, D),
         Runs(T, C, t), Pushed(T, C, S, D, t, f)
  PROVE  Core(S, D)
<1> DEFINE n == Len(C)
<1>1. Sized(T, C) /\ Sized(S, D) BY TypedSized DEF Core
<1>2. n \in Nat /\ n >= 1 /\ t \in Thread /\ t = C[n].th /\ T[t].status = "ok" /\ n \in 1..Len(C)
  BY <1>1 DEF Sized, Runs
<1>3. Added(C, D, n, f) /\ f.th = t /\ Others(T, S, t) /\ S[t].status = "ok" BY DEF Pushed
<1>4. Shape(C) /\ Frames(T, C) /\ CountsRight(T, C) /\ ThreadRight(T, C, t) BY <1>2 DEF Core
<1> HIDE DEF n
<1>5. Shape(D)
  <2>1. Over(f, C[n]) /\ Holds(f) /\ f.kind # "resume" /\ (n = 1 => f.kind = "pcall") BY DEF Pushed, n
  <2> QED BY <2>1, <1>2, <1>3, <1>4, ShapeAdded
<1>6. Frames(S, D)
  <2>1. f.kind # "resume" /\ FrameAdded(T[t].ci, S[t].ci, C[n], f) BY DEF Pushed, n
  <2> QED BY <2>1, <1>1, <1>2, <1>3, <1>4, <1>5, FramesAdded
<1>7. /\ Len(C) = n /\ Len(D) = n + 1 /\ (\A i \in 1..n : D[i] = C[i]) /\ D[n + 1] = f
      /\ D[Len(D)].th = t
  BY <1>3 DEF Added
<1>8. Common(C, D, n, t) BY <1>2, <1>3, <1>7 DEF Common
<1>9. CountsRight(S, D)
  <2>1. CountedUp(T[t], S[t], f) BY DEF Pushed
  <2>2. ASSUME NEW b \in Int, NEW z \in Int, Counts(T, C, t, b, z) PROVE Counts(S, D, t, b, z)
    BY <2>1, <2>2, <1>1, <1>2, <1>3, CountsAdded
  <2> QED BY <2>2, <1>1, <1>2, <1>3, <1>4, <1>5, <1>8, CountsStep DEF Common
<1>10. ThreadRight(S, D, t)
  <2>1. /\ HookAdded(T[t], S[t], f) /\ BoundAdded(T[t], S[t], f)
        /\ YieldAdded(T[t].ci, S[t].ci, C[n], f) /\ HandlerAdded(T[t], S[t], f)
    BY DEF Pushed, n
  <2>2. /\ HooksOf(T, C, t) /\ BoundOf(T, C, t) /\ YieldsOf(T, C, t) /\ HandlersOf(T, C, t)
    BY <1>4 DEF ThreadRight
  <2>3. T[t].status # "dead" BY <1>2
  <2>4. HooksOf(S, D, t) BY <2>1, <2>2, <2>3, <1>2, <1>3, HooksAdded
  <2>5. BoundOf(S, D, t) BY <2>1, <2>2, <2>3, <1>2, <1>3, BoundsAdded
  <2>6. YieldsOf(S, D, t) BY <2>1, <2>2, <1>2, <1>3, YieldsAdded
  <2>7. HandlersOf(S, D, t)
    <3>1. \A i \in 1..n : C[i].ci \in Nat BY <1>1, <1>7 DEF Sized
    <3> QED BY <3>1, <2>1, <2>2, <2>3, <1>2, <1>3, HandlersAdded
  <2>8. Len(D) \in Nat /\ Len(D) >= 1 BY <1>2, <1>7
  <2>9. StatusOf(S, D, t) BY <2>8, <1>3, <1>7, StatusOk
  <2> QED BY <2>4, <2>5, <2>6, <2>7, <2>9 DEF ThreadRight
<1>11. C[Len(C)].th = t BY <1>2, <1>7
<1>12. t \in Thread /\ Others(T, S, t) BY <1>2, <1>3
<1> QED BY <1>5, <1>6, <1>8, <1>9, <1>10, <1>11, <1>12, CoreStep
(***************************************************************************)
(* What runs at the top changes its frames                                 *)
(***************************************************************************)
Changed(F, G, q) ==
  /\ q \in Nat /\ q >= 1 /\ q <= Len(F) + 1 /\ q <= Len(G) + 1
  /\ \A i \in 1..q - 1 : G[i] = F[i]
  /\ \A i \in q..Len(F) : ~F[i].yp
  /\ \A i \in q..Len(G) : ~G[i].yp
LEMMA HandlersChanged ==
  ASSUME NEW T, NEW C, NEW S, NEW n \in Nat, NEW t, NEW q, n = Len(C), Changed(T[t].ci, S[t].ci, q),
         Len(T[t].ci) \in Nat, Len(S[t].ci) \in Nat, \A i \in 1..n : C[i].ci \in Nat,
         S[t].errfunc = T[t].errfunc, T[t].status # "dead", HandlersOf(T, C, t)
  PROVE  HandlersOf(S, C, t)
<1> DEFINE F == T[t].ci
           G == S[t].ci
<1>0. F = T[t].ci /\ G = S[t].ci OBVIOUS
<1>1. /\ q \in Nat /\ q - 1 \in Nat /\ q - 1 <= Len(F) /\ q - 1 <= Len(G)
      /\ \A i \in 1..q - 1 : G[i] = F[i]
      /\ \A i \in (q - 1) + 1..Len(F) : ~F[i].yp
      /\ \A i \in (q - 1) + 1..Len(G) : ~G[i].yp
  BY DEF Changed
<1>2. Len(F) \in Nat /\ Len(G) \in Nat OBVIOUS
<1>3. /\ InForceAt(F, C, t, n + 1, Len(F), T[t].errfunc)
      /\ \A i \in 1..n : PcallAt(C, t, i) =>
           /\ InForceAt(F, C, t, i, Len(F), C[i].errfunc)
           /\ \A g \in C[i].ci..Len(F) : g >= 1 => ~F[g].yp
      /\ \A p \in 1..Len(F) : F[p].yp => LastYp(F, p - 1, F[p].oef)
  BY DEF HandlersOf
<1> HIDE DEF F, G
<1>4. ASSUME NEW i, NEW h, InForceAt(F, C, t, i, Len(F), h)
      PROVE  InForceAt(G, C, t, i, Len(G), h)
  <2>1. \A k \in 1..q - 1 : F[k] = F[k] OBVIOUS
  <2>2. InForceAt(F, C, t, i, q - 1, h) BY <2>1, <1>1, <1>2, <1>4, InForceLess
  <2> QED BY <2>2, <1>1, <1>2, InForceMore
<1>5. ASSUME NEW i \in 1..n, PcallAt(C, t, i)
      PROVE  /\ InForceAt(G, C, t, i, Len(G), C[i].errfunc)
             /\ \A g \in C[i].ci..Len(G) : g >= 1 => ~G[g].yp
  <2>1. InForceAt(G, C, t, i, Len(G), C[i].errfunc) BY <1>3, <1>4, <1>5
  <2>2. ASSUME NEW g \in C[i].ci..Len(G), g >= 1 PROVE ~G[g].yp
    <3>0. g \in Nat /\ C[i].ci \in Nat BY <1>2, <2>2
    <3>1. CASE g >= q
      <4>1. g \in (q - 1) + 1..Len(G) BY <3>0, <3>1, <1>1, <1>2, <2>2
      <4> QED BY <4>1, <1>1
    <3>2. CASE g < q
      <4>1. g \in 1..q - 1 /\ g \in C[i].ci..Len(F) BY <3>0, <3>2, <1>1, <1>2, <2>2
      <4>2. ~F[g].yp BY <4>1, <1>3, <1>5, <2>2
      <4> QED BY <4>1, <4>2, <1>1
    <3>3. g >= q \/ g < q BY <3>0, <1>1
    <3> QED BY <3>1, <3>2, <3>3
  <2> QED BY <2>1, <2>2
<1>6. ASSUME NEW p \in 1..Len(G), G[p].yp PROVE LastYp(G, p - 1, G[p].oef)
  <2>0. p >= q => p \in (q - 1) + 1..Len(G) BY <1>1, <1>2
  <2>1. p < q BY <2>0, <1>1, <1>2, <1>6
  <2>2. p \in 1..q - 1 /\ p \in 1..Len(F) /\ p - 1 \in Nat BY <2>1, <1>1, <1>2
  <2>3. G[p] = F[p] /\ \A i \in 1..p - 1 : G[i] = F[i] BY <2>2, <1>1
  <2>4. LastYp(F, p - 1, F[p].oef) BY <2>2, <2>3, <1>3, <1>6
  <2>5. LastYp(G, p - 1, F[p].oef) BY <2>2, <2>3, <2>4, LastYpSame
  <2> QED BY <2>3, <2>5
<1>7. InForceAt(G, C, t, n + 1, Len(G), S[t].errfunc) BY <1>3, <1>4
<1> QED BY <1>0, <1>5, <1>6, <1>7 DEF HandlersOf

LEMMA YieldsChanged ==
  ASSUME NEW T, NEW C, NEW S, NEW n \in Nat, NEW t, NEW q, n = Len(C), n >= 1, C[n].th = t,
         Changed(T[t].ci, S[t].ci, q), Len(T[t].ci) \in Nat, Len(S[t].ci) \in Nat,
         \A f \in q..Len(S[t].ci) : S[t].ci[f].lua \/ (C[n].kind = "cfun" /\ C[n].ci = f),
         YieldsOf(T, C, t)
  PROVE  YieldsOf(S, C, t)
<1> DEFINE F == T[t].ci
           G == S[t].ci
<1>0. F = T[t].ci /\ G = S[t].ci OBVIOUS
<1>1. /\ q \in Nat /\ q >= 1 /\ q - 1 <= Len(F) /\ q - 1 <= Len(G)
      /\ \A i \in 1..q - 1 : G[i] = F[i]
      /\ \A i \in q..Len(G) : ~G[i].yp
  BY DEF Changed
<1>2. Len(F) \in Nat /\ Len(G) \in Nat OBVIOUS
<1>3. OnCStack(C, t) BY DEF OnCStack
<1>4. /\ \A i \in 1..Len(F) : Continues(F[i]) \/ \E j \in 1..Len(C) : Waits(C, t, i, j)
      /\ \A p \in 1..Len(F) :
           F[p].yp => ~F[p].lua /\ F[p].oah /\ p <= MAXSTACK /\ \A i \in 1..p : Continues(F[i])
  BY <1>3 DEF YieldsOf
<1>5. \A f \in q..Len(G) : G[f].lua \/ (C[n].kind = "cfun" /\ C[n].ci = f) OBVIOUS
<1> HIDE DEF F, G
<1>6. ASSUME NEW i \in 1..Len(G) PROVE Continues(G[i]) \/ \E j \in 1..Len(C) : Waits(C, t, i, j)
  <2>1. CASE i < q
    <3>1. i \in 1..q - 1 /\ i \in 1..Len(F) BY <2>1, <1>1, <1>2
    <3>2. G[i] = F[i] BY <3>1, <1>1
    <3> QED BY <3>1, <3>2, <1>4
  <2>2. CASE i >= q
    <3>1. i \in q..Len(G) BY <2>2, <1>1, <1>2
    <3>2. CASE G[i].lua BY <3>2 DEF Continues
    <3>3. CASE C[n].kind = "cfun" /\ C[n].ci = i
      <4>1. Waits(C, t, i, n) BY <3>3 DEF Waits
      <4> QED BY <4>1
    <3> QED BY <3>1, <3>2, <3>3, <1>5
  <2> QED BY <2>1, <2>2, <1>1
<1>7. ASSUME NEW p \in 1..Len(G), G[p].yp
      PROVE  ~G[p].lua /\ G[p].oah /\ p <= MAXSTACK /\ \A i \in 1..p : Continues(G[i])
  <2>0. p >= q => p \in q..Len(G) BY <1>1, <1>2
  <2>1. p < q BY <2>0, <1>1, <1>2, <1>7
  <2>2. p \in 1..q - 1 /\ p \in 1..Len(F) BY <2>1, <1>1, <1>2
  <2>3. G[p] = F[p] /\ \A i \in 1..p : G[i] = F[i] BY <2>2, <1>1
  <2>4. ~F[p].lua /\ F[p].oah /\ p <= MAXSTACK /\ \A i \in 1..p : Continues(F[i])
    BY <2>2, <2>3, <1>4, <1>7
  <2> QED BY <2>3, <2>4
<1> QED BY <1>0, <1>6, <1>7 DEF YieldsOf

\* Nothing but its frames changes in t.
Same(u, v) ==
  /\ v.ncc = u.ncc /\ v.nny = u.nny /\ v.errfunc = u.errfunc /\ v.allowhook = u.allowhook
  /\ v.big = u.big /\ v.status = "ok"
Tweaked(T, C, S, t, q) ==
  LET G == S[t].ci IN
  /\ Others(T, S, t) /\ Same(T[t], S[t]) /\ Changed(T[t].ci, G, q)
  /\ C[Len(C)].kind \in {"exec", "cfun", "unroll"} /\ C[Len(C)].ci <= q
  /\ Works(C[Len(C)], G, Len(G))
  /\ Len(G) <= Len(T[t].ci) \/ ~Grows(T[t])
  /\ \A f \in q..Len(G) : G[f].lua \/ (C[Len(C)].kind = "cfun" /\ C[Len(C)].ci = f)
  /\ Len(G) <= Len(T[t].ci) + 1
LEMMA BoundsChanged ==
  ASSUME NEW T, NEW C, NEW S, NEW t, T[t].status # "dead", Len(T[t].ci) \in Nat, Len(S[t].ci) \in Nat,
         S[t].big = T[t].big, Len(S[t].ci) <= Len(T[t].ci) + 1,
         Len(S[t].ci) <= Len(T[t].ci) \/ ~Grows(T[t]), BoundOf(T, C, t), MAXSTACK \in Nat
  PROVE  BoundOf(S, C, t)
<1>1. ASSUME ~S[t].big PROVE Len(S[t].ci) <= MAXSTACK
  <2>1. Len(T[t].ci) <= MAXSTACK BY <1>1 DEF BoundOf
  <2>2. CASE Len(S[t].ci) <= Len(T[t].ci) BY <2>1, <2>2
  <2>3. CASE ~Grows(T[t])
    <3>1. ~(Len(T[t].ci) >= MAXSTACK) BY <2>3, <1>1 DEF Grows
    <3> QED BY <3>1
  <2> QED BY <2>2, <2>3
<1> QED BY <1>1 DEF BoundOf

LEMMA CoreTweaked ==
  ASSUME NEW T, NEW C, NEW S, NEW t, NEW q, CallAssumption, Core(T, C), Typed(S, C), Runs(T, C, t),
         Tweaked(T, C, S, t, q)
  PROVE  Core(S, C)
<1> DEFINE n == Len(C)
<1>1. Sized(T, C) /\ Sized(S, C) BY TypedSized DEF Core
<1>2. n \in Nat /\ n >= 1 /\ t \in Thread /\ t = C[n].th /\ T[t].status = "ok" /\ n \in 1..Len(C)
  BY <1>1 DEF Sized, Runs
<1>3. Shape(C) /\ Frames(T, C) /\ CountsRight(T, C) /\ ThreadRight(T, C, t) BY <1>2 DEF Core
<1>4. Len(T[t].ci) \in Nat /\ Len(S[t].ci) \in Nat /\ \A i \in 1..n : C[i].ci \in Nat
  BY <1>1, <1>2 DEF Sized
<1>5. Others(T, S, t) /\ Same(T[t], S[t]) /\ Changed(T[t].ci, S[t].ci, q) BY DEF Tweaked
<1>6. n = Len(C) OBVIOUS
<1> HIDE DEF n
<1>7. Frames(S, C)
  <2>1. /\ C[n].kind \in {"exec", "cfun", "unroll"} /\ C[n].ci <= q
        /\ Works(C[n], S[t].ci, Len(S[t].ci))
    BY DEF Tweaked, n
  <2>2. \A i \in 1..C[n].ci - 1 : S[t].ci[i] = T[t].ci[i] BY <2>1, <1>2, <1>4, <1>5 DEF Changed
  <2> QED BY <2>1, <2>2, <1>1, <1>2, <1>3, <1>5, <1>6, FramesTop
<1>8. Common(C, C, n, t) BY <1>2, <1>6 DEF Common
<1>9. CountsRight(S, C)
  <2>1. ASSUME NEW b \in Int, NEW z \in Int, Counts(T, C, t, b, z) PROVE Counts(S, C, t, b, z)
    BY <2>1, <1>5 DEF Counts, Same
  <2>2. /\ n \in 1..Len(C) /\ n <= Len(C) /\ \A i \in 1..n : C[i] = C[i]
        /\ \A i \in n + 1..Len(C) : C[i].th = t
    BY <1>2, <1>6
  <2>3. C[n].th = t BY <1>2
  <2> QED BY <2>1, <2>2, <2>3, <1>1, <1>2, <1>3, <1>5, CountsStep
<1>10. ThreadRight(S, C, t)
  <2>1. HooksOf(T, C, t) /\ BoundOf(T, C, t) /\ YieldsOf(T, C, t) /\ HandlersOf(T, C, t)
    BY <1>3 DEF ThreadRight
  <2>2. T[t].status # "dead" /\ S[t].status = "ok" /\ S[t].errfunc = T[t].errfunc
        /\ S[t].allowhook = T[t].allowhook /\ S[t].big = T[t].big
    BY <1>2, <1>5 DEF Same
  <2>3. HooksOf(S, C, t) BY <2>1, <2>2 DEF HooksOf
  <2>4. BoundOf(S, C, t)
    <3>1. /\ Len(S[t].ci) <= Len(T[t].ci) \/ ~Grows(T[t])
          /\ Len(S[t].ci) <= Len(T[t].ci) + 1
      BY DEF Tweaked
    <3>2. MAXSTACK \in Nat BY DEF CallAssumption
    <3> QED BY <3>1, <3>2, <2>1, <2>2, <1>4, BoundsChanged
  <2>5. YieldsOf(S, C, t)
    <3>1. \A f \in q..Len(S[t].ci) : S[t].ci[f].lua \/ (C[n].kind = "cfun" /\ C[n].ci = f)
      BY DEF Tweaked, n
    <3> QED BY <3>1, <2>1, <1>2, <1>4, <1>5, <1>6, YieldsChanged
  <2>6. HandlersOf(S, C, t) BY <2>1, <2>2, <1>2, <1>4, <1>5, <1>6, HandlersChanged
  <2>7. StatusOf(S, C, t) BY <2>2, <1>2, <1>6, StatusOk
  <2> QED BY <2>3, <2>4, <2>5, <2>6, <2>7 DEF ThreadRight
<1>11. C[Len(C)].th = t /\ t \in Thread /\ Others(T, S, t) BY <1>2, <1>5, <1>6
<1> QED BY <1>3, <1>7, <1>8, <1>9, <1>10, <1>11, CoreStep
(***************************************************************************)
(* Yields are allowed                                                      *)
(***************************************************************************)
LEMMA NyZero ==
  ASSUME NEW T, NEW C, NEW n \in Nat, NEW t, Core(T, C), Len(C) = n, n >= 1, t = C[n].th, T[t].nny = 0
  PROVE  \A i \in 1..n : C[i].th = t => ~C[i].ny
<1>1. Sized(T, C) /\ Shape(C) /\ CountsRight(T, C) BY TypedSized DEF Core
<1>2. n \in 1..Len(C) /\ Len(C) \in Nat OBVIOUS
<1>3. PICK b, z \in Int : Counts(T, C, t, b, z) /\ z \in {0, 1}
  <2>1. \E b, z \in Int : /\ Counts(T, C, C[n].th, b, z) /\ z \in {0, 1}
                          /\ C[n].th = mainthread => z = 1
    BY <1>1, <1>2, CountsMine
  <2> QED BY <2>1
<1>4. Ny(C, t, n) = 0
  <2>1. Ny(C, t, n) \in Nat BY CountType
  <2>2. T[t].nny = z + Ny(C, t, n) BY <1>3 DEF Counts
  <2> QED BY <2>1, <2>2, <1>3
<1> SUFFICES ASSUME NEW i \in 1..n, C[i].th = t, C[i].ny PROVE FALSE OBVIOUS
<1> DEFINE N == {j \in 1..n : C[j].th = t /\ C[j].ny}
<1>5. IsFiniteSet(N)
  <2>1. IsFiniteSet(1..n) BY FS_Interval
  <2> QED BY <2>1, FS_Subset
<1>6. Cardinality(N) = 0 BY <1>4 DEF Ny
<1>7. N = {} BY <1>5, <1>6, FS_EmptySet
<1> QED BY <1>7

\* Then t is in no call that cannot be yielded across, and handles no error.
Free(C, t, n) == \A i \in 1..n : C[i].th = t => C[i].kind \notin {"pcall", "throw", "raise", "hook"}
LEMMA Unprotected ==
  ASSUME NEW T, NEW C, NEW n \in Nat, NEW t, Core(T, C), Len(C) = n, n >= 1, t = C[n].th,
         T[t].nny = 0, C[n].kind \in {"cfun", "hook"}
  PROVE  Free(C, t, n - 1)
<1>1. Shape(C) BY DEF Core
<1>2. \A i \in 1..n : C[i].th = t => ~C[i].ny BY NyZero
<1>3. ASSUME NEW i \in 1..n - 1, C[i].th = t
      PROVE  /\ C[i + 1].th = t /\ C[i + 1].kind # "resume" /\ ~C[i + 1].ny /\ Over(C[i + 1], C[i])
             /\ i + 1 \in 1..n
  <2>1. Over(C[i + 1], C[i]) BY <1>1 DEF Shape
  <2>2. C[i + 1].kind # "resume"
    <3> SUFFICES ASSUME C[i + 1].kind = "resume" PROVE FALSE OBVIOUS
    <3>1. i \in 1..Len(C) /\ n \in i + 1..Len(C) /\ Len(C) \in Nat OBVIOUS
    <3>2. C[i].th # C[n].th BY <1>1, <3>1, Resumer
    <3> QED BY <3>2, <1>3
  <2>3. C[i + 1].th = t BY <2>1, <2>2, <1>3 DEF Over
  <2>4. i + 1 \in 1..n OBVIOUS
  <2> QED BY <2>1, <2>2, <2>3, <2>4, <1>2
<1>4. ASSUME NEW i \in 1..n - 1, C[i].th = t PROVE C[i].kind \notin {"pcall", "throw", "raise"}
  BY <1>3, <1>4 DEF Over
<1>5. ASSUME NEW i \in 1..n - 1, C[i].th = t, C[i].kind = "hook" PROVE FALSE
  <2>1. C[i + 1].kind \in {"pcall", "raise", "throw"} BY <1>3, <1>5 DEF Over
  <2>2. CASE i + 1 = n BY <2>1, <2>2
  <2>3. CASE i + 1 < n
    <3>1. i + 1 \in 1..n - 1 /\ C[i + 1].th = t BY <2>3, <1>3, <1>5
    <3> QED BY <3>1, <2>1, <1>4
  <2> QED BY <2>2, <2>3
<1> QED BY <1>4, <1>5 DEF Free

\* All the frames but that of the entry at the top can be continued.
LEMMA AllContinue ==
  ASSUME NEW T, NEW C, NEW n \in Nat, NEW t, Core(T, C), Len(C) = n, n >= 1, t = C[n].th,
         T[t].nny = 0, C[n].kind \in {"cfun", "hook"},
         NEW f \in 1..Len(T[t].ci), C[n].kind = "cfun" => f # C[n].ci
  PROVE  Continues(T[t].ci[f])
<1>1. Shape(C) /\ C[n].th \in Thread /\ t \in Thread
  <2>1. n \in 1..Len(C) /\ Sized(T, C) BY TypedSized DEF Core
  <2> QED BY <2>1 DEF Core, Sized
<1>2. Free(C, t, n - 1) BY Unprotected
<1>3. \A i \in 1..n : C[i].th = t => ~C[i].ny BY NyZero
<1>4. OnCStack(C, t) BY DEF OnCStack
<1>5. Continues(T[t].ci[f]) \/ \E j \in 1..n : Waits(C, t, f, j)
  BY <1>1, <1>4 DEF Core, ThreadRight, YieldsOf
<1> SUFFICES ASSUME NEW j \in 1..n, Waits(C, t, f, j) PROVE FALSE BY <1>5
<1>6. /\ C[j].th = t /\ C[j].kind \in {"cfun", "ret"} /\ C[j].ci = f
      /\ j < Len(C) => C[j + 1].kind \in {"pcall", "resume", "raise", "throw"} \/ C[j + 1].ny
  BY DEF Waits
<1>7. j # n BY <1>6
<1>8. j \in 1..n - 1 /\ j + 1 \in 1..n BY <1>7
<1>9. C[j + 1].kind # "resume"
  <2> SUFFICES ASSUME C[j + 1].kind = "resume" PROVE FALSE OBVIOUS
  <2>1. j \in 1..Len(C) /\ n \in j + 1..Len(C) /\ Len(C) \in Nat BY <1>8
  <2>2. C[j].th # C[n].th BY <1>1, <2>1, Resumer
  <2> QED BY <2>2, <1>6
<1>10. C[j + 1].th = t
  <2>1. Over(C[j + 1], C[j]) BY <1>1, <1>8 DEF Shape
  <2> QED BY <2>1, <1>6, <1>9 DEF Over
<1>11. C[j + 1].kind \in {"pcall", "raise", "throw"} BY <1>3, <1>6, <1>8, <1>9, <1>10
<1>12. CASE j + 1 = n BY <1>11, <1>12
<1>13. CASE j + 1 < n
  <2>1. j + 1 \in 1..n - 1 BY <1>13, <1>8
  <2> QED BY <2>1, <1>2, <1>10, <1>11 DEF Free
<1> QED BY <1>12, <1>13, <1>8
\* lua_pcallk marks the C function that runs.
Marked(T, C, S, t, h) ==
  LET F == T[t].ci
      G == S[t].ci
      p == Len(F) IN
  /\ Others(T, S, t) /\ S[t].status = "ok" /\ S[t].errfunc = h
  /\ S[t].ncc = T[t].ncc /\ S[t].nny = T[t].nny /\ S[t].allowhook = T[t].allowhook
  /\ S[t].big = T[t].big
  /\ T[t].nny = 0 /\ C[Len(C)].kind = "cfun"
  /\ Len(G) = p /\ (\A i \in 1..p - 1 : G[i] = F[i]) /\ ~F[p].yp
  /\ G[p].lua = F[p].lua /\ G[p].k = "some" /\ G[p].yp /\ G[p].oef = T[t].errfunc
  /\ G[p].oah = T[t].allowhook /\ G[p].handler = h
LEMMA HandlersMarked ==
  ASSUME NEW T, NEW C, NEW S, NEW n \in Nat, NEW t, NEW h, n = Len(C), Marked(T, C, S, t, h),
         Len(T[t].ci) \in Nat, Len(T[t].ci) >= 1, T[t].status # "dead", Free(C, t, n),
         HandlersOf(T, C, t)
  PROVE  HandlersOf(S, C, t)
<1> DEFINE F == T[t].ci
           G == S[t].ci
           p == Len(F)
<1>0. F = T[t].ci /\ G = S[t].ci OBVIOUS
<1>1. /\ S[t].status = "ok" /\ S[t].errfunc = h /\ Len(G) = p
      /\ (\A i \in 1..p - 1 : G[i] = F[i]) /\ ~F[p].yp
      /\ G[p].yp /\ G[p].oef = T[t].errfunc /\ G[p].handler = h
  BY DEF Marked
<1>2. p \in Nat /\ p >= 1 OBVIOUS
<1>3. /\ InForceAt(F, C, t, n + 1, p, T[t].errfunc)
      /\ \A i \in 1..p : F[i].yp => LastYp(F, i - 1, F[i].oef)
  BY DEF HandlersOf
<1> HIDE DEF F, G, p
<1>4. \A i \in 1..n : ~PcallAt(C, t, i) BY DEF Free, PcallAt
<1>5. LastYp(F, p, T[t].errfunc)
  <2>1. (n + 1) - 1 = n OBVIOUS
  <2> QED BY <2>1, <1>3, <1>4 DEF InForceAt
<1>6. LastYp(F, p - 1, T[t].errfunc)
  <2>1. p - 1 \in Nat /\ p - 1 <= p /\ \A i \in 1..p - 1 : F[i] = F[i] BY <1>2
  <2>2. \A i \in (p - 1) + 1..p : ~F[i].yp
    <3>1. \A i \in (p - 1) + 1..p : i = p BY <1>2
    <3> QED BY <3>1, <1>1
  <2> QED BY <2>1, <2>2, <1>2, <1>5, LastYpLess
<1>7. LastYp(G, p, h)
  <2>1. ASSUME NEW q \in 1..p, \A r \in q + 1..p : ~G[r].yp PROVE q = p
    <3>1. q < p => p \in q + 1..p BY <1>2
    <3> QED BY <3>1, <2>1, <1>1, <1>2
  <2>2. p \in 1..p BY <1>2
  <2>3. \A q \in 1..p : G[q].yp /\ (\A r \in q + 1..p : ~G[r].yp) => h = G[q].handler BY <2>1, <1>1
  <2>4. ~ \A q \in 1..p : ~G[q].yp BY <2>2, <1>1
  <2> QED BY <2>3, <2>4 DEF LastYp
<1>8. InForceAt(G, C, t, n + 1, Len(G), S[t].errfunc)
  <2>1. (n + 1) - 1 = n OBVIOUS
  <2> QED BY <2>1, <1>1, <1>4, <1>7 DEF InForceAt
<1>9. ASSUME NEW q \in 1..Len(G), G[q].yp PROVE LastYp(G, q - 1, G[q].oef)
  <2>1. CASE q = p
    <3>1. p - 1 \in Nat BY <1>2
    <3>3. \A i \in 1..p - 1 : G[i] = F[i] BY <1>1
    <3>2. LastYp(G, p - 1, T[t].errfunc) BY <3>1, <3>3, <1>6, LastYpSame
    <3> QED BY <2>1, <3>2, <1>1
  <2>2. CASE q # p
    <3>1. q \in 1..p - 1 /\ q \in 1..p /\ q - 1 \in Nat BY <2>2, <1>1, <1>2
    <3>2. G[q] = F[q] /\ \A i \in 1..q - 1 : G[i] = F[i] BY <3>1, <1>1, <1>2
    <3>3. LastYp(F, q - 1, F[q].oef) BY <3>1, <3>2, <1>3, <1>9
    <3>4. LastYp(G, q - 1, F[q].oef) BY <3>1, <3>2, <3>3, LastYpSame
    <3> QED BY <3>2, <3>4
  <2> QED BY <2>1, <2>2
<1> QED BY <1>0, <1>4, <1>8, <1>9 DEF HandlersOf

LEMMA CoreMarked ==
  ASSUME NEW T, NEW C, NEW S, NEW t, NEW h, CallAssumption, Core(T, C), Typed(S, C), Runs(T, C, t),
         Marked(T, C, S, t, h)
  PROVE  Core(S, C)
<1> DEFINE n == Len(C)
           F == T[t].ci
           G == S[t].ci
           p == Len(F)
<1>0. n = Len(C) /\ F = T[t].ci /\ G = S[t].ci /\ p = Len(F) OBVIOUS
<1>1. Sized(T, C) /\ Sized(S, C) BY TypedSized DEF Core
<1>2. n \in Nat /\ n >= 1 /\ t \in Thread /\ t = C[n].th /\ T[t].status = "ok" /\ n \in 1..Len(C)
  BY <1>1 DEF Sized, Runs
<1>3. Shape(C) /\ Frames(T, C) /\ CountsRight(T, C) /\ ThreadRight(T, C, t) BY <1>2 DEF Core
<1>4. /\ Others(T, S, t) /\ S[t].status = "ok" /\ S[t].errfunc = h
      /\ S[t].ncc = T[t].ncc /\ S[t].nny = T[t].nny /\ S[t].allowhook = T[t].allowhook
      /\ S[t].big = T[t].big
      /\ T[t].nny = 0 /\ C[n].kind = "cfun"
      /\ Len(G) = p /\ (\A i \in 1..p - 1 : G[i] = F[i]) /\ ~F[p].yp
      /\ G[p].lua = F[p].lua /\ G[p].k = "some" /\ G[p].yp
      /\ G[p].oah = T[t].allowhook
  BY DEF Marked
<1>5. Len(T[t].ci) \in Nat /\ Len(S[t].ci) \in Nat BY <1>1, <1>2 DEF Sized
<1> HIDE DEF n, F, G, p
<1>6. p \in Nat /\ p >= 1 /\ C[n].ci = p /\ ~F[p].lua
  <2>1. Framed(T, C, n) BY <1>2, <1>3 DEF Frames
  <2>2. Height(T, C, n) = p BY <1>0, <1>2 DEF Height
  <2>3. Works(C[n], F, p) BY <2>1, <2>2, <1>0, <1>2 DEF Framed
  <2> QED BY <2>3, <1>0, <1>4, <1>5 DEF Works
<1>7. Free(C, t, n)
  <2>1. Free(C, t, n - 1) BY <1>0, <1>2, <1>4, Unprotected
  <2>2. \A i \in 1..n : i \in 1..n - 1 \/ i = n BY <1>2
  <2> QED BY <2>1, <2>2, <1>4 DEF Free
<1>8. Frames(S, C)
  <2>1. Works(C[n], G, Len(G)) BY <1>4, <1>6 DEF Works
  <2>2. \A i \in 1..C[n].ci - 1 : G[i] = F[i] BY <1>4, <1>6
  <2>5. Works(C[n], S[t].ci, Len(S[t].ci)) BY <2>1, <1>0
  <2>6. \A i \in 1..C[n].ci - 1 : S[t].ci[i] = T[t].ci[i] BY <2>2, <1>0
  <2>7. Others(T, S, t) BY <1>4
  <2>8. C[n].kind \in {"exec", "cfun", "unroll"} BY <1>4
  <2>3. /\ n = Len(C) /\ t = C[n].th /\ t \in Thread /\ Others(T, S, t)
        /\ C[n].kind \in {"exec", "cfun", "unroll"}
    BY <1>0, <1>2, <1>4
  <2>4. Shape(C) /\ Frames(T, C) BY <1>3
  <2> QED BY <2>3, <2>4, <2>5, <2>6, <2>7, <2>8, <1>1, FramesTop
<1>9. CountsRight(S, C)
  <2>1. ASSUME NEW b \in Int, NEW z \in Int, Counts(T, C, t, b, z) PROVE Counts(S, C, t, b, z)
    BY <2>1, <1>4 DEF Counts
  <2>2. /\ n \in 1..Len(C) /\ n <= Len(C) /\ \A i \in 1..n : C[i] = C[i]
        /\ \A i \in n + 1..Len(C) : C[i].th = t
    BY <1>0, <1>2
  <2>3. C[n].th = t /\ t \in Thread /\ Others(T, S, t) BY <1>2, <1>4
  <2> QED BY <2>1, <2>2, <2>3, <1>1, <1>3, CountsStep
<1>10. T[t].allowhook /\ ~T[t].big
  <2>1. HooksOf(T, C, t) /\ BoundOf(T, C, t) BY <1>3 DEF ThreadRight
  <2>2. NoHook(C, t, n) BY <1>7 DEF NoHook, Free
  <2>3. ~Handling(C, t, n) BY <1>7 DEF Handling, Free
  <2> QED BY <2>1, <2>2, <2>3, <1>0, <1>2 DEF HooksOf, BoundOf
<1>11. YieldsOf(S, C, t)
  <2>1. ASSUME NEW f \in 1..Len(G) PROVE Continues(G[f])
    <3>1. CASE f = p BY <3>1, <1>4 DEF Continues
    <3>2. CASE f # p
      <4>1. f \in 1..p /\ f \in 1..p - 1 BY <3>2, <1>4, <1>6
      <4>2. f # C[n].ci /\ f \in 1..Len(T[t].ci) BY <4>1, <3>2, <1>0, <1>6
      <4>3. C[n].kind \in {"cfun", "hook"} /\ Len(C) = n BY <1>0, <1>4
      <4>4. Continues(T[t].ci[f]) BY <4>2, <4>3, <1>2, <1>4, AllContinue
      <4> QED BY <4>1, <4>4, <1>0, <1>4
    <3> QED BY <3>1, <3>2
  <2>2. ASSUME NEW q \in 1..Len(G), G[q].yp PROVE ~G[q].lua /\ G[q].oah /\ q <= MAXSTACK
    <3>1. CASE q = p
      <4>1. p <= MAXSTACK
        <5>1. BoundOf(T, C, t) BY <1>3 DEF ThreadRight
        <5> QED BY <5>1, <1>0, <1>2, <1>10 DEF BoundOf
      <4> QED BY <3>1, <4>1, <1>4, <1>6, <1>10
    <3>2. CASE q # p
      <4>1. q \in 1..p /\ q \in 1..p - 1 /\ q \in 1..Len(T[t].ci) BY <3>2, <1>0, <1>4, <1>6
      <4>2. G[q] = T[t].ci[q] BY <4>1, <1>0, <1>4
      <4>3. YieldsOf(T, C, t) BY <1>3 DEF ThreadRight
      <4> QED BY <4>1, <4>2, <4>3, <2>2 DEF YieldsOf
    <3> QED BY <3>1, <3>2
  <2>3. \A q \in 1..Len(G) : \A f \in 1..q : f \in 1..Len(G) BY <1>4, <1>6
  <2> QED BY <2>1, <2>2, <2>3, <1>0 DEF YieldsOf
<1>12. ThreadRight(S, C, t)
  <2>1. HooksOf(T, C, t) /\ BoundOf(T, C, t) /\ HandlersOf(T, C, t)
    BY <1>3 DEF ThreadRight
  <2>2. HooksOf(S, C, t) BY <2>1, <1>2, <1>4 DEF HooksOf
  <2>6. /\ Len(S[t].ci) = Len(T[t].ci) /\ S[t].big = T[t].big
        /\ T[t].status # "dead" /\ S[t].status # "dead"
    BY <1>0, <1>2, <1>4
  <2>3. BoundOf(S, C, t) BY <2>1, <2>6 DEF BoundOf
  <2>4. HandlersOf(S, C, t)
    <3>1. T[t].status # "dead" /\ Len(T[t].ci) >= 1 BY <1>0, <1>2, <1>6
    <3> QED BY <3>1, <2>1, <1>0, <1>2, <1>5, <1>7, HandlersMarked
  <2>5. StatusOf(S, C, t) BY <1>0, <1>2, <1>4, StatusOk
  <2> QED BY <2>2, <2>3, <2>4, <2>5, <1>11 DEF ThreadRight
<1>13. Common(C, C, n, t) BY <1>0, <1>2 DEF Common
<1>14. C[Len(C)].th = t /\ t \in Thread /\ Others(T, S, t) BY <1>0, <1>2, <1>4
<1> QED BY <1>3, <1>8, <1>9, <1>12, <1>13, <1>14, CoreStep
\* The mark of the last C function is taken back: its call is over.
Cleared(T, C, S, t) ==
  LET F == T[t].ci
      G == S[t].ci
      p == Len(F) IN
  /\ Others(T, S, t) /\ S[t].status = "ok" /\ S[t].errfunc = F[p].oef
  /\ S[t].ncc = T[t].ncc /\ S[t].nny = T[t].nny /\ S[t].allowhook = T[t].allowhook
  /\ S[t].big = T[t].big
  /\ C[Len(C)].kind \in {"cfun", "unroll"}
  /\ p >= 1 /\ Len(G) = p /\ (\A i \in 1..p - 1 : G[i] = F[i]) /\ F[p].yp
  /\ G[p].lua = F[p].lua /\ G[p].k = F[p].k /\ ~G[p].yp
LEMMA NoPcall ==
  ASSUME NEW T, NEW C, NEW n \in Nat, NEW t, Sized(T, C), Shape(C), Frames(T, C), n = Len(C),
         HandlersOf(T, C, t), Len(T[t].ci) >= 1, T[t].ci[Len(T[t].ci)].yp
  PROVE  \A i \in 1..n : ~PcallAt(C, t, i)
<1> SUFFICES ASSUME NEW i \in 1..n, PcallAt(C, t, i) PROVE FALSE OBVIOUS
<1>1. C[i].th = t /\ i \in 1..Len(C) BY DEF PcallAt
<1>2. C[i].ci \in Nat /\ Len(T[t].ci) \in Nat BY <1>1 DEF Sized
<1>3. C[i].ci <= Height(T, C, i) /\ Height(T, C, i) \in 0..Len(T[C[i].th].ci) BY <1>1, OwnFrames
<1>4. Len(T[t].ci) \in C[i].ci..Len(T[t].ci) BY <1>1, <1>2, <1>3
<1>5. \A f \in C[i].ci..Len(T[t].ci) : f >= 1 => ~T[t].ci[f].yp BY <1>1 DEF HandlersOf
<1> QED BY <1>4, <1>5

LEMMA HandlersCleared ==
  ASSUME NEW T, NEW C, NEW S, NEW n \in Nat, NEW t, n = Len(C), Cleared(T, C, S, t),
         Len(T[t].ci) \in Nat, Len(T[t].ci) >= 1, T[t].status # "dead",
         \A i \in 1..n : ~PcallAt(C, t, i), HandlersOf(T, C, t)
  PROVE  HandlersOf(S, C, t)
<1> DEFINE F == T[t].ci
           G == S[t].ci
           p == Len(F)
<1>0. F = T[t].ci /\ G = S[t].ci OBVIOUS
<1>1. /\ S[t].status = "ok" /\ S[t].errfunc = F[p].oef /\ Len(G) = p
      /\ (\A i \in 1..p - 1 : G[i] = F[i]) /\ F[p].yp /\ ~G[p].yp
  BY DEF Cleared
<1>2. p \in Nat /\ p >= 1 OBVIOUS
<1>3. \A i \in 1..p : F[i].yp => LastYp(F, i - 1, F[i].oef) BY DEF HandlersOf
<1> HIDE DEF F, G, p
<1>4. LastYp(F, p - 1, F[p].oef) BY <1>1, <1>2, <1>3
<1>5. LastYp(G, p, F[p].oef)
  <2>1. p - 1 \in Nat /\ p - 1 <= p BY <1>2
  <2>2. \A i \in (p - 1) + 1..p : ~G[i].yp
    <3>1. \A i \in (p - 1) + 1..p : i = p BY <1>2
    <3> QED BY <3>1, <1>1
  <2>3. \A i \in 1..p - 1 : G[i] = F[i] BY <1>1
  <2> QED BY <2>1, <2>2, <2>3, <1>2, <1>4, LastYpMore
<1>6. InForceAt(G, C, t, n + 1, Len(G), S[t].errfunc)
  <2>1. (n + 1) - 1 = n OBVIOUS
  <2> QED BY <2>1, <1>1, <1>5 DEF InForceAt
<1>7. ASSUME NEW q \in 1..Len(G), G[q].yp PROVE LastYp(G, q - 1, G[q].oef)
  <2>1. q # p BY <1>1, <1>7
  <2>2. q \in 1..p - 1 /\ q \in 1..p /\ q - 1 \in Nat BY <2>1, <1>1, <1>2
  <2>3. G[q] = F[q] /\ \A i \in 1..q - 1 : G[i] = F[i] BY <2>2, <1>1, <1>2
  <2>4. LastYp(F, q - 1, F[q].oef) BY <2>2, <2>3, <1>3, <1>7
  <2>5. LastYp(G, q - 1, F[q].oef) BY <2>2, <2>3, <2>4, LastYpSame
  <2> QED BY <2>3, <2>5
<1> QED BY <1>0, <1>6, <1>7 DEF HandlersOf

LEMMA CoreCleared ==
  ASSUME NEW T, NEW C, NEW S, NEW t, Core(T, C), Typed(S, C), Runs(T, C, t), Cleared(T, C, S, t)
  PROVE  Core(S, C)
<1> DEFINE n == Len(C)
           F == T[t].ci
           G == S[t].ci
           p == Len(F)
<1>0. n = Len(C) /\ F = T[t].ci /\ G = S[t].ci /\ p = Len(F) OBVIOUS
<1>1. Sized(T, C) /\ Sized(S, C) BY TypedSized DEF Core
<1>2. n \in Nat /\ n >= 1 /\ t \in Thread /\ t = C[n].th /\ T[t].status = "ok" /\ n \in 1..Len(C)
  BY <1>1 DEF Sized, Runs
<1>3. Shape(C) /\ Frames(T, C) /\ CountsRight(T, C) /\ ThreadRight(T, C, t) BY <1>2 DEF Core
<1>4. /\ Others(T, S, t) /\ S[t].status = "ok"
      /\ S[t].ncc = T[t].ncc /\ S[t].nny = T[t].nny /\ S[t].allowhook = T[t].allowhook
      /\ S[t].big = T[t].big
      /\ C[n].kind \in {"cfun", "unroll"} /\ p >= 1
      /\ Len(G) = p /\ (\A i \in 1..p - 1 : G[i] = F[i]) /\ F[p].yp
      /\ G[p].lua = F[p].lua /\ G[p].k = F[p].k /\ ~G[p].yp
  BY DEF Cleared
<1>5. Len(T[t].ci) \in Nat /\ Len(S[t].ci) \in Nat BY <1>1, <1>2 DEF Sized
<1> HIDE DEF n, F, G, p
<1>6. p \in Nat BY <1>0, <1>5
<1>7. YieldsOf(T, C, t) /\ HandlersOf(T, C, t) /\ BoundOf(T, C, t) /\ HooksOf(T, C, t)
  BY <1>3 DEF ThreadRight
<1>8. /\ \A i \in 1..p : F[i].yp =>
           ~F[i].lua /\ F[i].oah /\ i <= MAXSTACK /\ \A f \in 1..i : Continues(F[f])
  BY <1>0, <1>7 DEF YieldsOf
<1>9. \A i \in 1..p : Continues(F[i])
  <2>1. p \in 1..p BY <1>4, <1>6
  <2> QED BY <2>1, <1>4, <1>8
<1>10. Frames(S, C)
  <2>1. Height(T, C, n) = p BY <1>0, <1>2 DEF Height
  <2>2. Works(C[n], F, p)
    <3>1. Framed(T, C, n) BY <1>2, <1>3 DEF Frames
    <3> QED BY <3>1, <2>1, <1>0, <1>2 DEF Framed
  <2>3. Works(C[n], G, Len(G)) BY <2>2, <1>4, <1>6 DEF Works
  <2>4. \A i \in 1..C[n].ci - 1 : G[i] = F[i]
    <3>1. C[n].kind = "unroll" => C[n].ci = 0 BY <1>2, <1>3 DEF Shape, Holds
    <3>2. C[n].kind = "cfun" => C[n].ci = p BY <2>2 DEF Works
    <3>3. C[n].ci - 1 = p - 1 \/ C[n].ci - 1 = -1 BY <3>1, <3>2, <1>4
    <3> QED BY <3>3, <1>4, <1>6
  <2>5. Works(C[n], S[t].ci, Len(S[t].ci)) BY <2>3, <1>0
  <2>6. \A i \in 1..C[n].ci - 1 : S[t].ci[i] = T[t].ci[i] BY <2>4, <1>0
  <2>7. Others(T, S, t) BY <1>4
  <2>8. C[n].kind \in {"exec", "cfun", "unroll"} BY <1>4
  <2>9. n = Len(C) /\ t = C[n].th /\ t \in Thread BY <1>0, <1>2
  <2>10. Shape(C) /\ Frames(T, C) BY <1>3
  <2> QED BY <2>5, <2>6, <2>7, <2>8, <2>9, <2>10, <1>1, FramesTop
<1>11. CountsRight(S, C)
  <2>1. ASSUME NEW b \in Int, NEW z \in Int, Counts(T, C, t, b, z) PROVE Counts(S, C, t, b, z)
    BY <2>1, <1>4 DEF Counts
  <2>2. /\ n \in 1..Len(C) /\ n <= Len(C) /\ \A i \in 1..n : C[i] = C[i]
        /\ \A i \in n + 1..Len(C) : C[i].th = t
    BY <1>0, <1>2
  <2>3. C[n].th = t /\ t \in Thread /\ Others(T, S, t) BY <1>2, <1>4
  <2> QED BY <2>1, <2>2, <2>3, <1>1, <1>3, CountsStep
<1>12. YieldsOf(S, C, t)
  <2>1. ASSUME NEW f \in 1..Len(G) PROVE Continues(G[f])
    <3>1. f \in 1..p BY <1>4
    <3>2. Continues(F[f]) BY <3>1, <1>9
    <3>3. CASE f = p BY <3>2, <3>3, <1>4 DEF Continues
    <3>4. CASE f # p
      <4>1. f \in 1..p - 1 BY <3>1, <3>4, <1>6
      <4> QED BY <3>2, <4>1, <1>4
    <3> QED BY <3>3, <3>4
  <2>2. ASSUME NEW q \in 1..Len(G), G[q].yp PROVE ~G[q].lua /\ G[q].oah /\ q <= MAXSTACK
    <3>1. q # p BY <1>4, <2>2
    <3>2. q \in 1..p - 1 /\ q \in 1..p BY <3>1, <1>4, <1>6
    <3>3. G[q] = F[q] BY <3>2, <1>4
    <3> QED BY <3>2, <3>3, <2>2, <1>8
  <2>3. \A q \in 1..Len(G) : \A f \in 1..q : f \in 1..Len(G) BY <1>4, <1>6
  <2> QED BY <2>1, <2>2, <2>3, <1>0 DEF YieldsOf
<1>13. ThreadRight(S, C, t)
  <2>1. /\ Len(S[t].ci) = Len(T[t].ci) /\ S[t].big = T[t].big
        /\ T[t].status # "dead" /\ S[t].status # "dead" /\ S[t].allowhook = T[t].allowhook
    BY <1>0, <1>2, <1>4
  <2>2. HooksOf(S, C, t) BY <2>1, <1>7 DEF HooksOf
  <2>3. BoundOf(S, C, t) BY <2>1, <1>7 DEF BoundOf
  <2>4. HandlersOf(S, C, t)
    <3>1. Len(T[t].ci) >= 1 /\ T[t].ci[Len(T[t].ci)].yp /\ n = Len(C) BY <1>0, <1>4
    <3>2. \A i \in 1..n : ~PcallAt(C, t, i) BY <3>1, <1>1, <1>2, <1>3, <1>7, NoPcall
    <3> QED BY <3>1, <3>2, <2>1, <1>2, <1>5, <1>7, HandlersCleared
  <2>5. StatusOf(S, C, t) BY <1>0, <1>2, <1>4, StatusOk
  <2> QED BY <2>2, <2>3, <2>4, <2>5, <1>12 DEF ThreadRight
<1>14. Common(C, C, n, t) BY <1>0, <1>2 DEF Common
<1>15. C[Len(C)].th = t /\ t \in Thread /\ Others(T, S, t) BY <1>0, <1>2, <1>4
<1> QED BY <1>3, <1>10, <1>11, <1>13, <1>14, <1>15, CoreStep
(***************************************************************************)
(* Entries of the thread that runs are left                                *)
(***************************************************************************)
LEMMA HooksKept ==
  ASSUME NEW T, NEW C, NEW S, NEW D, NEW n \in Nat, NEW t, Kept(C, D, n), Len(C) \in Nat,
         S[t].allowhook <=> NoHook(C, t, n), HooksOf(T, C, t)
  PROVE  HooksOf(S, D, t)
<1>1. n <= Len(C) /\ Len(D) = n /\ \A i \in 1..n : D[i] = C[i] BY DEF Kept
<1>2. ASSUME NEW i \in 0..n PROVE NoHook(D, t, i) <=> NoHook(C, t, i)
  <2>1. \A k \in 1..i : D[k] = C[k] BY <1>1
  <2> QED BY <2>1 DEF NoHook
<1>3. ASSUME NEW i \in 1..n
      PROVE  /\ i \in 1..Len(C) /\ i - 1 \in 0..n /\ D[i] = C[i]
             /\ PcallAt(D, t, i) <=> PcallAt(C, t, i)
  BY <1>1 DEF PcallAt
<1>4. S[t].allowhook <=> NoHook(D, t, n)
  <2>1. n \in 0..n OBVIOUS
  <2> QED BY <2>1, <1>2
<1>5. ASSUME NEW i \in 1..n, D[i].th = t, D[i].kind = "hook" PROVE NoHook(D, t, i - 1)
  BY <1>2, <1>3, <1>5 DEF HooksOf
<1>6. ASSUME NEW i \in 1..n, PcallAt(D, t, i) PROVE D[i].allowhook <=> NoHook(D, t, i - 1)
  BY <1>2, <1>3, <1>6 DEF HooksOf
<1> QED BY <1>1, <1>4, <1>5, <1>6 DEF HooksOf

LEMMA BoundsKept ==
  ASSUME NEW T, NEW C, NEW S, NEW D, NEW n \in Nat, NEW t, Kept(C, D, n), Len(C) \in Nat,
         IF S[t].big THEN Handling(C, t, n) ELSE Len(S[t].ci) <= MAXSTACK, BoundOf(T, C, t)
  PROVE  BoundOf(S, D, t)
<1>1. n <= Len(C) /\ Len(D) = n /\ \A i \in 1..n : D[i] = C[i] BY DEF Kept
<1>2. ASSUME NEW i \in 0..n, Handling(C, t, i) PROVE Handling(D, t, i)
  BY <1>1, <1>2 DEF Handling
<1>3. ASSUME NEW i \in 1..n, D[i].th = t PROVE D[i].ci <= MAXSTACK \/ Handling(D, t, i)
  <2>1. i \in 1..Len(C) /\ i \in 0..n /\ D[i] = C[i] BY <1>1
  <2>2. C[i].ci <= MAXSTACK \/ Handling(C, t, i) BY <2>1, <1>3 DEF BoundOf
  <2> QED BY <2>1, <2>2, <1>2
<1>4. IF S[t].big THEN Handling(D, t, n) ELSE Len(S[t].ci) <= MAXSTACK
  <2>1. n \in 0..n OBVIOUS
  <2> QED BY <2>1, <1>2
<1> QED BY <1>1, <1>3, <1>4 DEF BoundOf

LEMMA YieldsKept ==
  ASSUME NEW T, NEW C, NEW S, NEW D, NEW n \in Nat, NEW t, Kept(C, D, n), Sized(T, C), Frames(T, C),
         n >= 1, C[n].th = t, Height(T, C, n) \in Nat, Height(T, C, n) <= Len(T[t].ci),
         CutBack(T, C, S, n, t), Len(T[t].ci) \in Nat, YieldsOf(T, C, t)
  PROVE  YieldsOf(S, D, t)
<1> DEFINE F == T[t].ci
           G == S[t].ci
           h == Height(T, C, n)
<1>0. F = T[t].ci /\ G = S[t].ci OBVIOUS
<1>1. n <= Len(C) /\ Len(D) = n /\ (\A i \in 1..n : D[i] = C[i]) /\ Len(C) \in Nat BY DEF Kept, Sized
<1>2. /\ h \in Nat /\ h <= Len(F) /\ Len(F) \in Nat
      /\ Len(G) = h /\ \A i \in 1..h : G[i] = F[i]
  BY DEF CutBack
<1>3. OnCStack(C, t) BY <1>1 DEF OnCStack
<1>4. /\ \A i \in 1..Len(F) : Continues(F[i]) \/ \E j \in 1..Len(C) : Waits(C, t, i, j)
      /\ \A p \in 1..Len(F) :
           F[p].yp => ~F[p].lua /\ F[p].oah /\ p <= MAXSTACK /\ \A i \in 1..p : Continues(F[i])
  BY <1>3 DEF YieldsOf
<1>5. ASSUME NEW j \in n + 1..Len(C), C[j].th = t, Owns(C[j]) PROVE h < C[j].ci
  <2>1. j \in 1..Len(C) /\ n \in 1..j - 1 BY <1>1
  <2> QED BY <2>1, <1>5 DEF Frames
<1> HIDE DEF F, G, h
<1>6. ASSUME NEW i \in 1..h PROVE Continues(G[i]) \/ \E j \in 1..Len(D) : Waits(D, t, i, j)
  <2>1. i \in 1..Len(F) /\ G[i] = F[i] BY <1>2
  <2>2. CASE Continues(F[i]) BY <2>1, <2>2
  <2>3. CASE ~Continues(F[i])
    <3>1. PICK j \in 1..Len(C) : Waits(C, t, i, j) BY <1>4, <2>1, <2>3
    <3>2. /\ C[j].th = t /\ C[j].kind \in {"cfun", "ret"} /\ C[j].ci = i
          /\ j < Len(C) => C[j + 1].kind \in {"pcall", "resume", "raise", "throw"} \/ C[j + 1].ny
      BY <3>1 DEF Waits
    <3>3. j <= n
      <4> SUFFICES ASSUME j > n PROVE FALSE BY <1>1
      <4>1. j \in n + 1..Len(C) BY <1>1
      <4>2. Owns(C[j]) BY <3>2 DEF Owns
      <4>3. h < C[j].ci BY <4>1, <4>2, <3>2, <1>5
      <4> QED BY <4>3, <3>2, <1>2
    <3>4. j \in 1..Len(D) /\ D[j] = C[j] BY <3>3, <1>1
    <3>5. ASSUME j < Len(D)
          PROVE  D[j + 1].kind \in {"pcall", "resume", "raise", "throw"} \/ D[j + 1].ny
      <4>1. j < Len(C) /\ j + 1 \in 1..n BY <3>5, <1>1
      <4> QED BY <4>1, <3>2, <1>1
    <3>6. Waits(D, t, i, j) BY <3>2, <3>4, <3>5 DEF Waits
    <3> QED BY <3>4, <3>6
  <2> QED BY <2>2, <2>3
<1>7. ASSUME NEW p \in 1..h, G[p].yp
      PROVE  ~G[p].lua /\ G[p].oah /\ p <= MAXSTACK /\ \A i \in 1..p : Continues(G[i])
  <2>1. p \in 1..Len(F) /\ G[p] = F[p] /\ \A i \in 1..p : G[i] = F[i] BY <1>2
  <2>2. ~F[p].lua /\ F[p].oah /\ p <= MAXSTACK /\ \A i \in 1..p : Continues(F[i])
    BY <2>1, <1>4, <1>7
  <2> QED BY <2>1, <2>2
<1> QED BY <1>0, <1>2, <1>6, <1>7 DEF YieldsOf

LEMMA HandlersKept ==
  ASSUME NEW T, NEW C, NEW S, NEW D, NEW n \in Nat, NEW t, Kept(C, D, n), Sized(T, C),
         Len(T[t].ci) \in Nat, Len(S[t].ci) \in Nat, Len(S[t].ci) <= Len(T[t].ci),
         \A i \in 1..Len(S[t].ci) : S[t].ci[i] = T[t].ci[i],
         \A i \in Len(S[t].ci) + 1..Len(T[t].ci) : ~T[t].ci[i].yp,
         InForceAt(T[t].ci, C, t, n + 1, Len(T[t].ci), S[t].errfunc), HandlersOf(T, C, t)
  PROVE  HandlersOf(S, D, t)
<1> DEFINE F == T[t].ci
           G == S[t].ci
<1>0. F = T[t].ci /\ G = S[t].ci OBVIOUS
<1>1. n <= Len(C) /\ Len(D) = n /\ (\A i \in 1..n : D[i] = C[i]) /\ Len(C) \in Nat BY DEF Kept, Sized
<1>2. /\ Len(F) \in Nat /\ Len(G) \in Nat /\ Len(G) <= Len(F) /\ \A i \in 1..Len(G) : G[i] = F[i]
      /\ \A i \in Len(G) + 1..Len(F) : ~F[i].yp
      /\ InForceAt(F, C, t, n + 1, Len(F), S[t].errfunc)
  OBVIOUS
<1>3. /\ \A i \in 1..Len(C) : PcallAt(C, t, i) =>
           /\ InForceAt(F, C, t, i, Len(F), C[i].errfunc)
           /\ \A g \in C[i].ci..Len(F) : g >= 1 => ~F[g].yp
      /\ \A p \in 1..Len(F) : F[p].yp => LastYp(F, p - 1, F[p].oef)
  BY DEF HandlersOf
<1>4. \A i \in 1..n : C[i].ci \in Nat BY <1>1 DEF Sized
<1> HIDE DEF F, G
<1>5. ASSUME NEW i \in 1..n PROVE PcallAt(D, t, i) <=> PcallAt(C, t, i) BY <1>1 DEF PcallAt
<1>6. ASSUME NEW k \in 0..n, NEW h, InForceAt(F, C, t, k + 1, Len(F), h)
      PROVE  InForceAt(G, D, t, k + 1, Len(G), h)
  <2>1. InForceAt(G, C, t, k + 1, Len(G), h) BY <1>2, <1>6, InForceLess
  <2>2. /\ \A i \in 1..k : PcallAt(D, t, i) => i \in 1..k /\ PcallAt(C, t, i) /\ D[i] = C[i]
        /\ \A i \in 1..k : PcallAt(C, t, i) => i \in 1..k /\ PcallAt(D, t, i)
    BY <1>1, <1>5
  <2>3. k \in Nat OBVIOUS
  <2> QED BY <2>1, <2>2, <2>3, SameInForce
<1>7. InForceAt(G, D, t, n + 1, Len(G), S[t].errfunc)
  <2>1. n \in 0..n OBVIOUS
  <2> QED BY <2>1, <1>2, <1>6
<1>8. ASSUME NEW i \in 1..n, PcallAt(D, t, i)
      PROVE  /\ InForceAt(G, D, t, i, Len(G), D[i].errfunc)
             /\ \A g \in D[i].ci..Len(G) : g >= 1 => ~G[g].yp
  <2>1. i \in 1..Len(C) /\ D[i] = C[i] /\ PcallAt(C, t, i) BY <1>1, <1>5, <1>8
  <2>2. i - 1 \in 0..n /\ (i - 1) + 1 = i OBVIOUS
  <2>3. InForceAt(F, C, t, (i - 1) + 1, Len(F), C[i].errfunc) BY <2>1, <2>2, <1>3
  <2>4. InForceAt(G, D, t, (i - 1) + 1, Len(G), C[i].errfunc) BY <2>2, <2>3, <1>6
  <2>5. ASSUME NEW g \in C[i].ci..Len(G), g >= 1 PROVE ~G[g].yp
    <3>1. C[i].ci \in Nat BY <1>4
    <3>2. g \in C[i].ci..Len(F) /\ g \in 1..Len(G) BY <3>1, <1>2, <2>5
    <3>3. ~F[g].yp BY <3>2, <2>1, <2>5, <1>3
    <3> QED BY <3>2, <3>3, <1>2
  <2> QED BY <2>1, <2>2, <2>4, <2>5
<1>9. ASSUME NEW p \in 1..Len(G), G[p].yp PROVE LastYp(G, p - 1, G[p].oef)
  <2>1. p \in 1..Len(F) /\ p - 1 \in Nat BY <1>2
  <2>5. Len(G) \in Nat /\ \A i \in 1..Len(G) : G[i] = F[i] BY <1>2
  <2>6. \A i \in 1..p - 1 : i \in 1..Len(G) BY <2>5
  <2>2. G[p] = F[p] /\ \A i \in 1..p - 1 : G[i] = F[i] BY <2>5, <2>6
  <2>3. LastYp(F, p - 1, F[p].oef) BY <2>1, <2>2, <1>3, <1>9
  <2>4. LastYp(G, p - 1, F[p].oef) BY <2>1, <2>2, <2>3, LastYpSame
  <2> QED BY <2>2, <2>4
<1> QED BY <1>0, <1>1, <1>7, <1>8, <1>9 DEF HandlersOf

\* t goes on in entry n.
GoesBack(T, C, S, D, n, t) ==
  /\ Kept(C, D, n) /\ n < Len(C) /\ C[n].th = t /\ C[n + 1].th = t /\ C[n + 1].kind # "resume"
  /\ Upper(C, n, t) /\ Others(T, S, t) /\ S[t].status = "ok" /\ CutBack(T, C, S, n, t)
  /\ \A i \in Len(S[t].ci) + 1..Len(T[t].ci) : ~T[t].ci[i].yp
  /\ S[t].allowhook <=> NoHook(C, t, n)
  /\ \A b, z \in Int : Counts(T, C, t, b, z) =>
       S[t].ncc = b + Counted(C, t, n) /\ S[t].nny = z + Ny(C, t, n)
  /\ InForceAt(T[t].ci, C, t, n + 1, Len(T[t].ci), S[t].errfunc)
  /\ IF S[t].big THEN Handling(C, t, n) ELSE Len(S[t].ci) <= MAXSTACK
LEMMA CoreGoesBack ==
  ASSUME NEW T, NEW C, NEW S, NEW D, NEW n, NEW t, Core(T, C), Typed(S, D), Runs(T, C, t),
         GoesBack(T, C, S, D, n, t)
  PROVE  Core(S, D)
<1>1. Sized(T, C) /\ Sized(S, D) BY TypedSized DEF Core
<1>2. Len(C) \in Nat /\ t \in Thread /\ t = C[Len(C)].th /\ T[t].status = "ok" BY <1>1 DEF Sized, Runs
<1>3. Shape(C) /\ Frames(T, C) /\ CountsRight(T, C) /\ ThreadRight(T, C, t) BY <1>2 DEF Core
<1>4. /\ Kept(C, D, n) /\ n < Len(C) /\ C[n].th = t /\ C[n + 1].th = t /\ C[n + 1].kind # "resume"
      /\ Upper(C, n, t) /\ Others(T, S, t) /\ S[t].status = "ok" /\ CutBack(T, C, S, n, t)
  BY DEF GoesBack
<1>5. n \in 1..Len(C) /\ n \in Nat /\ n >= 1 /\ Len(D) = n /\ \A i \in 1..n : D[i] = C[i]
  BY <1>2, <1>4 DEF Kept
<1>6. Len(T[t].ci) \in Nat /\ Len(S[t].ci) \in Nat BY <1>1, <1>2 DEF Sized
<1>7. Height(T, C, n) \in Nat /\ Height(T, C, n) <= Len(T[t].ci)
  <2>1. Height(T, C, n) \in 0..Len(T[C[n].th].ci) BY <1>1, <1>3, <1>5, OwnFrames
  <2> QED BY <2>1, <1>4, <1>6
<1>8. Shape(D) BY <1>2, <1>3, <1>4, ShapeKept
<1>9. Frames(S, D) BY <1>1, <1>2, <1>3, <1>4, FramesKept
<1>10. CountsRight(S, D)
  <2>1. ASSUME NEW b \in Int, NEW z \in Int, Counts(T, C, t, b, z) PROVE Counts(S, D, t, b, z)
    <3>1. S[t].ncc = b + Counted(C, t, n) /\ S[t].nny = z + Ny(C, t, n) BY <2>1 DEF GoesBack
    <3> QED BY <3>1, <2>1, <1>1, <1>2, <1>4, CountsKept
  <2>2. /\ n \in 1..Len(C) /\ n <= Len(D) /\ \A i \in 1..n : D[i] = C[i]
        /\ \A i \in n + 1..Len(C) : C[i].th = t
        /\ \A i \in n + 1..Len(D) : D[i].th = t
    BY <1>4, <1>5 DEF Upper
  <2>3. C[n].th = t /\ t \in Thread /\ Others(T, S, t) BY <1>2, <1>4
  <2> QED BY <2>1, <2>2, <2>3, <1>1, <1>3, <1>8, CountsStep
<1>11. ThreadRight(S, D, t)
  <2>1. HooksOf(T, C, t) /\ BoundOf(T, C, t) /\ YieldsOf(T, C, t) /\ HandlersOf(T, C, t)
    BY <1>3 DEF ThreadRight
  <2>2. HooksOf(S, D, t)
    <3>1. S[t].allowhook <=> NoHook(C, t, n) BY DEF GoesBack
    <3> QED BY <3>1, <2>1, <1>2, <1>4, <1>5, HooksKept
  <2>3. BoundOf(S, D, t)
    <3>1. IF S[t].big THEN Handling(C, t, n) ELSE Len(S[t].ci) <= MAXSTACK BY DEF GoesBack
    <3> QED BY <3>1, <2>1, <1>2, <1>4, <1>5, BoundsKept
  <2>4. YieldsOf(S, D, t) BY <2>1, <1>1, <1>3, <1>4, <1>5, <1>6, <1>7, YieldsKept
  <2>5. HandlersOf(S, D, t)
    <3>1. \A i \in Len(S[t].ci) + 1..Len(T[t].ci) : ~T[t].ci[i].yp BY DEF GoesBack
    <3>2. InForceAt(T[t].ci, C, t, n + 1, Len(T[t].ci), S[t].errfunc) BY DEF GoesBack
    <3>3. Len(S[t].ci) <= Len(T[t].ci) BY <1>4, <1>7 DEF CutBack
    <3>4. \A i \in 1..Len(S[t].ci) : S[t].ci[i] = T[t].ci[i] BY <1>4 DEF CutBack
    <3> QED BY <3>1, <3>2, <3>3, <3>4, <2>1, <1>1, <1>4, <1>5, <1>6, HandlersKept
  <2>6. StatusOf(S, D, t)
    <3>1. Len(D) \in Nat /\ Len(D) >= 1 /\ D[Len(D)].th = t BY <1>4, <1>5
    <3> QED BY <3>1, <1>4, StatusOk
  <2> QED BY <2>2, <2>3, <2>4, <2>5, <2>6 DEF ThreadRight
<1>12. Common(C, D, n, t) BY <1>2, <1>4, <1>5 DEF Common, Upper
<1>13. C[Len(C)].th = t /\ t \in Thread /\ Others(T, S, t) BY <1>2, <1>4
<1> QED BY <1>8, <1>9, <1>10, <1>11, <1>12, <1>13, CoreStep
\* The entry at the top returns.
CountedDown(u, v, f) ==
  /\ v.ncc = IF f.counted THEN u.ncc - 1 ELSE u.ncc
  /\ v.nny = IF f.ny THEN u.nny - 1 ELSE u.nny
Popped(T, C, S, D, n, t) ==
  LET F == T[t].ci
      G == S[t].ci
      f == C[n + 1] IN
  /\ Len(C) = n + 1 /\ Kept(C, D, n) /\ Others(T, S, t) /\ S[t].status = "ok"
  /\ f.kind \in {"exec", "cfun", "ret", "hook", "pcall", "unroll"}
  /\ f.kind = "exec" => f.ci = Len(F)
  /\ f.kind = "cfun" => ~F[Len(F)].yp
  /\ f.kind = "unroll" => Len(F) = 0
  /\ Len(G) = IF Owns(f) THEN Len(F) - 1 ELSE Len(F)
  /\ \A i \in 1..Len(G) : G[i] = F[i]
  /\ CountedDown(T[t], S[t], f)
  /\ IF f.kind = "hook" THEN S[t].allowhook ELSE S[t].allowhook = T[t].allowhook
  /\ S[t].errfunc = IF f.kind = "pcall" THEN f.errfunc ELSE T[t].errfunc
  /\ S[t].big = T[t].big
LEMMA PoppedHooks ==
  ASSUME NEW T, NEW C, NEW S, NEW n \in Nat, NEW t, Len(C) = n + 1, HooksOf(T, C, t), C[n + 1].th = t,
         T[t].status # "dead",
         IF C[n + 1].kind = "hook" THEN S[t].allowhook ELSE S[t].allowhook = T[t].allowhook
  PROVE  S[t].allowhook <=> NoHook(C, t, n)
<1>1. T[t].allowhook <=> NoHook(C, t, n + 1) BY DEF HooksOf
<1>2. CASE C[n + 1].kind = "hook"
  <2>1. (n + 1) - 1 = n /\ n + 1 \in 1..Len(C) OBVIOUS
  <2>2. NoHook(C, t, (n + 1) - 1) BY <2>1, <1>2 DEF HooksOf
  <2> QED BY <2>1, <2>2, <1>2
<1>3. CASE C[n + 1].kind # "hook"
  <2>1. NoHook(C, t, n + 1) <=> NoHook(C, t, n) BY <1>3 DEF NoHook
  <2> QED BY <2>1, <1>1, <1>3
<1> QED BY <1>2, <1>3

LEMMA PoppedHandlers ==
  ASSUME NEW T, NEW C, NEW S, NEW n \in Nat, NEW t, Len(C) = n + 1, HandlersOf(T, C, t),
         C[n + 1].th = t, T[t].status # "dead", Len(T[t].ci) \in Nat,
         S[t].errfunc = IF C[n + 1].kind = "pcall" THEN C[n + 1].errfunc ELSE T[t].errfunc
  PROVE  InForceAt(T[t].ci, C, t, n + 1, Len(T[t].ci), S[t].errfunc)
<1> DEFINE F == T[t].ci
<1>0. F = T[t].ci OBVIOUS
<1>1. CASE C[n + 1].kind = "pcall"
  <2>1. n + 1 \in 1..Len(C) /\ PcallAt(C, t, n + 1) BY <1>1 DEF PcallAt
  <2> QED BY <2>1, <1>1 DEF HandlersOf
<1>2. CASE C[n + 1].kind # "pcall"
  <2>1. InForceAt(F, C, t, (n + 1) + 1, Len(F), T[t].errfunc) BY DEF HandlersOf
  <2> HIDE DEF F
  <2>2. ~PcallAt(C, t, n + 1) BY <1>2 DEF PcallAt
  <2>3. /\ \A i \in 1..n : PcallAt(C, t, i) => i \in 1..n + 1 /\ PcallAt(C, t, i) /\ C[i] = C[i]
        /\ \A i \in 1..n + 1 : PcallAt(C, t, i) => i \in 1..n /\ PcallAt(C, t, i)
    <3>1. \A i \in 1..n + 1 : i \in 1..n \/ i = n + 1 OBVIOUS
    <3> QED BY <3>1, <2>2
  <2>4. n + 1 \in Nat OBVIOUS
  <2>5. InForceAt(F, C, t, n + 1, Len(F), T[t].errfunc) BY <2>1, <2>3, <2>4, SameInForce
  <2> QED BY <2>5, <1>0, <1>2
<1> QED BY <1>1, <1>2

Recounted(v, C, t, n, b, z) == v.ncc = b + Counted(C, t, n) /\ v.nny = z + Ny(C, t, n)
LEMMA PoppedCounts ==
  ASSUME NEW T, NEW C, NEW S, NEW n \in Nat, NEW t, Len(C) = n + 1, C[n + 1].th = t,
         NEW b \in Int, NEW z \in Int, Counts(T, C, t, b, z),
         CountedDown(T[t], S[t], C[n + 1])
  PROVE  Recounted(S[t], C, t, n, b, z)
<1> USE DEF Recounted
<1>1. T[t].ncc = b + Counted(C, t, n + 1) /\ T[t].nny = z + Ny(C, t, n + 1) BY DEF Counts
<1>2. Counted(C, t, n) \in Nat /\ Ny(C, t, n) \in Nat BY CountType
<1>3. /\ Counted(C, t, n + 1) = IF C[n + 1].th = t /\ C[n + 1].counted
                                THEN Counted(C, t, n) + 1 ELSE Counted(C, t, n)
      /\ Ny(C, t, n + 1) = IF C[n + 1].th = t /\ C[n + 1].ny
                           THEN Ny(C, t, n) + 1 ELSE Ny(C, t, n)
  BY CountNext
<1> USE DEF CountedDown
<1>4. S[t].ncc = b + Counted(C, t, n)
  <2>1. CASE C[n + 1].counted BY <2>1, <1>1, <1>2, <1>3
  <2>2. CASE ~C[n + 1].counted BY <2>2, <1>1, <1>2, <1>3
  <2> QED BY <2>1, <2>2
<1>5. S[t].nny = z + Ny(C, t, n)
  <2>1. CASE C[n + 1].ny BY <2>1, <1>1, <1>2, <1>3
  <2>2. CASE ~C[n + 1].ny BY <2>2, <1>1, <1>2, <1>3
  <2> QED BY <2>1, <2>2
<1> QED BY <1>4, <1>5

LEMMA CorePopped ==
  ASSUME NEW T, NEW C, NEW S, NEW D, NEW n \in Nat, NEW t, Core(T, C), Typed(S, D), Runs(T, C, t),
         MAXSTACK \in Nat, Popped(T, C, S, D, n, t)
  PROVE  Core(S, D)
<1> DEFINE f == C[n + 1]
<1>1. Sized(T, C) /\ Sized(S, D) BY TypedSized DEF Core
<1>2. Len(C) = n + 1 /\ t \in Thread /\ t = f.th /\ T[t].status = "ok" BY DEF Popped, Runs
<1>3. Shape(C) /\ Frames(T, C) /\ ThreadRight(T, C, t) BY <1>2 DEF Core
<1>4. /\ Kept(C, D, n) /\ Others(T, S, t) /\ S[t].status = "ok"
      /\ f.kind \in {"exec", "cfun", "ret", "hook", "pcall", "unroll"}
      /\ f.kind = "exec" => f.ci = Len(T[t].ci)
      /\ f.kind = "cfun" => ~T[t].ci[Len(T[t].ci)].yp
      /\ f.kind = "unroll" => Len(T[t].ci) = 0
      /\ Len(S[t].ci) = IF Owns(f) THEN Len(T[t].ci) - 1 ELSE Len(T[t].ci)
      /\ \A i \in 1..Len(S[t].ci) : S[t].ci[i] = T[t].ci[i]
  BY DEF Popped
<1>5. n >= 1 /\ n < Len(C) /\ n \in 1..Len(C) /\ n + 1 \in 1..Len(C) BY <1>2, <1>4 DEF Kept
<1>6. Len(T[t].ci) \in Nat /\ Len(S[t].ci) \in Nat BY <1>1, <1>2 DEF Sized
<1>7. HooksOf(T, C, t) /\ BoundOf(T, C, t) /\ YieldsOf(T, C, t) /\ HandlersOf(T, C, t)
  BY <1>3 DEF ThreadRight
<1>8. Works(f, T[t].ci, Len(T[t].ci))
  <2>1. Framed(T, C, n + 1) BY <1>3, <1>5 DEF Frames
  <2>2. Height(T, C, n + 1) = Len(T[t].ci) BY <1>2 DEF Height
  <2> QED BY <2>1, <2>2, <1>2 DEF Framed
<1> HIDE DEF f
<1>9. f.kind = "unroll" => f.ci = 0 BY <1>3, <1>5 DEF Shape, Holds, f
<1>10. f.ci = Len(T[t].ci) BY <1>4, <1>8, <1>9 DEF Works
<1>11. C[n].th = t
  <2>1. Over(C[n + 1], C[n]) BY <1>2, <1>3, <1>5 DEF Shape
  <2> QED BY <2>1, <1>2, <1>4 DEF Over, f
<1>12. CutBack(T, C, S, n, t)
  <2>1. Height(T, C, n) = IF Owns(f) THEN f.ci - 1 ELSE f.ci BY <1>4, <1>5 DEF Height, f
  <2> QED BY <2>1, <1>4, <1>10 DEF CutBack
<1>13. ASSUME NEW i \in Len(S[t].ci) + 1..Len(T[t].ci) PROVE ~T[t].ci[i].yp
  <2>1. Owns(f) BY <1>4, <1>6, <1>13
  <2>2. i = Len(T[t].ci) /\ i \in 1..Len(T[t].ci) BY <2>1, <1>4, <1>6, <1>13
  <2>3. CASE f.kind = "exec"
    <3>1. T[t].ci[i].lua BY <2>2, <2>3, <1>6, <1>8, <1>10 DEF Works
    <3> QED BY <3>1, <2>2, <1>7 DEF YieldsOf
  <2>4. CASE f.kind = "cfun" BY <2>2, <2>4, <1>4
  <2>5. CASE f.kind = "ret" BY <2>2, <2>5, <1>8 DEF Works
  <2> QED BY <2>1, <2>3, <2>4, <2>5 DEF Owns
<1>14. S[t].allowhook <=> NoHook(C, t, n)
  <2>1. IF C[n + 1].kind = "hook" THEN S[t].allowhook ELSE S[t].allowhook = T[t].allowhook
    BY DEF Popped
  <2>2. C[n + 1].th = t /\ T[t].status # "dead" BY <1>2 DEF f
  <2> QED BY <2>1, <2>2, <1>2, <1>7, PoppedHooks
<1>15. ASSUME NEW b \in Int, NEW z \in Int, Counts(T, C, t, b, z)
       PROVE  S[t].ncc = b + Counted(C, t, n) /\ S[t].nny = z + Ny(C, t, n)
  <2>1. CountedDown(T[t], S[t], C[n + 1]) BY DEF Popped
  <2>2. C[n + 1].th = t BY <1>2 DEF f
  <2>3. Len(C) = n + 1 BY <1>2
  <2>4. Recounted(S[t], C, t, n, b, z) BY <2>1, <2>2, <2>3, <1>15, PoppedCounts
  <2> QED BY <2>4 DEF Recounted
<1>16. InForceAt(T[t].ci, C, t, n + 1, Len(T[t].ci), S[t].errfunc)
  <2>1. S[t].errfunc = IF C[n + 1].kind = "pcall" THEN C[n + 1].errfunc ELSE T[t].errfunc
    BY DEF Popped
  <2>2. C[n + 1].th = t /\ T[t].status # "dead" BY <1>2 DEF f
  <2> QED BY <2>1, <2>2, <1>2, <1>6, <1>7, PoppedHandlers
<1>17. IF S[t].big THEN Handling(C, t, n) ELSE Len(S[t].ci) <= MAXSTACK
  <2>1. S[t].big = T[t].big BY DEF Popped
  <2>2. IF T[t].big THEN Handling(C, t, n + 1) ELSE Len(T[t].ci) <= MAXSTACK
    BY <1>2, <1>7 DEF BoundOf
  <2>3. Handling(C, t, n + 1) => Handling(C, t, n)
    <3>1. \A i \in 1..n + 1 : i \in 1..n \/ i = n + 1 OBVIOUS
    <3> QED BY <3>1, <1>4 DEF Handling, f
  <2>4. Len(S[t].ci) <= Len(T[t].ci) BY <1>4, <1>6
  <2> QED BY <2>1, <2>2, <2>3, <2>4, <1>6
<1>18. Upper(C, n, t)
  <2>1. \A i \in n + 1..Len(C) : i = n + 1 BY <1>2
  <2> QED BY <2>1, <1>2 DEF Upper, f
<1>19. GoesBack(T, C, S, D, n, t)
  <2>1. C[n + 1].th = t /\ C[n + 1].kind # "resume" BY <1>2, <1>4 DEF f
  <2> QED BY <2>1, <1>4, <1>5, <1>11, <1>12, <1>13, <1>14, <1>15, <1>16, <1>17, <1>18 DEF GoesBack
<1> QED BY <1>19, CoreGoesBack
\* luaD_throw arrives at the luaD_pcall in entry n + 1.
CaughtAt(T, C, S, D, n, t) ==
  LET G == S[t].ci
      e == C[n + 1] IN
  /\ Kept(C, D, n) /\ n < Len(C) /\ Others(T, S, t) /\ S[t].status = "ok"
  /\ e.kind = "pcall" /\ e.th = t
  /\ Len(G) = e.ci /\ \A i \in 1..Len(G) : G[i] = T[t].ci[i]
  /\ S[t].ncc = e.ncc /\ S[t].nny = e.nny /\ S[t].errfunc = e.errfunc
  /\ S[t].allowhook <=> e.allowhook
  /\ S[t].big <=> T[t].big /\ Len(G) > MAXSTACK
LEMMA CoreCaught ==
  ASSUME NEW T, NEW C, NEW S, NEW D, NEW n \in Nat, NEW t, Core(T, C), Typed(S, D), Runs(T, C, t),
         MAXSTACK \in Nat, CaughtAt(T, C, S, D, n, t)
  PROVE  Core(S, D)
<1> DEFINE e == C[n + 1]
<1>1. Sized(T, C) /\ Sized(S, D) BY TypedSized DEF Core
<1>2. Len(C) \in Nat /\ t \in Thread /\ t = C[Len(C)].th /\ T[t].status = "ok" BY <1>1 DEF Sized, Runs
<1>3. Shape(C) /\ Frames(T, C) /\ CountsRight(T, C) /\ ThreadRight(T, C, t) BY <1>2 DEF Core
<1>4. /\ Kept(C, D, n) /\ n < Len(C) /\ Others(T, S, t) /\ S[t].status = "ok"
      /\ e.kind = "pcall" /\ e.th = t
      /\ Len(S[t].ci) = e.ci /\ \A i \in 1..Len(S[t].ci) : S[t].ci[i] = T[t].ci[i]
      /\ S[t].ncc = e.ncc /\ S[t].nny = e.nny /\ S[t].errfunc = e.errfunc
      /\ S[t].allowhook <=> e.allowhook
      /\ S[t].big <=> T[t].big /\ Len(S[t].ci) > MAXSTACK
  BY DEF CaughtAt
<1>5. n >= 1 /\ n \in 1..Len(C) /\ n + 1 \in 1..Len(C) /\ (n + 1) - 1 = n BY <1>2, <1>4 DEF Kept
<1>6. Len(T[t].ci) \in Nat /\ Len(S[t].ci) \in Nat BY <1>1, <1>2 DEF Sized
<1>7. HooksOf(T, C, t) /\ BoundOf(T, C, t) /\ HandlersOf(T, C, t) BY <1>3 DEF ThreadRight
<1>8. PcallAt(C, t, n + 1) BY <1>4 DEF PcallAt
<1> HIDE DEF e
<1>9. C[n].th = t
  <2>1. Over(C[n + 1], C[n]) BY <1>3, <1>4, <1>5 DEF Shape
  <2> QED BY <2>1, <1>4 DEF Over, e
<1>10. CutBack(T, C, S, n, t)
  <2>1. Height(T, C, n) = e.ci BY <1>4, <1>5 DEF Height, Owns, e
  <2> QED BY <2>1, <1>4 DEF CutBack
<1>11. ASSUME NEW i \in Len(S[t].ci) + 1..Len(T[t].ci) PROVE ~T[t].ci[i].yp
  <2>1. \A f \in e.ci..Len(T[t].ci) : f >= 1 => ~T[t].ci[f].yp BY <1>5, <1>7, <1>8 DEF HandlersOf, e
  <2>2. i \in e.ci..Len(T[t].ci) /\ i >= 1 BY <1>4, <1>6, <1>11
  <2> QED BY <2>1, <2>2
<1>12. S[t].allowhook <=> NoHook(C, t, n)
  <2>1. e.allowhook <=> NoHook(C, t, (n + 1) - 1) BY <1>5, <1>7, <1>8 DEF HooksOf, e
  <2> QED BY <2>1, <1>4, <1>5
<1>13. ASSUME NEW b \in Int, NEW z \in Int, Counts(T, C, t, b, z)
       PROVE  S[t].ncc = b + Counted(C, t, n) /\ S[t].nny = z + Ny(C, t, n)
  <2>1. e.ncc = b + Counted(C, t, (n + 1) - 1) /\ e.nny = z + Ny(C, t, (n + 1) - 1)
    BY <1>4, <1>5, <1>13 DEF Counts, e
  <2> QED BY <2>1, <1>4, <1>5
<1>14. InForceAt(T[t].ci, C, t, n + 1, Len(T[t].ci), S[t].errfunc)
  BY <1>4, <1>5, <1>7, <1>8 DEF HandlersOf, e
<1>15. IF S[t].big THEN Handling(C, t, n) ELSE Len(S[t].ci) <= MAXSTACK
  <2>1. CASE S[t].big
    <3>1. e.ci > MAXSTACK /\ e.ci \in Nat BY <2>1, <1>4, <1>6
    <3>2. Handling(C, t, n + 1)
      <4>1. e.ci <= MAXSTACK \/ Handling(C, t, n + 1) BY <1>4, <1>5, <1>7 DEF BoundOf, e
      <4> QED BY <4>1, <3>1
    <3>3. \A i \in 1..n + 1 : i \in 1..n \/ i = n + 1 OBVIOUS
    <3> QED BY <2>1, <3>2, <3>3, <1>4 DEF Handling, e
  <2>2. CASE ~S[t].big /\ T[t].big BY <2>2, <1>4, <1>6
  <2>3. CASE ~S[t].big /\ ~T[t].big
    <3>1. Len(T[t].ci) <= MAXSTACK BY <2>3, <1>2, <1>7 DEF BoundOf
    <3>2. Len(S[t].ci) <= Len(T[t].ci)
      <4>1. Height(T, C, n) \in 0..Len(T[C[n].th].ci) BY <1>1, <1>3, <1>5, OwnFrames
      <4> QED BY <4>1, <1>6, <1>9, <1>10 DEF CutBack
    <3> QED BY <2>3, <3>1, <3>2, <1>6
  <2> QED BY <2>1, <2>2, <2>3
<1>16. Upper(C, n, t)
  <2> SUFFICES ASSUME NEW i \in n + 1..Len(C) PROVE C[i].th = t BY DEF Upper
  <2>1. Len(C) \in 1..Len(C) /\ i \in n + 1..Len(C) /\ C[n + 1].th = C[Len(C)].th
    BY <1>2, <1>4, <1>5 DEF e
  <2>2. C[i].th = C[n + 1].th BY <2>1, <1>3, <1>5 DEF Shape, Together
  <2> QED BY <2>2, <1>4 DEF e
<1>17. GoesBack(T, C, S, D, n, t)
  <2>1. C[n + 1].th = t /\ C[n + 1].kind # "resume" BY <1>4 DEF e
  <2> QED BY <2>1, <1>4, <1>9, <1>10, <1>11, <1>12, <1>13, <1>14, <1>15, <1>16 DEF GoesBack
<1> QED BY <1>17, CoreGoesBack

\* luaD_throw arrives at lua_resume, or this ends: entry n + 1 and the ones above are left.
Leaves(T, C, S, D, n, t) ==
  /\ Kept(C, D, n) /\ n < Len(C) /\ Others(T, S, t)
  /\ C[n + 1].kind = "resume" /\ C[n + 1].th = t
  /\ S[t].ci = T[t].ci /\ S[t].nny = 1 /\ S[t].status \in {"ok", "yield", "dead"}
  /\ S[t].status = "ok" => T[t].ci = << >>
  /\ S[t].status = "yield" => Ready(T, t)
  /\ S[t].status # "dead" => /\ S[t].errfunc = T[t].errfunc /\ S[t].allowhook /\ ~S[t].big /\ ~T[t].big
                             /\ \A i \in 1..Len(C) : ~PcallAt(C, t, i)
LEMMA CoreLeaves ==
  ASSUME NEW T, NEW C, NEW S, NEW D, NEW n \in Nat, NEW t \in Thread, Core(T, C), Typed(S, D),
         C[Len(C)].th = t, T[t].status # "dead", Leaves(T, C, S, D, n, t)
  PROVE  Core(S, D)
<1>1. Sized(T, C) /\ Sized(S, D) BY TypedSized DEF Core
<1>2. Len(C) \in Nat BY <1>1 DEF Sized
<1>3. Shape(C) /\ Frames(T, C) /\ CountsRight(T, C) /\ ThreadRight(T, C, t) BY DEF Core
<1>4. /\ Kept(C, D, n) /\ n < Len(C) /\ Others(T, S, t)
      /\ C[n + 1].kind = "resume" /\ C[n + 1].th = t
      /\ S[t].ci = T[t].ci /\ S[t].nny = 1 /\ S[t].status \in {"ok", "yield", "dead"}
      /\ S[t].status = "ok" => T[t].ci = << >>
      /\ S[t].status = "yield" => Ready(T, t)
  BY DEF Leaves
<1>5. n >= 1 /\ n \in 1..Len(C) /\ n + 1 \in 1..Len(C) /\ Len(D) = n /\ (\A i \in 1..n : D[i] = C[i])
  BY <1>2, <1>4 DEF Kept
<1>6. Shape(D) BY <1>2, <1>3, <1>4, ShapeKept
<1>7. Frames(S, D) BY <1>1, <1>3, <1>4, FramesKept
<1>8. Upper(C, n, t)
  <2> SUFFICES ASSUME NEW i \in n + 1..Len(C) PROVE C[i].th = t BY DEF Upper
  <2>1. Len(C) \in 1..Len(C) /\ i \in n + 1..Len(C) /\ C[n + 1].th = C[Len(C)].th
    BY <1>2, <1>4, <1>5
  <2>2. C[i].th = C[n + 1].th BY <2>1, <1>3, <1>5 DEF Shape, Together
  <2> QED BY <2>2, <1>4
<1>9. CountsRight(S, D) BY <1>1, <1>3, <1>4, <1>8, CountsLeft
<1>10. \A i \in 1..n : C[i].th # t
  <2>1. \A j \in 1..(n + 1) - 1 : C[j].th # C[n + 1].th BY <1>3, <1>4, <1>5 DEF Shape, ResumedOnce
  <2> QED BY <2>1, <1>4
<1>11. ~OnCStack(D, t) BY <1>5, <1>10 DEF OnCStack
<1>12. \A i \in 1..Len(D) : D[i].th # t BY <1>5, <1>10
<1>13. ThreadRight(S, D, t)
  <2>1. HooksOf(T, C, t) /\ BoundOf(T, C, t) /\ YieldsOf(T, C, t) /\ HandlersOf(T, C, t)
    BY <1>3 DEF ThreadRight
  <2>2. YieldsOf(S, D, t) BY <2>1, <1>4, <1>11 DEF YieldsOf
  <2>3. S[t].status # "dead" =>
          /\ S[t].errfunc = T[t].errfunc /\ S[t].allowhook /\ ~S[t].big /\ ~T[t].big
          /\ \A i \in 1..Len(C) : ~PcallAt(C, t, i)
    BY DEF Leaves
  <2>4. HooksOf(S, D, t)
    <3>1. NoHook(D, t, Len(D)) BY <1>12 DEF NoHook
    <3> QED BY <3>1, <2>3, <1>12 DEF HooksOf, PcallAt
  <2>5. BoundOf(S, D, t) BY <2>1, <2>3, <1>4, <1>12 DEF BoundOf
  <2>6. HandlersOf(S, D, t)
    <3>1. \A i \in 1..Len(D) : ~PcallAt(D, t, i) BY <1>12 DEF PcallAt
    <3>2. ASSUME S[t].status # "dead"
          PROVE  InForceAt(S[t].ci, D, t, Len(D) + 1, Len(S[t].ci), S[t].errfunc)
      <4>1. InForceAt(T[t].ci, C, t, Len(C) + 1, Len(T[t].ci), T[t].errfunc) BY <2>1 DEF HandlersOf
      <4>2. (Len(C) + 1) - 1 = Len(C) /\ (Len(D) + 1) - 1 = Len(D) BY <1>2, <1>5
      <4>3. LastYp(T[t].ci, Len(T[t].ci), T[t].errfunc) BY <4>1, <4>2, <3>2, <2>3 DEF InForceAt
      <4> QED BY <4>2, <4>3, <3>1, <3>2, <2>3, <1>4 DEF InForceAt
    <3>3. \A p \in 1..Len(S[t].ci) : S[t].ci[p].yp => LastYp(S[t].ci, p - 1, S[t].ci[p].oef)
      BY <2>1, <1>4 DEF HandlersOf
    <3> QED BY <3>1, <3>2, <3>3 DEF HandlersOf
  <2>7. StatusOf(S, D, t)
    <3>1. S[t].status = "yield" => Ready(S, t)
      <4>1. Ready(T, t) /\ ~S[t].big => Ready(S, t) BY <1>4 DEF Ready
      <4> QED BY <4>1, <2>3, <1>4
    <3> QED BY <3>1, <1>4, <1>11 DEF StatusOf
  <2> QED BY <2>2, <2>4, <2>5, <2>6, <2>7 DEF ThreadRight
<1>14. Common(C, D, n, t) BY <1>2, <1>4, <1>5, <1>8 DEF Common, Upper
<1> QED BY <1>4, <1>6, <1>7, <1>9, <1>13, <1>14, CoreStep
\* recover: t goes back to its lua_resume, with the frames up to the marked one p.
Recovers(T, C, S, D, r, p, t) ==
  LET F == T[t].ci
      G == S[t].ci
      u == D[r + 1] IN
  /\ r \in 2..Len(C) /\ C[r].kind = "resume" /\ C[r].th = t
  /\ Len(D) = r + 1 /\ (\A i \in 1..r : D[i] = C[i])
  /\ u.kind = "unroll" /\ u.th = t /\ ~u.counted /\ ~u.ny /\ ~u.yp /\ u.ci = 0
  /\ \A i \in 1..Len(C) : ~PcallAt(C, t, i)
  /\ p \in 1..Len(F) /\ F[p].yp
  /\ Others(T, S, t) /\ S[t].status = "ok"
  /\ Len(G) = p /\ \A i \in 1..p : G[i] = F[i]
  /\ S[t].ncc = C[r].ncc /\ S[t].nny = 0 /\ S[t].errfunc = F[p].handler
  /\ S[t].allowhook = F[p].oah
  /\ S[t].big => p > MAXSTACK
LEMMA CoreRecovers ==
  ASSUME NEW T, NEW C, NEW S, NEW D, NEW r \in Nat, NEW p \in Nat, NEW t, Core(T, C), Typed(S, D),
         MAXSTACK \in Nat, Runs(T, C, t), Recovers(T, C, S, D, r, p, t)
  PROVE  Core(S, D)
<1> DEFINE F == T[t].ci
           G == S[t].ci
<1>0. F = T[t].ci /\ G = S[t].ci OBVIOUS
<1>1. Sized(T, C) /\ Sized(S, D) BY TypedSized DEF Core
<1>2. Len(C) \in Nat /\ t \in Thread /\ t = C[Len(C)].th /\ T[t].status = "ok" BY <1>1 DEF Sized, Runs
<1>3. Shape(C) /\ Frames(T, C) /\ CountsRight(T, C) /\ ThreadRight(T, C, t) BY <1>2 DEF Core
<1>4. /\ r \in 2..Len(C) /\ C[r].kind = "resume" /\ C[r].th = t
      /\ Len(D) = r + 1 /\ (\A i \in 1..r : D[i] = C[i])
      /\ D[r + 1].kind = "unroll" /\ D[r + 1].th = t /\ ~D[r + 1].counted /\ ~D[r + 1].ny
      /\ ~D[r + 1].yp /\ D[r + 1].ci = 0
      /\ \A i \in 1..Len(C) : ~PcallAt(C, t, i)
  BY DEF Recovers
<1>5. /\ p \in 1..Len(F) /\ F[p].yp
      /\ Others(T, S, t) /\ S[t].status = "ok"
      /\ Len(G) = p /\ \A i \in 1..p : G[i] = F[i]
      /\ S[t].ncc = C[r].ncc /\ S[t].nny = 0 /\ S[t].errfunc = F[p].handler
      /\ S[t].allowhook = F[p].oah
      /\ S[t].big => p > MAXSTACK
  BY DEF Recovers
<1>6. HooksOf(T, C, t) /\ BoundOf(T, C, t) /\ YieldsOf(T, C, t) /\ HandlersOf(T, C, t)
  BY <1>3 DEF ThreadRight
<1>7. /\ \A i \in 1..Len(F) : F[i].yp =>
           ~F[i].lua /\ F[i].oah /\ i <= MAXSTACK /\ \A f \in 1..i : Continues(F[f])
  BY <1>6 DEF YieldsOf
<1>8. \A i \in 1..Len(F) : F[i].yp => LastYp(F, i - 1, F[i].oef) BY <1>6 DEF HandlersOf
<1>9. Len(F) \in Nat BY <1>1, <1>2 DEF Sized
<1> HIDE DEF F, G
<1>10. p <= MAXSTACK /\ S[t].allowhook /\ ~S[t].big BY <1>5, <1>7
<1>11. \A i \in 1..r - 1 : C[i].th # t BY <1>3, <1>4 DEF Shape, ResumedOnce
<1>12. Shape(D)
  <2> DEFINE E == [i \in 1..r |-> C[i]]
  <2>1. Len(E) = r BY <1>4
  <2>2. Kept(C, E, r) BY <2>1, <1>4 DEF Kept
  <2>3. \A i \in 1..r : E[i] = C[i] OBVIOUS
  <2> HIDE DEF E
  <2>4. Shape(E) BY <2>2, <1>2, <1>3, ShapeKept
  <2>5. Added(E, D, r, D[r + 1]) BY <2>1, <2>3, <1>4 DEF Added
  <2>6. Over(D[r + 1], E[r])
    <3>1. E[r].kind = "resume" /\ E[r].th = t BY <2>3, <1>4
    <3> QED BY <3>1, <1>4 DEF Over
  <2>7. Holds(D[r + 1]) BY <1>4 DEF Holds, Kinds
  <2>8. D[r + 1].kind # "resume" /\ r # 1 /\ r \in Nat BY <1>4
  <2> QED BY <2>4, <2>5, <2>6, <2>7, <2>8, ShapeAdded
<1>13. Frames(S, D)
  <2>1. (r - 1) + 1 = r /\ (r - 1) + 2 = r + 1 /\ r - 1 \in 1..Len(C) /\ r - 1 < Len(C) BY <1>2, <1>4
  <2>2. Atop(C, D, r - 1, t) BY <2>1, <1>4 DEF Atop
  <2>3. C[(r - 1) + 1].kind = "resume" BY <2>1, <1>4
  <2>4. Len(D) # (r - 1) + 1 BY <2>1, <1>4
  <2> QED BY <2>1, <2>2, <2>3, <2>4, <1>1, <1>2, <1>3, <1>5, <1>12, FramesResumed
<1>14. \A i \in r..Len(C) : C[i].th = t
  <2> SUFFICES ASSUME NEW i \in r..Len(C) PROVE C[i].th = t OBVIOUS
  <2>1. r \in 1..Len(C) /\ Len(C) \in 1..Len(C) /\ C[r].th = C[Len(C)].th BY <1>2, <1>4
  <2>2. C[i].th = C[r].th BY <2>1, <1>3 DEF Shape, Together
  <2> QED BY <2>2, <1>4
<1>15. CountsRight(S, D)
  <2>1. ASSUME NEW b \in Int, NEW z \in Int, Counts(T, C, t, b, z) PROVE Counts(S, D, t, b, z)
    BY <2>1, <1>1, <1>2, <1>3, <1>4, <1>5, CountsRecovered
  <2>2. /\ r \in 1..Len(C) /\ r <= Len(D) /\ \A i \in 1..r : D[i] = C[i]
        /\ \A i \in r + 1..Len(C) : C[i].th = t
        /\ \A i \in r + 1..Len(D) : D[i].th = t
    <3>1. \A i \in r + 1..Len(D) : i = r + 1 BY <1>4
    <3> QED BY <3>1, <1>4, <1>14
  <2>3. C[r].th = t /\ t \in Thread /\ Others(T, S, t) BY <1>2, <1>4, <1>5
  <2> QED BY <2>1, <2>2, <2>3, <1>1, <1>3, <1>12, CountsStep
<1>16. \A i \in 1..Len(D) : D[i].th = t => D[i].kind \in {"resume", "unroll"} /\ D[i].ci = 0
  <2>1. C[r].ci = 0 BY <1>3, <1>4 DEF Shape, Holds
  <2>2. \A i \in 1..Len(D) : i \in 1..r - 1 \/ i = r \/ i = r + 1 BY <1>4
  <2>3. D[r].kind = "resume" /\ D[r].ci = 0 BY <2>1, <1>4
  <2>4. \A i \in 1..r - 1 : D[i].th # t BY <1>4, <1>11
  <2> QED BY <2>2, <2>3, <2>4, <1>4
<1>17. ThreadRight(S, D, t)
  <2>1. HooksOf(S, D, t)
    <3>1. \A i \in 1..Len(D) : ~(D[i].th = t /\ D[i].kind = "hook") /\ ~PcallAt(D, t, i)
      BY <1>16 DEF PcallAt
    <3>2. NoHook(D, t, Len(D)) BY <3>1 DEF NoHook
    <3> QED BY <3>1, <3>2, <1>10 DEF HooksOf
  <2>2. BoundOf(S, D, t)
    <3>1. Len(S[t].ci) <= MAXSTACK BY <1>0, <1>5, <1>10
    <3>2. \A i \in 1..Len(D) : D[i].th = t => D[i].ci <= MAXSTACK BY <1>16
    <3> QED BY <3>1, <3>2, <1>10 DEF BoundOf
  <2>3. YieldsOf(S, D, t)
    <3>1. ASSUME NEW f \in 1..Len(G) PROVE Continues(G[f])
      <4>1. f \in 1..p BY <1>5
      <4>2. Continues(F[f]) BY <4>1, <1>5, <1>7
      <4> QED BY <4>1, <4>2, <1>5
    <3>2. ASSUME NEW q \in 1..Len(G), G[q].yp PROVE ~G[q].lua /\ G[q].oah /\ q <= MAXSTACK
      <4>1. q \in 1..Len(F) /\ G[q] = F[q] BY <1>5, <1>9
      <4> QED BY <4>1, <3>2, <1>7
    <3>3. \A q \in 1..Len(G) : \A f \in 1..q : f \in 1..Len(G) BY <1>5
    <3> QED BY <3>1, <3>2, <3>3, <1>0 DEF YieldsOf
  <2>4. HandlersOf(S, D, t)
    <3>1. \A i \in 1..Len(D) : ~PcallAt(D, t, i) BY <1>16 DEF PcallAt
    <3>2. LastYp(G, p, F[p].handler)
      <4>1. ASSUME NEW q \in 1..p, \A j \in q + 1..p : ~G[j].yp PROVE q = p
        <5>1. q < p => p \in q + 1..p OBVIOUS
        <5>2. G[p].yp BY <1>5
        <5> QED BY <5>1, <5>2, <4>1
      <4>2. p \in 1..p /\ G[p] = F[p] BY <1>5
      <4> QED BY <4>1, <4>2, <1>5 DEF LastYp
    <3>3. InForceAt(G, D, t, Len(D) + 1, Len(G), S[t].errfunc)
      <4>1. (Len(D) + 1) - 1 = Len(D) BY <1>4
      <4> QED BY <4>1, <3>1, <3>2, <1>5 DEF InForceAt
    <3>4. ASSUME NEW q \in 1..Len(G), G[q].yp PROVE LastYp(G, q - 1, G[q].oef)
      <4>1. q \in 1..p /\ q \in 1..Len(F) /\ q - 1 \in Nat BY <1>5, <1>9
      <4>5. \A i \in 1..p : G[i] = F[i] BY <1>5
      <4>6. \A i \in 1..q - 1 : i \in 1..p BY <4>1
      <4>2. G[q] = F[q] /\ \A i \in 1..q - 1 : G[i] = F[i] BY <4>1, <4>5, <4>6
      <4>3. LastYp(F, q - 1, F[q].oef) BY <4>1, <4>2, <3>4, <1>8
      <4>4. LastYp(G, q - 1, F[q].oef) BY <4>1, <4>2, <4>3, LastYpSame
      <4> QED BY <4>2, <4>4
    <3> QED BY <3>1, <3>3, <3>4, <1>0 DEF HandlersOf
  <2>5. StatusOf(S, D, t)
    <3>1. Len(D) \in Nat /\ Len(D) >= 1 /\ D[Len(D)].th = t BY <1>4
    <3> QED BY <3>1, <1>5, StatusOk
  <2> QED BY <2>1, <2>2, <2>3, <2>4, <2>5 DEF ThreadRight
<1>18. Common(C, D, r, t)
  <2>1. \A i \in r + 1..Len(D) : i = r + 1 BY <1>4
  <2> QED BY <2>1, <1>2, <1>4, <1>14 DEF Common
<1>19. C[Len(C)].th = t /\ t \in Thread /\ Others(T, S, t) BY <1>2, <1>5
<1> QED BY <1>12, <1>13, <1>15, <1>17, <1>18, <1>19, CoreStep
\* lua_resume of t, up to the call of its function or to what it had yielded from, of which
\* the frame is put aside.
Plain(e) == ~e.counted /\ ~e.ny /\ ~e.yp /\ e.ci = 0
Resumes0(T, C, S, D, t) ==
  LET F == T[t].ci
      G == S[t].ci
      m == Len(C)
      u == C[m].th IN
  /\ Runs(T, C, u) /\ u # t /\ C[m].kind \in {"cfun", "hook"} /\ m > 1 /\ ~OnCStack(C, t)
  /\ C[m].kind = "cfun" => ~T[u].ci[C[m].ci].yp
  /\ Atop(C, D, m, t) /\ (Len(D) = m + 1 => Len(G) = 0)
  /\ \A i \in m + 1..Len(D) : Plain(D[i])
  /\ D[m + 1].nny = T[t].nny /\ D[m + 1].ncc = T[u].ncc + 1
  /\ Others(T, S, t) /\ S[t].status = "ok" /\ T[t].status # "dead"
  /\ S[t].ncc = T[u].ncc + 1 /\ S[t].nny = 0
  /\ S[t].errfunc = T[t].errfunc /\ S[t].allowhook = T[t].allowhook /\ S[t].big = T[t].big
  /\ Len(G) <= Len(F) /\ \A i \in 1..Len(G) : G[i] = F[i] /\ Continues(F[i])
  /\ \A i \in Len(G) + 1..Len(F) : ~F[i].yp
LEMMA ResumedShape ==
  ASSUME NEW T, NEW C, NEW S, NEW D, NEW t, Shape(C), Len(C) \in Nat, Resumes0(T, C, S, D, t)
  PROVE  Shape(D)
<1> DEFINE m == Len(C)
<1>1. /\ C[m].kind \in {"cfun", "hook"} /\ m > 1 /\ ~OnCStack(C, t)
      /\ Atop(C, D, m, t) /\ \A i \in m + 1..Len(D) : Plain(D[i])
  BY DEF Resumes0
<1>2. m \in Nat /\ Len(C) = m OBVIOUS
<1> HIDE DEF m
<1>3. /\ Len(D) \in {m + 1, m + 2} /\ (\A i \in 1..m : D[i] = C[i])
      /\ D[m + 1].kind = "resume" /\ D[m + 1].th = t
      /\ Len(D) = m + 2 => D[m + 2].kind = "unroll" /\ D[m + 2].th = t
  BY <1>1 DEF Atop
<1>4. Plain(D[m + 1])
  <2>1. m + 1 \in m + 1..Len(D) BY <1>2, <1>3
  <2> QED BY <2>1, <1>1
<1> DEFINE E == [i \in 1..m + 1 |-> D[i]]
<1>5. Len(E) = m + 1 /\ (\A i \in 1..m + 1 : E[i] = D[i]) BY <1>2
<1> HIDE DEF E
<1>6. Shape(E)
  <2>1. Added(C, E, m, D[m + 1]) BY <1>2, <1>3, <1>5 DEF Added
  <2>2. Over(D[m + 1], C[m]) BY <1>1, <1>3, <1>4 DEF Over, Plain
  <2>3. Holds(D[m + 1]) BY <1>3, <1>4 DEF Holds, Plain, Kinds
  <2>4. D[m + 1].kind = "resume" => \A i \in 1..m : C[i].th # D[m + 1].th
    BY <1>1, <1>2, <1>3 DEF OnCStack
  <2>5. m # 1 BY <1>1
  <2> QED BY <2>1, <2>2, <2>3, <2>4, <2>5, <1>2, ShapeAdded
<1>7. CASE Len(D) = m + 1
  <2>1. Kept(E, D, m + 1) BY <1>2, <1>5, <1>7 DEF Kept
  <2>2. Len(E) \in Nat BY <1>2, <1>5
  <2> QED BY <2>1, <2>2, <1>6, ShapeKept
<1>8. CASE Len(D) = m + 2
  <2>0. (m + 1) + 1 = m + 2 /\ m + 1 \in Nat /\ m + 1 # 1 BY <1>2, <1>1
  <2>1. Added(E, D, m + 1, D[m + 2]) BY <2>0, <1>5, <1>8 DEF Added
  <2>2. Plain(D[m + 2])
    <3>1. m + 2 \in m + 1..Len(D) BY <1>2, <1>8
    <3> QED BY <3>1, <1>1
  <2>3. Over(D[m + 2], E[m + 1])
    <3>1. E[m + 1].kind = "resume" /\ E[m + 1].th = t BY <1>2, <1>3, <1>5
    <3> QED BY <3>1, <2>2, <1>3, <1>8 DEF Over, Plain
  <2>4. Holds(D[m + 2]) BY <2>2, <1>3, <1>8 DEF Holds, Plain, Kinds
  <2>5. D[m + 2].kind # "resume" BY <1>3, <1>8
  <2> QED BY <2>0, <2>1, <2>3, <2>4, <2>5, <1>6, ShapeAdded
<1> QED BY <1>3, <1>7, <1>8

LEMMA CoreResumes ==
  ASSUME NEW T, NEW C, NEW S, NEW D, NEW t \in Thread, Core(T, C), Typed(S, D), MAXSTACK \in Nat,
         Resumes0(T, C, S, D, t)
  PROVE  Core(S, D)
<1> DEFINE m == Len(C)
           F == T[t].ci
           G == S[t].ci
           u == C[m].th
<1>0. m = Len(C) /\ F = T[t].ci /\ G = S[t].ci /\ u = C[m].th OBVIOUS
<1>1. Sized(T, C) /\ Sized(S, D) BY TypedSized DEF Core
<1>2. m \in Nat /\ Len(F) \in Nat /\ Len(G) \in Nat BY <1>1 DEF Sized
<1>3. Shape(C) /\ Frames(T, C) /\ CountsRight(T, C) /\ ThreadRight(T, C, t) BY DEF Core
<1>4. /\ Runs(T, C, u) /\ u # t /\ C[m].kind \in {"cfun", "hook"} /\ m > 1 /\ ~OnCStack(C, t)
      /\ C[m].kind = "cfun" => ~T[u].ci[C[m].ci].yp
      /\ Atop(C, D, m, t) /\ (Len(D) = m + 1 => Len(G) = 0)
      /\ \A i \in m + 1..Len(D) : Plain(D[i])
      /\ D[m + 1].nny = T[t].nny /\ D[m + 1].ncc = T[u].ncc + 1
  BY DEF Resumes0
<1>5. /\ Others(T, S, t) /\ S[t].status = "ok" /\ T[t].status # "dead"
      /\ S[t].ncc = T[u].ncc + 1 /\ S[t].nny = 0
      /\ S[t].errfunc = T[t].errfunc /\ S[t].allowhook = T[t].allowhook /\ S[t].big = T[t].big
      /\ Len(G) <= Len(F) /\ \A i \in 1..Len(G) : G[i] = F[i] /\ Continues(F[i])
      /\ \A i \in Len(G) + 1..Len(F) : ~F[i].yp
  BY DEF Resumes0
<1>6. Shape(D) BY <1>2, <1>3, ResumedShape
<1> HIDE DEF m, F, G, u
<1>7. /\ m \in 1..Len(C) /\ Len(D) \in {m + 1, m + 2} /\ (\A i \in 1..m : D[i] = C[i])
      /\ D[m + 1].kind = "resume" /\ D[m + 1].th = t
      /\ Len(D) = m + 2 => D[m + 2].kind = "unroll" /\ D[m + 2].th = t
  BY <1>4 DEF Atop
<1>8. \A i \in 1..m : C[i].th # t BY <1>0, <1>4 DEF OnCStack
<1>9. \A i \in m + 1..Len(D) : D[i].th = t /\ D[i].kind \in {"resume", "unroll"} /\ D[i].ci = 0
  <2>1. \A i \in m + 1..Len(D) : i = m + 1 \/ (i = m + 2 /\ Len(D) = m + 2) BY <1>2, <1>7
  <2>2. \A i \in m + 1..Len(D) : D[i].ci = 0 BY <1>4 DEF Plain
  <2> QED BY <2>1, <2>2, <1>7
<1>10. \A i \in 1..Len(D) : D[i].th = t => D[i].kind \in {"resume", "unroll"} /\ D[i].ci = 0
  <2>1. \A i \in 1..Len(D) : i \in 1..m \/ i \in m + 1..Len(D) BY <1>2, <1>7
  <2> QED BY <2>1, <1>7, <1>8, <1>9
<1>11. Frames(S, D)
  <2>1. C[m].kind = "cfun" => ~T[C[m].th].ci[C[m].ci].yp BY <1>0, <1>4
  <2>2. Len(D) = m + 1 => Len(S[t].ci) = 0 BY <1>0, <1>4
  <2>3. IF m < Len(C) THEN C[m + 1].kind = "resume"
        ELSE C[m].kind = "cfun" => ~T[C[m].th].ci[C[m].ci].yp
    BY <2>1, <1>0, <1>2
  <2>4. Others(T, S, t) /\ Atop(C, D, m, t) BY <1>4, <1>5
  <2> QED BY <2>2, <2>3, <2>4, <1>1, <1>3, <1>6, FramesResumed
<1>12. CountsRight(S, D)
  <2>1. D[m + 1].nny = 1
    <3>1. T[t].nny = 1 BY <1>3, <1>4 DEF CountsRight
    <3> QED BY <3>1, <1>4
  <2>2. /\ D[m + 1].ncc = T[C[m].th].ncc + 1 /\ S[t].ncc = D[m + 1].ncc /\ S[t].nny = 0
        /\ Others(T, S, t) /\ Atop(C, D, m, t) /\ m = Len(C)
    BY <1>0, <1>4, <1>5
  <2> QED BY <2>1, <2>2, <1>1, <1>3, <1>6, CountsResumed
<1>13. ThreadRight(S, D, t)
  <2>1. HooksOf(T, C, t) /\ BoundOf(T, C, t) /\ YieldsOf(T, C, t) /\ HandlersOf(T, C, t)
    BY <1>3 DEF ThreadRight
  <2>2. HooksOf(S, D, t)
    <3>1. NoHook(C, t, Len(C)) BY <1>0, <1>8 DEF NoHook
    <3>2. T[t].allowhook BY <3>1, <2>1, <1>5 DEF HooksOf
    <3>3. \A i \in 1..Len(D) : ~(D[i].th = t /\ D[i].kind = "hook") /\ ~PcallAt(D, t, i)
      BY <1>10 DEF PcallAt
    <3>4. NoHook(D, t, Len(D)) BY <3>3 DEF NoHook
    <3> QED BY <3>2, <3>3, <3>4, <1>5 DEF HooksOf
  <2>3. BoundOf(S, D, t)
    <3>1. ~Handling(C, t, Len(C)) BY <1>0, <1>8 DEF Handling
    <3>2. ~T[t].big /\ Len(F) <= MAXSTACK BY <3>1, <2>1, <1>0, <1>5 DEF BoundOf
    <3>3. ~S[t].big /\ Len(S[t].ci) <= MAXSTACK BY <3>2, <1>0, <1>2, <1>5
    <3>4. \A i \in 1..Len(D) : D[i].th = t => D[i].ci <= MAXSTACK BY <1>10
    <3> QED BY <3>3, <3>4 DEF BoundOf
  <2>4. YieldsOf(S, D, t)
    <3>1. \A f \in 1..Len(G) : Continues(G[f]) BY <1>5
    <3>2. ASSUME NEW q \in 1..Len(G), G[q].yp PROVE ~G[q].lua /\ G[q].oah /\ q <= MAXSTACK
      <4>1. q \in 1..Len(F) /\ G[q] = F[q] BY <1>2, <1>5
      <4> QED BY <4>1, <3>2, <2>1, <1>0 DEF YieldsOf
    <3>3. \A q \in 1..Len(G) : \A f \in 1..q : f \in 1..Len(G) BY <1>2
    <3> QED BY <3>1, <3>2, <3>3, <1>0 DEF YieldsOf
  <2>5. HandlersOf(S, D, t)
    <3>1. \A i \in 1..Len(D) : ~PcallAt(D, t, i) BY <1>10 DEF PcallAt
    <3>2. \A i \in 1..m : ~PcallAt(C, t, i) BY <1>8 DEF PcallAt
    <3>3. LastYp(F, Len(F), T[t].errfunc)
      <4>1. InForceAt(F, C, t, m + 1, Len(F), T[t].errfunc) BY <2>1, <1>0, <1>5 DEF HandlersOf
      <4>2. (m + 1) - 1 = m BY <1>2
      <4> QED BY <4>1, <4>2, <3>2 DEF InForceAt
    <3>4. LastYp(G, Len(G), T[t].errfunc)
      <4>1. \A i \in 1..Len(G) : G[i] = F[i] BY <1>5
      <4>2. \A i \in Len(G) + 1..Len(F) : ~F[i].yp BY <1>5
      <4>3. Len(G) <= Len(F) BY <1>5
      <4> QED BY <4>1, <4>2, <4>3, <3>3, <1>2, LastYpLess
    <3>5. InForceAt(G, D, t, Len(D) + 1, Len(G), S[t].errfunc)
      <4>1. (Len(D) + 1) - 1 = Len(D) BY <1>2, <1>7
      <4> QED BY <4>1, <3>1, <3>4, <1>5 DEF InForceAt
    <3>6. ASSUME NEW q \in 1..Len(G), G[q].yp PROVE LastYp(G, q - 1, G[q].oef)
      <4>1. q \in 1..Len(F) /\ q - 1 \in Nat BY <1>2, <1>5
      <4>2. \A i \in 1..Len(G) : G[i] = F[i] BY <1>5
      <4>3. \A i \in 1..q - 1 : i \in 1..Len(G) BY <1>2
      <4>4. G[q] = F[q] /\ \A i \in 1..q - 1 : G[i] = F[i] BY <4>2, <4>3
      <4>5. LastYp(F, q - 1, F[q].oef) BY <4>1, <4>4, <3>6, <2>1, <1>0 DEF HandlersOf
      <4>6. LastYp(G, q - 1, F[q].oef) BY <4>1, <4>4, <4>5, LastYpSame
      <4> QED BY <4>4, <4>6
    <3> QED BY <3>1, <3>5, <3>6, <1>0 DEF HandlersOf
  <2>6. StatusOf(S, D, t)
    <3>1. Len(D) \in Nat /\ Len(D) >= 1 /\ D[Len(D)].th = t BY <1>2, <1>7
    <3> QED BY <3>1, <1>5, StatusOk
  <2> QED BY <2>2, <2>3, <2>4, <2>5, <2>6 DEF ThreadRight
<1>14. Common(C, D, m, t) BY <1>0, <1>2, <1>7, <1>9 DEF Common
<1>15. T[C[Len(C)].th].status # "yield" /\ T[C[Len(C)].th].ci # << >>
  <2>1. u \in Thread /\ T[u].status = "ok" BY <1>4 DEF Runs
  <2>2. Len(T[u].ci) >= 1
    <3>1. Framed(T, C, m) BY <1>0, <1>3, <1>7 DEF Frames
    <3>2. Height(T, C, m) = Len(T[u].ci) BY <1>0 DEF Height
    <3>3. Works(C[m], T[u].ci, Len(T[u].ci)) BY <3>1, <3>2, <1>0 DEF Framed
    <3> QED BY <3>3, <1>4 DEF Works
  <2> QED BY <2>1, <2>2, <1>0
<1>16. Others(T, S, t) BY <1>5
<1> QED BY <1>6, <1>11, <1>12, <1>13, <1>14, <1>15, <1>16, CoreStep
(***************************************************************************)
(* luaG_errormsg and luaG_traceexec begin to throw, a thread yields or is  *)
(* not resumed                                                             *)
(***************************************************************************)
Rethrown(T, C, S, D, m, t) ==
  /\ m \in Nat /\ Len(C) = m + 1 /\ t \in Thread /\ t = C[m + 1].th /\ Rekinded(C, D, m + 1)
  /\ Others(T, S, t) /\ Alike(T[t].ci, S[t].ci)
  /\ S[t].ncc = T[t].ncc /\ S[t].nny = T[t].nny /\ S[t].errfunc = T[t].errfunc
  /\ S[t].big = T[t].big /\ S[t].status = T[t].status /\ T[t].status # "dead"
  /\ IF C[m + 1].kind = "hook" THEN S[t].allowhook ELSE S[t].allowhook = T[t].allowhook
  /\ T[t].status = "yield" => C[m + 1].kind = "hook"
LEMMA RethrownCounts ==
  ASSUME NEW T, NEW C, NEW S, NEW D, NEW m \in Nat, NEW t, Rethrown(T, C, S, D, m, t),
         NEW b \in Int, NEW z \in Int, Counts(T, C, t, b, z)
  PROVE  Counts(S, D, t, b, z)
<1>1. /\ Len(C) = m + 1 /\ Len(D) = m + 1 /\ (\A i \in 1..m : D[i] = C[i])
      /\ D[m + 1].kind = "throw" /\ D[m + 1].th = C[m + 1].th
      /\ D[m + 1].counted = C[m + 1].counted /\ D[m + 1].ny = C[m + 1].ny
      /\ S[t].ncc = T[t].ncc /\ S[t].nny = T[t].nny
  BY DEF Rethrown, Rekinded
<1>2. ASSUME NEW i \in 0..m PROVE Counted(D, t, i) = Counted(C, t, i) /\ Ny(D, t, i) = Ny(C, t, i)
  <2>1. \A k \in 1..m : D[k] = C[k] BY <1>1
  <2>2. i \in 0..m /\ m \in Nat BY <1>2
  <2> QED BY <2>1, <2>2, CountSame
<1>3. Counted(D, t, m + 1) = Counted(C, t, m + 1) /\ Ny(D, t, m + 1) = Ny(C, t, m + 1)
  <2>1. m \in 0..m OBVIOUS
  <2>2. Counted(D, t, m) = Counted(C, t, m) /\ Ny(D, t, m) = Ny(C, t, m) BY <2>1, <1>2
  <2>3. /\ Counted(C, t, m + 1) = IF C[m + 1].th = t /\ C[m + 1].counted
                                  THEN Counted(C, t, m) + 1 ELSE Counted(C, t, m)
        /\ Ny(C, t, m + 1) = IF C[m + 1].th = t /\ C[m + 1].ny
                             THEN Ny(C, t, m) + 1 ELSE Ny(C, t, m)
    BY CountNext
  <2>4. /\ Counted(D, t, m + 1) = IF D[m + 1].th = t /\ D[m + 1].counted
                                  THEN Counted(D, t, m) + 1 ELSE Counted(D, t, m)
        /\ Ny(D, t, m + 1) = IF D[m + 1].th = t /\ D[m + 1].ny
                             THEN Ny(D, t, m) + 1 ELSE Ny(D, t, m)
    BY CountNext
  <2> QED BY <2>2, <2>3, <2>4, <1>1
<1>4. S[t].ncc = b + Counted(D, t, Len(D)) /\ S[t].nny = z + Ny(D, t, Len(D))
  BY <1>1, <1>3 DEF Counts
<1>5. ASSUME NEW i \in 1..Len(D), D[i].kind = "pcall", D[i].th = t
      PROVE  D[i].ncc = b + Counted(D, t, i - 1) /\ D[i].nny = z + Ny(D, t, i - 1)
  <2>1. i # m + 1 BY <1>1, <1>5
  <2>2. i \in 1..m /\ i - 1 \in 0..m /\ i \in 1..Len(C) BY <2>1, <1>1
  <2>3. D[i] = C[i] BY <2>2, <1>1
  <2>4. C[i].ncc = b + Counted(C, t, i - 1) /\ C[i].nny = z + Ny(C, t, i - 1)
    BY <2>2, <2>3, <1>5 DEF Counts
  <2> QED BY <2>2, <2>3, <2>4, <1>2
<1> QED BY <1>4, <1>5 DEF Counts

LEMMA RethrownYields ==
  ASSUME NEW T, NEW C, NEW S, NEW D, NEW m \in Nat, NEW t, Rethrown(T, C, S, D, m, t),
         Len(T[t].ci) \in Nat, YieldsOf(T, C, t)
  PROVE  YieldsOf(S, D, t)
<1> DEFINE F == T[t].ci
           G == S[t].ci
<1>0. F = T[t].ci /\ G = S[t].ci OBVIOUS
<1>1. /\ Len(C) = m + 1 /\ Len(D) = m + 1 /\ (\A i \in 1..m : D[i] = C[i])
      /\ D[m + 1].kind = "throw" /\ C[m + 1].kind \in {"raise", "hook"} /\ C[m + 1].th = t
  BY DEF Rethrown, Rekinded
<1>2. Alike(F, G) /\ Len(F) \in Nat BY DEF Rethrown
<1>3. OnCStack(C, t)
  <2>1. m + 1 \in 1..Len(C) BY <1>1
  <2> QED BY <2>1, <1>1 DEF OnCStack
<1>4. /\ \A f \in 1..Len(F) : Continues(F[f]) \/ \E j \in 1..Len(C) : Waits(C, t, f, j)
      /\ \A p \in 1..Len(F) :
           F[p].yp => ~F[p].lua /\ F[p].oah /\ p <= MAXSTACK /\ \A f \in 1..p : Continues(F[f])
  BY <1>3 DEF YieldsOf
<1> HIDE DEF F, G
<1>5. Len(G) = Len(F) BY <1>2 DEF Alike
<1>6. ASSUME NEW f \in 1..Len(G), Continues(F[f]) PROVE Continues(G[f])
  BY <1>2, <1>5, <1>6 DEF Alike, Continues
<1>7. ASSUME NEW f, NEW j \in 1..Len(C), Waits(C, t, f, j) PROVE j \in 1..Len(D) /\ Waits(D, t, f, j)
  <2>1. /\ C[j].th = t /\ C[j].kind \in {"cfun", "ret"} /\ C[j].ci = f
        /\ j < Len(C) => C[j + 1].kind \in {"pcall", "resume", "raise", "throw"} \/ C[j + 1].ny
    BY <1>7 DEF Waits
  <2>2. j # m + 1 BY <2>1, <1>1
  <2>3. j \in 1..m /\ D[j] = C[j] /\ j \in 1..Len(D) BY <2>2, <1>1
  <2>4. j + 1 \in 1..m \/ j + 1 = m + 1 BY <2>3
  <2>5. D[j + 1].kind \in {"pcall", "resume", "raise", "throw"} \/ D[j + 1].ny
    BY <2>1, <2>3, <2>4, <1>1
  <2> QED BY <2>1, <2>3, <2>5 DEF Waits
<1>8. \A f \in 1..Len(G) : Continues(G[f]) \/ \E j \in 1..Len(D) : Waits(D, t, f, j)
  BY <1>4, <1>5, <1>6, <1>7
<1>9. ASSUME NEW p \in 1..Len(G), G[p].yp
      PROVE  ~G[p].lua /\ G[p].oah /\ p <= MAXSTACK /\ \A f \in 1..p : Continues(G[f])
  <2>1. /\ p \in 1..Len(F) /\ F[p].yp = G[p].yp /\ F[p].lua = G[p].lua /\ F[p].oah = G[p].oah
    BY <1>2, <1>5 DEF Alike
  <2>2. ~F[p].lua /\ F[p].oah /\ p <= MAXSTACK /\ \A f \in 1..p : Continues(F[f])
    BY <2>1, <1>4, <1>9
  <2>3. \A f \in 1..p : f \in 1..Len(G) BY <1>2, <1>5
  <2> QED BY <2>1, <2>2, <2>3, <1>6
<1> QED BY <1>0, <1>8, <1>9 DEF YieldsOf

LEMMA LastYpAlike ==
  ASSUME NEW F, NEW G, Alike(F, G), NEW m \in Nat, m <= Len(F), Len(F) \in Nat, NEW h, LastYp(F, m, h)
  PROVE  LastYp(G, m, h)
<1>1. \A i \in 1..m : G[i].yp = F[i].yp /\ G[i].handler = F[i].handler BY DEF Alike
<1>2. ASSUME NEW p \in 1..m, G[p].yp, \A q \in p + 1..m : ~G[q].yp PROVE h = G[p].handler
  <2>1. \A q \in p + 1..m : q \in 1..m OBVIOUS
  <2> QED BY <2>1, <1>1, <1>2 DEF LastYp
<1> QED BY <1>1, <1>2 DEF LastYp

LEMMA RethrownHandlers ==
  ASSUME NEW T, NEW C, NEW S, NEW D, NEW m \in Nat, NEW t, Rethrown(T, C, S, D, m, t),
         Len(T[t].ci) \in Nat, HandlersOf(T, C, t), \A i \in 1..m + 1 : C[i].ci \in Nat
  PROVE  HandlersOf(S, D, t)
<1> DEFINE F == T[t].ci
           G == S[t].ci
<1>0. F = T[t].ci /\ G = S[t].ci OBVIOUS
<1>1. /\ Len(C) = m + 1 /\ Len(D) = m + 1 /\ (\A i \in 1..m : D[i] = C[i])
      /\ D[m + 1].kind = "throw" /\ C[m + 1].kind \in {"raise", "hook"}
      /\ S[t].errfunc = T[t].errfunc /\ T[t].status # "dead"
  BY DEF Rethrown, Rekinded
<1>2. Alike(F, G) /\ Len(F) \in Nat BY DEF Rethrown
<1>3. /\ InForceAt(F, C, t, (m + 1) + 1, Len(F), T[t].errfunc)
      /\ \A i \in 1..Len(C) : PcallAt(C, t, i) =>
           /\ InForceAt(F, C, t, i, Len(F), C[i].errfunc)
           /\ \A f \in C[i].ci..Len(F) : f >= 1 => ~F[f].yp
      /\ \A p \in 1..Len(F) : F[p].yp => LastYp(F, p - 1, F[p].oef)
  BY <1>1 DEF HandlersOf
<1> HIDE DEF F, G
<1>4. Len(G) = Len(F) /\ \A i \in 1..Len(F) : G[i].yp = F[i].yp /\ G[i].oef = F[i].oef
  BY <1>2 DEF Alike
<1>5. ASSUME NEW i \in 1..m + 1 PROVE (PcallAt(D, t, i) <=> PcallAt(C, t, i)) /\ (PcallAt(D, t, i) => i \in 1..m /\ D[i] = C[i])
  <2>1. CASE i = m + 1 BY <2>1, <1>1 DEF PcallAt
  <2>2. CASE i # m + 1
    <3>1. i \in 1..m BY <2>2
    <3> QED BY <3>1, <1>1 DEF PcallAt
  <2> QED BY <2>1, <2>2
<1>6. ASSUME NEW k \in 0..m + 1, NEW h, InForceAt(F, C, t, k + 1, Len(F), h)
      PROVE  InForceAt(G, D, t, k + 1, Len(G), h)
  <2>1. InForceAt(G, C, t, k + 1, Len(G), h)
    <3>1. LastYp(F, Len(F), h) => LastYp(G, Len(G), h) BY <1>2, <1>4, LastYpAlike
    <3> QED BY <3>1, <1>6 DEF InForceAt
  <2>2. \A i \in 1..k : i \in 1..m + 1 OBVIOUS
  <2>3. /\ \A i \in 1..k : PcallAt(D, t, i) => i \in 1..k /\ PcallAt(C, t, i) /\ D[i] = C[i]
        /\ \A i \in 1..k : PcallAt(C, t, i) => i \in 1..k /\ PcallAt(D, t, i)
    BY <2>2, <1>5
  <2>4. k \in Nat OBVIOUS
  <2> QED BY <2>1, <2>3, <2>4, SameInForce
<1>7. InForceAt(G, D, t, Len(D) + 1, Len(G), S[t].errfunc)
  <2>1. m + 1 \in 0..m + 1 OBVIOUS
  <2> QED BY <2>1, <1>1, <1>3, <1>6
<1>8. ASSUME NEW i \in 1..Len(D), PcallAt(D, t, i)
      PROVE  /\ InForceAt(G, D, t, i, Len(G), D[i].errfunc)
             /\ \A f \in D[i].ci..Len(G) : f >= 1 => ~G[f].yp
  <2>1. i \in 1..m /\ D[i] = C[i] /\ PcallAt(C, t, i) /\ i \in 1..Len(C) BY <1>1, <1>5, <1>8
  <2>2. i - 1 \in 0..m + 1 /\ (i - 1) + 1 = i BY <2>1
  <2>3. InForceAt(F, C, t, (i - 1) + 1, Len(F), C[i].errfunc) BY <2>1, <2>2, <1>3
  <2>4. InForceAt(G, D, t, (i - 1) + 1, Len(G), C[i].errfunc) BY <2>2, <2>3, <1>6
  <2>5. ASSUME NEW f \in C[i].ci..Len(G), f >= 1 PROVE ~G[f].yp
    <3>1. C[i].ci \in Nat BY <2>1
    <3>2. f \in C[i].ci..Len(F) /\ f \in 1..Len(F) BY <3>1, <2>5, <1>2, <1>4
    <3>3. ~F[f].yp BY <3>2, <2>1, <2>5, <1>3
    <3> QED BY <3>2, <3>3, <1>4
  <2> QED BY <2>1, <2>2, <2>4, <2>5
<1>9. ASSUME NEW p \in 1..Len(G), G[p].yp PROVE LastYp(G, p - 1, G[p].oef)
  <2>1. p \in 1..Len(F) /\ p - 1 \in Nat /\ p - 1 <= Len(F) BY <1>2, <1>4
  <2>2. LastYp(F, p - 1, G[p].oef) BY <2>1, <1>3, <1>4, <1>9
  <2> QED BY <2>1, <2>2, <1>2, LastYpAlike
<1> QED BY <1>0, <1>7, <1>8, <1>9 DEF HandlersOf

LEMMA CoreRethrown ==
  ASSUME NEW T, NEW C, NEW S, NEW D, NEW m \in Nat, NEW t, Core(T, C), Typed(S, D),
         Rethrown(T, C, S, D, m, t)
  PROVE  Core(S, D)
<1>1. Sized(T, C) /\ Sized(S, D) BY TypedSized DEF Core
<1>2. /\ Len(C) = m + 1 /\ Len(D) = m + 1 /\ (\A i \in 1..m : D[i] = C[i])
      /\ D[m + 1].kind = "throw" /\ C[m + 1].kind \in {"raise", "hook"} /\ D[m + 1].th = t
      /\ D[m + 1].ci = C[m + 1].ci /\ C[m + 1].th = t /\ t \in Thread /\ Others(T, S, t)
      /\ Rekinded(C, D, m + 1) /\ Alike(T[t].ci, S[t].ci)
  BY DEF Rethrown, Rekinded
<1>3. Shape(C) /\ Frames(T, C) /\ CountsRight(T, C) /\ ThreadRight(T, C, t) BY <1>2 DEF Core
<1>4. /\ S[t].ncc = T[t].ncc /\ S[t].nny = T[t].nny /\ S[t].errfunc = T[t].errfunc
      /\ S[t].big = T[t].big /\ S[t].status = T[t].status /\ T[t].status # "dead"
      /\ T[t].status = "yield" => C[m + 1].kind = "hook"
  BY DEF Rethrown
<1>5. m >= 1 /\ C[m].th = t
  <2>1. m # 0 BY <1>2, <1>3 DEF Shape, Based
  <2>2. Over(C[m + 1], C[m]) BY <2>1, <1>2, <1>3 DEF Shape
  <2> QED BY <2>1, <2>2, <1>2 DEF Over
<1>6. Len(T[t].ci) \in Nat /\ \A i \in 1..m + 1 : C[i].ci \in Nat BY <1>1, <1>2 DEF Sized
<1>7. Shape(D)
  <2>1. m + 1 \in Nat OBVIOUS
  <2> QED BY <2>1, <1>2, <1>3, ShapeRekinded
<1>8. Frames(S, D)
  <2>1. m + 1 \in Nat OBVIOUS
  <2>2. Frames(T, D) BY <2>1, <1>1, <1>2, <1>3, FramesRekinded
  <2>3. Sized(T, D) BY <1>1 DEF Sized
  <2>4. ASSUME NEW x \in Thread PROVE Alike(T[x].ci, S[x].ci)
    <3>1. CASE x = t BY <3>1, <1>2
    <3>2. CASE x # t
      <4>1. S[x] = T[x] BY <3>2, <1>2 DEF Others
      <4> QED BY <4>1 DEF Alike
    <3> QED BY <3>1, <3>2
  <2> QED BY <2>2, <2>3, <2>4, <1>1, FramesAlike
<1>9. \A i \in m + 1..Len(C) : i = m + 1 BY <1>2
<1>10. CountsRight(S, D)
  <2>1. ASSUME NEW b \in Int, NEW z \in Int, Counts(T, C, t, b, z) PROVE Counts(S, D, t, b, z)
    BY <2>1, RethrownCounts
  <2>2. /\ m \in 1..Len(C) /\ m <= Len(D) /\ \A i \in 1..m : D[i] = C[i]
        /\ \A i \in m + 1..Len(C) : C[i].th = t
        /\ \A i \in m + 1..Len(D) : D[i].th = t
    BY <1>2, <1>5, <1>9
  <2> QED BY <2>1, <2>2, <1>1, <1>2, <1>3, <1>5, <1>7, CountsStep
<1>11. ThreadRight(S, D, t)
  <2>1. HooksOf(T, C, t) /\ BoundOf(T, C, t) /\ YieldsOf(T, C, t) /\ HandlersOf(T, C, t) /\ StatusOf(T, C, t)
    BY <1>3 DEF ThreadRight
  <2>2. HooksOf(S, D, t)
    <3>1. S[t].allowhook <=> NoHook(C, t, m)
      <4>1. IF C[m + 1].kind = "hook" THEN S[t].allowhook ELSE S[t].allowhook = T[t].allowhook
        BY DEF Rethrown
      <4> QED BY <4>1, <2>1, <1>2, <1>4, PoppedHooks
    <3>2. ASSUME NEW i \in 0..m PROVE NoHook(D, t, i) <=> NoHook(C, t, i)
      <4>1. \A k \in 1..i : D[k] = C[k] BY <1>2
      <4> QED BY <4>1 DEF NoHook
    <3>3. NoHook(D, t, m + 1) <=> NoHook(D, t, m) BY <1>2 DEF NoHook
    <3>4. S[t].allowhook <=> NoHook(D, t, Len(D))
      <4>1. m \in 0..m OBVIOUS
      <4> QED BY <4>1, <3>1, <3>2, <3>3, <1>2
    <3>5. ASSUME NEW i \in 1..Len(D), D[i].kind \in {"hook", "pcall"}
          PROVE  i \in 1..Len(C) /\ i - 1 \in 0..m /\ D[i] = C[i]
      <4>1. i # m + 1 BY <3>5, <1>2
      <4>2. i \in 1..m BY <4>1, <1>2
      <4> QED BY <4>2, <1>2
    <3>6. ASSUME NEW i \in 1..Len(D), D[i].th = t, D[i].kind = "hook" PROVE NoHook(D, t, i - 1)
      BY <3>2, <3>5, <3>6, <2>1 DEF HooksOf
    <3>7. ASSUME NEW i \in 1..Len(D), PcallAt(D, t, i) PROVE D[i].allowhook <=> NoHook(D, t, i - 1)
      <4>1. D[i].kind = "pcall" BY <3>7 DEF PcallAt
      <4>2. i \in 1..Len(C) /\ i - 1 \in 0..m /\ D[i] = C[i] BY <4>1, <3>5
      <4>3. PcallAt(C, t, i) BY <4>2, <3>7 DEF PcallAt
      <4> QED BY <4>2, <4>3, <3>2, <2>1 DEF HooksOf
    <3> QED BY <3>4, <3>6, <3>7 DEF HooksOf
  <2>3. BoundOf(S, D, t)
    <3>1. ASSUME NEW i \in 0..m + 1, Handling(C, t, i) PROVE Handling(D, t, i)
      <4>1. PICK j \in 1..i : C[j].th = t /\ C[j].kind \in {"raise", "throw"} BY <3>1 DEF Handling
      <4>2. D[j].th = t /\ D[j].kind \in {"raise", "throw"}
        <5>1. CASE j = m + 1 BY <5>1, <1>2
        <5>2. CASE j # m + 1
          <6>1. j \in 1..m BY <5>2
          <6> QED BY <6>1, <4>1, <1>2
        <5> QED BY <5>1, <5>2
      <4> QED BY <4>2 DEF Handling
    <3>2. \A i \in 1..m + 1 : D[i].ci = C[i].ci /\ D[i].th = C[i].th
      <4>1. \A i \in 1..m + 1 : i \in 1..m \/ i = m + 1 OBVIOUS
      <4> QED BY <4>1, <1>2
    <3>3. Len(S[t].ci) = Len(T[t].ci) BY <1>2 DEF Alike
    <3>4. \A i \in 1..Len(D) : i \in 0..m + 1 /\ i \in 1..m + 1 /\ i \in 1..Len(C) BY <1>2
    <3>5. m + 1 \in 0..m + 1 OBVIOUS
    <3>6. \A i \in 1..Len(D) : D[i].th = t => D[i].ci <= MAXSTACK \/ Handling(D, t, i)
      BY <3>1, <3>2, <3>4, <2>1 DEF BoundOf
    <3>7. IF S[t].big THEN Handling(D, t, Len(D)) ELSE Len(S[t].ci) <= MAXSTACK
      BY <3>1, <3>3, <3>5, <2>1, <1>2, <1>4 DEF BoundOf
    <3> QED BY <3>6, <3>7 DEF BoundOf
  <2>4. YieldsOf(S, D, t) BY <2>1, <1>6, RethrownYields
  <2>5. HandlersOf(S, D, t) BY <2>1, <1>6, RethrownHandlers
  <2>6. StatusOf(S, D, t)
    <3>1. D[Len(D)].th = t /\ D[Len(D)].kind = "throw" BY <1>2
    <3>2. OnCStack(C, t) /\ OnCStack(D, t)
      <4>1. m + 1 \in 1..Len(C) /\ m + 1 \in 1..Len(D) BY <1>2
      <4> QED BY <4>1, <1>2 DEF OnCStack
    <3>3. ASSUME S[t].status = "yield" PROVE Ready(S, t) /\ S[t].nny = 0 /\ S[t].allowhook
      <4>1. Ready(T, t) /\ T[t].nny = 0 BY <3>2, <3>3, <2>1, <1>4 DEF StatusOf
      <4>2. S[t].allowhook BY <3>3, <1>4 DEF Rethrown
      <4>3. Ready(S, t)
        <5> DEFINE F == T[t].ci
                   G == S[t].ci
        <5>0. F = T[t].ci /\ G = S[t].ci OBVIOUS
        <5>1. /\ Len(F) >= 1 /\ ~T[t].big
              /\ \A f \in 1..Len(F) - 1 : Continues(F[f])
              /\ IF F[Len(F)].lua THEN F[Len(F)].op = "none"
                 ELSE F[Len(F)].k # "junk" /\ ~F[Len(F)].yp
          BY <4>1 DEF Ready
        <5>2. Alike(F, G) /\ Len(F) \in Nat BY <1>2, <1>6
        <5> HIDE DEF F, G
        <5>3. Len(G) = Len(F) BY <5>2 DEF Alike
        <5>4. \A f \in 1..Len(G) - 1 : Continues(G[f])
          <6>1. \A f \in 1..Len(G) - 1 : f \in 1..Len(F) BY <5>2, <5>3
          <6> QED BY <6>1, <5>1, <5>2, <5>3 DEF Alike, Continues
        <5>5. IF G[Len(G)].lua THEN G[Len(G)].op = "none"
              ELSE G[Len(G)].k # "junk" /\ ~G[Len(G)].yp
          <6>1. Len(F) \in 1..Len(F) BY <5>1, <5>2
          <6> QED BY <6>1, <5>1, <5>2, <5>3 DEF Alike
        <5>6. Len(G) >= 1 /\ ~S[t].big BY <5>1, <5>3, <1>4
        <5> QED BY <5>0, <5>4, <5>5, <5>6 DEF Ready
      <4> QED BY <4>1, <4>2, <4>3, <1>4
    <3> QED BY <3>1, <3>2, <3>3, <1>4 DEF StatusOf
  <2> QED BY <2>2, <2>3, <2>4, <2>5, <2>6 DEF ThreadRight
<1>12. Common(C, D, m, t)
  <2>1. \A i \in m + 1..Len(D) : i = m + 1 BY <1>2
  <2> QED BY <2>1, <1>2, <1>9 DEF Common
<1>13. C[Len(C)].th = t BY <1>2
<1>14. t \in Thread /\ Others(T, S, t) BY <1>2
<1> QED BY <1>7, <1>8, <1>10, <1>11, <1>12, <1>13, <1>14, CoreStep
\* A thread yields, or is not resumed: only its status changes, or its count when it has
\* no entries.
Restated(T, C, S, t) ==
  /\ t \in Thread /\ Others(T, S, t) /\ S[t].ci = T[t].ci
  /\ S[t].errfunc = T[t].errfunc /\ S[t].allowhook = T[t].allowhook /\ S[t].big = T[t].big
  /\ S[t].nny = T[t].nny /\ T[t].status # "dead" /\ S[t].status # "dead"
  /\ S[t].ncc = T[t].ncc \/ ~OnCStack(C, t)
LEMMA CoreRestated ==
  ASSUME NEW T, NEW C, NEW S, NEW t, Core(T, C), Typed(S, C), Restated(T, C, S, t), StatusOf(S, C, t)
  PROVE  Core(S, C)
<1>1. t \in Thread /\ Others(T, S, t) BY DEF Restated
<1>2. Shape(C) /\ Frames(T, C) /\ CountsRight(T, C) /\ ThreadRight(T, C, t) /\ Typed(T, C)
  BY <1>1 DEF Core
<1>3. Sized(T, C) /\ Sized(S, C) BY <1>2, TypedSized
<1>4. \A x \in Thread : S[x].ci = T[x].ci /\ S[x].nny = T[x].nny BY <1>1 DEF Others, Restated
<1>5. Frames(S, C)
  <2>1. \A x \in Thread : Alike(T[x].ci, S[x].ci) BY <1>4 DEF Alike
  <2> QED BY <2>1, <1>2, <1>3, FramesAlike
<1>6. Len(C) \in Nat /\ Len(C) >= 1 /\ C[1].th = mainthread BY <1>2, <1>3 DEF Shape, Based, Sized
<1>7. \A i \in 1..Len(C) : S[C[i].th].ncc = T[C[i].th].ncc /\ C[i].th \in Thread
  <2>1. TAKE i \in 1..Len(C)
  <2>2. C[i].th \in Thread BY <1>3 DEF Sized
  <2>3. CASE C[i].th = t
    <3>1. OnCStack(C, t) BY <2>3 DEF OnCStack
    <3> QED BY <3>1, <2>2, <2>3 DEF Restated
  <2>4. CASE C[i].th # t BY <2>4, <2>2, <1>1 DEF Others
  <2> QED BY <2>2, <2>3, <2>4
<1>8. ASSUME NEW i \in 1..Len(C), NEW b, NEW z, Counts(T, C, C[i].th, b, z)
      PROVE  Counts(S, C, C[i].th, b, z)
  <2>1. S[C[i].th].ncc = T[C[i].th].ncc /\ S[C[i].th].nny = T[C[i].th].nny BY <1>4, <1>7
  <2> QED BY <2>1, <1>8 DEF Counts
<1>9. CountsRight(S, C)
  <2>1. Counts(S, C, mainthread, 0, 1)
    <3>1. 1 \in 1..Len(C) BY <1>6
    <3>2. Counts(T, C, C[1].th, 0, 1) BY <1>2, <1>6 DEF CountsRight
    <3> QED BY <3>1, <3>2, <1>6, <1>8
  <2>2. \A x \in Thread : OnCStack(C, x) \/ S[x].nny = 1 BY <1>2, <1>4 DEF CountsRight
  <2>3. ASSUME NEW r \in 2..Len(C), C[r].kind = "resume"
        PROVE  /\ C[r].nny = 1 /\ C[r].ncc = S[C[r - 1].th].ncc + 1
               /\ Counts(S, C, C[r].th, C[r].ncc, 0)
    <3>1. r \in 1..Len(C) /\ r - 1 \in 1..Len(C) BY <1>6
    <3>2. /\ C[r].nny = 1 /\ C[r].ncc = T[C[r - 1].th].ncc + 1
          /\ Counts(T, C, C[r].th, C[r].ncc, 0)
      BY <2>3, <1>2 DEF CountsRight
    <3>3. S[C[r - 1].th].ncc = T[C[r - 1].th].ncc BY <3>1, <1>7
    <3> QED BY <3>1, <3>2, <3>3, <1>8
  <2> QED BY <2>1, <2>2, <2>3 DEF CountsRight
<1>10. ThreadRight(S, C, t)
  <2>1. YieldsOf(T, C, t) /\ HandlersOf(T, C, t) /\ HooksOf(T, C, t) /\ BoundOf(T, C, t)
    BY <1>2 DEF ThreadRight
  <2>2. /\ S[t].ci = T[t].ci /\ S[t].errfunc = T[t].errfunc /\ S[t].allowhook = T[t].allowhook
        /\ S[t].big = T[t].big /\ T[t].status # "dead" /\ S[t].status # "dead"
    BY DEF Restated
  <2>3. YieldsOf(S, C, t) BY <2>1, <2>2 DEF YieldsOf
  <2>4. HandlersOf(S, C, t) BY <2>1, <2>2 DEF HandlersOf
  <2>5. HooksOf(S, C, t) BY <2>1, <2>2 DEF HooksOf
  <2>6. BoundOf(S, C, t) BY <2>1, <2>2 DEF BoundOf
  <2> QED BY <2>3, <2>4, <2>5, <2>6 DEF ThreadRight
<1>11. Common(C, C, Len(C), t)
  <2>1. \A i \in Len(C) + 1..Len(C) : C[i].th = t BY <1>6
  <2> QED BY <2>1, <1>6 DEF Common
<1> QED BY <1>1, <1>2, <1>5, <1>9, <1>10, <1>11, CoreStep

\* lua_yieldk, after its jump has been pushed.
Yielding(T, C, S, t) ==
  /\ t \in Thread /\ t = C[Len(C)].th /\ Others(T, S, t) /\ S[t].ci = T[t].ci
  /\ S[t].errfunc = T[t].errfunc /\ S[t].allowhook = T[t].allowhook /\ S[t].big = T[t].big
  /\ S[t].nny = T[t].nny /\ S[t].ncc = T[t].ncc
  /\ T[t].status = "ok" /\ S[t].status = "yield"
  /\ C[Len(C)].kind \in {"hook", "throw"} /\ T[t].nny = 0
  /\ C[Len(C)].kind = "throw" => T[t].allowhook
  /\ Ready(T, t)
LEMMA CoreYielding ==
  ASSUME NEW T, NEW C, NEW S, NEW t, Core(T, C), Typed(S, C), Yielding(T, C, S, t)
  PROVE  Core(S, C)
<1>1. Restated(T, C, S, t) BY DEF Yielding, Restated
<1>2. StatusOf(S, C, t)
  <2>1. /\ S[t].status = "yield" /\ S[t].nny = 0 /\ C[Len(C)].th = t
        /\ C[Len(C)].kind \in {"hook", "throw"}
        /\ C[Len(C)].kind = "throw" => S[t].allowhook
    BY DEF Yielding
  <2>2. Ready(S, t) BY DEF Yielding, Ready
  <2> QED BY <2>1, <2>2 DEF StatusOf
<1> QED BY <1>1, <1>2, CoreRestated

\* lua_resume that finds the C stack full.
LEMMA CoreRefused ==
  ASSUME NEW T, NEW C, NEW S, NEW t \in Thread, Core(T, C), Typed(S, C), Others(T, S, t),
         ~OnCStack(C, t), S[t].ci = T[t].ci,
         S[t].errfunc = T[t].errfunc, S[t].allowhook = T[t].allowhook, S[t].big = T[t].big,
         S[t].nny = T[t].nny, T[t].status # "dead", S[t].status = T[t].status
  PROVE  Core(S, C)
<1>1. Restated(T, C, S, t) BY DEF Restated
<1>2. StatusOf(T, C, t) BY DEF Core, ThreadRight
<1>3. StatusOf(S, C, t)
  <2>1. T[t].status = "yield" => Ready(T, t) BY <1>2 DEF StatusOf
  <2>2. S[t].status = "yield" => Ready(S, t) BY <2>1 DEF Ready
  <2>3. S[t].status = "ok" => S[t].ci = << >> BY <1>2 DEF StatusOf
  <2> QED BY <2>2, <2>3 DEF StatusOf
<1> QED BY <1>1, <1>3, CoreRestated

(***************************************************************************)
(* The thread that runs                                                    *)
(***************************************************************************)
\* The state of the coroutines in which the one that runs has state t.
With(t) == [th EXCEPT ![L] = t]
Good(t, c) == Core(With(t), c) /\ TopRight(With(t), c)
Typical ==
  /\ th \in [Thread -> State] /\ cs \in Seq(CEntry) /\ L \in Thread /\ l \in State
  /\ l.ci \in Seq(Frame) /\ Len(l.ci) \in Nat
Current ==
  /\ Len(cs) \in Nat /\ Len(cs) >= 1 /\ L = cs[Len(cs)].th /\ l = th[L]
  /\ Top(cs) = cs[Len(cs)] /\ Top(cs) \in CEntry /\ cs # << >>
  /\ l.status # "dead" /\ (Top(cs).kind \notin {"hook", "throw"} => l.status = "ok")
  /\ Works(Top(cs), l.ci, Len(l.ci)) /\ (Len(cs) = 1 => Top(cs).kind = "cfun")
LEMMA Running ==
  ASSUME CInv
  PROVE  Typical /\ Current
<1>1. Core(th, cs) /\ Typed(th, cs) /\ Shape(cs) BY DEF CInv, Core
<1>2. th \in [Thread -> State] /\ cs \in Seq(CEntry) BY <1>1 DEF Typed
<1>3. Len(cs) \in Nat /\ Len(cs) >= 1 /\ (Len(cs) = 1 => cs[Len(cs)].kind = "cfun")
  BY <1>1, <1>2 DEF Shape, Based
<1>4. Top(cs) = cs[Len(cs)] /\ Top(cs) \in CEntry /\ cs # << >>
  <2>1. Len(cs) \in 1..Len(cs) BY <1>3
  <2> QED BY <2>1, <1>2, <1>3 DEF Top
<1>5. L \in Thread /\ L = cs[Len(cs)].th BY <1>4 DEF L, CEntry
<1>6. l = th[L] /\ l \in State BY <1>2, <1>5 DEF l
<1>7. l.ci \in Seq(Frame) /\ Len(l.ci) \in Nat BY <1>6 DEF State
<1>8. OnCStack(cs, L)
  <2>1. Len(cs) \in 1..Len(cs) BY <1>3
  <2> QED BY <2>1, <1>5 DEF OnCStack
<1>9. StatusOf(th, cs, L) BY <1>1, <1>5 DEF Core, ThreadRight
<1>10. l.status # "dead" /\ (Top(cs).kind \notin {"hook", "throw"} => l.status = "ok")
  <2>1. l.status \in {"ok", "yield", "dead"} BY <1>6 DEF State
  <2> QED BY <2>1, <1>4, <1>6, <1>8, <1>9 DEF StatusOf
<1>11. Works(Top(cs), l.ci, Len(l.ci))
  <2>1. Len(cs) \in 1..Len(cs) BY <1>3
  <2>2. Framed(th, cs, Len(cs)) BY <2>1, <1>1 DEF Core, Frames
  <2>3. Height(th, cs, Len(cs)) = Len(l.ci) BY <1>3, <1>5, <1>6 DEF Height
  <2> QED BY <2>2, <2>3, <1>4, <1>5, <1>6 DEF Framed
<1> QED BY <1>2, <1>3, <1>4, <1>5, <1>6, <1>7, <1>10, <1>11 DEF Typical, Current

LEMMA WithRight ==
  ASSUME Typical, NEW t \in State
  PROVE  /\ With(t)[L] = t /\ With(t) \in [Thread -> State] /\ Others(th, With(t), L)
         /\ \A u \in State : Others(With(u), With(t), L)
<1>1. th \in [Thread -> State] /\ L \in Thread BY DEF Typical
<1>2. ASSUME NEW u \in State PROVE Others(With(u), With(t), L) BY <1>1 DEF With, Others
<1> QED BY <1>1, <1>2 DEF With, Others
LEMMA WithTyped ==
  ASSUME Typical, NEW t \in State, NEW c \in Seq(CEntry)
  PROVE  Typed(With(t), c)
BY WithRight DEF Typed
LEMMA WithMine ==
  ASSUME Typical
  PROVE  With(l) = th
BY DEF With, l, Typical

LEMMA Becoming ==
  ASSUME NEW t, NEW c, Becomes(t, c), Good(t, c)
  PROVE  CInv'
<1>1. th' = With(t) /\ cs' = c BY DEF Becomes, With
<1> QED BY <1>1 DEF CInv, Good, Core, TopRight

\* Entries on top of the ones there are.
LEMMA AppendAdds ==
  ASSUME NEW c \in Seq(CEntry), NEW f \in CEntry
  PROVE  Append(c, f) \in Seq(CEntry) /\ Added(c, Append(c, f), Len(c), f) /\ Len(c) \in Nat
<1>1. Len(Append(c, f)) = Len(c) + 1 /\ Append(c, f)[Len(c) + 1] = f /\ Len(c) \in Nat OBVIOUS
<1>2. \A i \in 1..Len(c) : Append(c, f)[i] = c[i] OBVIOUS
<1> QED BY <1>1, <1>2 DEF Added
LEMMA PopKeeps ==
  ASSUME NEW c \in Seq(CEntry), Len(c) >= 2
  PROVE  Pop(c) \in Seq(CEntry) /\ Kept(c, Pop(c), Len(c) - 1) /\ Len(c) - 1 \in Nat
<1>1. Len(c) \in Nat OBVIOUS
<1>2. Pop(c) \in Seq(CEntry) /\ Len(Pop(c)) = Len(c) - 1 BY <1>1 DEF Pop
<1>3. \A i \in 1..Len(c) - 1 : Pop(c)[i] = c[i] BY <1>1 DEF Pop
<1> QED BY <1>1, <1>2, <1>3 DEF Kept
LEMMA SetTopSets ==
  ASSUME NEW X, NEW s \in Seq(X), Len(s) >= 1, NEW x \in X
  PROVE  /\ SetTop(s, x) \in Seq(X) /\ Len(SetTop(s, x)) = Len(s) /\ SetTop(s, x)[Len(s)] = x
         /\ Top(SetTop(s, x)) = x
         /\ \A i \in 1..Len(s) - 1 : SetTop(s, x)[i] = s[i]
<1>1. Len(s) \in Nat /\ Len(s) \in 1..Len(s) OBVIOUS
<1> QED BY <1>1 DEF SetTop, Top

\* An entry f that works on the last frame: an error, or a protected call.
LEMMA GoodFails ==
  ASSUME CallAssumption, Typical, NEW t \in State, NEW u \in State, NEW c \in Seq(CEntry),
         Len(c) >= 2, c[Len(c)].th = L, c[Len(c)].kind \in {"exec", "cfun", "hook", "pcall", "throw"},
         Core(With(t), c), t.status = "ok", NEW f \in CEntry,
         f.kind \in {"raise", "throw"}, f.th = L, f.ci = Len(t.ci), ~f.yp,
         c[Len(c)].kind \in {"pcall", "throw"} => f.ny,
         u.ci = t.ci, u.status = "ok", u.errfunc = t.errfunc, u.allowhook = t.allowhook,
         t.big => u.big, CountedUp(t, u, f)
  PROVE  Good(u, Append(c, f))
<1> DEFINE D == Append(c, f)
           T == With(t)
           S == With(u)
<1>1. D \in Seq(CEntry) /\ Added(c, D, Len(c), f) /\ Len(c) \in Nat BY AppendAdds
<1>2. T[L] = t /\ S[L] = u /\ Others(T, S, L) BY WithRight
<1>3. Typed(S, D) BY <1>1, WithTyped
<1>4. L \in Thread BY DEF Typical
<1>5. Len(t.ci) \in Nat /\ t.big \in BOOLEAN /\ u.big \in BOOLEAN BY DEF State
<1>6. Shape(c) /\ Frames(T, c) /\ ThreadRight(T, c, L) BY <1>4 DEF Core
<1> HIDE DEF D, T, S
<1>7. Runs(T, c, L) BY <1>2, <1>4 DEF Runs
<1>8. ~t.big => Len(t.ci) <= MAXSTACK BY <1>2, <1>6 DEF ThreadRight, BoundOf
<1>9. c[Len(c)].kind = "cfun" => Marks(c[Len(c)], t.ci, f) BY DEF Marks
<1>10. Pushed(T, c, S, D, L, f)
  <2>1. Over(f, c[Len(c)]) BY DEF Over
  <2>2. Holds(f) BY DEF Holds, Kinds
  <2>3. Works(f, u.ci, Len(u.ci)) BY <1>5 DEF Works
  <2>4. Marks(c[Len(c)], t.ci, f) BY DEF Marks
  <2>5. FrameAdded(t.ci, u.ci, c[Len(c)], f) BY <2>3, <2>4 DEF FrameAdded, Owns
  <2>6. HookAdded(t, u, f) BY DEF HookAdded
  <2>7. BoundAdded(t, u, f) BY <1>8 DEF BoundAdded
  <2>8. YieldAdded(t.ci, u.ci, c[Len(c)], f) BY <1>5 DEF YieldAdded
  <2>9. HandlerAdded(t, u, f) BY <1>5 DEF HandlerAdded
  <2> QED BY <1>1, <1>2, <2>1, <2>2, <2>5, <2>6, <2>7, <2>8, <2>9 DEF Pushed
<1>11. Core(S, D) BY <1>3, <1>7, <1>10, CorePushed DEF T
<1>12. TopRight(S, D)
  <2>1. D[Len(D)] = f BY <1>1 DEF Added
  <2> QED BY <2>1 DEF TopRight
<1> QED BY <1>11, <1>12 DEF Good, S, D

\* What luaD_call of a function may be on top of, with the state t of its caller.
Enters(t, e, ny, yp) ==
  /\ e.th = L /\ t.status = "ok"
  /\ e.kind \in {"exec", "cfun", "hook", "pcall", "throw"}
  /\ yp => e.kind = "cfun"
  /\ e.kind \in {"pcall", "throw", "hook"} => ny
  /\ e.kind = "cfun" => (yp <=> t.ci[e.ci].yp) /\ (ny \/ Continues(t.ci[e.ci]))
LEMMA GoodCalled ==
  ASSUME CallAssumption, Typical, NEW t \in State, NEW u \in State, NEW c \in Seq(CEntry),
         NEW f \in CEntry, NEW x \in Frame,
         Len(c) >= 2, Enters(t, c[Len(c)], f.ny, f.yp), Core(With(t), c), ~Grows(t),
         f.th = L, f.ci = Len(t.ci) + 1, ~x.yp, x.op = "none",
         \/ f.kind = "exec" /\ x.lua /\ x.fresh
         \/ f.kind = "cfun" /\ ~x.lua,
         u.ci = Append(t.ci, x), u.status = "ok", u.errfunc = t.errfunc, u.allowhook = t.allowhook,
         u.big = t.big, CountedUp(t, u, f)
  PROVE  Good(u, Append(c, f))
<1> DEFINE D == Append(c, f)
           T == With(t)
           S == With(u)
<1>1. D \in Seq(CEntry) /\ Added(c, D, Len(c), f) /\ Len(c) \in Nat BY AppendAdds
<1>2. T[L] = t /\ S[L] = u /\ Others(T, S, L) BY WithRight
<1>3. Typed(S, D) BY <1>1, WithTyped
<1>4. L \in Thread BY DEF Typical
<1>5. t.ci \in Seq(Frame) /\ Len(t.ci) \in Nat /\ t.big \in BOOLEAN BY DEF State
<1>6. /\ Len(u.ci) = Len(t.ci) + 1 /\ u.ci[Len(t.ci) + 1] = x
      /\ \A i \in 1..Len(t.ci) : u.ci[i] = t.ci[i]
  BY <1>5
<1>7. c[Len(c)].th = L /\ t.status = "ok" /\ c[Len(c)].kind \in {"exec", "cfun", "hook", "pcall", "throw"}
  BY DEF Enters
<1> HIDE DEF D, T, S
<1>8. Runs(T, c, L) BY <1>2, <1>4, <1>7 DEF Runs
<1>9. MAXSTACK \in Nat /\ (~t.big => Len(u.ci) <= MAXSTACK) BY <1>5, <1>6 DEF Grows, CallAssumption
<1>10. \A i \in Len(t.ci) + 1..Len(u.ci) : i = Len(t.ci) + 1 BY <1>5, <1>6
<1>11. Pushed(T, c, S, D, L, f)
  <2>1. Over(f, c[Len(c)]) BY DEF Over, Enters
  <2>2. Holds(f) BY DEF Holds, Kinds
  <2>3. Works(f, u.ci, Len(u.ci))
    <3>1. \A i \in f.ci..Len(u.ci) : i = Len(t.ci) + 1 BY <1>5, <1>6
    <3> QED BY <3>1, <1>5, <1>6 DEF Works
  <2>4. Marks(c[Len(c)], t.ci, f) BY DEF Marks, Enters
  <2>5. FrameAdded(t.ci, u.ci, c[Len(c)], f) BY <2>3, <2>4, <1>5, <1>6, <1>7 DEF FrameAdded, Owns
  <2>6. HookAdded(t, u, f) BY DEF HookAdded
  <2>7. BoundAdded(t, u, f) BY <1>6, <1>9 DEF BoundAdded
  <2>8. YieldAdded(t.ci, u.ci, c[Len(c)], f)
    <3>1. c[Len(c)].kind \in {"cfun", "ret"} => f.ny \/ Continues(t.ci[c[Len(c)].ci]) BY DEF Enters
    <3> QED BY <3>1, <1>5, <1>6, <1>10 DEF YieldAdded
  <2>9. HandlerAdded(t, u, f) BY <1>5, <1>6, <1>10 DEF HandlerAdded
  <2>10. f.kind # "resume" /\ f.th = L /\ (Len(c) = 1 => f.kind = "pcall") /\ u.status = "ok"
    OBVIOUS
  <2>11. CountedUp(T[L], S[L], f) BY <1>2
  <2> QED BY <1>1, <1>2, <2>1, <2>2, <2>5, <2>6, <2>7, <2>8, <2>9, <2>10, <2>11 DEF Pushed
<1>12. Core(S, D) BY <1>3, <1>8, <1>11, CorePushed DEF T
<1>13. TopRight(S, D)
  <2>1. D[Len(D)] = f /\ S[f.th].ci[f.ci] = x /\ Len(S[f.th].ci) = f.ci
    BY <1>1, <1>2, <1>6 DEF Added
  <2> QED BY <2>1 DEF TopRight
<1> QED BY <1>12, <1>13 DEF Good, S, D

LEMMA EntryRight ==
  ASSUME NEW kind \in Kinds, NEW t \in Thread
  PROVE  /\ Entry(kind, t) \in CEntry /\ Entry(kind, t).kind = kind /\ Entry(kind, t).th = t
         /\ Plain(Entry(kind, t))
<1>1. NoHandler \in Handlers BY DEF Handlers
<1> QED BY <1>1 DEF Entry, CEntry, Plain
LEMMA HereRight ==
  ASSUME Typical, NEW kind \in Kinds
  PROVE  /\ Here(kind) \in CEntry /\ Here(kind).kind = kind /\ Here(kind).th = L
         /\ Here(kind).ci = Len(l.ci)
         /\ ~Here(kind).counted /\ ~Here(kind).ny /\ ~Here(kind).yp
<1>1. L \in Thread /\ Len(l.ci) \in Nat BY DEF Typical
<1>2. /\ Entry(kind, L) \in CEntry /\ Entry(kind, L).kind = kind /\ Entry(kind, L).th = L
      /\ Plain(Entry(kind, L))
  BY <1>1, EntryRight
<1> QED BY <1>1, <1>2 DEF Here, CEntry, Plain
LEMMA LuaFrameRight ==
  ASSUME NEW fresh \in BOOLEAN
  PROVE  /\ LuaFrame(fresh) \in Frame /\ LuaFrame(fresh).lua /\ LuaFrame(fresh).fresh = fresh
         /\ LuaFrame(fresh).op = "none" /\ LuaFrame(fresh).k = "none"
         /\ ~LuaFrame(fresh).yp /\ ~LuaFrame(fresh).hookyield
<1>1. NoHandler \in Handlers BY DEF Handlers
<1> QED BY <1>1 DEF LuaFrame, Frame
LEMMA CFrameRight ==
  CFrame \in Frame /\ ~CFrame.lua /\ CFrame.op = "none" /\ CFrame.k = "junk" /\ ~CFrame.yp
BY LuaFrameRight DEF CFrame, Frame
LEMMA EnterRight ==
  ASSUME CallAssumption, Typical, NEW t \in State, NEW c \in Seq(CEntry),
         NEW lua \in BOOLEAN, NEW counted \in BOOLEAN, NEW ny \in BOOLEAN, NEW yp \in BOOLEAN,
         Len(c) >= 2, Enters(t, c[Len(c)], ny, yp), Core(With(t), c), Len(t.ci) = Len(l.ci),
         Enter(t, c, lua, counted, ny, yp)
  PROVE  CInv'
<1> DEFINE called == [t EXCEPT !.ncc = @ + (IF counted THEN 1 ELSE 0),
                               !.nny = @ + (IF ny THEN 1 ELSE 0)]
           fails(kind) == [Here(kind) EXCEPT !.counted = counted, !.ny = ny]
           x == IF lua THEN LuaFrame(TRUE) ELSE CFrame
           f == [Entry(IF lua THEN "exec" ELSE "cfun", L) EXCEPT
                   !.ci = Len(t.ci) + 1, !.counted = counted, !.ny = ny, !.yp = yp]
<1>1. L \in Thread /\ Len(t.ci) \in Nat /\ NoHandler \in Handlers BY DEF Typical, State, Handlers
<1>2. /\ called \in State /\ called.ci = t.ci /\ called.status = t.status
      /\ called.errfunc = t.errfunc /\ called.allowhook = t.allowhook /\ called.big = t.big
      /\ called.ncc = (IF counted THEN t.ncc + 1 ELSE t.ncc)
      /\ called.nny = (IF ny THEN t.nny + 1 ELSE t.nny)
  <2>1. t.ncc \in Int /\ t.nny \in Int BY DEF State
  <2>2. t.ncc + (IF counted THEN 1 ELSE 0) \in Int /\ t.nny + (IF ny THEN 1 ELSE 0) \in Int
    BY <2>1
  <2>3. called \in State BY <2>2 DEF State
  <2>4. /\ called.ci = t.ci /\ called.status = t.status
        /\ called.errfunc = t.errfunc /\ called.allowhook = t.allowhook /\ called.big = t.big
    BY DEF State
  <2>5. /\ called.ncc = t.ncc + (IF counted THEN 1 ELSE 0)
        /\ called.nny = t.nny + (IF ny THEN 1 ELSE 0)
    BY DEF State
  <2> HIDE DEF called
  <2> QED BY <2>1, <2>3, <2>4, <2>5
<1>3. ASSUME NEW kind \in {"raise", "throw"}
      PROVE  /\ fails(kind) \in CEntry /\ fails(kind).kind = kind /\ fails(kind).th = L
             /\ fails(kind).ci = Len(t.ci) /\ fails(kind).counted = counted /\ fails(kind).ny = ny
             /\ ~fails(kind).yp
  <2>1. kind \in Kinds BY DEF Kinds
  <2>2. /\ Here(kind) \in CEntry /\ Here(kind).kind = kind /\ Here(kind).th = L
        /\ Here(kind).ci = Len(l.ci) /\ ~Here(kind).yp
    BY <2>1, HereRight
  <2> QED BY <2>2 DEF CEntry
<1>4. x \in Frame /\ ~x.yp /\ x.op = "none" /\ (IF lua THEN x.lua /\ x.fresh ELSE ~x.lua)
  BY LuaFrameRight, CFrameRight
<1>5. /\ f \in CEntry /\ f.kind = (IF lua THEN "exec" ELSE "cfun") /\ f.th = L
      /\ f.ci = Len(t.ci) + 1 /\ f.counted = counted /\ f.ny = ny /\ f.yp = yp
  <2> DEFINE kind == IF lua THEN "exec" ELSE "cfun"
  <2>1. kind \in Kinds BY DEF Kinds
  <2>2. Entry(kind, L) \in CEntry /\ Entry(kind, L).kind = kind /\ Entry(kind, L).th = L
    BY <2>1, <1>1, EntryRight
  <2>3. Len(t.ci) + 1 \in Nat BY <1>1
  <2> HIDE DEF kind
  <2>4. f = [Entry(kind, L) EXCEPT !.ci = Len(t.ci) + 1, !.counted = counted, !.ny = ny, !.yp = yp]
    BY DEF kind
  <2>5. f \in CEntry /\ f.kind = kind /\ f.th = L
        /\ f.ci = Len(t.ci) + 1 /\ f.counted = counted /\ f.ny = ny /\ f.yp = yp
    BY <2>2, <2>3, <2>4 DEF CEntry
  <2> QED BY <2>5 DEF kind
<1>6. c[Len(c)].th = L /\ t.status = "ok"
      /\ c[Len(c)].kind \in {"exec", "cfun", "hook", "pcall", "throw"}
      /\ (c[Len(c)].kind \in {"pcall", "throw"} => ny)
  BY DEF Enters
<1>7. \/ \E kind \in {"raise", "throw"}, big \in BOOLEAN :
           (t.big => big) /\ Becomes([called EXCEPT !.big = big], Append(c, fails(kind)))
      \/ ~Grows(called) /\ Becomes(Push(called, x), Append(c, f))
  <2>1. Becomes(called, Append(c, fails("raise")))
          \/ Becomes(called, Append(c, fails("throw")))
          \/ Becomes([called EXCEPT !.big = TRUE], Append(c, fails("raise")))
          \/ (~Grows(called) /\ Becomes(Push(called, x), Append(c, f)))
    BY DEF Enter
  <2>2. called = [called EXCEPT !.big = t.big] /\ t.big \in BOOLEAN BY <1>2 DEF State
  <2> HIDE DEF called, fails, x, f
  <2> QED BY <2>1, <2>2
<1> HIDE DEF called, fails, x, f
<1>8. ASSUME NEW kind \in {"raise", "throw"}, NEW big \in BOOLEAN, t.big => big,
             Becomes([called EXCEPT !.big = big], Append(c, fails(kind)))
      PROVE  CInv'
  <2> DEFINE u == [called EXCEPT !.big = big]
  <2>1. u \in State /\ u.ci = t.ci /\ u.status = t.status /\ u.errfunc = t.errfunc
        /\ u.allowhook = t.allowhook /\ u.big = big /\ u.ncc = called.ncc /\ u.nny = called.nny
    BY <1>2 DEF State
  <2> HIDE DEF u
  <2>2. CountedUp(t, u, fails(kind)) BY <2>1, <1>2, <1>3 DEF CountedUp
  <2>3. Good(u, Append(c, fails(kind))) BY <2>1, <2>2, <1>3, <1>6, <1>8, GoodFails
  <2> QED BY <2>3, <1>8, Becoming DEF u
<1>9. ASSUME ~Grows(called), Becomes(Push(called, x), Append(c, f)) PROVE CInv'
  <2> DEFINE u == Push(called, x)
  <2>1. u \in State /\ u.ci = Append(t.ci, x) /\ u.status = t.status /\ u.errfunc = t.errfunc
        /\ u.allowhook = t.allowhook /\ u.big = t.big /\ u.ncc = called.ncc /\ u.nny = called.nny
    <3>1. Append(called.ci, x) \in Seq(Frame) BY <1>2, <1>4 DEF State
    <3>2. u = [called EXCEPT !.ci = Append(called.ci, x)] BY DEF Push
    <3> HIDE DEF u
    <3>3. u \in State /\ u.ci = Append(called.ci, x) /\ u.status = called.status
          /\ u.errfunc = called.errfunc /\ u.allowhook = called.allowhook /\ u.big = called.big
          /\ u.ncc = called.ncc /\ u.nny = called.nny
      BY <3>1, <3>2, <1>2 DEF State
    <3> QED BY <3>3, <1>2
  <2> HIDE DEF u
  <2>2. CountedUp(t, u, f) BY <2>1, <1>2, <1>5 DEF CountedUp
  <2>3. ~Grows(t) BY <1>2, <1>9 DEF Grows
  <2>4. Enters(t, c[Len(c)], f.ny, f.yp) BY <1>5
  <2>5. \/ f.kind = "exec" /\ x.lua /\ x.fresh
        \/ f.kind = "cfun" /\ ~x.lua
    BY <1>4, <1>5
  <2>6. Good(u, Append(c, f)) BY <2>1, <2>2, <2>3, <2>4, <2>5, <1>4, <1>5, <1>6, GoodCalled
  <2> QED BY <2>6, <1>9, Becoming DEF u
<1> QED BY <1>7, <1>8, <1>9

(***************************************************************************)
(* Calls and returns                                                       *)
(***************************************************************************)
\* The frame in which it runs.
LEMMA TopFrame ==
  ASSUME CInv
  PROVE  /\ Len(l.ci) >= 1 => ci = l.ci[Len(l.ci)] /\ ci \in Frame
         /\ Executes => /\ Len(cs) >= 2 /\ l.status = "ok" /\ Len(l.ci) >= 1
                        /\ ci.lua /\ ci.op = "none" /\ ~ci.yp /\ Top(cs).ci \in 1..Len(l.ci)
         /\ At("cfun") => /\ l.status = "ok" /\ Len(l.ci) >= 1 /\ ~ci.lua /\ ~ci.yp
                          /\ Top(cs).ci = Len(l.ci)
         /\ At("hook") => /\ Len(cs) >= 2 /\ Len(l.ci) >= 1 /\ ci.lua /\ ci.op = "none" /\ ~ci.yp
                          /\ Top(cs).ci = Len(l.ci)
         /\ \A f \in 1..Len(l.ci) : l.ci[f].yp => ~l.ci[f].lua
<1>1. Typical /\ Current BY Running
<1>2. Len(l.ci) >= 1 => ci = l.ci[Len(l.ci)] /\ ci \in Frame
  <2>1. l.ci \in Seq(Frame) /\ Len(l.ci) \in Nat BY <1>1 DEF Typical
  <2> QED BY <2>1 DEF ci, Top
<1>3. \A f \in 1..Len(l.ci) : l.ci[f].yp => ~l.ci[f].lua
  <2>1. L \in Thread /\ l = th[L] BY <1>1 DEF Typical, Current
  <2>2. YieldsOf(th, cs, L) BY <2>1 DEF CInv, Core, ThreadRight
  <2> QED BY <2>1, <2>2 DEF YieldsOf
<1>4. /\ Top(cs) = cs[Len(cs)] /\ L = Top(cs).th /\ l = th[L] /\ Len(cs) \in Nat /\ Len(cs) >= 1
      /\ Works(Top(cs), l.ci, Len(l.ci)) /\ (Len(cs) = 1 => Top(cs).kind = "cfun")
      /\ Len(l.ci) \in Nat /\ (Top(cs).kind \notin {"hook", "throw"} => l.status = "ok")
  BY <1>1 DEF Current, Typical
<1>5. TopRight(th, cs) BY DEF CInv
<1>11. Top(cs).kind # "cfun" => Len(cs) >= 2
  <2>1. Len(cs) \in Nat /\ Len(cs) >= 1 /\ (Len(cs) = 1 => Top(cs).kind = "cfun") BY <1>1 DEF Current
  <2>2. CASE Len(cs) = 1 BY <2>1, <2>2
  <2>3. CASE Len(cs) # 1
    <3>1. Len(cs) \in Nat /\ Len(cs) >= 1 BY <2>1
    <3>2. Len(cs) >= 2 BY <3>1, <2>3
    <3> QED BY <3>2
  <2> QED BY <2>2, <2>3
<1>6. /\ Top(cs).kind = "exec" => l.ci[Len(l.ci)].op = "none"
      /\ Top(cs).kind = "cfun" => ~l.ci[Top(cs).ci].yp
  BY <1>4, <1>5 DEF TopRight
<1>7. ASSUME Len(l.ci) >= 1 PROVE Len(l.ci) \in 1..Len(l.ci) BY <1>4, <1>7
<1>8. ASSUME Executes
      PROVE  /\ Len(cs) >= 2 /\ l.status = "ok" /\ Len(l.ci) >= 1
             /\ ci.lua /\ ci.op = "none" /\ ~ci.yp /\ Top(cs).ci \in 1..Len(l.ci)
  <2>1. Top(cs).kind = "exec" BY <1>8 DEF Executes, At
  <2>2. Top(cs).ci \in 1..Len(l.ci) BY <2>1, <1>4 DEF Works
  <2>3. \A f \in Top(cs).ci..Len(l.ci) : l.ci[f].lua BY <2>1, <1>4 DEF Works
  <2>4. Len(l.ci) >= 1 /\ Len(l.ci) \in Top(cs).ci..Len(l.ci) BY <2>2, <1>4
  <2>5. l.ci[Len(l.ci)].lua BY <2>3, <2>4
  <2>6. ci = l.ci[Len(l.ci)] BY <2>4, <1>2
  <2>7. ~l.ci[Len(l.ci)].yp BY <2>4, <2>5, <1>3, <1>7
  <2>8. Len(cs) >= 2 /\ l.status = "ok" BY <2>1, <1>4, <1>11
  <2>9. l.ci[Len(l.ci)].op = "none" BY <2>1, <1>6
  <2> QED BY <2>2, <2>4, <2>5, <2>6, <2>7, <2>8, <2>9
<1>9. ASSUME At("cfun")
      PROVE  l.status = "ok" /\ Len(l.ci) >= 1 /\ ~ci.lua /\ ~ci.yp /\ Top(cs).ci = Len(l.ci)
  <2>1. Top(cs).kind = "cfun" BY <1>9 DEF At
  <2>2. Top(cs).ci = Len(l.ci) /\ Len(l.ci) >= 1 /\ ~l.ci[Len(l.ci)].lua BY <2>1, <1>4 DEF Works
  <2> QED BY <2>1, <2>2, <1>2, <1>4, <1>6
<1>10. ASSUME At("hook")
       PROVE  /\ Len(cs) >= 2 /\ Len(l.ci) >= 1 /\ ci.lua /\ ci.op = "none" /\ ~ci.yp
              /\ Top(cs).ci = Len(l.ci)
  <2>1. Top(cs).kind = "hook" BY <1>10 DEF At
  <2>2. Top(cs).ci = Len(l.ci) /\ Len(l.ci) >= 1 /\ l.ci[Len(l.ci)].lua /\ l.ci[Len(l.ci)].op = "none"
    BY <2>1, <1>4 DEF Works
  <2>3. ci = l.ci[Len(l.ci)] BY <2>2, <1>2
  <2>4. ~l.ci[Len(l.ci)].yp BY <2>2, <1>3, <1>7
  <2>5. Len(cs) >= 2 BY <2>1, <1>11
  <2> QED BY <2>2, <2>3, <2>4, <2>5
<1> QED BY <1>2, <1>3, <1>8, <1>9, <1>10

\* The frames of the state u of what runs differ from q on.
Retouched(u, q) ==
  /\ Same(l, u) /\ Changed(l.ci, u.ci, q)
  /\ Top(cs).kind \in {"exec", "cfun", "unroll"} /\ Top(cs).ci <= q
  /\ Works(Top(cs), u.ci, Len(u.ci))
  /\ Len(u.ci) <= Len(l.ci) \/ ~Grows(l)
  /\ \A f \in q..Len(u.ci) : u.ci[f].lua \/ (Top(cs).kind = "cfun" /\ Top(cs).ci = f)
  /\ Len(u.ci) <= Len(l.ci) + 1
LEMMA CoreRetouched ==
  ASSUME CallAssumption, CInv, NEW u \in State, NEW q, Retouched(u, q)
  PROVE  Core(With(u), cs)
<1>1. Typical /\ Current BY Running
<1>2. With(u)[L] = u /\ Others(th, With(u), L) BY <1>1, WithRight
<1>3. Typed(With(u), cs) BY <1>1, WithTyped DEF Typical
<1>4. l = th[L] /\ Top(cs) = cs[Len(cs)] BY <1>1 DEF Current
<1>5. Tweaked(th, cs, With(u), L, q) BY <1>2, <1>4 DEF Retouched, Tweaked
<1>6. Runs(th, cs, L)
  <2>1. l.status = "ok" BY <1>1 DEF Retouched, Current
  <2> QED BY <2>1, <1>1 DEF Current, Typical, Runs
<1>7. Core(th, cs) BY DEF CInv
<1> QED BY <1>3, <1>5, <1>6, <1>7, CoreTweaked

\* Only the last frame changes.
TopSet(s, r, x) ==
  /\ r = SetTop(s, x) /\ Len(r) = Len(s) /\ r[Len(s)] = x /\ (\A i \in 1..Len(s) - 1 : r[i] = s[i])
  /\ Top(r) = x
LEMMA TopTouched ==
  ASSUME CallAssumption, CInv, Executes \/ At("cfun"), NEW x \in Frame,
         x.lua = ci.lua, x.fresh = ci.fresh, ~x.yp,
         NEW u, u = [l EXCEPT !.ci = SetTop(@, x)]
  PROVE  /\ u \in State /\ Same(l, u) /\ u.fun = l.fun /\ TopSet(l.ci, u.ci, x)
         /\ Core(With(u), cs)
<1>1. Typical /\ Current BY Running
<1>2. Len(l.ci) >= 1 /\ ci = l.ci[Len(l.ci)] /\ l.status = "ok" /\ ~ci.yp BY TopFrame
<1>3. l \in State /\ l.ci \in Seq(Frame) /\ Len(l.ci) \in Nat BY <1>1 DEF Typical
<1>4. SetTop(l.ci, x) \in Seq(Frame) /\ TopSet(l.ci, SetTop(l.ci, x), x)
  <2>1. /\ SetTop(l.ci, x) \in Seq(Frame) /\ Len(SetTop(l.ci, x)) = Len(l.ci)
        /\ SetTop(l.ci, x)[Len(l.ci)] = x /\ Top(SetTop(l.ci, x)) = x
        /\ \A i \in 1..Len(l.ci) - 1 : SetTop(l.ci, x)[i] = l.ci[i]
    <3> DEFINE s == l.ci
    <3>1. s \in Seq(Frame) /\ Len(s) >= 1 /\ x \in Frame BY <1>2, <1>3
    <3> HIDE DEF s
    <3>2. /\ SetTop(s, x) \in Seq(Frame) /\ Len(SetTop(s, x)) = Len(s)
          /\ SetTop(s, x)[Len(s)] = x /\ Top(SetTop(s, x)) = x
          /\ \A i \in 1..Len(s) - 1 : SetTop(s, x)[i] = s[i]
      BY <3>1, SetTopSets
    <3> QED BY <3>2 DEF s
  <2> QED BY <2>1 DEF TopSet
<1>5. u \in State /\ Same(l, u) /\ u.fun = l.fun /\ u.ci = SetTop(l.ci, x)
  BY <1>2, <1>3, <1>4 DEF State, Same
<1>6. TopSet(l.ci, u.ci, x) BY <1>4, <1>5
<1>7. /\ Len(u.ci) = Len(l.ci) /\ u.ci[Len(l.ci)] = x
      /\ \A i \in 1..Len(l.ci) - 1 : u.ci[i] = l.ci[i]
  BY <1>6 DEF TopSet
<1>8. \A i \in Len(l.ci)..Len(l.ci) : i = Len(l.ci) BY <1>3
<1>9. Changed(l.ci, u.ci, Len(l.ci)) BY <1>2, <1>3, <1>7, <1>8 DEF Changed
<1>10. Works(Top(cs), u.ci, Len(u.ci))
  <2>1. Works(Top(cs), l.ci, Len(l.ci)) BY <1>1 DEF Current
  <2>2. CASE Executes
    <3>1. Top(cs).kind = "exec" BY <2>2 DEF Executes, At
    <3>2. \A f \in Top(cs).ci..Len(l.ci) : u.ci[f].lua = l.ci[f].lua /\ u.ci[f].fresh = l.ci[f].fresh
      <4>1. TAKE f \in Top(cs).ci..Len(l.ci)
      <4>2. Top(cs).ci \in 1..Len(l.ci) BY <2>1, <3>1 DEF Works
      <4>3. f = Len(l.ci) \/ f \in 1..Len(l.ci) - 1 BY <4>1, <4>2, <1>3
      <4> QED BY <4>3, <1>2, <1>7
    <3> QED BY <2>1, <3>1, <3>2, <1>7 DEF Works
  <2>3. CASE At("cfun")
    <3>1. Top(cs).kind = "cfun" BY <2>3 DEF At
    <3> QED BY <2>1, <3>1, <1>2, <1>7 DEF Works
  <2> QED BY <2>2, <2>3
<1>11. Retouched(u, Len(l.ci))
  <2>1. \/ Top(cs).kind = "exec" /\ Top(cs).ci \in 1..Len(l.ci) /\ ci.lua
        \/ Top(cs).kind = "cfun" /\ Top(cs).ci = Len(l.ci)
    <3>1. CASE Executes BY <3>1, TopFrame DEF Executes, At
    <3>2. CASE At("cfun") BY <3>2, TopFrame DEF At
    <3> QED BY <3>1, <3>2
  <2>2. \A f \in Len(l.ci)..Len(u.ci) : u.ci[f].lua \/ (Top(cs).kind = "cfun" /\ Top(cs).ci = f)
    BY <2>1, <1>2, <1>7, <1>8
  <2> QED BY <2>1, <2>2, <1>3, <1>5, <1>7, <1>9, <1>10 DEF Retouched
<1>12. Core(With(u), cs) BY <1>5, <1>11, CoreRetouched
<1> QED BY <1>5, <1>6, <1>12

\* What a Lua function calls.
LEMMA InterruptRight ==
  ASSUME CallAssumption, CInv, Executes, NEW op \in {"call", "metamethod"}
  PROVE  /\ Interrupt(op) \in State /\ Same(l, Interrupt(op)) /\ Core(With(Interrupt(op)), cs)
         /\ Len(Interrupt(op).ci) = Len(l.ci)
         /\ Len(cs) >= 2 /\ cs \in Seq(CEntry) /\ Enters(Interrupt(op), cs[Len(cs)], FALSE, FALSE)
         /\ Enters(Interrupt(op), cs[Len(cs)], TRUE, FALSE)
<1> DEFINE x == [ci EXCEPT !.op = op]
<1>1. Typical /\ Current BY Running
<1>2. Len(cs) >= 2 /\ ci.lua /\ ~ci.yp /\ ci \in Frame /\ Top(cs).kind = "exec" BY TopFrame DEF Executes, At
<1>3. x \in Frame /\ x.lua = ci.lua /\ x.fresh = ci.fresh /\ ~x.yp BY <1>2 DEF Frame
<1>4. Interrupt(op) = [l EXCEPT !.ci = SetTop(@, x)] BY DEF Interrupt
<1> HIDE DEF x
<1> DEFINE u == Interrupt(op)
<1>5. u = [l EXCEPT !.ci = SetTop(@, x)] BY <1>4
<1> HIDE DEF u
<1>6. u \in State /\ Same(l, u) /\ TopSet(l.ci, u.ci, x) /\ Core(With(u), cs)
  BY <1>3, <1>5, TopTouched
<1>7. Len(u.ci) = Len(l.ci) /\ u.status = "ok" BY <1>6 DEF TopSet, Same
<1>8. cs \in Seq(CEntry) /\ cs[Len(cs)].kind = "exec" /\ cs[Len(cs)].th = L
  BY <1>1, <1>2 DEF Typical, Current
<1>9. Enters(u, cs[Len(cs)], FALSE, FALSE) /\ Enters(u, cs[Len(cs)], TRUE, FALSE)
  BY <1>7, <1>8 DEF Enters
<1> QED BY <1>2, <1>6, <1>7, <1>8, <1>9 DEF u

LEMMA CallCStep ==
  ASSUME CallAssumption, CInv, CallC
  PROVE  CInv'
<1>1. Executes /\ Enter(Interrupt("call"), cs, FALSE, FALSE, FALSE, FALSE) BY DEF CallC
<1>2. Typical BY Running
<1>3. /\ Interrupt("call") \in State /\ Core(With(Interrupt("call")), cs)
      /\ Len(Interrupt("call").ci) = Len(l.ci)
      /\ Len(cs) >= 2 /\ cs \in Seq(CEntry) /\ Enters(Interrupt("call"), cs[Len(cs)], FALSE, FALSE)
  BY <1>1, InterruptRight
<1> QED BY <1>1, <1>2, <1>3, EnterRight

LEMMA CallTMStep ==
  ASSUME CallAssumption, CInv, NEW lua \in BOOLEAN, CallTM(lua)
  PROVE  CInv'
<1>1. Executes /\ Enter(Interrupt("metamethod"), cs, lua, TRUE, FALSE, FALSE) BY DEF CallTM
<1>2. Typical BY Running
<1>3. /\ Interrupt("metamethod") \in State /\ Core(With(Interrupt("metamethod")), cs)
      /\ Len(Interrupt("metamethod").ci) = Len(l.ci)
      /\ Len(cs) >= 2 /\ cs \in Seq(CEntry) /\ Enters(Interrupt("metamethod"), cs[Len(cs)], FALSE, FALSE)
  BY <1>1, InterruptRight
<1> QED BY <1>1, <1>2, <1>3, EnterRight

\* An error of what runs, which has become u.
LEMMA FailsRight ==
  ASSUME CallAssumption, CInv, NEW t \in State, NEW u \in State, NEW kind \in {"raise", "throw"},
         Len(cs) >= 2, Top(cs).kind \in {"exec", "cfun", "hook"},
         Core(With(t), cs), t.status = "ok", Len(t.ci) = Len(l.ci), u.ci = t.ci, Same(t, u) \/ (
           /\ u.status = "ok" /\ u.errfunc = t.errfunc /\ u.allowhook = t.allowhook /\ u.big
           /\ u.ncc = t.ncc /\ u.nny = t.nny),
         Becomes(u, Append(cs, Here(kind)))
  PROVE  CInv'
<1>1. Typical /\ Current BY Running
<1>2. kind \in Kinds BY DEF Kinds
<1>3. /\ Here(kind) \in CEntry /\ Here(kind).kind = kind /\ Here(kind).th = L
      /\ Here(kind).ci = Len(t.ci) /\ ~Here(kind).counted /\ ~Here(kind).ny /\ ~Here(kind).yp
  BY <1>1, <1>2, HereRight
<1>4. /\ cs \in Seq(CEntry) /\ cs[Len(cs)].th = L /\ cs[Len(cs)].kind \in {"exec", "cfun", "hook"}
  BY <1>1 DEF Typical, Current
<1>5. /\ u.status = "ok" /\ u.errfunc = t.errfunc /\ u.allowhook = t.allowhook
      /\ (t.big => u.big) /\ u.ncc = t.ncc /\ u.nny = t.nny
  BY DEF Same
<1>6. CountedUp(t, u, Here(kind)) BY <1>3, <1>5 DEF CountedUp
<1>7. Good(u, Append(cs, Here(kind))) BY <1>1, <1>3, <1>4, <1>5, <1>6, GoodFails
<1> QED BY <1>7, Becoming

LEMMA CallLuaStep ==
  ASSUME CallAssumption, CInv, CallLua
  PROVE  CInv'
<1> DEFINE t == Interrupt("call")
<1>1. Executes BY DEF CallLua
<1>2. Typical /\ Current BY Running
<1>3. t \in State /\ Same(l, t) /\ Core(With(t), cs) /\ Len(t.ci) = Len(l.ci) /\ Len(cs) >= 2
  BY <1>1, InterruptRight
<1>4. Top(cs).kind = "exec" /\ Len(l.ci) >= 1 /\ Top(cs).ci \in 1..Len(l.ci) BY <1>1, TopFrame DEF Executes, At
<1>5. \/ \E kind \in {"raise", "throw"} : Becomes([t EXCEPT !.big = TRUE], Append(cs, Here(kind)))
      \/ ~Grows(l) /\ Becomes(Push(t, LuaFrame(FALSE)), cs)
  BY DEF CallLua
<1> HIDE DEF t
<1>6. ASSUME NEW kind \in {"raise", "throw"}, Becomes([t EXCEPT !.big = TRUE], Append(cs, Here(kind)))
      PROVE  CInv'
  <2> DEFINE u == [t EXCEPT !.big = TRUE]
  <2>1. u \in State /\ u.ci = t.ci /\ u.status = t.status /\ u.errfunc = t.errfunc
        /\ u.allowhook = t.allowhook /\ u.big /\ u.ncc = t.ncc /\ u.nny = t.nny
    BY <1>3 DEF State
  <2>2. Becomes(u, Append(cs, Here(kind))) BY <1>6
  <2> HIDE DEF u
  <2>3. t.status = "ok" BY <1>3 DEF Same
  <2> QED BY <2>1, <2>2, <2>3, <1>3, <1>4, FailsRight
<1>7. ASSUME ~Grows(l), Becomes(Push(t, LuaFrame(FALSE)), cs) PROVE CInv'
  <2> DEFINE x == [ci EXCEPT !.op = "call"]
             f == LuaFrame(FALSE)
             u == Push(t, f)
  <2>1. f \in Frame /\ f.lua /\ ~f.fresh /\ ~f.yp /\ f.op = "none" BY LuaFrameRight
  <2>2. l \in State /\ l.ci \in Seq(Frame) /\ Len(l.ci) \in Nat BY <1>2 DEF Typical
  <2>3. ci \in Frame /\ ci = l.ci[Len(l.ci)] /\ ci.lua /\ ~ci.yp BY <1>1, <1>4, TopFrame
  <2>4. x \in Frame /\ x.lua /\ x.fresh = ci.fresh /\ ~x.yp BY <2>3 DEF Frame
  <2>5. t = [l EXCEPT !.ci = SetTop(@, x)] BY DEF t, Interrupt
  <2> HIDE DEF x, f
  <2>6. TopSet(l.ci, t.ci, x) BY <2>3, <2>4, <2>5, <1>1, TopTouched
  <2>7. /\ Len(t.ci) = Len(l.ci) /\ t.ci[Len(l.ci)] = x
        /\ \A i \in 1..Len(l.ci) - 1 : t.ci[i] = l.ci[i]
    BY <2>6 DEF TopSet
  <2>8. t.ci \in Seq(Frame) BY <1>3 DEF State
  <2>9. /\ Append(t.ci, f) \in Seq(Frame) /\ Len(Append(t.ci, f)) = Len(l.ci) + 1
        /\ Append(t.ci, f)[Len(l.ci) + 1] = f /\ \A i \in 1..Len(l.ci) : Append(t.ci, f)[i] = t.ci[i]
    BY <2>1, <2>2, <2>7, <2>8
  <2>10. u \in State /\ u.ci = Append(t.ci, f) /\ Same(t, u)
    <3>1. u = [t EXCEPT !.ci = Append(t.ci, f)] BY DEF Push
    <3> HIDE DEF u
    <3>2. t.status = "ok" BY <1>3 DEF Same
    <3> QED BY <3>1, <3>2, <2>9, <1>3 DEF State, Same
  <2> HIDE DEF u
  <2>11. Same(l, u) BY <2>10, <1>3 DEF Same
  <2>12. /\ Len(u.ci) = Len(l.ci) + 1 /\ u.ci[Len(l.ci) + 1] = f /\ u.ci[Len(l.ci)] = x
         /\ \A i \in 1..Len(l.ci) - 1 : u.ci[i] = l.ci[i]
    <3>1. /\ \A i \in 1..Len(l.ci) - 1 : i \in 1..Len(l.ci)
          /\ Len(l.ci) \in 1..Len(l.ci)
      BY <2>2, <1>4
    <3> QED BY <3>1, <2>7, <2>9, <2>10
  <2>13. \A i \in Len(l.ci)..Len(u.ci) : i = Len(l.ci) \/ i = Len(l.ci) + 1 BY <2>2, <2>12
  <2>14. Changed(l.ci, u.ci, Len(l.ci))
    <3>1. \A i \in Len(l.ci)..Len(l.ci) : i = Len(l.ci) BY <2>2
    <3>2. \A i \in Len(l.ci)..Len(l.ci) : ~l.ci[i].yp BY <3>1, <2>3
    <3>3. \A i \in Len(l.ci)..Len(u.ci) : ~u.ci[i].yp BY <2>1, <2>4, <2>12, <2>13
    <3> QED BY <3>2, <3>3, <2>2, <2>12, <1>4 DEF Changed
  <2>15. Works(Top(cs), u.ci, Len(u.ci))
    <3>1. Works(Top(cs), l.ci, Len(l.ci)) BY <1>2 DEF Current
    <3>2. \A i \in Top(cs).ci..Len(u.ci) : u.ci[i].lua /\ (u.ci[i].fresh <=> i = Top(cs).ci)
      <4>1. TAKE i \in Top(cs).ci..Len(u.ci)
      <4>2. CASE i = Len(l.ci) + 1
        <5>1. i # Top(cs).ci BY <4>2, <1>4, <2>2
        <5> QED BY <4>2, <5>1, <2>1, <2>12
      <4>3. CASE i # Len(l.ci) + 1
        <5>1. i \in Top(cs).ci..Len(l.ci) BY <4>1, <4>3, <1>4, <2>2, <2>12
        <5>2. l.ci[i].lua /\ (l.ci[i].fresh <=> i = Top(cs).ci) BY <5>1, <3>1, <1>4 DEF Works
        <5>3. CASE i = Len(l.ci)
          <6>1. u.ci[i] = x /\ l.ci[i] = ci BY <5>3, <2>3, <2>12
          <6> QED BY <6>1, <5>2, <2>4
        <5>4. CASE i # Len(l.ci)
          <6>1. i \in 1..Len(l.ci) - 1 BY <5>1, <5>4, <1>4, <2>2
          <6> QED BY <6>1, <5>2, <2>12
        <5> QED BY <5>3, <5>4
      <4> QED BY <4>2, <4>3
    <3>3. Top(cs).ci \in 1..Len(u.ci) /\ Len(u.ci) \in 0..Len(u.ci) BY <1>4, <2>2, <2>12
    <3> QED BY <3>2, <3>3, <1>4 DEF Works
  <2>16. Retouched(u, Len(l.ci))
    <3>1. \A i \in Len(l.ci)..Len(u.ci) : u.ci[i].lua BY <2>1, <2>4, <2>12, <2>13
    <3>2. Top(cs).ci <= Len(l.ci) /\ Len(u.ci) <= Len(l.ci) + 1 BY <1>4, <2>2, <2>12
    <3> QED BY <3>1, <3>2, <2>11, <2>14, <2>15, <1>4, <1>7 DEF Retouched
  <2>17. Core(With(u), cs) BY <2>10, <2>16, CoreRetouched
  <2>18. TopRight(With(u), cs)
    <3>1. With(u)[L] = u BY <2>10, <1>2, WithRight
    <3>2. cs[Len(cs)].kind = "exec" /\ cs[Len(cs)].th = L BY <1>2, <1>4 DEF Current
    <3>3. u.ci[Len(u.ci)].op = "none" BY <2>1, <2>12
    <3> QED BY <3>1, <3>2, <3>3 DEF TopRight
  <2>19. Good(u, cs) BY <2>17, <2>18 DEF Good
  <2>20. Becomes(u, cs) BY <1>7 DEF u, f
  <2> QED BY <2>19, <2>20, Becoming
<1> QED BY <1>5, <1>6, <1>7

(***************************************************************************)
(* What C functions and hooks do                                           *)
(***************************************************************************)
LEMMA NotAlone ==
  ASSUME NEW n \in Nat, n >= 1, n # 1
  PROVE  n >= 2
OBVIOUS
LEMMA CFunctionRuns ==
  ASSUME CInv, InC
  PROVE  /\ Len(cs) >= 2 /\ l.status = "ok" /\ Top(cs).kind \in {"cfun", "hook"}
         /\ Len(l.ci) >= 1 /\ Top(cs).ci = Len(l.ci) /\ ~ci.yp /\ ci = l.ci[Len(l.ci)] /\ ci \in Frame
<1>1. Len(cs) \in Nat /\ Len(cs) >= 1 BY Running DEF Current
<1>2. ~(Len(cs) = 1) /\ l.status = "ok" /\ (At("cfun") \/ At("hook")) BY DEF InC, Host
<1>3. Len(cs) >= 2 BY <1>1, <1>2, NotAlone
<1>4. Len(l.ci) >= 1 /\ Top(cs).ci = Len(l.ci) /\ ~ci.yp BY <1>2, TopFrame
<1>5. ci = l.ci[Len(l.ci)] /\ ci \in Frame BY <1>4, TopFrame
<1> QED BY <1>2, <1>3, <1>4, <1>5 DEF At

LEMMA lua_callkStep ==
  ASSUME CallAssumption, CInv, NEW lua \in BOOLEAN, NEW k \in Ks, lua_callk(k, lua)
  PROVE  CInv'
<1>1. Typical /\ Current BY Running
<1>2. InC BY DEF lua_callk
<1>3. /\ Len(cs) >= 2 /\ l.status = "ok" /\ Top(cs).kind \in {"cfun", "hook"}
      /\ Len(l.ci) >= 1 /\ Top(cs).ci = Len(l.ci) /\ ~ci.yp /\ ci = l.ci[Len(l.ci)] /\ ci \in Frame
  BY <1>2, CFunctionRuns
<1>4. cs \in Seq(CEntry) /\ cs[Len(cs)] = Top(cs) /\ Top(cs).th = L /\ l \in State /\ Core(th, cs)
  BY <1>1 DEF Typical, Current, CInv
<1>5. CASE k = "some" /\ l.nny = 0
  <2> DEFINE x == [ci EXCEPT !.k = k]
             u == [l EXCEPT !.ci = SetTop(@, x)]
  <2>1. At("cfun") BY <1>2, <1>5 DEF Ks, InC
  <2>2. k \in {"none", "some", "junk"} BY DEF Ks
  <2>3. x \in Frame /\ x.lua = ci.lua /\ x.fresh = ci.fresh /\ ~x.yp /\ x.k = "some"
    BY <2>2, <1>3, <1>5 DEF Frame
  <2>4. Enter(u, cs, lua, TRUE, FALSE, FALSE) BY <1>5 DEF lua_callk
  <2> HIDE DEF x
  <2>5. u \in State /\ Same(l, u) /\ TopSet(l.ci, u.ci, x) /\ Core(With(u), cs)
    BY <2>1, <2>3, TopTouched
  <2> HIDE DEF u
  <2>6. Len(u.ci) = Len(l.ci) /\ u.ci[Len(l.ci)] = x /\ u.status = "ok" BY <2>5 DEF TopSet, Same
  <2>7. Enters(u, cs[Len(cs)], FALSE, FALSE)
    <3>1. Top(cs).kind = "cfun" BY <2>1 DEF At
    <3>2. ~u.ci[Top(cs).ci].yp /\ Continues(u.ci[Top(cs).ci]) BY <2>3, <2>6, <1>3 DEF Continues
    <3> QED BY <3>1, <3>2, <2>6, <1>4 DEF Enters
  <2> QED BY <2>4, <2>5, <2>6, <2>7, <1>1, <1>3, <1>4, EnterRight
<1>6. CASE ~(k = "some" /\ l.nny = 0)
  <2>1. Enter(l, cs, lua, TRUE, TRUE, FALSE) BY <1>6 DEF lua_callk
  <2>2. Enters(l, cs[Len(cs)], TRUE, FALSE) BY <1>3, <1>4 DEF Enters
  <2>3. Core(With(l), cs) BY <1>1, <1>4, WithMine
  <2> QED BY <2>1, <2>2, <2>3, <1>1, <1>3, <1>4, EnterRight
<1> QED BY <1>5, <1>6

LEMMA FailingStep ==
  ASSUME CallAssumption, CInv, RunError \/ MemoryError
  PROVE  CInv'
<1>1. Typical /\ Current BY Running
<1>2. Executes \/ InC BY DEF RunError, MemoryError
<1>3. PICK kind \in {"raise", "throw"} : Becomes(l, Append(cs, Here(kind))) BY DEF RunError, MemoryError
<1>4. Len(cs) >= 2 /\ l.status = "ok" /\ Top(cs).kind \in {"exec", "cfun", "hook"}
  <2>1. CASE Executes BY <2>1, TopFrame DEF Executes, At
  <2>2. CASE InC BY <2>2, CFunctionRuns
  <2> QED BY <2>1, <2>2, <1>2
<1>5. l \in State /\ Core(With(l), cs) BY <1>1, WithMine DEF Typical, CInv
<1>6. Same(l, l) BY <1>4 DEF Same
<1> QED BY <1>3, <1>4, <1>5, <1>6, FailsRight

\* yields are allowed or not.
LEMMA NnyRight ==
  ASSUME CInv
  PROVE  l.nny \in Nat /\ (Host => l.nny >= 1)
<1>1. Typical /\ Current BY Running
<1>2. Core(th, cs) BY DEF CInv
<1>3. Shape(cs) /\ CountsRight(th, cs) /\ Sized(th, cs) BY <1>2, TypedSized DEF Core
<1>4. Len(cs) \in Nat /\ Len(cs) >= 1 /\ cs[Len(cs)].th = L /\ l = th[L] BY <1>1 DEF Current
<1>5. Len(cs) \in 1..Len(cs) BY <1>4
<1>6. PICK b \in Int, z \in Int : /\ Counts(th, cs, L, b, z) /\ z \in {0, 1}
                                  /\ L = mainthread => z = 1
  BY <1>3, <1>4, <1>5, CountsMine
<1>7. Ny(cs, L, Len(cs)) \in Nat BY <1>4, CountType
<1>8. l.nny = z + Ny(cs, L, Len(cs)) BY <1>4, <1>6 DEF Counts
<1>9. Host => L = mainthread BY <1>3, <1>4 DEF Host, Shape, Based
<1>10. l.nny \in Nat /\ (z = 1 => l.nny >= 1) BY <1>6, <1>7, <1>8
<1> QED BY <1>6, <1>9, <1>10

\* lua_pcallk with a C frame of its own.
LEMMA CoreProtected ==
  ASSUME CallAssumption, CInv, At("cfun") \/ At("hook"), l.status = "ok", NEW h \in Handlers,
         NEW u \in State, u = [l EXCEPT !.errfunc = h]
  PROVE  /\ Append(cs, Pcall(h)) \in Seq(CEntry) /\ Core(With(u), Append(cs, Pcall(h)))
         /\ Len(Append(cs, Pcall(h))) = Len(cs) + 1 /\ Append(cs, Pcall(h))[Len(cs) + 1] = Pcall(h)
         /\ Pcall(h).th = L /\ Pcall(h).kind = "pcall"
<1> DEFINE f == Pcall(h)
           D == Append(cs, f)
<1>1. Typical /\ Current BY Running
<1>2. l \in State /\ Len(l.ci) \in Nat /\ cs \in Seq(CEntry) /\ L \in Thread BY <1>1 DEF Typical
<1>3. /\ f \in CEntry /\ f.kind = "pcall" /\ f.th = L /\ f.ci = Len(l.ci)
      /\ ~f.counted /\ ~f.ny /\ ~f.yp /\ f.nny = l.nny /\ f.ncc = l.ncc /\ f.errfunc = l.errfunc
      /\ f.allowhook = l.allowhook /\ f.handler = h
  <2>1. "pcall" \in Kinds BY DEF Kinds
  <2>2. /\ Here("pcall") \in CEntry /\ Here("pcall").kind = "pcall" /\ Here("pcall").th = L
        /\ Here("pcall").ci = Len(l.ci)
        /\ ~Here("pcall").counted /\ ~Here("pcall").ny /\ ~Here("pcall").yp
    BY <2>1, <1>1, HereRight
  <2>3. l.nny \in Int /\ l.ncc \in Int /\ l.errfunc \in Handlers /\ l.allowhook \in BOOLEAN
    BY <1>2 DEF State
  <2> QED BY <2>2, <2>3 DEF Pcall, CEntry
<1>4. /\ u.ci = l.ci /\ u.status = "ok" /\ u.errfunc = h /\ u.allowhook = l.allowhook /\ u.big = l.big
      /\ u.ncc = l.ncc /\ u.nny = l.nny
  BY <1>2 DEF State
<1> HIDE DEF f, D
<1>5. D \in Seq(CEntry) /\ Added(cs, D, Len(cs), f) /\ Len(cs) \in Nat BY <1>2, <1>3, AppendAdds DEF D
<1>6. With(u)[L] = u /\ Others(th, With(u), L) /\ th[L] = l BY <1>1, WithRight DEF Current
<1>7. Runs(th, cs, L) BY <1>1 DEF Runs, Current, Typical
<1>8. Core(th, cs) /\ ThreadRight(th, cs, L) BY <1>2 DEF CInv, Core
<1>9. ~l.big => Len(l.ci) <= MAXSTACK BY <1>1, <1>6, <1>8 DEF ThreadRight, BoundOf, Current
<1>10. /\ Len(l.ci) >= 1 /\ Top(cs).ci = Len(l.ci) /\ ~ci.yp /\ ci = l.ci[Len(l.ci)]
       /\ cs[Len(cs)] = Top(cs) /\ Top(cs).kind \in {"cfun", "hook"} /\ Top(cs).th = L
  <2>1. Len(l.ci) >= 1 /\ Top(cs).ci = Len(l.ci) /\ ~ci.yp BY TopFrame
  <2> QED BY <2>1, TopFrame, <1>1 DEF At, Current
<1>11. Pushed(th, cs, With(u), D, L, f)
  <2>1. Over(f, cs[Len(cs)]) BY <1>3, <1>10 DEF Over
  <2>2. Holds(f) BY <1>3 DEF Holds, Kinds
  <2>3. Works(f, u.ci, Len(u.ci)) BY <1>2, <1>3, <1>4 DEF Works
  <2>4. Marks(cs[Len(cs)], l.ci, f) BY <1>3, <1>10 DEF Marks
  <2>5. FrameAdded(l.ci, u.ci, cs[Len(cs)], f) BY <2>3, <2>4, <1>3, <1>4, <1>10 DEF FrameAdded, Owns
  <2>6. HookAdded(l, u, f) BY <1>3, <1>4 DEF HookAdded
  <2>7. BoundAdded(l, u, f) BY <1>3, <1>4, <1>9 DEF BoundAdded
  <2>8. YieldAdded(l.ci, u.ci, cs[Len(cs)], f) BY <1>2, <1>3, <1>4 DEF YieldAdded
  <2>9. HandlerAdded(l, u, f)
    <3>1. \A i \in f.ci..Len(l.ci) : i = Len(l.ci) BY <1>2, <1>3
    <3>2. \A i \in f.ci..Len(l.ci) : i >= 1 => ~l.ci[i].yp BY <3>1, <1>10
    <3> QED BY <3>2, <1>2, <1>3, <1>4 DEF HandlerAdded
  <2>10. CountedUp(l, u, f) BY <1>3, <1>4 DEF CountedUp
  <2> QED BY <1>3, <1>4, <1>5, <1>6, <2>1, <2>2, <2>5, <2>6, <2>7, <2>8, <2>9, <2>10 DEF Pushed
<1>12. Typed(With(u), D) BY <1>1, <1>5, WithTyped
<1>13. Core(With(u), D) BY <1>7, <1>8, <1>11, <1>12, CorePushed
<1>14. Len(D) = Len(cs) + 1 /\ D[Len(cs) + 1] = f BY <1>5 DEF Added
<1> QED BY <1>3, <1>5, <1>13, <1>14 DEF D, f

LEMMA lua_pcallkStep ==
  ASSUME CallAssumption, CInv, NEW lua \in BOOLEAN, NEW k \in Ks, NEW h \in Handlers, lua_pcallk(k, h, lua)
  PROVE  CInv'
<1>1. Typical /\ Current BY Running
<1>2. l \in State /\ l.ci \in Seq(Frame) /\ Len(l.ci) \in Nat /\ cs \in Seq(CEntry)
  BY <1>1 DEF Typical
<1>3. l.status = "ok" /\ (At("cfun") \/ At("hook")) /\ (At("hook") => Len(cs) >= 2)
  <2>1. CASE InC BY <2>1, CFunctionRuns DEF InC
  <2>2. CASE Host
    <3>1. At("cfun") BY <2>2, <1>1 DEF Host, Current, At
    <3>2. ~At("hook") BY <3>1 DEF At
    <3> QED BY <3>1, <3>2, TopFrame
  <2> QED BY <2>1, <2>2 DEF lua_pcallk
<1>4. Len(cs) \in Nat /\ Len(cs) >= 1 /\ cs[Len(cs)] = Top(cs) /\ Top(cs).th = L /\ l = th[L]
  BY <1>1 DEF Current
<1>5. CASE k = "none" \/ l.nny > 0
  <2> DEFINE u == [l EXCEPT !.errfunc = h]
             D == Append(cs, Pcall(h))
  <2>1. Enter(u, D, lua, TRUE, TRUE, FALSE) BY <1>5 DEF lua_pcallk
  <2>2. u \in State /\ u.ci = l.ci /\ u.status = "ok" BY <1>2, <1>3 DEF State
  <2>3. /\ D \in Seq(CEntry) /\ Core(With(u), D) /\ Len(D) = Len(cs) + 1
        /\ D[Len(cs) + 1] = Pcall(h) /\ Pcall(h).th = L /\ Pcall(h).kind = "pcall"
    BY <2>2, <1>3, CoreProtected
  <2> HIDE DEF u, D
  <2>4. Len(D) >= 2 BY <2>3, <1>4
  <2>5. Enters(u, D[Len(D)], TRUE, FALSE) BY <2>2, <2>3 DEF Enters
  <2>6. Len(u.ci) = Len(l.ci) BY <2>2
  <2> QED BY <2>1, <2>2, <2>3, <2>4, <2>5, <2>6, <1>1, EnterRight
<1>6. CASE ~(k = "none" \/ l.nny > 0)
  <2> DEFINE x == Ypcall(k, h)
             u == [l EXCEPT !.errfunc = h, !.ci = SetTop(@, x)]
  <2>1. Enter(u, cs, lua, TRUE, FALSE, TRUE) BY <1>6 DEF lua_pcallk
  <2>2. l.nny = 0 /\ ~Host /\ k = "some" /\ At("cfun")
    <3>1. l.nny \in Nat /\ (Host => l.nny >= 1) BY NnyRight
    <3>2. l.nny = 0 BY <3>1, <1>6
    <3>3. ~Host BY <3>1, <3>2
    <3> QED BY <3>2, <3>3, <1>3, <1>6 DEF Ks
  <2>3. Len(cs) >= 2
    <3>1. Len(cs) # 1 BY <2>2 DEF Host
    <3>2. Len(cs) \in Nat /\ Len(cs) >= 1 BY <1>4
    <3> QED BY <3>1, <3>2, NotAlone
  <2>4. /\ Top(cs).kind = "cfun" /\ Len(l.ci) >= 1 /\ Top(cs).ci = Len(l.ci) /\ ~ci.yp
        /\ ci = l.ci[Len(l.ci)] /\ ci \in Frame
    <3>1. Len(l.ci) >= 1 /\ Top(cs).ci = Len(l.ci) /\ ~ci.yp BY <2>2, TopFrame
    <3> QED BY <3>1, <2>2, TopFrame DEF At
  <2>5. /\ x \in Frame /\ x.lua = ci.lua /\ x.k = "some" /\ x.yp /\ x.oef = l.errfunc
        /\ x.oah = l.allowhook /\ x.handler = h
    <3>1. l.errfunc \in Handlers /\ l.allowhook \in BOOLEAN BY <1>2 DEF State
    <3> QED BY <3>1, <2>2, <2>4 DEF Ypcall, Frame
  <2> HIDE DEF x
  <2>6. SetTop(l.ci, x) \in Seq(Frame) /\ TopSet(l.ci, SetTop(l.ci, x), x)
    BY <2>4, <2>5, <1>2 DEF TopSet, SetTop, Top
  <2>7. /\ u \in State /\ u.ci = SetTop(l.ci, x) /\ u.status = "ok" /\ u.errfunc = h
        /\ u.ncc = l.ncc /\ u.nny = l.nny /\ u.allowhook = l.allowhook /\ u.big = l.big
    BY <2>6, <1>2, <1>3 DEF State
  <2> HIDE DEF u
  <2>8. /\ Len(u.ci) = Len(l.ci) /\ u.ci[Len(l.ci)] = x
        /\ \A i \in 1..Len(l.ci) - 1 : u.ci[i] = l.ci[i]
    BY <2>6, <2>7 DEF TopSet
  <2>9. With(u)[L] = u /\ Others(th, With(u), L) BY <2>7, <1>1, WithRight
  <2>10. Marked(th, cs, With(u), L, h) BY <2>2, <2>4, <2>5, <2>7, <2>8, <2>9, <1>4 DEF Marked
  <2>11. Runs(th, cs, L) BY <1>1, <1>3 DEF Runs, Current, Typical
  <2>12. Typed(With(u), cs) BY <2>7, <1>1, <1>2, WithTyped
  <2>13. Core(With(u), cs) BY <2>10, <2>11, <2>12, CoreMarked DEF CInv
  <2>14. Enters(u, cs[Len(cs)], FALSE, TRUE)
    <3>1. u.ci[Top(cs).ci].yp /\ Continues(u.ci[Top(cs).ci]) BY <2>4, <2>5, <2>8 DEF Continues
    <3> QED BY <3>1, <2>4, <2>7, <1>4 DEF Enters
  <2> QED BY <2>1, <2>3, <2>7, <2>8, <2>13, <2>14, <1>1, <1>2, EnterRight
<1> QED BY <1>5, <1>6

(***************************************************************************)
(* What runs returns                                                       *)
(***************************************************************************)
Pops(u) ==
  /\ Len(cs) >= 2 /\ l.status = "ok" /\ u.status = "ok"
  /\ Top(cs).kind \in {"exec", "cfun", "ret", "hook", "pcall", "unroll"}
  /\ Top(cs).kind = "exec" => Top(cs).ci = Len(l.ci)
  /\ Top(cs).kind = "unroll" => Len(l.ci) = 0
  /\ Len(u.ci) = IF Owns(Top(cs)) THEN Len(l.ci) - 1 ELSE Len(l.ci)
  /\ \A i \in 1..Len(u.ci) : u.ci[i] = l.ci[i]
  /\ CountedDown(l, u, Top(cs))
  /\ IF Top(cs).kind = "hook" THEN u.allowhook ELSE u.allowhook = l.allowhook
  /\ u.errfunc = IF Top(cs).kind = "pcall" THEN Top(cs).errfunc ELSE l.errfunc
  /\ u.big = l.big
Below == cs[Len(cs) - 1]
LEMMA CorePops ==
  ASSUME CallAssumption, CInv, NEW u \in State, Pops(u)
  PROVE  /\ Core(With(u), Pop(cs)) /\ Pop(cs) \in Seq(CEntry) /\ Len(Pop(cs)) = Len(cs) - 1
         /\ Len(Pop(cs)) >= 1 /\ Pop(cs)[Len(Pop(cs))] = Below /\ Below.th = L /\ Over(Top(cs), Below)
         /\ Works(Below, u.ci, Len(u.ci)) /\ Marks(Below, l.ci, Top(cs))
<1> DEFINE n == Len(cs) - 1
           D == Pop(cs)
           S == With(u)
<1>1. Typical /\ Current BY Running
<1>2. Len(cs) >= 2 /\ l.status = "ok" /\ u.status = "ok" BY DEF Pops
<1>3. cs \in Seq(CEntry) /\ Len(cs) \in Nat /\ L \in Thread BY <1>1 DEF Typical, Current
<1>4. D \in Seq(CEntry) /\ Kept(cs, D, n) /\ n \in Nat BY <1>2, <1>3, PopKeeps
<1>5. n >= 1 /\ Len(cs) = n + 1 /\ n \in 1..Len(cs) - 1 /\ n \in 1..Len(cs) /\ n < Len(cs) BY <1>2, <1>3
<1>6. Len(D) = n /\ D[n] = cs[n] /\ Below = cs[n] BY <1>4, <1>5 DEF Kept, Below
<1>7. S[L] = u /\ Others(th, S, L) BY <1>1, WithRight
<1>8. Typed(S, D) BY <1>1, <1>4, WithTyped
<1> HIDE DEF n, D, S
<1>9. cs[n + 1] = Top(cs) /\ Top(cs).th = L /\ l = th[L] BY <1>1, <1>5 DEF Current
<1>10. Core(th, cs) BY DEF CInv
<1>11. Runs(th, cs, L) BY <1>1, <1>2 DEF Runs, Current, Typical
<1>12. Top(cs).kind = "cfun" => ~l.ci[Len(l.ci)].yp
  <2>1. ASSUME Top(cs).kind = "cfun" PROVE ~l.ci[Len(l.ci)].yp
    <3>1. At("cfun") BY <2>1, <1>1 DEF At, Current
    <3>2. ~ci.yp /\ Len(l.ci) >= 1 BY <3>1, TopFrame
    <3>3. ci = l.ci[Len(l.ci)] BY <3>2, TopFrame
    <3> QED BY <3>2, <3>3
  <2> QED BY <2>1
<1>13. Popped(th, cs, S, D, n, L) BY <1>2, <1>4, <1>5, <1>7, <1>9, <1>12 DEF Popped, Pops
<1>14. MAXSTACK \in Nat BY DEF CallAssumption
<1>15. Core(S, D) BY <1>4, <1>8, <1>10, <1>11, <1>13, <1>14, CorePopped
<1>16. Over(Top(cs), Below)
  <2>1. Over(cs[n + 1], cs[n]) BY <1>5, <1>10 DEF Core, Shape
  <2> QED BY <2>1, <1>6, <1>9
<1>17. Below.th = L
  <2>1. Top(cs).kind # "resume" BY DEF Pops
  <2> QED BY <2>1, <1>9, <1>16 DEF Over
<1>18. Works(Below, u.ci, Len(u.ci))
  <2>1. n \in 1..Len(D) BY <1>5, <1>6
  <2>2. Framed(S, D, n) BY <2>1, <1>15 DEF Core, Frames
  <2>3. Height(S, D, n) = Len(u.ci) BY <1>5, <1>6, <1>7, <1>17 DEF Height
  <2> QED BY <2>2, <2>3, <1>6, <1>7, <1>17 DEF Framed
<1>19. Marks(Below, l.ci, Top(cs))
  <2>1. Framed(th, cs, n) BY <1>5, <1>10 DEF Core, Frames
  <2> QED BY <2>1, <1>5, <1>6, <1>9, <1>17 DEF Framed
<1> QED BY <1>4, <1>5, <1>6, <1>15, <1>16, <1>17, <1>18, <1>19 DEF n, D, S

LEMMA PcallEndStep ==
  ASSUME CallAssumption, CInv, PcallEnd
  PROVE  CInv'
<1> DEFINE u == [l EXCEPT !.errfunc = Top(cs).errfunc]
<1>1. Typical /\ Current BY Running
<1>2. Top(cs).kind = "pcall" /\ Becomes(u, Pop(cs)) BY DEF PcallEnd, At
<1>3. l \in State /\ Len(l.ci) \in Nat /\ Top(cs).errfunc \in Handlers BY <1>1 DEF Typical, Current, CEntry
<1>4. /\ u \in State /\ u.ci = l.ci /\ u.status = l.status /\ u.errfunc = Top(cs).errfunc
      /\ u.ncc = l.ncc /\ u.nny = l.nny /\ u.allowhook = l.allowhook /\ u.big = l.big
  BY <1>3 DEF State
<1> HIDE DEF u
<1>5. l.status = "ok" /\ Len(cs) \in Nat /\ Len(cs) >= 1 BY <1>1, <1>2 DEF Current
<1>6. Len(cs) # 1 BY <1>1, <1>2 DEF Current
<1>7. Len(cs) >= 2 BY <1>5, <1>6, NotAlone
<1>8. Core(th, cs) /\ cs[Len(cs)] = Top(cs) BY <1>1 DEF CInv, Current
<1>9. Holds(Top(cs))
  <2>1. Len(cs) \in 1..Len(cs) BY <1>5
  <2> QED BY <2>1, <1>8 DEF Core, Shape
<1>10. ~Top(cs).counted /\ ~Top(cs).ny /\ ~Top(cs).yp BY <1>2, <1>9 DEF Holds
<1>11. CountedDown(l, u, Top(cs)) BY <1>4, <1>10 DEF CountedDown
<1>12. Pops(u) BY <1>2, <1>4, <1>5, <1>7, <1>11 DEF Pops, Owns
<1>13. /\ Core(With(u), Pop(cs)) /\ Pop(cs)[Len(Pop(cs))] = Below /\ Below.th = L
       /\ Over(Top(cs), Below) /\ Marks(Below, l.ci, Top(cs))
  BY <1>4, <1>12, CorePops
<1>14. TopRight(With(u), Pop(cs))
  <2>1. Below.kind \in {"cfun", "hook"} BY <1>2, <1>13 DEF Over
  <2>2. Below.kind = "cfun" => ~l.ci[Below.ci].yp BY <1>2, <1>10, <1>13 DEF Marks
  <2>3. With(u)[L] = u BY <1>1, <1>4, WithRight
  <2> QED BY <2>1, <2>2, <2>3, <1>4, <1>13 DEF TopRight
<1> QED BY <1>2, <1>13, <1>14, Becoming DEF Good

\* The state u of what called, before luaD_call and lua_pcallk have noted the return.
Back0(t, e) == [t EXCEPT !.ncc = @ - (IF e.counted THEN 1 ELSE 0),
                         !.nny = @ - (IF e.ny THEN 1 ELSE 0)]
\* lua_pcallk takes its mark back.
LEMMA ClearedRight ==
  ASSUME CInv, NEW u \in State, NEW D \in Seq(CEntry), Core(With(u), D), Len(D) >= 1,
         D[Len(D)].th = L, D[Len(D)].kind = "cfun", u.status = "ok",
         Len(u.ci) >= 1, D[Len(D)].ci = Len(u.ci), u.ci[Len(u.ci)].yp,
         NEW f, f = u.ci[Len(u.ci)],
         Becomes([u EXCEPT !.ci = SetTop(@, [f EXCEPT !.yp = FALSE]), !.errfunc = f.oef], D)
  PROVE  CInv'
<1> DEFINE x == [f EXCEPT !.yp = FALSE]
           v == [u EXCEPT !.ci = SetTop(@, x), !.errfunc = f.oef]
<1>1. Typical BY Running
<1>2. u.ci \in Seq(Frame) /\ Len(u.ci) \in Nat /\ Len(u.ci) \in 1..Len(u.ci) BY DEF State
<1>3. f \in Frame BY <1>2
<1>4. x \in Frame /\ ~x.yp /\ x.lua = f.lua /\ x.k = f.k /\ f.oef \in Handlers BY <1>3 DEF Frame
<1> HIDE DEF x
<1>5. SetTop(u.ci, x) \in Seq(Frame) /\ TopSet(u.ci, SetTop(u.ci, x), x)
  BY <1>2, <1>4 DEF TopSet, SetTop, Top
<1>6. /\ v \in State /\ v.ci = SetTop(u.ci, x) /\ v.errfunc = f.oef /\ v.status = u.status
      /\ v.ncc = u.ncc /\ v.nny = u.nny /\ v.allowhook = u.allowhook /\ v.big = u.big
  BY <1>4, <1>5 DEF State
<1>7. Becomes(v, D) BY DEF x
<1> HIDE DEF v
<1>8. Len(v.ci) = Len(u.ci) /\ v.ci[Len(u.ci)] = x /\ \A i \in 1..Len(u.ci) - 1 : v.ci[i] = u.ci[i]
  BY <1>5, <1>6 DEF TopSet
<1>9. With(u)[L] = u /\ With(v)[L] = v /\ Others(With(u), With(v), L) BY <1>1, <1>6, WithRight
<1>10. Cleared(With(u), D, With(v), L) BY <1>2, <1>4, <1>6, <1>8, <1>9 DEF Cleared
<1>11. Runs(With(u), D, L) BY <1>1, <1>9 DEF Runs, Typical
<1>12. Typed(With(v), D) BY <1>1, <1>6, WithTyped
<1>13. Core(With(v), D) BY <1>10, <1>11, <1>12, CoreCleared
<1>14. TopRight(With(v), D) BY <1>4, <1>8, <1>9 DEF TopRight
<1> QED BY <1>7, <1>13, <1>14, Becoming DEF Good

\* The instruction that had called is complete.
LEMMA CompletedRight ==
  ASSUME CallAssumption, CInv, NEW u \in State, NEW D \in Seq(CEntry), Core(With(u), D), Len(D) >= 1,
         D[Len(D)].th = L, D[Len(D)].kind = "exec", u.status = "ok",
         Works(D[Len(D)], u.ci, Len(u.ci)), \A i \in 1..Len(u.ci) : u.ci[i].yp => ~u.ci[i].lua,
         NEW f, f = u.ci[Len(u.ci)],
         Becomes([u EXCEPT !.ci = SetTop(@, [f EXCEPT !.op = "none"])], D)
  PROVE  CInv'
<1> DEFINE x == [f EXCEPT !.op = "none"]
           v == [u EXCEPT !.ci = SetTop(@, x)]
           e == D[Len(D)]
<1>1. Typical BY Running
<1>2. u.ci \in Seq(Frame) /\ Len(u.ci) \in Nat BY DEF State
<1>3. e.ci \in 1..Len(u.ci) /\ \A i \in e.ci..Len(u.ci) : u.ci[i].lua /\ (u.ci[i].fresh <=> i = e.ci)
  BY DEF Works
<1> HIDE DEF e
<1>4. Len(u.ci) >= 1 /\ Len(u.ci) \in 1..Len(u.ci) /\ Len(u.ci) \in e.ci..Len(u.ci) BY <1>2, <1>3
<1>5. f \in Frame /\ f.lua /\ ~f.yp BY <1>2, <1>3, <1>4
<1>6. x \in Frame /\ ~x.yp /\ x.lua /\ x.fresh = f.fresh /\ x.op = "none" BY <1>5 DEF Frame
<1> HIDE DEF x
<1>7. SetTop(u.ci, x) \in Seq(Frame) /\ TopSet(u.ci, SetTop(u.ci, x), x)
  BY <1>2, <1>4, <1>6 DEF TopSet, SetTop, Top
<1>8. v \in State /\ v.ci = SetTop(u.ci, x) /\ Same(u, v) BY <1>7 DEF State, Same
<1>9. Becomes(v, D) BY DEF x
<1> HIDE DEF v
<1>10. Len(v.ci) = Len(u.ci) /\ v.ci[Len(u.ci)] = x /\ \A i \in 1..Len(u.ci) - 1 : v.ci[i] = u.ci[i]
  BY <1>7, <1>8 DEF TopSet
<1>11. With(u)[L] = u /\ With(v)[L] = v /\ Others(With(u), With(v), L) BY <1>1, <1>8, WithRight
<1>12. \A i \in Len(u.ci)..Len(u.ci) : i = Len(u.ci) BY <1>2
<1>13. Changed(u.ci, v.ci, Len(u.ci)) BY <1>2, <1>4, <1>5, <1>6, <1>10, <1>12 DEF Changed
<1>14. Works(e, v.ci, Len(v.ci))
  <2>1. ASSUME NEW i \in e.ci..Len(v.ci) PROVE v.ci[i].lua /\ (v.ci[i].fresh <=> i = e.ci)
    <3>1. i \in e.ci..Len(u.ci) BY <1>10
    <3>2. u.ci[i].lua /\ (u.ci[i].fresh <=> i = e.ci) BY <3>1, <1>3
    <3>3. CASE i = Len(u.ci) BY <3>2, <3>3, <1>6, <1>10
    <3>4. CASE i # Len(u.ci)
      <4>1. i \in 1..Len(u.ci) - 1 BY <3>1, <3>4, <1>2, <1>3
      <4> QED BY <4>1, <3>2, <1>10
    <3> QED BY <3>3, <3>4
  <2>2. e.ci \in 1..Len(v.ci) /\ Len(v.ci) \in 0..Len(v.ci) BY <1>2, <1>3, <1>10
  <2>3. e.kind = "exec" BY DEF e
  <2> QED BY <2>1, <2>2, <2>3 DEF Works
<1>15. Tweaked(With(u), D, With(v), L, Len(u.ci))
  <2>1. \A i \in Len(u.ci)..Len(v.ci) : v.ci[i].lua BY <1>6, <1>10, <1>12
  <2>2. e.ci <= Len(u.ci) /\ Len(v.ci) <= Len(u.ci) /\ Len(v.ci) <= Len(u.ci) + 1 BY <1>2, <1>3, <1>10
  <2>3. e.kind = "exec" /\ e = D[Len(D)] BY DEF e
  <2> QED BY <2>1, <2>2, <2>3, <1>8, <1>11, <1>13, <1>14 DEF Tweaked
<1>16. Runs(With(u), D, L) BY <1>1, <1>11 DEF Runs, Typical
<1>17. Typed(With(v), D) BY <1>1, <1>8, WithTyped
<1>18. Core(With(v), D) BY <1>15, <1>16, <1>17, CoreTweaked
<1>19. TopRight(With(v), D) BY <1>6, <1>10, <1>11 DEF TopRight
<1> QED BY <1>9, <1>18, <1>19, Becoming DEF Good

LEMMA BackRight ==
  ASSUME CallAssumption, CInv, l.status = "ok", Len(cs) >= 2, Top(cs).kind \in {"exec", "cfun", "ret"},
         Len(l.ci) >= 1, Top(cs).kind = "exec" => Top(cs).ci = Len(l.ci),
         Becomes(Back([l EXCEPT !.ci = Pop(@)], Top(cs)), Pop(cs))
  PROVE  CInv'
<1> DEFINE t == [l EXCEPT !.ci = Pop(@)]
           e == Top(cs)
           u == Back0(t, e)
           D == Pop(cs)
           f == u.ci[Len(u.ci)]
<1>1. Typical /\ Current BY Running
<1>2. l \in State /\ l.ci \in Seq(Frame) /\ Len(l.ci) \in Nat BY <1>1 DEF Typical
<1>3. /\ Pop(l.ci) \in Seq(Frame) /\ Len(Pop(l.ci)) = Len(l.ci) - 1
      /\ \A i \in 1..Len(l.ci) - 1 : Pop(l.ci)[i] = l.ci[i]
  BY <1>2 DEF Pop
<1>4. t \in State /\ t.ci = Pop(l.ci) /\ t.status = "ok" /\ t.errfunc = l.errfunc
      /\ t.allowhook = l.allowhook /\ t.big = l.big /\ t.ncc = l.ncc /\ t.nny = l.nny
  BY <1>2, <1>3 DEF State
<1>5. e.counted \in BOOLEAN /\ e.ny \in BOOLEAN /\ e.yp \in BOOLEAN BY <1>1 DEF Current, CEntry
<1> HIDE DEF t
<1>6. u \in State /\ u.ci = t.ci /\ u.status = "ok" /\ u.errfunc = t.errfunc
      /\ u.allowhook = t.allowhook /\ u.big = t.big
      /\ u.ncc = (IF e.counted THEN t.ncc - 1 ELSE t.ncc)
      /\ u.nny = (IF e.ny THEN t.nny - 1 ELSE t.nny)
  <2>1. t.ncc \in Int /\ t.nny \in Int BY <1>4 DEF State
  <2>2. t.ncc - (IF e.counted THEN 1 ELSE 0) \in Int /\ t.nny - (IF e.ny THEN 1 ELSE 0) \in Int
    BY <2>1
  <2>3. /\ u \in State /\ u.ci = t.ci /\ u.status = t.status /\ u.errfunc = t.errfunc
        /\ u.allowhook = t.allowhook /\ u.big = t.big
        /\ u.ncc = t.ncc - (IF e.counted THEN 1 ELSE 0)
        /\ u.nny = t.nny - (IF e.ny THEN 1 ELSE 0)
    BY <2>2, <1>4 DEF State, Back0
  <2> HIDE DEF u
  <2> QED BY <2>1, <2>3, <1>4
<1>7. Becomes(IF e.yp THEN [u EXCEPT !.ci = SetTop(@, [Top(u.ci) EXCEPT !.yp = FALSE]), !.errfunc = Top(u.ci).oef]
              ELSE IF u.ci # << >> /\ Top(u.ci).lua /\ Len(cs) > 1 /\ cs[Len(cs) - 1].kind = "exec"
                   THEN [u EXCEPT !.ci = SetTop(@, [Top(u.ci) EXCEPT !.op = "none"])]
                   ELSE u, D)
  BY DEF Back, Back0, t
<1>8. Top(u.ci) = f BY DEF Top
<1> HIDE DEF u, D
<1>9. CountedDown(l, u, e) BY <1>4, <1>5, <1>6 DEF CountedDown
<1>10. /\ Len(u.ci) = Len(l.ci) - 1 /\ \A i \in 1..Len(u.ci) : u.ci[i] = l.ci[i]
  BY <1>3, <1>4, <1>6
<1>11. Pops(u) BY <1>4, <1>6, <1>9, <1>10 DEF Pops, Owns
<1>12. /\ Core(With(u), D) /\ D \in Seq(CEntry) /\ Len(D) >= 1 /\ D[Len(D)] = Below
       /\ Below.th = L /\ Over(e, Below) /\ Works(Below, u.ci, Len(u.ci)) /\ Marks(Below, l.ci, e)
  BY <1>6, <1>11, CorePops DEF D
<1>13. Below.kind = "cfun" => Below.ci = Len(u.ci) /\ Len(u.ci) >= 1 BY <1>12 DEF Works
<1>14. Below.kind = "cfun" => Len(u.ci) \in 1..Len(u.ci) BY <1>13, <1>2, <1>10
<1>15. CASE e.yp
  <2>1. Below.kind = "cfun" BY <1>12, <1>15 DEF Over
  <2>2. l.ci[Below.ci].yp BY <2>1, <1>12, <1>15 DEF Marks
  <2>3. u.ci[Len(u.ci)].yp BY <2>1, <2>2, <1>10, <1>13, <1>14
  <2>4. Becomes([u EXCEPT !.ci = SetTop(@, [f EXCEPT !.yp = FALSE]), !.errfunc = f.oef], D)
    BY <1>7, <1>8, <1>15
  <2> QED BY <2>1, <2>3, <2>4, <1>6, <1>12, <1>13, ClearedRight
<1>16. CASE ~e.yp /\ Below.kind = "exec"
  <2>1. \A i \in 1..Len(u.ci) : u.ci[i].yp => ~u.ci[i].lua
    <3>1. \A i \in 1..Len(u.ci) : i \in 1..Len(l.ci) BY <1>2, <1>10
    <3>2. \A i \in 1..Len(l.ci) : l.ci[i].yp => ~l.ci[i].lua BY TopFrame
    <3> QED BY <3>1, <3>2, <1>10
  <2>2. u.ci # << >> /\ f.lua
    <3>1. Below.ci \in 1..Len(u.ci) /\ \A i \in Below.ci..Len(u.ci) : u.ci[i].lua
      BY <1>12, <1>16 DEF Works
    <3>2. Len(u.ci) \in Nat BY <1>2, <1>10, <3>1
    <3>3. Len(u.ci) \in Below.ci..Len(u.ci) /\ Len(u.ci) # 0 BY <3>1, <3>2
    <3> QED BY <3>1, <3>3
  <2>3. Len(cs) > 1 /\ cs[Len(cs) - 1].kind = "exec"
    <3>1. Len(cs) \in Nat BY <1>1 DEF Current
    <3>2. Len(cs) > 1 BY <3>1
    <3> QED BY <3>2, <1>16 DEF Below
  <2>4. Becomes([u EXCEPT !.ci = SetTop(@, [f EXCEPT !.op = "none"])], D)
    BY <2>2, <2>3, <1>7, <1>8, <1>16
  <2> QED BY <2>1, <2>4, <1>6, <1>12, <1>16, CompletedRight
<1>17. CASE ~e.yp /\ Below.kind # "exec"
  <2>1. Becomes(u, D) BY <1>7, <1>17 DEF Below
  <2>2. TopRight(With(u), D)
    <3>1. With(u)[L] = u BY <1>1, <1>6, WithRight
    <3>2. ASSUME Below.kind = "cfun" PROVE ~u.ci[Below.ci].yp
      <4>1. ~l.ci[Below.ci].yp BY <3>2, <1>12, <1>17 DEF Marks
      <4> QED BY <4>1, <3>2, <1>10, <1>13, <1>14
    <3> QED BY <3>1, <3>2, <1>12, <1>17 DEF TopRight
  <2> QED BY <2>1, <2>2, <1>12, Becoming DEF Good
<1> QED BY <1>5, <1>15, <1>16, <1>17

LEMMA CReturnStep ==
  ASSUME CallAssumption, CInv, CReturn
  PROVE  CInv'
<1>1. Typical /\ Current BY Running
<1>2. /\ Top(cs).kind \in {"cfun", "ret"} /\ Len(cs) # 1
      /\ Becomes(Back([l EXCEPT !.ci = Pop(@)], Top(cs)), Pop(cs))
  BY DEF CReturn, At, Host
<1>3. l.status = "ok" /\ Len(cs) \in Nat /\ Len(cs) >= 1 BY <1>1, <1>2 DEF Current
<1>4. Len(cs) >= 2 BY <1>2, <1>3, NotAlone
<1>5. Len(l.ci) >= 1 BY <1>1, <1>2 DEF Current, Works
<1>6. Top(cs).kind \in {"exec", "cfun", "ret"} /\ Top(cs).kind # "exec" BY <1>2
<1> QED BY <1>2, <1>3, <1>4, <1>5, <1>6, BackRight

LEMMA LuaReturnStep ==
  ASSUME CallAssumption, CInv, LuaReturn
  PROVE  CInv'
<1>1. Typical /\ Current BY Running
<1>2. Executes BY DEF LuaReturn
<1>3. /\ Len(cs) >= 2 /\ l.status = "ok" /\ Len(l.ci) >= 1 /\ Top(cs).kind = "exec"
      /\ Top(cs).ci \in 1..Len(l.ci)
  BY <1>2, TopFrame DEF Executes, At
<1>4. l \in State /\ l.ci \in Seq(Frame) /\ Len(l.ci) \in Nat BY <1>1 DEF Typical
<1>5. \A i \in Top(cs).ci..Len(l.ci) : l.ci[i].lua /\ (l.ci[i].fresh <=> i = Top(cs).ci)
  BY <1>1, <1>3 DEF Current, Works
<1>6. ci = l.ci[Len(l.ci)] /\ Len(l.ci) \in Top(cs).ci..Len(l.ci) BY <1>3, <1>4, TopFrame
<1>7. CASE ci.fresh
  <2>1. Top(cs).ci = Len(l.ci) BY <1>5, <1>6, <1>7
  <2>2. Becomes(Back([l EXCEPT !.ci = Pop(@)], Top(cs)), Pop(cs)) BY <1>7 DEF LuaReturn
  <2>3. Top(cs).kind \in {"exec", "cfun", "ret"} BY <1>3
  <2> QED BY <2>1, <2>2, <2>3, <1>3, BackRight
<1>8. CASE ~ci.fresh
  <2> DEFINE F == l.ci
             R == Pop(l.ci)
             x == [Top(R) EXCEPT !.op = "none"]
             t == [l EXCEPT !.ci = R]
             u == [t EXCEPT !.ci = SetTop(@, x)]
             m == Len(l.ci) - 1
  <2>1. Becomes(u, cs) BY <1>8 DEF LuaReturn
  <2>2. Top(cs).ci # Len(l.ci) BY <1>5, <1>6, <1>8
  <2>3. m >= 1 /\ m \in Nat /\ Top(cs).ci <= m /\ m \in Top(cs).ci..Len(l.ci) /\ m \in 1..Len(l.ci)
    BY <2>2, <1>3, <1>4
  <2>4. R \in Seq(Frame) /\ Len(R) = m /\ \A i \in 1..m : R[i] = F[i] BY <2>3, <1>4 DEF Pop
  <2> HIDE DEF m, R
  <2>5. Top(R) = F[m] /\ F[m] \in Frame /\ F[m].lua /\ (F[m].fresh <=> m = Top(cs).ci)
    <3>1. m \in 1..m BY <2>3
    <3> QED BY <3>1, <2>3, <2>4, <1>4, <1>5 DEF Top
  <2>6. x \in Frame /\ x.lua /\ x.fresh = F[m].fresh /\ ~x.yp /\ x.op = "none"
    <3>1. ~F[m].yp BY <2>3, <2>5, TopFrame
    <3> QED BY <3>1, <2>5 DEF Frame
  <2> HIDE DEF x
  <2>7. t \in State /\ t.ci = R /\ Same(l, t) BY <2>4, <1>3, <1>4 DEF State, Same
  <2> HIDE DEF t
  <2>8. SetTop(R, x) \in Seq(Frame) /\ TopSet(R, SetTop(R, x), x)
    <3>1. Len(R) \in 1..Len(R) BY <2>3, <2>4
    <3> QED BY <3>1, <2>4, <2>6 DEF TopSet, SetTop, Top
  <2>9. u \in State /\ u.ci = SetTop(R, x) /\ Same(l, u) BY <2>7, <2>8 DEF State, Same
  <2> HIDE DEF u
  <2>10. Len(u.ci) = m /\ u.ci[m] = x /\ \A i \in 1..m - 1 : u.ci[i] = F[i]
    <3>1. Len(u.ci) = m /\ u.ci[m] = x /\ \A i \in 1..m - 1 : u.ci[i] = R[i]
      BY <2>4, <2>8, <2>9 DEF TopSet
    <3>2. \A i \in 1..m - 1 : i \in 1..m BY <2>3
    <3> QED BY <3>1, <3>2, <2>4
  <2>11. Changed(F, u.ci, m)
    <3>1. \A i \in m..Len(F) : ~F[i].yp
      <4>1. \A i \in m..Len(F) : i \in Top(cs).ci..Len(F) /\ i \in 1..Len(F) BY <2>3, <1>3, <1>4
      <4> QED BY <4>1, <1>5, TopFrame
    <3>2. \A i \in m..Len(u.ci) : i = m BY <2>3, <2>10
    <3>3. m <= Len(F) + 1 BY <2>3, <1>4
    <3> QED BY <3>1, <3>2, <3>3, <2>3, <2>6, <2>10 DEF Changed
  <2>12. Works(Top(cs), u.ci, Len(u.ci))
    <3>1. ASSUME NEW i \in Top(cs).ci..Len(u.ci) PROVE u.ci[i].lua /\ (u.ci[i].fresh <=> i = Top(cs).ci)
      <4>1. i \in Top(cs).ci..Len(F) BY <2>3, <2>10, <1>4
      <4>2. CASE i = m BY <4>2, <2>5, <2>6, <2>10
      <4>3. CASE i # m
        <5>1. i \in 1..m - 1 BY <4>3, <2>3, <2>10, <1>3
        <5> QED BY <5>1, <4>1, <2>10, <1>5
      <4> QED BY <4>2, <4>3
    <3>2. Top(cs).ci \in 1..Len(u.ci) /\ Len(u.ci) \in 0..Len(u.ci) BY <2>3, <2>10, <1>3
    <3> QED BY <3>1, <3>2, <1>3 DEF Works
  <2>13. Retouched(u, m)
    <3>1. \A i \in m..Len(u.ci) : i = m BY <2>3, <2>10
    <3>2. Len(u.ci) <= Len(F) /\ Len(u.ci) <= Len(F) + 1 BY <2>3, <2>10, <1>4
    <3> QED BY <3>1, <3>2, <2>3, <2>6, <2>9, <2>10, <2>11, <2>12, <1>3 DEF Retouched
  <2>14. Core(With(u), cs) BY <2>9, <2>13, CoreRetouched
  <2>15. TopRight(With(u), cs)
    <3>1. With(u)[L] = u BY <2>9, <1>1, WithRight
    <3>2. cs[Len(cs)].kind = "exec" /\ cs[Len(cs)].th = L BY <1>1, <1>3 DEF Current
    <3> QED BY <3>1, <3>2, <2>6, <2>10 DEF TopRight
  <2> QED BY <2>1, <2>14, <2>15, Becoming DEF Good
<1> QED BY <1>7, <1>8

(***************************************************************************)
(* Hooks and message handlers                                              *)
(***************************************************************************)
LEMMA HookStep ==
  ASSUME CallAssumption, CInv, Hook
  PROVE  CInv'
<1>1. Typical /\ Current BY Running
<1>2. Executes BY DEF Hook
<1>3. /\ Len(cs) >= 2 /\ l.status = "ok" /\ Len(l.ci) >= 1 /\ Top(cs).kind = "exec"
      /\ ci.lua /\ ci.op = "none" /\ ~ci.yp
  BY <1>2, TopFrame DEF Executes, At
<1>4. ci = l.ci[Len(l.ci)] /\ ci \in Frame BY <1>3, TopFrame
<1>5. l \in State /\ l.ci \in Seq(Frame) /\ Len(l.ci) \in Nat /\ cs \in Seq(CEntry) BY <1>1 DEF Typical
<1>6. cs[Len(cs)] = Top(cs) /\ Top(cs).th = L /\ l = th[L] BY <1>1 DEF Current
<1>7. CASE ci.hookyield
  <2> DEFINE x == [ci EXCEPT !.hookyield = FALSE]
             u == [l EXCEPT !.ci = SetTop(@, x)]
  <2>1. Becomes(u, cs) BY <1>7 DEF Hook
  <2>2. x \in Frame /\ x.lua = ci.lua /\ x.fresh = ci.fresh /\ ~x.yp /\ x.op = "none"
    BY <1>3, <1>4 DEF Frame
  <2> HIDE DEF x
  <2>3. u \in State /\ TopSet(l.ci, u.ci, x) /\ Core(With(u), cs) BY <2>2, <1>2, TopTouched
  <2> HIDE DEF u
  <2>4. Len(u.ci) = Len(l.ci) /\ u.ci[Len(l.ci)] = x BY <2>3 DEF TopSet
  <2>5. With(u)[L] = u BY <2>3, <1>1, WithRight
  <2>6. TopRight(With(u), cs) BY <2>2, <2>4, <2>5, <1>3, <1>6 DEF TopRight
  <2> QED BY <2>1, <2>3, <2>6, Becoming DEF Good
<1>8. CASE ~ci.hookyield
  <2> DEFINE u == [l EXCEPT !.allowhook = FALSE]
             f == Here("hook")
             D == Append(cs, f)
  <2>1. l.allowhook /\ Becomes(u, D) BY <1>8 DEF Hook
  <2>2. /\ u \in State /\ u.ci = l.ci /\ u.status = l.status /\ u.errfunc = l.errfunc
        /\ ~u.allowhook /\ u.big = l.big /\ u.ncc = l.ncc /\ u.nny = l.nny
    BY <1>5 DEF State
  <2>3. /\ f \in CEntry /\ f.kind = "hook" /\ f.th = L /\ f.ci = Len(l.ci)
        /\ ~f.counted /\ ~f.ny /\ ~f.yp
    <3>1. "hook" \in Kinds BY DEF Kinds
    <3> QED BY <3>1, <1>1, HereRight
  <2> HIDE DEF u, f, D
  <2>4. D \in Seq(CEntry) /\ Added(cs, D, Len(cs), f) BY <2>3, <1>5, AppendAdds DEF D
  <2>5. With(u)[L] = u /\ Others(th, With(u), L) BY <2>2, <1>1, WithRight
  <2>6. Runs(th, cs, L) BY <1>1, <1>3 DEF Runs, Current, Typical
  <2>7. Core(th, cs) /\ ThreadRight(th, cs, L) BY <1>1 DEF CInv, Core, Typical
  <2>8. ~l.big => Len(l.ci) <= MAXSTACK BY <1>1, <1>6, <2>7 DEF ThreadRight, BoundOf, Current
  <2>9. Pushed(th, cs, With(u), D, L, f)
    <3>1. Over(f, cs[Len(cs)]) BY <2>3, <1>3, <1>6 DEF Over
    <3>2. Holds(f) BY <2>3 DEF Holds, Kinds
    <3>3. Works(f, u.ci, Len(u.ci)) BY <2>2, <2>3, <1>3, <1>4, <1>5 DEF Works
    <3>4. Marks(cs[Len(cs)], l.ci, f) BY <1>3, <1>6 DEF Marks
    <3>5. FrameAdded(l.ci, u.ci, cs[Len(cs)], f) BY <3>3, <3>4, <2>2, <2>3, <1>3, <1>6 DEF FrameAdded, Owns
    <3>6. HookAdded(l, u, f) BY <2>1, <2>2, <2>3 DEF HookAdded
    <3>7. BoundAdded(l, u, f) BY <2>2, <2>3, <2>8 DEF BoundAdded
    <3>8. YieldAdded(l.ci, u.ci, cs[Len(cs)], f) BY <2>2, <2>3, <1>3, <1>5, <1>6 DEF YieldAdded
    <3>9. HandlerAdded(l, u, f) BY <2>2, <2>3, <1>5 DEF HandlerAdded
    <3>10. CountedUp(l, u, f) BY <2>2, <2>3 DEF CountedUp
    <3>11. Len(cs) # 1 BY <1>1, <1>3 DEF Current
    <3> QED BY <2>2, <2>3, <2>4, <2>5, <1>3, <1>6, <3>1, <3>2, <3>5, <3>6, <3>7, <3>8, <3>9, <3>10, <3>11 DEF Pushed
  <2>10. Typed(With(u), D) BY <2>2, <2>4, <1>1, WithTyped
  <2>11. Core(With(u), D) BY <2>6, <2>7, <2>9, <2>10, CorePushed
  <2>12. TopRight(With(u), D)
    <3>1. D[Len(D)] = f BY <2>4 DEF Added
    <3> QED BY <3>1, <2>3 DEF TopRight
  <2> QED BY <2>1, <2>11, <2>12, Becoming DEF Good
<1> QED BY <1>7, <1>8

\* What was at the top of the C stack begins to throw.
LEMMA TurnedRight ==
  ASSUME CInv, Top(cs).kind \in {"raise", "hook"}, NEW D, D = SetTop(cs, [Top(cs) EXCEPT !.kind = "throw"])
  PROVE  /\ D \in Seq(CEntry) /\ Rekinded(cs, D, Len(cs)) /\ Len(cs) >= 2 /\ Len(cs) - 1 \in Nat
         /\ Len(D) = Len(cs) /\ D[Len(cs)].kind = "throw" /\ D[Len(cs)].th = L
<1> DEFINE f == [Top(cs) EXCEPT !.kind = "throw"]
<1>1. Typical /\ Current BY Running
<1>2. cs \in Seq(CEntry) /\ Len(cs) \in Nat /\ Len(cs) >= 1 /\ cs[Len(cs)] = Top(cs)
      /\ Top(cs) \in CEntry /\ Top(cs).th = L
  BY <1>1 DEF Typical, Current
<1>3. Len(cs) # 1 BY <1>1 DEF Current
<1>4. Len(cs) >= 2 BY <1>2, <1>3, NotAlone
<1>5. /\ f \in CEntry /\ f.kind = "throw" /\ f.th = Top(cs).th /\ f.counted = Top(cs).counted
      /\ f.ny = Top(cs).ny /\ f.yp = Top(cs).yp /\ f.ci = Top(cs).ci
  BY <1>2 DEF CEntry, Kinds
<1> HIDE DEF f
<1>6. /\ D \in Seq(CEntry) /\ Len(D) = Len(cs) /\ D[Len(cs)] = f
      /\ \A i \in 1..Len(cs) - 1 : D[i] = cs[i]
  <2>1. Len(cs) \in 1..Len(cs) BY <1>2
  <2> QED BY <2>1, <1>2, <1>5 DEF SetTop, f
<1>7. Rekinded(cs, D, Len(cs)) BY <1>2, <1>5, <1>6 DEF Rekinded
<1>8. Len(cs) - 1 \in Nat BY <1>2
<1> QED BY <1>2, <1>4, <1>5, <1>6, <1>7, <1>8
LEMMA CoreTurned ==
  ASSUME CInv, NEW v \in State, NEW D, Top(cs).kind \in {"raise", "hook"},
         D = SetTop(cs, [Top(cs) EXCEPT !.kind = "throw"]),
         Alike(l.ci, v.ci), v.ncc = l.ncc, v.nny = l.nny, v.errfunc = l.errfunc, v.big = l.big,
         v.status = l.status,
         IF Top(cs).kind = "hook" THEN v.allowhook ELSE v.allowhook = l.allowhook
  PROVE  Good(v, D)
<1>1. Typical /\ Current BY Running
<1>2. /\ D \in Seq(CEntry) /\ Rekinded(cs, D, Len(cs)) /\ Len(cs) >= 2 /\ Len(cs) - 1 \in Nat
      /\ Len(D) = Len(cs) /\ D[Len(cs)].kind = "throw" /\ D[Len(cs)].th = L
  BY TurnedRight
<1> DEFINE m == Len(cs) - 1
<1>3. m \in Nat /\ Len(cs) = m + 1 BY <1>1, <1>2 DEF Current
<1> HIDE DEF m
<1>4. With(v)[L] = v /\ Others(th, With(v), L) BY <1>1, WithRight
<1>5. cs[m + 1] = Top(cs) /\ Top(cs).th = L /\ l = th[L] /\ L \in Thread BY <1>1, <1>3 DEF Current, Typical
<1>6. l.status # "dead" /\ (l.status = "yield" => Top(cs).kind = "hook") BY <1>1 DEF Current
<1>7. Rekinded(cs, D, m + 1) BY <1>2, <1>3
<1>8. Rethrown(th, cs, With(v), D, m, L) BY <1>3, <1>4, <1>5, <1>6, <1>7 DEF Rethrown
<1>9. Typed(With(v), D) BY <1>1, <1>2, WithTyped
<1>10. Core(With(v), D) BY <1>3, <1>8, <1>9, CoreRethrown DEF CInv
<1>11. TopRight(With(v), D) BY <1>2 DEF TopRight
<1> QED BY <1>10, <1>11 DEF Good

LEMMA HookReturnStep ==
  ASSUME CallAssumption, CInv, HookReturn
  PROVE  CInv'
<1> DEFINE u == [l EXCEPT !.allowhook = TRUE]
<1>1. Typical /\ Current BY Running
<1>2. At("hook") /\ Top(cs).kind = "hook" BY DEF HookReturn, At
<1>3. /\ Len(cs) >= 2 /\ Len(l.ci) >= 1 /\ ci.lua /\ ci.op = "none" /\ ~ci.yp BY <1>2, TopFrame
<1>4. ci = l.ci[Len(l.ci)] /\ ci \in Frame BY <1>3, TopFrame
<1>5. l \in State /\ l.ci \in Seq(Frame) /\ Len(l.ci) \in Nat BY <1>1 DEF Typical
<1>6. /\ u \in State /\ u.ci = l.ci /\ u.status = l.status /\ u.errfunc = l.errfunc
      /\ u.allowhook /\ u.big = l.big /\ u.ncc = l.ncc /\ u.nny = l.nny
  BY <1>5 DEF State
<1>7. CASE l.status = "yield"
  <2> DEFINE x == [ci EXCEPT !.hookyield = TRUE]
             v == [u EXCEPT !.ci = SetTop(@, x)]
             D == SetTop(cs, [Top(cs) EXCEPT !.kind = "throw"])
  <2>1. Becomes(v, D) BY <1>7 DEF HookReturn
  <2>2. /\ x \in Frame /\ x.lua = ci.lua /\ x.fresh = ci.fresh /\ x.op = ci.op /\ x.k = ci.k
        /\ x.yp = ci.yp /\ x.oef = ci.oef /\ x.oah = ci.oah /\ x.handler = ci.handler
    BY <1>4 DEF Frame
  <2> HIDE DEF x, u, D
  <2>3. SetTop(l.ci, x) \in Seq(Frame) /\ TopSet(l.ci, SetTop(l.ci, x), x)
    <3>1. Len(l.ci) \in 1..Len(l.ci) BY <1>3, <1>5
    <3> QED BY <3>1, <2>2, <1>5 DEF TopSet, SetTop, Top
  <2>4. /\ v \in State /\ v.ci = SetTop(l.ci, x) /\ v.status = u.status /\ v.errfunc = u.errfunc
        /\ v.allowhook = u.allowhook /\ v.big = u.big /\ v.ncc = u.ncc /\ v.nny = u.nny
    BY <2>3, <1>6 DEF State
  <2> HIDE DEF v
  <2>5. Alike(l.ci, v.ci)
    <3>1. /\ Len(v.ci) = Len(l.ci) /\ v.ci[Len(l.ci)] = x
          /\ \A i \in 1..Len(l.ci) - 1 : v.ci[i] = l.ci[i]
      BY <2>3, <2>4 DEF TopSet
    <3>2. \A i \in 1..Len(l.ci) : i = Len(l.ci) \/ i \in 1..Len(l.ci) - 1 BY <1>5
    <3> QED BY <3>1, <3>2, <2>2, <1>4 DEF Alike
  <2>6. Good(v, D)
    <3>1. v \in State /\ v.ncc = l.ncc /\ v.nny = l.nny /\ v.errfunc = l.errfunc /\ v.big = l.big
          /\ v.status = l.status
      BY <2>4, <1>6
    <3>2. v.allowhook BY <2>4, <1>6
    <3>3. IF Top(cs).kind = "hook" THEN v.allowhook ELSE v.allowhook = l.allowhook BY <3>2, <1>2
    <3>4. Top(cs).kind \in {"raise", "hook"} BY <1>2
    <3>5. D = SetTop(cs, [Top(cs) EXCEPT !.kind = "throw"]) BY DEF D
    <3> QED BY <2>5, <3>1, <3>3, <3>4, <3>5, CoreTurned
  <2> QED BY <2>1, <2>6, Becoming
<1>8. CASE l.status # "yield"
  <2>1. Becomes(u, Pop(cs)) BY <1>8 DEF HookReturn
  <2> HIDE DEF u
  <2>2. l.status = "ok"
    <3>1. l.status \in {"ok", "yield", "dead"} /\ l.status # "dead" BY <1>1, <1>5 DEF State, Current
    <3> QED BY <3>1, <1>8
  <2>3. Holds(Top(cs))
    <3>1. Len(cs) \in 1..Len(cs) /\ cs[Len(cs)] = Top(cs) BY <1>1 DEF Current
    <3> QED BY <3>1 DEF CInv, Core, Shape
  <2>4. CountedDown(l, u, Top(cs)) BY <2>3, <1>2, <1>6 DEF Holds, CountedDown
  <2>5. Pops(u) BY <2>2, <2>4, <1>2, <1>3, <1>6 DEF Pops, Owns
  <2>6. /\ Core(With(u), Pop(cs)) /\ Pop(cs)[Len(Pop(cs))] = Below /\ Below.th = L
        /\ Over(Top(cs), Below)
    BY <2>5, <1>6, CorePops
  <2>7. TopRight(With(u), Pop(cs))
    <3>1. Below.kind = "exec" BY <2>6, <1>2 DEF Over
    <3>2. With(u)[L] = u BY <1>1, <1>6, WithRight
    <3> QED BY <3>1, <3>2, <2>6, <1>3, <1>4, <1>6 DEF TopRight
  <2> QED BY <2>1, <2>6, <2>7, Becoming DEF Good
<1> QED BY <1>7, <1>8

LEMMA luaG_errormsgStep ==
  ASSUME CallAssumption, CInv, NEW lua \in BOOLEAN, luaG_errormsg(lua)
  PROVE  CInv'
<1> DEFINE D == SetTop(cs, [Top(cs) EXCEPT !.kind = "throw"])
<1>1. Typical /\ Current BY Running
<1>2. Top(cs).kind = "raise" BY DEF luaG_errormsg, At
<1>3. Becomes(l, D) \/ Enter(l, D, lua, TRUE, TRUE, FALSE) BY DEF luaG_errormsg
<1>4. /\ D \in Seq(CEntry) /\ Len(cs) >= 2 /\ Len(D) = Len(cs)
      /\ D[Len(cs)].kind = "throw" /\ D[Len(cs)].th = L
  BY <1>2, TurnedRight
<1>5. l \in State /\ l.status = "ok" BY <1>1, <1>2 DEF Typical, Current
<1>6. Good(l, D)
  <2>1. Alike(l.ci, l.ci) BY DEF Alike
  <2> QED BY <2>1, <1>2, <1>5, CoreTurned
<1> HIDE DEF D
<1>7. CASE Becomes(l, D) BY <1>6, <1>7, Becoming
<1>8. CASE Enter(l, D, lua, TRUE, TRUE, FALSE)
  <2>1. Enters(l, D[Len(D)], TRUE, FALSE) BY <1>4, <1>5 DEF Enters
  <2>2. Len(D) >= 2 /\ Core(With(l), D) BY <1>4, <1>6 DEF Good
  <2> QED BY <2>1, <2>2, <1>1, <1>4, <1>5, <1>8, EnterRight
<1> QED BY <1>3, <1>7, <1>8

(***************************************************************************)
(* Yields                                                                  *)
(***************************************************************************)
\* What may yield is in no call that forbids it: its frames can be continued.
LEMMA MayYield ==
  ASSUME CInv, InC, l.nny = 0
  PROVE  /\ \A f \in 1..Len(l.ci) : (At("cfun") => f # Len(l.ci)) => Continues(l.ci[f])
         /\ ~l.big /\ (At("cfun") => l.allowhook)
<1> DEFINE n == Len(cs)
<1>1. Typical /\ Current BY Running
<1>2. /\ Len(cs) >= 2 /\ l.status = "ok" /\ Top(cs).kind \in {"cfun", "hook"}
      /\ Top(cs).ci = Len(l.ci)
  BY CFunctionRuns
<1>3. n \in Nat /\ n >= 1 /\ L = cs[n].th /\ l = th[L] /\ cs[n] = Top(cs) /\ L \in Thread
  BY <1>1 DEF Current, Typical
<1>4. n = Len(cs) OBVIOUS
<1>5. Core(th, cs) BY DEF CInv
<1> HIDE DEF n
<1>6. th[L].nny = 0 /\ cs[n].kind \in {"cfun", "hook"} BY <1>2, <1>3
<1>7. Free(cs, L, n - 1) BY <1>3, <1>4, <1>5, <1>6, Unprotected
<1>8. ASSUME NEW f \in 1..Len(l.ci), At("cfun") => f # Len(l.ci) PROVE Continues(l.ci[f])
  <2>1. cs[n].kind = "cfun" => f # cs[n].ci BY <1>8, <1>1, <1>2, <1>3 DEF At, Current
  <2>2. f \in 1..Len(th[L].ci) BY <1>3
  <2>3. Continues(th[L].ci[f]) BY <2>1, <2>2, <1>3, <1>4, <1>5, <1>6, AllContinue
  <2> QED BY <2>3, <1>3
<1>9. \A i \in 1..n : i \in 1..n - 1 \/ i = n BY <1>3
<1>10. ThreadRight(th, cs, L) BY <1>3, <1>5 DEF Core
<1>11. ~l.big
  <2>1. ~Handling(cs, L, n)
    <3>1. \A i \in 1..n : ~(cs[i].th = L /\ cs[i].kind \in {"raise", "throw"})
      BY <1>6, <1>7, <1>9 DEF Free
    <3> QED BY <3>1 DEF Handling
  <2> QED BY <2>1, <1>2, <1>3, <1>4, <1>10 DEF ThreadRight, BoundOf
<1>12. ASSUME At("cfun") PROVE l.allowhook
  <2>1. cs[n].kind = "cfun" BY <1>3, <1>12 DEF At
  <2>2. NoHook(cs, L, n)
    <3>1. \A i \in 1..n : ~(cs[i].th = L /\ cs[i].kind = "hook") BY <2>1, <1>7, <1>9 DEF Free
    <3> QED BY <3>1 DEF NoHook
  <2> QED BY <2>2, <1>2, <1>3, <1>4, <1>10 DEF ThreadRight, HooksOf
<1> QED BY <1>8, <1>11, <1>12

LEMMA lua_yieldkStep ==
  ASSUME CallAssumption, CInv, NEW k \in Ks, lua_yieldk(k)
  PROVE  CInv'
<1>1. Typical /\ Current BY Running
<1>2. InC BY DEF lua_yieldk
<1>3. /\ Len(cs) >= 2 /\ l.status = "ok" /\ Top(cs).kind \in {"cfun", "hook"}
      /\ Len(l.ci) >= 1 /\ Top(cs).ci = Len(l.ci) /\ ~ci.yp /\ ci = l.ci[Len(l.ci)] /\ ci \in Frame
  BY <1>2, CFunctionRuns
<1>4. l \in State /\ Len(l.ci) \in Nat /\ l.ci \in Seq(Frame) /\ cs \in Seq(CEntry) /\ L \in Thread
  BY <1>1 DEF Typical
<1>5. cs[Len(cs)] = Top(cs) /\ Top(cs).th = L /\ l = th[L] BY <1>1 DEF Current
<1>6. CASE l.nny > 0
  <2>1. Becomes(l, Append(cs, Here("raise"))) BY <1>6 DEF lua_yieldk
  <2>2. Core(With(l), cs) BY <1>1, WithMine DEF CInv
  <2>3. Same(l, l) BY <1>3 DEF Same
  <2>4. Top(cs).kind \in {"exec", "cfun", "hook"} BY <1>3
  <2> QED BY <2>1, <2>2, <2>3, <2>4, <1>3, <1>4, FailsRight
<1>7. CASE ~(l.nny > 0)
  <2>1. l.nny = 0
    <3>1. l.nny \in Nat BY NnyRight
    <3> QED BY <3>1, <1>7
  <2>2. /\ \A f \in 1..Len(l.ci) : (At("cfun") => f # Len(l.ci)) => Continues(l.ci[f])
        /\ ~l.big /\ (At("cfun") => l.allowhook)
    BY <2>1, <1>2, MayYield
  <2>3. \A f \in 1..Len(l.ci) - 1 : f \in 1..Len(l.ci) /\ f # Len(l.ci) BY <1>4
  <2>4. CASE At("hook")
    <3> DEFINE v == [l EXCEPT !.status = "yield"]
    <3>1. Becomes(v, cs) BY <2>4, <1>7 DEF lua_yieldk
    <3>2. /\ v \in State /\ v.ci = l.ci /\ v.status = "yield" /\ v.errfunc = l.errfunc
          /\ v.allowhook = l.allowhook /\ v.big = l.big /\ v.ncc = l.ncc /\ v.nny = l.nny
      BY <1>4 DEF State
    <3> HIDE DEF v
    <3>3. With(v)[L] = v /\ Others(th, With(v), L) BY <3>2, <1>1, WithRight
    <3>4. ci.lua /\ ci.op = "none" BY <2>4, TopFrame
    <3>5. Ready(th, L) BY <2>2, <2>3, <3>4, <1>3, <1>5 DEF Ready
    <3>6. cs[Len(cs)].kind = "hook" BY <2>4, <1>5 DEF At
    <3>7. Yielding(th, cs, With(v), L) BY <2>1, <3>2, <3>3, <3>5, <3>6, <1>3, <1>4, <1>5 DEF Yielding
    <3>8. Typed(With(v), cs) BY <3>2, <1>1, <1>4, WithTyped
    <3>9. Core(With(v), cs) BY <3>7, <3>8, CoreYielding DEF CInv
    <3>10. TopRight(With(v), cs) BY <3>6 DEF TopRight
    <3> QED BY <3>1, <3>9, <3>10, Becoming DEF Good
  <2>5. CASE ~At("hook")
    <3> DEFINE x == [ci EXCEPT !.k = k]
               u == [l EXCEPT !.ci = SetTop(@, x)]
               v == [l EXCEPT !.status = "yield", !.ci = SetTop(@, x)]
               f == Here("throw")
               D == Append(cs, f)
    <3>1. Becomes(v, D) BY <2>5, <1>7 DEF lua_yieldk
    <3>2. At("cfun") BY <2>5, <1>2 DEF InC
    <3>3. k \in {"none", "some"} BY DEF Ks
    <3>4. x \in Frame /\ x.lua = ci.lua /\ x.fresh = ci.fresh /\ ~x.yp /\ x.k = k
      BY <3>3, <1>3 DEF Frame
    <3> HIDE DEF x
    <3>5. u \in State /\ Same(l, u) /\ TopSet(l.ci, u.ci, x) /\ Core(With(u), cs)
      BY <3>2, <3>4, TopTouched
    <3>6. /\ v.ci = u.ci /\ v.status = "yield" /\ v.errfunc = u.errfunc
          /\ v.allowhook = u.allowhook /\ v.big = u.big /\ v.ncc = u.ncc /\ v.nny = u.nny
      BY <1>4 DEF State
    <3>7. v \in State
      <4>1. v = [u EXCEPT !.status = "yield"] BY <1>4 DEF State
      <4> HIDE DEF u, v
      <4> QED BY <4>1, <3>5 DEF State
    <3> HIDE DEF u, v
    <3>8. /\ f \in CEntry /\ f.kind = "throw" /\ f.th = L /\ f.ci = Len(l.ci)
          /\ ~f.counted /\ ~f.ny /\ ~f.yp
      <4>1. "throw" \in Kinds BY DEF Kinds
      <4> QED BY <4>1, <1>1, HereRight
    <3> HIDE DEF f
    <3>9. Len(u.ci) = Len(l.ci) /\ u.ci[Len(l.ci)] = x /\ \A i \in 1..Len(l.ci) - 1 : u.ci[i] = l.ci[i]
      BY <3>5 DEF TopSet
    <3>10. CountedUp(u, u, f) BY <3>8 DEF CountedUp
    <3>11. u.status = "ok" /\ cs[Len(cs)].th = L /\ cs[Len(cs)].kind \in {"exec", "cfun", "hook", "pcall", "throw"}
           /\ cs[Len(cs)].kind \notin {"pcall", "throw"} /\ f.ci = Len(u.ci)
      BY <3>5, <3>8, <3>9, <1>3, <1>5 DEF Same
    <3>12. Good(u, D) BY <3>5, <3>8, <3>10, <3>11, <1>1, <1>3, <1>4, GoodFails
    <3>13. D \in Seq(CEntry) /\ Len(D) = Len(cs) + 1 /\ D[Len(D)] = f
      BY <3>8, <1>4, AppendAdds DEF Added
    <3> HIDE DEF D
    <3>14. With(u)[L] = u /\ With(v)[L] = v /\ Others(With(u), With(v), L) BY <3>5, <3>7, <1>1, WithRight
    <3>15. Ready(With(u), L)
      <4>1. \A i \in 1..Len(u.ci) - 1 : Continues(u.ci[i]) BY <2>2, <2>3, <3>9
      <4>2. ~u.big BY <2>2, <3>5 DEF Same
      <4>3. ~x.lua /\ x.k # "junk" /\ ~x.yp
        <5>1. ~ci.lua BY <3>2, TopFrame
        <5> QED BY <5>1, <3>3, <3>4
      <4> QED BY <4>1, <4>2, <4>3, <3>9, <3>14, <1>3 DEF Ready
    <3>16. u.nny = 0 /\ u.allowhook BY <2>1, <2>2, <3>2, <3>5 DEF Same
    <3>17. Yielding(With(u), D, With(v), L) BY <3>6, <3>8, <3>11, <3>13, <3>14, <3>15, <3>16, <1>4 DEF Yielding
    <3>18. Typed(With(v), D) BY <3>7, <3>13, <1>1, WithTyped
    <3>19. Core(With(v), D) BY <3>12, <3>17, <3>18, CoreYielding DEF Good
    <3>20. TopRight(With(v), D) BY <3>8, <3>13 DEF TopRight
    <3> QED BY <3>1, <3>19, <3>20, Becoming DEF Good, D
  <2> QED BY <2>4, <2>5
<1> QED BY <1>6, <1>7

(***************************************************************************)
(* luaD_throw                                                              *)
(***************************************************************************)
\* A set of numbers up to n that has a member has a last one.
LEMMA Largest ==
  ASSUME NEW n \in Nat, NEW S, S \subseteq 1..n, S # {}
  PROVE  \E x \in S : \A y \in S : y <= x
<1> DEFINE R == OpToRel(<, Nat)
           U == {n - i : i \in S}
<1>1. \A x, y \in Nat : <<y, x>> \in R <=> y < x BY DEF OpToRel
<1>2. IsWellFoundedOn(R, Nat) BY NatLessThanWellFounded
<1>3. U \subseteq Nat /\ U # {}
  <2>1. \A i \in S : n - i \in Nat
    <3>1. \A i \in S : i \in 1..n OBVIOUS
    <3> QED BY <3>1
  <2>2. PICK i \in S : TRUE OBVIOUS
  <2>3. n - i \in U OBVIOUS
  <2> QED BY <2>1, <2>3
<1> HIDE DEF R
<1>4. PICK u \in U : \A v \in U : ~(<<v, u>> \in R)
  <2> HIDE DEF U
  <2> QED BY <1>2, <1>3, WFMin
<1>5. PICK x \in S : u = n - x OBVIOUS
<1>6. ASSUME NEW y \in S PROVE y <= x
  <2>1. n - y \in U /\ n - y \in Nat /\ u \in Nat /\ y \in Int /\ x \in Int BY <1>3
  <2>2. ~(n - y < u) BY <2>1, <1>1, <1>4
  <2> QED BY <2>1, <2>2, <1>5
<1> QED BY <1>6

Jumps(i) == cs[i].th = L /\ cs[i].kind \in {"pcall", "resume"}
LEMMA ErrorJmp ==
  ASSUME CInv, At("throw")
  PROVE  /\ errorJmp \in 2..Len(cs) /\ errorJmp < Len(cs) /\ Jumps(errorJmp)
         /\ \A j \in errorJmp + 1..Len(cs) : ~Jumps(j)
<1> DEFINE J == {i \in 1..Len(cs) : Jumps(i)}
<1>1. Typical /\ Current BY Running
<1>2. Len(cs) \in Nat /\ Len(cs) >= 1 /\ cs[Len(cs)] = Top(cs) /\ Top(cs).kind = "throw" /\ Top(cs).th = L
      /\ cs \in Seq(CEntry) /\ L \in Thread
  BY <1>1 DEF At, Current, Typical
<1>3. Shape(cs) BY DEF CInv, Core
<1>4. cs[1].kind = "cfun" /\ cs[1].th = mainthread BY <1>3 DEF Shape, Based
<1>5. Len(cs) # 1 BY <1>2, <1>4
<1>6. Len(cs) >= 2 BY <1>2, <1>5, NotAlone
<1>7. J # {}
  <2>1. CASE L = mainthread
    <3>1. cs[2].kind = "pcall" BY <1>3, <1>6 DEF Shape, Based
    <3>2. Over(cs[2], cs[1])
      <4>1. 1 \in 1..Len(cs) - 1 BY <1>2, <1>6
      <4>2. Over(cs[1 + 1], cs[1]) BY <4>1, <1>3 DEF Shape
      <4> QED BY <4>2
    <3>3. cs[2].th = L BY <3>1, <3>2, <2>1, <1>4 DEF Over
    <3>4. 2 \in J BY <3>1, <3>3, <1>2, <1>6 DEF Jumps
    <3> QED BY <3>4
  <2>2. CASE L # mainthread
    <3>1. Len(cs) \in 1..Len(cs) BY <1>2
    <3>2. PICK r \in 2..Len(cs) : cs[r].kind = "resume" /\ cs[r].th = L
      BY <3>1, <2>2, <1>2, <1>3 DEF Shape, ResumedOnce
    <3>3. r \in J BY <3>2, <1>2 DEF Jumps
    <3> QED BY <3>3
  <2> QED BY <2>1, <2>2
<1>8. PICK i \in J : \A j \in J : j <= i
  <2>1. J \subseteq 1..Len(cs) OBVIOUS
  <2> HIDE DEF J
  <2> QED BY <2>1, <1>2, <1>7, Largest
<1>9. DOMAIN cs = 1..Len(cs) BY <1>2
<1>10. i \in DOMAIN cs /\ Jumps(i) /\ \A j \in i + 1..Len(cs) : ~Jumps(j)
  <2>1. ASSUME NEW j \in i + 1..Len(cs), Jumps(j) PROVE FALSE
    <3>1. j \in J BY <2>1, <1>2, <1>8
    <3>2. j <= i BY <3>1, <1>8
    <3> QED BY <3>2, <1>8
  <2> QED BY <2>1, <1>8, <1>9
<1> DEFINE Is(k) == /\ cs[k].th = L /\ cs[k].kind \in {"pcall", "resume"}
                    /\ \A j \in k + 1..Len(cs) : cs[j].th = L => cs[j].kind \notin {"pcall", "resume"}
<1>11. Is(i) BY <1>10 DEF Jumps
<1>12. errorJmp = CHOOSE k \in DOMAIN cs : Is(k) BY DEF errorJmp
<1>13. \E k \in DOMAIN cs : Is(k) BY <1>10, <1>11
<1> HIDE DEF Is
<1>14. errorJmp \in DOMAIN cs /\ Is(errorJmp) BY <1>12, <1>13
<1>15. Jumps(errorJmp) /\ \A j \in errorJmp + 1..Len(cs) : ~Jumps(j) BY <1>14 DEF Is, Jumps
<1>16. errorJmp # Len(cs) /\ errorJmp # 1 BY <1>2, <1>4, <1>15 DEF Jumps
<1>17. errorJmp \in 1..Len(cs) BY <1>9, <1>14
<1>18. errorJmp \in 2..Len(cs) /\ errorJmp < Len(cs) BY <1>2, <1>16, <1>17
<1> QED BY <1>15, <1>18

\* What a protected call or lua_resume is on top of.
LEMMA CallerOf ==
  ASSUME CInv, NEW i \in 2..Len(cs), cs[i].kind \in {"pcall", "resume"}
  PROVE  /\ cs[i - 1].kind \in {"cfun", "hook"}
         /\ cs[i - 1].kind = "cfun" => ~th[cs[i - 1].th].ci[cs[i - 1].ci].yp
         /\ cs[i].kind = "pcall" => /\ cs[i - 1].th = cs[i].th
                                    /\ cs[i - 1].kind = "cfun" => cs[i - 1].ci = cs[i].ci /\ cs[i].ci >= 1
         /\ cs[i].kind = "resume" => /\ \A j \in 1..i - 1 : cs[j].th # cs[i].th
                                     /\ cs[i].nny = 1
<1> DEFINE n == i - 1
<1>1. Len(cs) \in Nat BY Running DEF Current
<1>2. n \in 1..Len(cs) /\ n \in 1..Len(cs) - 1 /\ n < Len(cs) /\ i = n + 1 /\ i \in 1..Len(cs) BY <1>1
<1> HIDE DEF n
<1>3. Shape(cs) /\ Frames(th, cs) /\ CountsRight(th, cs) BY DEF CInv, Core
<1>4. Over(cs[i], cs[n]) /\ Holds(cs[i]) BY <1>2, <1>3 DEF Shape
<1>5. cs[n].kind \in {"cfun", "hook"} BY <1>4 DEF Over
<1>6. Framed(th, cs, n) BY <1>2, <1>3 DEF Frames
<1>7. cs[n].kind = "cfun" => ~th[cs[n].th].ci[cs[n].ci].yp
  <2>1. Marks(cs[n], th[cs[n].th].ci, cs[i]) BY <1>2, <1>6 DEF Framed
  <2>2. ~cs[i].yp BY <1>4 DEF Holds
  <2> QED BY <2>1, <2>2 DEF Marks
<1>8. cs[i].kind = "pcall" => /\ cs[n].th = cs[i].th
                              /\ cs[n].kind = "cfun" => cs[n].ci = cs[i].ci /\ cs[i].ci >= 1
  <2>1. ASSUME cs[i].kind = "pcall" PROVE cs[n].th = cs[i].th BY <2>1, <1>4 DEF Over
  <2>2. ASSUME cs[i].kind = "pcall", cs[n].kind = "cfun" PROVE cs[n].ci = cs[i].ci /\ cs[i].ci >= 1
    <3>1. Height(th, cs, n) = cs[i].ci BY <2>2, <1>2 DEF Height, Owns
    <3> QED BY <3>1, <2>2, <1>6 DEF Framed, Works
  <2> QED BY <2>1, <2>2
<1>9. cs[i].kind = "resume" => \A j \in 1..i - 1 : cs[j].th # cs[i].th
  BY <1>2, <1>3 DEF Shape, ResumedOnce
<1>10. cs[i].kind = "resume" => cs[i].nny = 1 BY <1>3 DEF CountsRight
<1> QED BY <1>5, <1>7, <1>8, <1>9, <1>10 DEF n

\* The stack cut back to below entry i.
LEMMA CutKeeps ==
  ASSUME NEW c \in Seq(CEntry), NEW i \in 2..Len(c)
  PROVE  /\ SubSeq(c, 1, i - 1) \in Seq(CEntry) /\ Kept(c, SubSeq(c, 1, i - 1), i - 1) /\ i - 1 \in Nat
         /\ i - 1 < Len(c) /\ i = (i - 1) + 1
<1>1. Len(c) \in Nat /\ i - 1 \in 1..Len(c) /\ i - 1 \in Nat OBVIOUS
<1>2. /\ SubSeq(c, 1, i - 1) \in Seq(CEntry) /\ Len(SubSeq(c, 1, i - 1)) = i - 1
      /\ \A j \in 1..i - 1 : SubSeq(c, 1, i - 1)[j] = c[j]
  BY <1>1
<1> QED BY <1>1, <1>2 DEF Kept

\* Facts about the place where an error or a yield arrives.
Arrives(i) ==
  /\ i \in 2..Len(cs) /\ i < Len(cs) /\ cs[i].th = L /\ (\A j \in i + 1..Len(cs) : ~Jumps(j))
  /\ cs[i] \in CEntry /\ Top(cs).kind = "throw"
  /\ l \in State /\ l.ci \in Seq(Frame) /\ Len(l.ci) \in Nat /\ th[L] = l /\ L \in Thread
  /\ cs[Len(cs)].th = L /\ cs \in Seq(CEntry) /\ Len(cs) \in Nat /\ l.status \in {"ok", "yield"}
LEMMA Arriving ==
  ASSUME CInv, At("throw")
  PROVE  Arrives(errorJmp) /\ cs[errorJmp].kind \in {"pcall", "resume"}
<1>1. Typical /\ Current BY Running
<1>2. /\ errorJmp \in 2..Len(cs) /\ errorJmp < Len(cs) /\ Jumps(errorJmp)
      /\ \A j \in errorJmp + 1..Len(cs) : ~Jumps(j)
  BY ErrorJmp
<1>3. Len(cs) \in Nat /\ cs \in Seq(CEntry) BY <1>1 DEF Typical, Current
<1>4. cs[errorJmp] \in CEntry
  <2>1. errorJmp \in 1..Len(cs) BY <1>2, <1>3
  <2> QED BY <2>1, <1>3
<1>5. l \in State /\ l.ci \in Seq(Frame) /\ Len(l.ci) \in Nat /\ th[L] = l /\ L \in Thread
      /\ cs[Len(cs)].th = L /\ Top(cs).kind = "throw" /\ l.status # "dead"
  BY <1>1 DEF Typical, Current, At
<1>6. l.status \in {"ok", "yield"} BY <1>5 DEF State
<1> QED BY <1>2, <1>3, <1>4, <1>5, <1>6 DEF Arrives, Jumps

LEMMA ShrinkRight ==
  ASSUME NEW t \in State, NEW u, u = luaD_shrinkstack(t)
  PROVE  /\ u \in State /\ u.ci = t.ci /\ u.status = t.status /\ u.errfunc = t.errfunc
         /\ u.allowhook = t.allowhook /\ u.ncc = t.ncc /\ u.nny = t.nny /\ u.fun = t.fun
         /\ (u.big <=> t.big /\ Len(t.ci) > MAXSTACK)
<1>1. u = [t EXCEPT !.big = t.big /\ Len(t.ci) > MAXSTACK] BY DEF luaD_shrinkstack
<1>2. (t.big /\ Len(t.ci) > MAXSTACK) \in BOOLEAN OBVIOUS
<1> DEFINE b == t.big /\ Len(t.ci) > MAXSTACK
<1>3. u = [t EXCEPT !.big = b] /\ b \in BOOLEAN BY <1>1, <1>2
<1> HIDE DEF b
<1>4. /\ u \in State /\ u.ci = t.ci /\ u.status = t.status /\ u.errfunc = t.errfunc
      /\ u.allowhook = t.allowhook /\ u.ncc = t.ncc /\ u.nny = t.nny /\ u.fun = t.fun /\ u.big = b
  BY <1>3 DEF State
<1> QED BY <1>4 DEF b

LEMMA PcallArrives ==
  ASSUME CallAssumption, CInv, NEW i, Arrives(i), cs[i].kind = "pcall",
         Becomes(Caught(cs[i]), SubSeq(cs, 1, i - 1))
  PROVE  CInv'
<1> DEFINE e == cs[i]
           D == SubSeq(cs, 1, i - 1)
           R == SubSeq(l.ci, 1, e.ci)
           t == [l EXCEPT !.ci = R, !.ncc = e.ncc, !.allowhook = e.allowhook, !.nny = e.nny,
                          !.errfunc = e.errfunc]
           u == Caught(e)
           n == i - 1
<1>1. Typical /\ Current BY Running
<1>2. /\ i \in 2..Len(cs) /\ i < Len(cs) /\ e.th = L /\ e \in CEntry
      /\ l \in State /\ l.ci \in Seq(Frame) /\ Len(l.ci) \in Nat /\ th[L] = l /\ L \in Thread
      /\ cs[Len(cs)].th = L /\ cs \in Seq(CEntry) /\ Len(cs) \in Nat /\ Top(cs).kind = "throw"
      /\ l.status \in {"ok", "yield"}
  BY DEF Arrives
<1>3. D \in Seq(CEntry) /\ Kept(cs, D, n) /\ n \in Nat /\ n < Len(cs) /\ i = n + 1 BY <1>2, CutKeeps
<1>4. /\ cs[n].kind \in {"cfun", "hook"} /\ cs[n].th = L
      /\ cs[n].kind = "cfun" => ~l.ci[cs[n].ci].yp /\ cs[n].ci = e.ci /\ e.ci >= 1
  BY <1>2, CallerOf
<1> HIDE DEF D, n
<1>5. Core(th, cs) /\ Shape(cs) BY DEF CInv, Core
<1>6. l.status = "ok"
  <2>1. ASSUME l.status = "yield" PROVE FALSE
    <3>1. OnCStack(cs, L)
      <4>1. Len(cs) \in 1..Len(cs) BY <1>2
      <4> QED BY <4>1, <1>2 DEF OnCStack
    <3>2. StatusOf(th, cs, L) BY <1>2, <1>5 DEF Core, ThreadRight
    <3>3. th[L].nny = 0 BY <2>1, <3>1, <3>2, <1>2 DEF StatusOf
    <3>4. Len(cs) \in Nat /\ Len(cs) >= 1 BY <1>2
    <3>5. \A j \in 1..Len(cs) : cs[j].th = L => ~cs[j].ny BY <3>3, <3>4, <1>2, <1>5, NyZero
    <3>6. Over(cs[i + 1], cs[i])
      <4>1. i \in 1..Len(cs) - 1 BY <1>2
      <4> QED BY <4>1, <1>5 DEF Shape
    <3>7. cs[i + 1].ny /\ cs[i + 1].th = L BY <3>6, <1>2 DEF Over
    <3>8. i + 1 \in 1..Len(cs) BY <1>2
    <3> QED BY <3>5, <3>7, <3>8
  <2> QED BY <2>1, <1>2
<1>7. e.ci \in Nat /\ e.ci <= Len(l.ci)
  <2>1. i \in 1..Len(cs) BY <1>2
  <2>2. Sized(th, cs) /\ Frames(th, cs) BY <1>5, TypedSized DEF Core
  <2>3. e.ci <= Height(th, cs, i) /\ Height(th, cs, i) \in 0..Len(th[e.th].ci)
    BY <2>1, <2>2, <1>5, OwnFrames
  <2>4. e.ci \in Nat BY <1>2 DEF CEntry
  <2> QED BY <2>3, <2>4, <1>2
<1>8. R \in Seq(Frame) /\ Len(R) = e.ci /\ \A j \in 1..e.ci : R[j] = l.ci[j] BY <1>2, <1>7
<1> HIDE DEF R
<1>9. /\ t \in State /\ t.ci = R /\ t.ncc = e.ncc /\ t.allowhook = e.allowhook /\ t.nny = e.nny
      /\ t.errfunc = e.errfunc /\ t.big = l.big /\ t.status = l.status
  <2>1. e.ncc \in Int /\ e.nny \in Int /\ e.allowhook \in BOOLEAN /\ e.errfunc \in Handlers
    BY <1>2 DEF CEntry
  <2> HIDE DEF e
  <2> QED BY <2>1, <1>2, <1>8 DEF State
<1>10. u = luaD_shrinkstack(t) BY DEF Caught, R
<1> HIDE DEF t, u
<1>11. /\ u \in State /\ u.ci = R /\ u.status = "ok" /\ u.errfunc = e.errfunc
       /\ u.allowhook = e.allowhook /\ u.ncc = e.ncc /\ u.nny = e.nny
       /\ (u.big <=> l.big /\ Len(R) > MAXSTACK)
  BY <1>6, <1>9, <1>10, ShrinkRight
<1>12. With(u)[L] = u /\ Others(th, With(u), L) BY <1>1, <1>11, WithRight
<1>13. CaughtAt(th, cs, With(u), D, n, L) BY <1>2, <1>3, <1>8, <1>11, <1>12 DEF CaughtAt
<1>14. Runs(th, cs, L)
  <2>1. Len(cs) >= 1 BY <1>2
  <2> QED BY <2>1, <1>2, <1>6 DEF Runs
<1>15. Typed(With(u), D) BY <1>1, <1>3, <1>11, WithTyped
<1>16. MAXSTACK \in Nat BY DEF CallAssumption
<1>17. Core(With(u), D) BY <1>3, <1>5, <1>13, <1>14, <1>15, <1>16, CoreCaught
<1>18. TopRight(With(u), D)
  <2>1. Len(D) = n /\ D[n] = cs[n] BY <1>2, <1>3 DEF Kept
  <2>2. cs[n].kind = "cfun" => ~u.ci[cs[n].ci].yp
    <3>1. e.ci >= 1 => e.ci \in 1..e.ci BY <1>7
    <3> QED BY <3>1, <1>4, <1>8, <1>11
  <2> QED BY <2>1, <2>2, <1>4, <1>12 DEF TopRight
<1> QED BY <1>17, <1>18, Becoming DEF Good, u, D, n

\* lua_resume is left with the state u of its thread.
LEMMA ResumeLeft ==
  ASSUME CallAssumption, CInv, NEW i \in 2..Len(cs), cs[i].kind = "resume", cs[i].th = L,
         NEW u \in State, Leaves(th, cs, With(u), SubSeq(cs, 1, i - 1), i - 1, L),
         Becomes(u, SubSeq(cs, 1, i - 1))
  PROVE  CInv'
<1> DEFINE D == SubSeq(cs, 1, i - 1)
           n == i - 1
<1>1. Typical /\ Current BY Running
<1>2. L \in Thread /\ cs \in Seq(CEntry) /\ cs[Len(cs)].th = L /\ th[L] = l /\ l.status # "dead"
  BY <1>1 DEF Typical, Current
<1>3. D \in Seq(CEntry) /\ Kept(cs, D, n) /\ n \in Nat /\ n < Len(cs) /\ i = n + 1 BY <1>2, CutKeeps
<1>4. Typed(With(u), D) BY <1>1, <1>3, WithTyped
<1>5. /\ cs[n].kind \in {"cfun", "hook"} /\ cs[n].th # L
      /\ cs[n].kind = "cfun" => ~th[cs[n].th].ci[cs[n].ci].yp
  <2>1. n \in 1..i - 1 BY <1>1 DEF Current
  <2> QED BY <2>1, CallerOf
<1>6. Leaves(th, cs, With(u), D, n, L) OBVIOUS
<1> HIDE DEF D, n
<1>7. Core(With(u), D) BY <1>2, <1>3, <1>4, <1>6, CoreLeaves DEF CInv
<1>8. TopRight(With(u), D)
  <2>1. Len(D) = n /\ D[n] = cs[n] /\ n \in 1..Len(cs) BY <1>3 DEF Kept
  <2>2. cs[n].th \in Thread
    <3>1. cs[n] \in CEntry BY <2>1, <1>2
    <3> QED BY <3>1 DEF CEntry
  <2>3. With(u)[cs[n].th] = th[cs[n].th]
    <3>1. Others(th, With(u), L) BY <1>1, WithRight
    <3> QED BY <3>1, <2>2, <1>5 DEF Others
  <2> QED BY <2>1, <2>3, <1>5 DEF TopRight
<1> QED BY <1>7, <1>8, Becoming DEF Good, D

LEMMA ResumedRight ==
  ASSUME NEW e \in CEntry, NEW t \in State
  PROVE  /\ Resumed(t, e) \in State /\ Resumed(t, e).ci = t.ci /\ Resumed(t, e).status = t.status
         /\ Resumed(t, e).errfunc = t.errfunc /\ Resumed(t, e).allowhook = t.allowhook
         /\ Resumed(t, e).big = t.big /\ Resumed(t, e).nny = e.nny
<1>1. e.nny \in Int /\ e.ncc - 1 \in Int BY DEF CEntry
<1> QED BY <1>1 DEF Resumed, State
\* The thread has no protected call left in the C stack, and lua_resume is at i.
LEMMA NoPcallLeft ==
  ASSUME CInv, NEW i, Arrives(i), cs[i].kind = "resume"
  PROVE  /\ \A j \in 1..Len(cs) : ~PcallAt(cs, L, j)
         /\ cs[i].nny = 1
<1>1. i \in 2..Len(cs) /\ cs[i].th = L /\ Len(cs) \in Nat /\ \A j \in i + 1..Len(cs) : ~Jumps(j)
  BY DEF Arrives
<1>2. (\A j \in 1..i - 1 : cs[j].th # L) /\ cs[i].nny = 1 BY <1>1, CallerOf
<1>3. ASSUME NEW j \in 1..Len(cs), PcallAt(cs, L, j) PROVE FALSE
  <2>1. cs[j].th = L /\ cs[j].kind = "pcall" BY <1>3 DEF PcallAt
  <2>2. j = i \/ j \in 1..i - 1 \/ j \in i + 1..Len(cs) BY <1>1
  <2> QED BY <2>1, <2>2, <1>1, <1>2 DEF Jumps
<1> QED BY <1>2, <1>3

LEMMA YieldArrives ==
  ASSUME CallAssumption, CInv, NEW i, Arrives(i), cs[i].kind = "resume", l.status = "yield",
         Becomes(Resumed(l, cs[i]), SubSeq(cs, 1, i - 1))
  PROVE  CInv'
<1> DEFINE u == Resumed(l, cs[i])
           D == SubSeq(cs, 1, i - 1)
<1>1. Typical /\ Current BY Running
<1>2. /\ i \in 2..Len(cs) /\ i < Len(cs) /\ cs[i].th = L /\ cs[i] \in CEntry
      /\ l \in State /\ th[L] = l /\ L \in Thread
      /\ cs[Len(cs)].th = L /\ cs \in Seq(CEntry) /\ Len(cs) \in Nat /\ Top(cs).kind = "throw"
  BY DEF Arrives
<1>3. /\ u \in State /\ u.ci = l.ci /\ u.status = "yield" /\ u.errfunc = l.errfunc
      /\ u.allowhook = l.allowhook /\ u.big = l.big /\ u.nny = cs[i].nny
  BY <1>2, ResumedRight
<1>4. Kept(cs, D, i - 1) /\ i - 1 < Len(cs) /\ i = (i - 1) + 1 BY <1>2, CutKeeps
<1>5. (\A j \in 1..Len(cs) : ~PcallAt(cs, L, j)) /\ cs[i].nny = 1 BY NoPcallLeft
<1>6. Ready(th, L) /\ l.allowhook
  <2>1. OnCStack(cs, L)
    <3>1. Len(cs) \in 1..Len(cs) BY <1>2
    <3> QED BY <3>1, <1>2 DEF OnCStack
  <2>2. StatusOf(th, cs, L) BY <1>2 DEF CInv, Core, ThreadRight
  <2>3. cs[Len(cs)].kind = "throw" BY <1>1, <1>2 DEF Current
  <2> QED BY <2>1, <2>2, <2>3, <1>2 DEF StatusOf
<1>7. ~l.big BY <1>2, <1>6 DEF Ready
<1> HIDE DEF u, D
<1>8. With(u)[L] = u /\ Others(th, With(u), L) BY <1>1, <1>3, WithRight
<1>9. cs[(i - 1) + 1] = cs[i] BY <1>4
<1>10. Leaves(th, cs, With(u), D, i - 1, L)
  BY <1>2, <1>3, <1>4, <1>5, <1>6, <1>7, <1>8, <1>9 DEF Leaves
<1> QED BY <1>2, <1>3, <1>10, ResumeLeft DEF u, D

LEMMA DeadArrives ==
  ASSUME CallAssumption, CInv, NEW i, Arrives(i), cs[i].kind = "resume",
         Becomes([Resumed(l, cs[i]) EXCEPT !.status = "dead"], SubSeq(cs, 1, i - 1))
  PROVE  CInv'
<1> DEFINE t == Resumed(l, cs[i])
           u == [t EXCEPT !.status = "dead"]
           D == SubSeq(cs, 1, i - 1)
<1>1. Typical /\ Current BY Running
<1>2. /\ i \in 2..Len(cs) /\ i < Len(cs) /\ cs[i].th = L /\ cs[i] \in CEntry
      /\ l \in State /\ th[L] = l /\ L \in Thread /\ cs \in Seq(CEntry) /\ Len(cs) \in Nat
  BY DEF Arrives
<1>3. t \in State /\ t.ci = l.ci /\ t.nny = cs[i].nny BY <1>2, ResumedRight
<1> HIDE DEF t
<1>4. u \in State /\ u.ci = l.ci /\ u.status = "dead" /\ u.nny = cs[i].nny BY <1>3 DEF State
<1>5. Kept(cs, D, i - 1) /\ i - 1 < Len(cs) /\ i = (i - 1) + 1 BY <1>2, CutKeeps
<1>6. cs[i].nny = 1 BY NoPcallLeft
<1> HIDE DEF u, D
<1>7. With(u)[L] = u /\ Others(th, With(u), L) BY <1>1, <1>4, WithRight
<1>8. cs[(i - 1) + 1] = cs[i] BY <1>5
<1>9. Leaves(th, cs, With(u), D, i - 1, L) BY <1>2, <1>4, <1>5, <1>6, <1>7, <1>8 DEF Leaves
<1> QED BY <1>2, <1>4, <1>9, ResumeLeft DEF u, D, t

LEMMA ResumeEndStep ==
  ASSUME CallAssumption, CInv, ResumeEnd
  PROVE  CInv'
<1> DEFINE i == Len(cs)
           u == Resumed(l, cs[i])
           D == SubSeq(cs, 1, i - 1)
<1>1. Typical /\ Current BY Running
<1>2. Top(cs).kind = "resume" /\ Becomes(Resumed(l, Top(cs)), Pop(cs)) BY DEF ResumeEnd, At
<1>3. /\ i \in Nat /\ i >= 1 /\ cs[i] = Top(cs) /\ cs[i] \in CEntry /\ cs[i].th = L /\ th[L] = l
      /\ l \in State /\ L \in Thread /\ cs \in Seq(CEntry) /\ l.status = "ok" /\ i # 1
      /\ Works(cs[i], l.ci, Len(l.ci)) /\ Len(l.ci) \in Nat /\ l.ci \in Seq(Frame)
  BY <1>1, <1>2 DEF Current, Typical
<1>4. Becomes(u, D) BY <1>2, <1>3 DEF Pop
<1>5. i >= 2 BY <1>3, NotAlone
<1>6. i \in 2..Len(cs) /\ i = Len(cs) BY <1>3, <1>5
<1> HIDE DEF i
<1>7. cs[i].kind = "resume" BY <1>2, <1>3
<1>8. (\A j \in 1..i - 1 : cs[j].th # L) /\ cs[i].nny = 1 BY <1>3, <1>6, <1>7, CallerOf
<1>9. \A j \in 1..Len(cs) : cs[j].th = L => j = i
  <2>1. \A j \in 1..Len(cs) : j = i \/ j \in 1..i - 1 BY <1>3, <1>6
  <2> QED BY <2>1, <1>8
<1>10. /\ u \in State /\ u.ci = l.ci /\ u.status = "ok" /\ u.errfunc = l.errfunc
       /\ u.allowhook = l.allowhook /\ u.big = l.big /\ u.nny = cs[i].nny
  BY <1>3, ResumedRight
<1>11. Kept(cs, D, i - 1) /\ i - 1 < Len(cs) /\ i = (i - 1) + 1 BY <1>3, <1>6, CutKeeps
<1>12. l.ci = << >>
  <2>1. Len(l.ci) = 0 BY <1>3, <1>7 DEF Works
  <2> QED BY <2>1, <1>3
<1>13. ThreadRight(th, cs, L) BY <1>3 DEF CInv, Core
<1>14. l.allowhook
  <2>1. NoHook(cs, L, Len(cs)) BY <1>7, <1>9 DEF NoHook
  <2> QED BY <2>1, <1>3, <1>13 DEF ThreadRight, HooksOf
<1>15. ~l.big
  <2>1. ~Handling(cs, L, Len(cs)) BY <1>7, <1>9 DEF Handling
  <2> QED BY <2>1, <1>3, <1>13 DEF ThreadRight, BoundOf
<1>16. \A j \in 1..Len(cs) : ~PcallAt(cs, L, j) BY <1>7, <1>9 DEF PcallAt
<1> HIDE DEF u, D
<1>17. With(u)[L] = u /\ Others(th, With(u), L) BY <1>1, <1>10, WithRight
<1>18. cs[(i - 1) + 1] = cs[i] BY <1>11
<1>19. Leaves(th, cs, With(u), D, i - 1, L)
  BY <1>3, <1>7, <1>8, <1>10, <1>11, <1>12, <1>14, <1>15, <1>16, <1>17, <1>18 DEF Leaves
<1> QED BY <1>3, <1>4, <1>6, <1>7, <1>10, <1>19, ResumeLeft DEF u, D

(***************************************************************************)
(* lua_resume and unroll run a frame                                       *)
(***************************************************************************)
Launched(T, C, S, D, t, f) ==
  LET F == T[t].ci
      G == S[t].ci
      x == G[Len(G)] IN
  /\ Added(C, D, Len(C), f) /\ Len(C) # 1 /\ f.th = t /\ f.ci = Len(G)
  /\ ~f.counted /\ ~f.ny /\ ~f.yp
  /\ C[Len(C)].kind \in {"resume", "unroll"} /\ (f.kind = "ret" => C[Len(C)].kind = "unroll")
  /\ Others(T, S, t) /\ Same(T[t], S[t])
  /\ Len(F) \in Nat /\ Len(G) \in Nat /\ Len(G) >= 1 /\ \A i \in 1..Len(F) : G[i] = F[i]
  /\ IF C[Len(C)].kind = "resume" THEN Len(G) = Len(F) + 1 ELSE Len(G) \in {Len(F), Len(F) + 1}
  /\ ~x.yp
  /\ \/ f.kind = "exec" /\ x.lua /\ x.fresh /\ x.op = "none"
     \/ f.kind = "cfun" /\ ~x.lua
     \/ f.kind = "ret" /\ ~x.lua /\ x.k = "none"
  /\ ~S[t].big => Len(G) <= MAXSTACK
LEMMA CoreLaunched ==
  ASSUME NEW T, NEW C, NEW S, NEW D, NEW t, NEW f, Core(T, C), Typed(S, D), Runs(T, C, t),
         Launched(T, C, S, D, t, f)
  PROVE  Core(S, D) /\ TopRight(S, D)
<1> DEFINE F == T[t].ci
           G == S[t].ci
           x == G[Len(G)]
           e == C[Len(C)]
<1>1. /\ Added(C, D, Len(C), f) /\ Len(C) # 1 /\ f.th = t /\ f.ci = Len(G)
      /\ ~f.counted /\ ~f.ny /\ ~f.yp
      /\ e.kind \in {"resume", "unroll"} /\ (f.kind = "ret" => e.kind = "unroll")
      /\ Others(T, S, t) /\ Same(T[t], S[t])
      /\ Len(F) \in Nat /\ Len(G) \in Nat /\ Len(G) >= 1 /\ \A i \in 1..Len(F) : G[i] = F[i]
      /\ IF e.kind = "resume" THEN Len(G) = Len(F) + 1 ELSE Len(G) \in {Len(F), Len(F) + 1}
      /\ ~x.yp
      /\ \/ f.kind = "exec" /\ x.lua /\ x.fresh /\ x.op = "none"
         \/ f.kind = "cfun" /\ ~x.lua
         \/ f.kind = "ret" /\ ~x.lua /\ x.k = "none"
      /\ ~S[t].big => Len(G) <= MAXSTACK
  BY DEF Launched
<1>2. e.th = t BY DEF Runs
<1>3. f.kind \in {"exec", "cfun", "ret"} BY <1>1
<1>4. F = T[t].ci /\ G = S[t].ci /\ x = G[Len(G)] /\ e = C[Len(C)] OBVIOUS
<1> HIDE DEF F, G, x, e
<1>5. \A i \in Len(F) + 1..Len(G) : i = Len(G) BY <1>1
<1>6. Pushed(T, C, S, D, t, f)
  <2>1. Over(f, e) BY <1>1, <1>2, <1>3 DEF Over
  <2>2. Holds(f) BY <1>1, <1>3 DEF Holds, Kinds
  <2>3. Works(f, G, Len(G))
    <3>1. \A i \in f.ci..Len(G) : i = Len(G) BY <1>1
    <3>2. f.ci \in 1..Len(G) BY <1>1
    <3> QED BY <3>1, <3>2, <1>1, <1>3, <1>4 DEF Works
  <2>4. Marks(e, F, f) BY <1>1 DEF Marks
  <2>5. FrameAdded(F, G, e, f) BY <2>3, <2>4, <1>1, <1>3 DEF FrameAdded, Owns
  <2>6. HookAdded(T[t], S[t], f) BY <1>1, <1>3 DEF HookAdded, Same
  <2>7. BoundAdded(T[t], S[t], f) BY <1>1, <1>3, <1>4 DEF BoundAdded, Same
  <2>8. YieldAdded(F, G, e, f)
    <3>1. \A i \in Len(F) + 1..Len(G) : ~G[i].yp /\ (G[i].lua \/ (f.kind \in {"cfun", "ret"} /\ f.ci = i))
      BY <1>1, <1>4, <1>5
    <3> QED BY <3>1, <1>1 DEF YieldAdded
  <2>9. HandlerAdded(T[t], S[t], f)
    <3>1. \A i \in Len(F) + 1..Len(G) : ~G[i].yp BY <1>1, <1>4, <1>5
    <3>2. Len(F) <= Len(G) BY <1>1
    <3> QED BY <3>1, <3>2, <1>1, <1>3, <1>4 DEF HandlerAdded, Same
  <2>10. f.kind # "resume" /\ S[t].status = "ok" BY <1>1, <1>3 DEF Same
  <2>11. CountedUp(T[t], S[t], f) BY <1>1, <1>3 DEF CountedUp, Same
  <2> QED BY <1>1, <1>4, <2>1, <2>2, <2>5, <2>6, <2>7, <2>8, <2>9, <2>10, <2>11 DEF Pushed
<1>7. Core(S, D) BY <1>6, CorePushed
<1>8. D[Len(D)] = f BY <1>1 DEF Added
<1>9. TopRight(S, D) BY <1>1, <1>4, <1>8 DEF TopRight
<1> QED BY <1>7, <1>9

StateSetTo(t, s, n, a, z, o) ==
  [t EXCEPT !.ci = s, !.ncc = n, !.allowhook = a, !.nny = z, !.errfunc = o]
StateResetTo(t, s, o) == [t EXCEPT !.ci = s, !.errfunc = o]
LEMMA StateSet ==
  ASSUME NEW t \in State, NEW s \in Seq(Frame), NEW n \in Int, NEW z \in Int, NEW o \in Handlers,
         NEW a \in BOOLEAN,
         NEW u, u = StateSetTo(t, s, n, a, z, o)
  PROVE  /\ u \in State /\ u.ci = s /\ u.ncc = n /\ u.allowhook = a /\ u.nny = z /\ u.errfunc = o
         /\ u.status = t.status /\ u.big = t.big /\ u.fun = t.fun
BY DEF State, StateSetTo, StateResetTo
LEMMA StateReset ==
  ASSUME NEW t \in State, NEW s \in Seq(Frame), NEW o \in Handlers,
         NEW u, u = StateResetTo(t, s, o)
  PROVE  /\ u \in State /\ u.ci = s /\ u.ncc = t.ncc /\ u.allowhook = t.allowhook /\ u.nny = t.nny
         /\ u.errfunc = o /\ u.status = t.status /\ u.big = t.big /\ u.fun = t.fun
BY DEF State, StateSetTo, StateResetTo
\* recover has the frames up to the marked one, p, in the state w; its mark is then taken back.
Remade(F, e, f, p, t, w, v) ==
  /\ w \in State /\ w.ci = SubSeq(F, 1, p) /\ Len(w.ci) = p /\ (\A j \in 1..p : w.ci[j] = F[j])
  /\ w.status = "ok" /\ w.ncc = e.ncc /\ w.nny = 0 /\ w.errfunc = f.handler /\ w.allowhook = f.oah
  /\ (w.big => p > MAXSTACK)
  /\ v \in State /\ Len(v.ci) = p /\ (\A j \in 1..p - 1 : v.ci[j] = F[j])
  /\ ~v.ci[p].yp /\ v.ci[p].lua = f.lua /\ v.ci[p].k = f.k
  /\ v.status = "ok" /\ v.ncc = w.ncc /\ v.nny = 0 /\ v.errfunc = f.oef /\ v.allowhook = w.allowhook
  /\ v.big = w.big
LEMMA RecoverRight ==
  ASSUME NEW t \in State, t.status = "ok", NEW e \in CEntry, NEW p \in 1..Len(t.ci),
         NEW f, f = t.ci[p], NEW v,
         v = luaD_shrinkstack([t EXCEPT !.ci = Append(SubSeq(@, 1, p - 1), [f EXCEPT !.yp = FALSE]),
               !.ncc = e.ncc, !.allowhook = f.oah, !.nny = 0, !.errfunc = f.oef])
  PROVE  Remade(t.ci, e, f, p, t, [v EXCEPT !.ci = SubSeq(t.ci, 1, p), !.errfunc = f.handler], v)
<1> DEFINE x == [f EXCEPT !.yp = FALSE]
           R == SubSeq(t.ci, 1, p)
           G == Append(SubSeq(t.ci, 1, p - 1), x)
           g == [t EXCEPT !.ci = G, !.ncc = e.ncc, !.allowhook = f.oah, !.nny = 0, !.errfunc = f.oef]
           w == [v EXCEPT !.ci = R, !.errfunc = f.handler]
<1>1. t.ci \in Seq(Frame) /\ Len(t.ci) \in Nat BY DEF State, StateSetTo, StateResetTo
<1>2. f \in Frame BY <1>1
<1>3. /\ x \in Frame /\ ~x.yp /\ x.lua = f.lua /\ x.k = f.k
      /\ f.oef \in Handlers /\ f.handler \in Handlers /\ f.oah \in BOOLEAN
  BY <1>2 DEF Frame
<1> HIDE DEF x
<1>4. R \in Seq(Frame) /\ Len(R) = p /\ (\A j \in 1..p : R[j] = t.ci[j]) BY <1>1
<1>5. G \in Seq(Frame) /\ Len(G) = p /\ (\A j \in 1..p - 1 : G[j] = t.ci[j]) /\ G[p] = x
  <2> DEFINE s == SubSeq(t.ci, 1, p - 1)
  <2>1. s \in Seq(Frame) /\ Len(s) = p - 1 /\ \A j \in 1..p - 1 : s[j] = t.ci[j] BY <1>1
  <2> HIDE DEF s
  <2>2. Append(s, x) \in Seq(Frame) /\ Len(Append(s, x)) = p BY <2>1, <1>1, <1>3
  <2>3. Append(s, x)[p] = x BY <2>1, <1>1, <1>3
  <2>4. \A j \in 1..p - 1 : Append(s, x)[j] = s[j] BY <2>1, <1>3
  <2> QED BY <2>1, <2>2, <2>3, <2>4 DEF s
<1> HIDE DEF R, G
<1>6. e.ncc \in Int BY DEF CEntry
<1>20. g = StateSetTo(t, G, e.ncc, f.oah, 0, f.oef) BY DEF StateSetTo
<1>21. v = luaD_shrinkstack(g) BY DEF G, x
<1> HIDE DEF g
<1>22. 0 \in Int OBVIOUS
<1>7. /\ g \in State /\ g.ci = G /\ g.ncc = e.ncc /\ g.allowhook = f.oah /\ g.nny = 0
      /\ g.errfunc = f.oef /\ g.status = "ok"
  <2> DEFINE n == e.ncc
             a == f.oah
             o == f.oef
             z == 0
  <2>1. n \in Int /\ a \in BOOLEAN /\ o \in Handlers /\ z \in Int BY <1>3, <1>6
  <2>2. g = StateSetTo(t, G, n, a, z, o) BY <1>20
  <2> HIDE DEF n, a, o, z
  <2>3. /\ g \in State /\ g.ci = G /\ g.ncc = n /\ g.allowhook = a /\ g.nny = z /\ g.errfunc = o
        /\ g.status = t.status
    BY <2>1, <2>2, <1>5, StateSet
  <2> QED BY <2>3 DEF n, a, o, z
<1>9. /\ v \in State /\ v.ci = G /\ v.ncc = e.ncc /\ v.allowhook = f.oah /\ v.nny = 0
      /\ v.errfunc = f.oef /\ v.status = "ok" /\ (v.big => p > MAXSTACK)
  BY <1>5, <1>7, <1>21, ShrinkRight
<1>23. w = StateResetTo(v, R, f.handler) BY DEF StateResetTo
<1> HIDE DEF w
<1>10. /\ w \in State /\ w.ci = R /\ w.ncc = e.ncc /\ w.allowhook = f.oah /\ w.nny = 0
       /\ w.errfunc = f.handler /\ w.status = "ok" /\ w.big = v.big
  BY <1>3, <1>4, <1>9, <1>23, StateReset
<1>11. w = [v EXCEPT !.ci = SubSeq(t.ci, 1, p), !.errfunc = f.handler] BY DEF w, R
<1>12. R = SubSeq(t.ci, 1, p) BY DEF R
<1>13. Remade(t.ci, e, f, p, t, w, v) BY <1>3, <1>4, <1>5, <1>9, <1>10, <1>12 DEF Remade
<1> QED BY <1>11, <1>13

\* The last marked frame.
LEMMA LastMarked ==
  ASSUME CInv, findpcall # {}, NEW p, p = (CHOOSE i \in findpcall : \A j \in findpcall : j <= i)
  PROVE  p \in 1..Len(l.ci) /\ l.ci[p].yp
<1>1. l.ci \in Seq(Frame) /\ Len(l.ci) \in Nat BY Running DEF Typical
<1>2. DOMAIN l.ci = 1..Len(l.ci) BY <1>1
<1>3. findpcall \subseteq 1..Len(l.ci) BY <1>2 DEF findpcall
<1>4. \E x \in findpcall : \A y \in findpcall : y <= x BY <1>1, <1>3, Largest
<1>5. p \in findpcall BY <1>4
<1> QED BY <1>3, <1>5 DEF findpcall
LEMMA RecoverArrives ==
  ASSUME CallAssumption, CInv, NEW i, Arrives(i), cs[i].kind = "resume", l.status = "ok",
         findpcall # {},
         Becomes(recover(cs[i]), SubSeq(cs, 1, i) \o
           <<Entry("unroll", L), [Entry("cfun", L) EXCEPT !.ci = Len(recover(cs[i]).ci)]>>)
  PROVE  CInv'
<1> DEFINE e == cs[i]
           p == CHOOSE j \in findpcall : \A k \in findpcall : k <= j
           f == l.ci[p]
           v == recover(e)
           w == [v EXCEPT !.ci = SubSeq(l.ci, 1, p), !.errfunc = f.handler]
           g == [Entry("cfun", L) EXCEPT !.ci = Len(v.ci)]
           D1 == Append(SubSeq(cs, 1, i), Entry("unroll", L))
           D == Append(D1, g)
<1>1. Typical /\ Current BY Running
<1>2. /\ i \in 2..Len(cs) /\ i < Len(cs) /\ e.th = L /\ e \in CEntry
      /\ l \in State /\ l.ci \in Seq(Frame) /\ Len(l.ci) \in Nat /\ th[L] = l /\ L \in Thread
      /\ cs[Len(cs)].th = L /\ cs \in Seq(CEntry) /\ Len(cs) \in Nat
  BY DEF Arrives
<1>3. p \in 1..Len(l.ci) /\ f.yp BY LastMarked
<1>4. v = luaD_shrinkstack([l EXCEPT !.ci = Append(SubSeq(@, 1, p - 1), [f EXCEPT !.yp = FALSE]),
            !.ncc = e.ncc, !.allowhook = f.oah, !.nny = 0, !.errfunc = f.oef])
  BY DEF recover
<1>5. f = l.ci[p] OBVIOUS
<1>6. e.kind = "resume" OBVIOUS
<1>7. Becomes(v, SubSeq(cs, 1, i) \o <<Entry("unroll", L), g>>) OBVIOUS
<1> HIDE DEF p, f, v, e
<1>8. Remade(l.ci, e, f, p, l, w, v) BY <1>2, <1>3, <1>4, <1>5, RecoverRight
<1> HIDE DEF w
<1>9. /\ w \in State /\ Len(w.ci) = p /\ (\A j \in 1..p : w.ci[j] = l.ci[j])
      /\ w.status = "ok" /\ w.ncc = e.ncc /\ w.nny = 0 /\ w.errfunc = f.handler /\ w.allowhook = f.oah
      /\ (w.big => p > MAXSTACK)
      /\ v \in State /\ Len(v.ci) = p /\ (\A j \in 1..p - 1 : v.ci[j] = l.ci[j])
      /\ ~v.ci[p].yp /\ v.ci[p].lua = f.lua /\ v.ci[p].k = f.k
      /\ v.status = "ok" /\ v.ncc = w.ncc /\ v.nny = 0 /\ v.errfunc = f.oef
      /\ v.allowhook = w.allowhook /\ v.big = w.big
  BY <1>8 DEF Remade
<1>10. /\ Entry("unroll", L) \in CEntry /\ Entry("unroll", L).kind = "unroll"
       /\ Entry("unroll", L).th = L /\ Plain(Entry("unroll", L))
       /\ Entry("cfun", L) \in CEntry /\ Entry("cfun", L).kind = "cfun" /\ Entry("cfun", L).th = L
       /\ Plain(Entry("cfun", L))
  BY <1>2, EntryRight DEF Kinds
<1>11. /\ g \in CEntry /\ g.kind = "cfun" /\ g.th = L /\ g.ci = p /\ ~g.counted /\ ~g.ny /\ ~g.yp
  BY <1>3, <1>9, <1>10 DEF CEntry, Plain
<1> DEFINE B == SubSeq(cs, 1, i)
           x == Entry("unroll", L)
<1>12. B \in Seq(CEntry) /\ Len(B) = i /\ \A j \in 1..i : B[j] = cs[j] BY <1>2
<1> HIDE DEF B, g, x
<1>13. /\ Append(B, x) \in Seq(CEntry) /\ Added(B, Append(B, x), Len(B), x)
  BY <1>10, <1>12, AppendAdds DEF x
<1>14. D1 = Append(B, x) BY DEF B, x
<1>15. D = B \o <<x, g>>
  <2>1. D = Append(Append(B, x), g) BY <1>14
  <2>2. x \in CEntry BY <1>10 DEF x
  <2> HIDE DEF D, D1
  <2>3. Append(Append(B, x), g) = B \o <<x, g>> BY <2>2, <1>11, <1>12
  <2> QED BY <2>1, <2>3
<1> HIDE DEF D1, D
<1>16. D1 \in Seq(CEntry) /\ Len(D1) = i + 1 /\ (\A j \in 1..i : D1[j] = cs[j]) /\ D1[i + 1] = x
  BY <1>2, <1>12, <1>13, <1>14 DEF Added
<1>17. D \in Seq(CEntry) /\ Added(D1, D, Len(D1), g) BY <1>11, <1>16, AppendAdds DEF D
<1>18. With(w)[L] = w /\ With(v)[L] = v /\ Others(th, With(w), L) /\ Others(With(w), With(v), L)
  BY <1>1, <1>9, WithRight
<1>19. Core(th, cs) BY DEF CInv
<1>20. Runs(th, cs, L)
  <2>1. Len(cs) >= 1 BY <1>2
  <2> QED BY <2>1, <1>2 DEF Runs
<1>21. \A j \in 1..Len(cs) : ~PcallAt(cs, L, j) BY <1>6, NoPcallLeft DEF e
<1>22. Recovers(th, cs, With(w), D1, i, p, L)
  <2>1. /\ x.kind = "unroll" /\ x.th = L /\ ~x.counted /\ ~x.ny /\ ~x.yp /\ x.ci = 0
    BY <1>10 DEF x, Plain
  <2>2. cs[i].kind = "resume" /\ cs[i].th = L /\ w.ncc = cs[i].ncc BY <1>2, <1>6, <1>9 DEF e
  <2>3. l.ci[p].yp /\ w.errfunc = l.ci[p].handler /\ w.allowhook = l.ci[p].oah BY <1>3, <1>5, <1>9
  <2> QED BY <2>1, <2>2, <2>3, <1>2, <1>3, <1>9, <1>16, <1>18, <1>21 DEF Recovers
<1>23. Core(With(w), D1)
  <2>1. i \in Nat /\ p \in Nat /\ MAXSTACK \in Nat BY <1>2, <1>3 DEF CallAssumption
  <2>2. Typed(With(w), D1) BY <1>1, <1>9, <1>16, WithTyped
  <2> QED BY <2>1, <2>2, <1>19, <1>20, <1>22, CoreRecovers
<1>24. D1[Len(D1)].th = L /\ D1[Len(D1)].kind = "unroll" /\ Len(D1) >= 2 BY <1>2, <1>10, <1>16 DEF x
<1>25. Runs(With(w), D1, L) BY <1>2, <1>9, <1>18, <1>24 DEF Runs
<1>26. w.ci[p] = f BY <1>3, <1>5, <1>9
<1>27. Cleared(With(w), D1, With(v), L)
  <2>1. p >= 1 BY <1>3
  <2>4. \A j \in 1..p - 1 : j \in 1..p BY <1>2, <1>3
  <2>2. \A j \in 1..p - 1 : v.ci[j] = w.ci[j] BY <2>4, <1>9
  <2> QED BY <2>1, <2>2, <1>3, <1>9, <1>18, <1>24, <1>26 DEF Cleared
<1>28. Core(With(v), D1)
  <2>1. Typed(With(v), D1) BY <1>1, <1>9, <1>16, WithTyped
  <2> QED BY <2>1, <1>23, <1>25, <1>27, CoreCleared
<1>29. Runs(With(v), D1, L) BY <1>2, <1>9, <1>18, <1>24 DEF Runs
<1>30. ~f.lua /\ p <= MAXSTACK
  <2>1. YieldsOf(th, cs, L) BY <1>2, <1>19 DEF Core, ThreadRight
  <2> QED BY <2>1, <1>2, <1>3, <1>5 DEF YieldsOf
<1>31. Others(With(v), With(v), L) BY DEF Others
<1>32. Launched(With(v), D1, With(v), D, L, g)
  <2>1. Same(v, v) BY <1>9 DEF Same
  <2>2. Len(v.ci) \in Nat /\ Len(v.ci) >= 1 /\ Len(D1) # 1 BY <1>2, <1>3, <1>9, <1>16
  <2>3. ~v.ci[Len(v.ci)].yp /\ ~v.ci[Len(v.ci)].lua BY <1>9, <1>30
  <2> QED BY <2>1, <2>2, <2>3, <1>9, <1>11, <1>17, <1>18, <1>24, <1>30, <1>31 DEF Launched
<1>33. Typed(With(v), D) BY <1>1, <1>9, <1>17, WithTyped
<1>34. Core(With(v), D) /\ TopRight(With(v), D) BY <1>28, <1>29, <1>32, <1>33, CoreLaunched
<1>35. Becomes(v, D) BY <1>7, <1>15 DEF B, x
<1> QED BY <1>34, <1>35, Becoming DEF Good

LEMMA luaD_throwStep ==
  ASSUME CallAssumption, CInv, luaD_throw
  PROVE  CInv'
<1> DEFINE i == errorJmp
           e == cs[i]
<1>1. At("throw") BY DEF luaD_throw
<1>2. Arrives(i) /\ e.kind \in {"pcall", "resume"} BY <1>1, Arriving
<1>3. CASE e.kind = "pcall"
  <2>1. Becomes(Caught(e), SubSeq(cs, 1, i - 1)) BY <1>3 DEF luaD_throw
  <2> QED BY <2>1, <1>2, <1>3, PcallArrives
<1>4. CASE e.kind = "resume"
  <2>1. l.status \in {"ok", "yield"} BY <1>2 DEF Arrives
  <2>2. CASE l.status = "yield"
    <3>1. Becomes(Resumed(l, e), SubSeq(cs, 1, i - 1)) BY <1>4, <2>2 DEF luaD_throw
    <3> QED BY <3>1, <2>2, <1>2, <1>4, YieldArrives
  <2>3. CASE l.status = "ok" /\ findpcall # {}
    <3>1. Becomes(recover(e), SubSeq(cs, 1, i) \o
            <<Entry("unroll", L), [Entry("cfun", L) EXCEPT !.ci = Len(recover(e).ci)]>>)
      BY <1>4, <2>3 DEF luaD_throw
    <3> QED BY <3>1, <2>3, <1>2, <1>4, RecoverArrives
  <2>4. CASE l.status = "ok" /\ findpcall = {}
    <3>1. Becomes([Resumed(l, e) EXCEPT !.status = "dead"], SubSeq(cs, 1, i - 1))
      BY <1>4, <2>4 DEF luaD_throw
    <3> QED BY <3>1, <1>2, <1>4, DeadArrives
  <2> QED BY <2>1, <2>2, <2>3, <2>4
<1> QED BY <1>2, <1>3, <1>4

(***************************************************************************)
(* lua_resume                                                              *)
(***************************************************************************)
Resumable(t) ==
  /\ t # L /\ ~OnCStack(cs, t) /\ th[t] \in State /\ th[t].status \in {"ok", "yield"}
  /\ th[t].ci \in Seq(Frame) /\ Len(th[t].ci) \in Nat /\ Len(th[t].ci) <= MAXSTACK /\ ~th[t].big
  /\ th[t].nny = 1
  /\ th[t].status = "ok" => th[t].ci = << >>
  /\ th[t].status = "yield" => Ready(th, t)
  /\ \A p \in 1..Len(th[t].ci) : th[t].ci[p].yp => ~th[t].ci[p].lua
LEMMA MayResume ==
  ASSUME CInv, InC, NEW t \in Thread, ~Refused(t)
  PROVE  Resumable(t)
<1>1. Typical /\ Current BY Running
<1>2. /\ th[t] \in State /\ cs \in Seq(CEntry) /\ Len(cs) \in Nat /\ Len(cs) >= 1 /\ L = cs[Len(cs)].th
      /\ L \in Thread /\ l = th[L] /\ Len(l.ci) \in Nat
  BY <1>1 DEF Typical, Current
<1>3. th[t].ci \in Seq(Frame) /\ Len(th[t].ci) \in Nat /\ th[t].status \in {"ok", "yield", "dead"}
  BY <1>2 DEF State
<1>4. l.status = "ok" /\ Len(l.ci) >= 1 BY CFunctionRuns
<1>5. ThreadRight(th, cs, t) /\ CountsRight(th, cs) BY DEF CInv, Core
<1>6. th[t].status # "dead" BY DEF Refused
<1>7. th[t].status = "ok" => th[t].ci = << >> BY DEF Refused
<1>8. t # L
  <2>1. l.ci # << >> BY <1>4
  <2> QED BY <2>1, <1>2, <1>4, <1>7
<1>9. ~OnCStack(cs, t)
  <2>1. StatusOf(th, cs, t) BY <1>5 DEF ThreadRight
  <2> QED BY <2>1, <1>2, <1>3, <1>6, <1>7, <1>8 DEF StatusOf
<1>10. ~Handling(cs, t, Len(cs)) BY <1>9 DEF Handling, OnCStack
<1>11. ~th[t].big /\ Len(th[t].ci) <= MAXSTACK BY <1>5, <1>6, <1>10 DEF ThreadRight, BoundOf
<1>12. th[t].nny = 1 BY <1>5, <1>9 DEF CountsRight
<1>13. th[t].status = "yield" => Ready(th, t) BY <1>5 DEF ThreadRight, StatusOf
<1>14. \A p \in 1..Len(th[t].ci) : th[t].ci[p].yp => ~th[t].ci[p].lua BY <1>5 DEF ThreadRight, YieldsOf
<1> QED BY <1>2, <1>3, <1>6, <1>7, <1>8, <1>9, <1>11, <1>12, <1>13, <1>14 DEF Resumable
\* Another thread than the one that runs changes.
LEMMA ThreadSet ==
  ASSUME Typical, NEW t \in Thread, NEW u \in State, NEW S, S = [th EXCEPT ![t] = u]
  PROVE  /\ S \in [Thread -> State] /\ S[t] = u /\ Others(th, S, t)
         /\ \A v \in State : Others(S, [th EXCEPT ![t] = v], t)
BY DEF Typical, Others
LEMMA ResumeRefused ==
  ASSUME CallAssumption, CInv, InC, NEW t \in Thread, Resumable(t), NEW n \in Int,
         th' = [th EXCEPT ![t].ncc = n], cs' = cs
  PROVE  CInv'
<1> DEFINE u == [th[t] EXCEPT !.ncc = n]
           S == [th EXCEPT ![t] = u]
<1>1. Typical /\ Current BY Running
<1>2. th[t] \in State /\ ~OnCStack(cs, t) /\ t # L /\ th[t].status # "dead" BY DEF Resumable
<1>3. /\ u \in State /\ u.ci = th[t].ci /\ u.errfunc = th[t].errfunc /\ u.allowhook = th[t].allowhook
      /\ u.big = th[t].big /\ u.nny = th[t].nny /\ u.status = th[t].status
  BY <1>2 DEF State
<1>4. th' = S BY <1>1 DEF Typical
<1> HIDE DEF u
<1>5. S \in [Thread -> State] /\ S[t] = u /\ Others(th, S, t) BY <1>1, <1>3, ThreadSet
<1> HIDE DEF S
<1>6. Core(S, cs)
  <2>1. Typed(S, cs) BY <1>1, <1>5 DEF Typed, Typical
  <2>2. Core(th, cs) BY DEF CInv
  <2> QED BY <2>1, <2>2, <1>2, <1>3, <1>5, CoreRefused
<1>7. TopRight(S, cs)
  <2>1. S[L] = th[L] /\ cs[Len(cs)].th = L BY <1>1, <1>2, <1>5 DEF Others, Typical, Current
  <2>2. TopRight(th, cs) BY DEF CInv
  <2> QED BY <2>1, <2>2 DEF TopRight
<1> QED BY <1>4, <1>6, <1>7 DEF CInv

\* What a coroutine runs: its frames R, and one, which was x and becomes the last of G.
Starting(t, s, G, R) ==
  LET F == th[t].ci
      x == Top(s)
      y == G[Len(G)] IN
  /\ R \in Seq(Frame) /\ G \in Seq(Frame) /\ Len(R) \in Nat /\ Len(s) = Len(R) + 1 /\ Len(G) = Len(s)
  /\ Len(G) <= MAXSTACK /\ Len(R) <= Len(F) /\ (th[t].status = "ok" => Len(R) = 0)
  /\ \A i \in 1..Len(R) : G[i] = R[i] /\ R[i] = F[i] /\ Continues(F[i])
  /\ \A i \in Len(R) + 1..Len(F) : ~F[i].yp
  /\ x.lua \in BOOLEAN /\ ~y.yp /\ (y.lua <=> x.lua) /\ y.k = x.k
  /\ y.lua => y.fresh /\ y.op = "none"
  /\ ~x.lua /\ x.k = "none" => th[t].status = "yield"
LEMMA StartsRight ==
  ASSUME CallAssumption, NEW t \in Thread, Resumable(t), NEW lua \in BOOLEAN,
         NEW s, s = Starts(t, lua), NEW G, G = IF Top(s).lua THEN Fresh(s) ELSE s,
         NEW R, R = IF th[t].status = "yield" THEN Pop(th[t].ci) ELSE << >>
  PROVE  Starting(t, s, G, R)
<1> DEFINE F == th[t].ci
<1>1. /\ F \in Seq(Frame) /\ Len(F) \in Nat /\ Len(F) <= MAXSTACK /\ th[t].status \in {"ok", "yield"}
      /\ th[t].status = "ok" => F = << >>
      /\ th[t].status = "yield" => Ready(th, t)
      /\ \A p \in 1..Len(F) : F[p].yp => ~F[p].lua
  BY DEF Resumable
<1>2. /\ s \in Seq(Frame) /\ Len(s) = Len(R) + 1 /\ R \in Seq(Frame) /\ Len(R) \in Nat
      /\ Len(s) <= MAXSTACK /\ Len(R) <= Len(F) /\ (th[t].status = "ok" => Len(R) = 0)
      /\ \A i \in 1..Len(R) : s[i] = R[i] /\ R[i] = F[i] /\ Continues(F[i])
      /\ \A i \in Len(R) + 1..Len(F) : ~F[i].yp
      /\ ~s[Len(s)].yp
      /\ s[Len(s)].lua => s[Len(s)].op = "none"
      /\ ~s[Len(s)].lua /\ s[Len(s)].k = "none" => th[t].status = "yield"
  <2>1. CASE th[t].status = "yield"
    <3>1. s = F /\ R = Pop(F) BY <2>1 DEF Starts
    <3>2. /\ Len(F) >= 1 /\ (\A f \in 1..Len(F) - 1 : Continues(F[f]))
          /\ IF F[Len(F)].lua THEN F[Len(F)].op = "none" ELSE F[Len(F)].k # "junk" /\ ~F[Len(F)].yp
      BY <1>1, <2>1 DEF Ready
    <3>3. R \in Seq(Frame) /\ Len(R) = Len(F) - 1 /\ \A i \in 1..Len(F) - 1 : R[i] = F[i]
      BY <3>1, <3>2, <1>1 DEF Pop
    <3>4. ~F[Len(F)].yp
      <4>1. Len(F) \in 1..Len(F) BY <3>2, <1>1
      <4> QED BY <4>1, <3>2, <1>1
    <3>5. \A i \in Len(R) + 1..Len(F) : i = Len(F) BY <3>3, <1>1
    <3> HIDE DEF F
    <3> QED BY <3>1, <3>2, <3>3, <3>4, <3>5, <1>1, <2>1
  <2>2. CASE th[t].status = "ok"
    <3> DEFINE y == IF lua THEN LuaFrame(TRUE) ELSE CFrame
    <3>1. y \in Frame /\ ~y.yp /\ y.op = "none" /\ (y.lua \/ y.k # "none")
      BY LuaFrameRight, CFrameRight
    <3>2. s = <<y>> /\ R = << >> /\ F = << >> BY <1>1, <2>2 DEF Starts
    <3> HIDE DEF y
    <3>3. 1 <= MAXSTACK BY DEF CallAssumption
    <3>4. s \in Seq(Frame) /\ Len(s) = 1 /\ s[1] = y BY <3>1, <3>2
    <3>5. Len(R) = 0 /\ Len(F) = 0 BY <3>2
    <3>6. R \in Seq(Frame)
      <4>1. << >> \in Seq(Frame) OBVIOUS
      <4> QED BY <4>1, <3>2
    <3> HIDE DEF F
    <3> QED BY <3>1, <3>3, <3>4, <3>5, <3>6, <2>2
  <2> QED BY <2>1, <2>2, <1>1
<1>3. Top(s) = s[Len(s)] /\ s[Len(s)] \in Frame
  <2>1. Len(s) \in 1..Len(s) BY <1>2
  <2> QED BY <2>1, <1>2 DEF Top
<1>4. /\ G \in Seq(Frame) /\ Len(G) = Len(s) /\ \A i \in 1..Len(R) : G[i] = s[i]
      /\ ~G[Len(G)].yp /\ (G[Len(G)].lua <=> Top(s).lua) /\ G[Len(G)].k = Top(s).k
      /\ G[Len(G)].lua => G[Len(G)].fresh /\ G[Len(G)].op = "none"
  <2> DEFINE x == Top(s)
             y == [x EXCEPT !.fresh = TRUE]
  <2>1. x \in Frame /\ x = s[Len(s)] BY <1>3
  <2> HIDE DEF x
  <2>2. y \in Frame /\ y.fresh /\ y.op = x.op /\ (y.lua <=> x.lua) /\ y.k = x.k /\ (y.yp <=> x.yp)
    BY <2>1 DEF Frame
  <2>3. Fresh(s) = SetTop(s, y) BY DEF Fresh, x
  <2> HIDE DEF y
  <2>4. Len(s) >= 1 /\ Len(s) - 1 = Len(R) BY <1>2
  <2>5. /\ SetTop(s, y) \in Seq(Frame) /\ Len(SetTop(s, y)) = Len(s) /\ SetTop(s, y)[Len(s)] = y
        /\ \A i \in 1..Len(s) - 1 : SetTop(s, y)[i] = s[i]
    BY <2>2, <2>4, <1>2 DEF SetTop
  <2>6. CASE x.lua
    <3>1. G = SetTop(s, y) BY <2>3, <2>6 DEF x
    <3>2. G \in Seq(Frame) /\ Len(G) = Len(s) /\ G[Len(G)] = y /\ \A i \in 1..Len(R) : G[i] = s[i]
      BY <3>1, <2>4, <2>5
    <3>3. ~y.yp /\ (y.lua => y.op = "none") BY <2>1, <2>2, <1>2
    <3> QED BY <3>2, <3>3, <2>2 DEF x
  <2>7. CASE ~x.lua
    <3>1. G = s BY <2>7 DEF x
    <3> QED BY <3>1, <2>1, <2>7, <1>2 DEF x
  <2> QED BY <2>6, <2>7
<1>5. Top(s).lua \in BOOLEAN BY <1>3 DEF Frame
<1>6. Len(G) <= MAXSTACK /\ \A i \in 1..Len(R) : G[i] = R[i] BY <1>2, <1>4
<1>7. ~Top(s).lua /\ Top(s).k = "none" => th[t].status = "yield" BY <1>2, <1>3
<1> QED BY <1>2, <1>4, <1>5, <1>6, <1>7 DEF Starting

\* The state of a coroutine that is resumed, with frames s.
GoesOn(v, n, s) == [v EXCEPT !.ncc = n, !.nny = 0, !.status = "ok", !.ci = s, !.fun = FALSE]
LEMMA GoesOnRight ==
  ASSUME NEW v \in State, NEW n \in Int, NEW s \in Seq(Frame), NEW u, u = GoesOn(v, n, s)
  PROVE  /\ u \in State /\ u.ncc = n /\ u.nny = 0 /\ u.status = "ok" /\ u.ci = s
         /\ u.errfunc = v.errfunc /\ u.allowhook = v.allowhook /\ u.big = v.big
<1> DEFINE z == 0
           o == "ok"
           b == FALSE
<1>1. z \in Int /\ o \in {"ok", "yield", "dead"} /\ b \in BOOLEAN OBVIOUS
<1>2. u = [v EXCEPT !.ncc = n, !.nny = z, !.status = o, !.ci = s, !.fun = b] BY DEF GoesOn
<1> HIDE DEF z, o, b
<1>3. /\ u \in State /\ u.ncc = n /\ u.nny = z /\ u.status = o /\ u.ci = s
      /\ u.errfunc = v.errfunc /\ u.allowhook = v.allowhook /\ u.big = v.big
  BY <1>1, <1>2 DEF State
<1> QED BY <1>3 DEF z, o
\* The entries of lua_resume.
Resuming(t, z, n) == [Entry("resume", t) EXCEPT !.nny = z, !.ncc = n]
LEMMA ResumeEntry ==
  ASSUME NEW t \in Thread, NEW z \in Int, NEW n \in Int, NEW r, r = Resuming(t, z, n)
  PROVE  r \in CEntry /\ r.kind = "resume" /\ r.th = t /\ r.nny = z /\ r.ncc = n /\ Plain(r)
<1>1. /\ Entry("resume", t) \in CEntry /\ Entry("resume", t).kind = "resume"
      /\ Entry("resume", t).th = t /\ Plain(Entry("resume", t))
  BY EntryRight DEF Kinds
<1> QED BY <1>1 DEF CEntry, Plain, Resuming
GoingOn(t, x, n) == [Goes(t, x) EXCEPT !.ci = n]
LEMMA GoesRight ==
  ASSUME NEW t \in Thread, NEW x, x.lua \in BOOLEAN, NEW n \in Nat, NEW g,
         g = GoingOn(t, x, n)
  PROVE  /\ g \in CEntry /\ g.th = t /\ g.ci = n /\ ~g.counted /\ ~g.ny /\ ~g.yp
         /\ g.kind = IF x.lua THEN "exec" ELSE IF x.k = "none" THEN "ret" ELSE "cfun"
<1> DEFINE k == IF x.lua THEN "exec" ELSE IF x.k = "none" THEN "ret" ELSE "cfun"
<1>1. k \in Kinds BY DEF Kinds
<1>2. Goes(t, x) = Entry(k, t) BY DEF Goes
<1> HIDE DEF k
<1>3. Entry(k, t) \in CEntry /\ Entry(k, t).kind = k /\ Entry(k, t).th = t /\ Plain(Entry(k, t))
  BY <1>1, EntryRight
<1>4. g = [Entry(k, t) EXCEPT !.ci = n] BY <1>2 DEF GoingOn
<1>5. g \in CEntry /\ g.th = t /\ g.ci = n /\ ~g.counted /\ ~g.ny /\ ~g.yp /\ g.kind = k
  BY <1>3, <1>4 DEF CEntry, Plain
<1> QED BY <1>5 DEF k
\* The stack up to what the coroutine runs.
ResumeStack(c, q, r, x) == IF q = "yield" THEN Append(Append(c, r), x) ELSE Append(c, r)
ResumedStack(c, q, r, x, g) == c \o <<r>> \o (IF q = "yield" THEN <<x>> ELSE << >>) \o <<g>>
Stacked(c, q, r, x, g, D0, D) ==
  /\ D0 \in Seq(CEntry) /\ D \in Seq(CEntry) /\ D = Append(D0, g)
  /\ Len(D0) = IF q = "yield" THEN Len(c) + 2 ELSE Len(c) + 1
  /\ (\A i \in 1..Len(c) : D0[i] = c[i]) /\ D0[Len(c) + 1] = r /\ (q = "yield" => D0[Len(c) + 2] = x)
LEMMA ResumeStackRight ==
  ASSUME NEW c \in Seq(CEntry), NEW q, NEW r \in CEntry, NEW x \in CEntry, NEW g \in CEntry,
         NEW D0, D0 = ResumeStack(c, q, r, x), NEW D, D = ResumedStack(c, q, r, x, g)
  PROVE  Stacked(c, q, r, x, g, D0, D)
<1>1. CASE q = "yield"
  <2>1. D0 = Append(Append(c, r), x) /\ D = c \o <<r>> \o <<x>> \o <<g>> BY <1>1 DEF ResumeStack, ResumedStack
  <2>2. Append(c, r) \in Seq(CEntry) /\ c \o <<r>> = Append(c, r) OBVIOUS
  <2>3. Append(c, r) \o <<x>> = Append(Append(c, r), x) /\ Append(Append(c, r), x) \in Seq(CEntry)
    <3> DEFINE a == Append(c, r)
    <3>1. a \in Seq(CEntry) BY <2>2
    <3> HIDE DEF a
    <3>2. a \o <<x>> = Append(a, x) /\ Append(a, x) \in Seq(CEntry) BY <3>1
    <3> QED BY <3>2 DEF a
  <2>4. D0 \in Seq(CEntry) BY <2>1, <2>3
  <2>5. D0 \o <<g>> = Append(D0, g) /\ Append(D0, g) \in Seq(CEntry) BY <2>4
  <2>6. Len(D0) = Len(c) + 2 /\ (\A i \in 1..Len(c) : D0[i] = c[i]) /\ D0[Len(c) + 1] = r
        /\ D0[Len(c) + 2] = x
    BY <2>1
  <2> QED BY <2>1, <2>2, <2>3, <2>4, <2>5, <2>6, <1>1 DEF Stacked
<1>2. CASE q # "yield"
  <2>1. D0 = Append(c, r) /\ D = c \o <<r>> \o << >> \o <<g>> BY <1>2 DEF ResumeStack, ResumedStack
  <2>2. Append(c, r) \in Seq(CEntry) /\ c \o <<r>> = Append(c, r) /\ Append(c, r) \o << >> = Append(c, r)
    OBVIOUS
  <2>3. D0 \o <<g>> = Append(D0, g) /\ Append(D0, g) \in Seq(CEntry) BY <2>1, <2>2
  <2>4. Len(D0) = Len(c) + 1 /\ (\A i \in 1..Len(c) : D0[i] = c[i]) /\ D0[Len(c) + 1] = r BY <2>1
  <2> QED BY <2>1, <2>2, <2>3, <2>4, <1>2 DEF Stacked
<1> QED BY <1>1, <1>2

LEMMA ResumeStarts ==
  ASSUME CallAssumption, CInv, InC, NEW t \in Thread, Resumable(t), NEW n \in Int, n = l.ncc + 1,
         NEW s, NEW G, NEW R, Starting(t, s, G, R),
         NEW S, S = [th EXCEPT ![t] = GoesOn(th[t], n, G)],
         NEW r, r = Resuming(t, th[t].nny, n),
         NEW g, g = GoingOn(t, Top(s), Len(s)),
         NEW D, D = ResumedStack(cs, th[t].status, r, Entry("unroll", t), g),
         th' = S, cs' = D
  PROVE  CInv'
<1> DEFINE x == Entry("unroll", t)
           q == th[t].status
           m == Len(cs)
           D0 == ResumeStack(cs, q, r, x)
           u0 == GoesOn(th[t], n, R)
           u == GoesOn(th[t], n, G)
           S0 == [th EXCEPT ![t] = u0]
           F == th[t].ci
<1>1. Typical /\ Current BY Running
<1>2. /\ cs \in Seq(CEntry) /\ m \in Nat /\ L = cs[m].th /\ L \in Thread /\ l = th[L]
  BY <1>1 DEF Typical, Current
<1>3. /\ t # L /\ ~OnCStack(cs, t) /\ th[t] \in State /\ th[t].status \in {"ok", "yield"}
      /\ ~th[t].big /\ th[t].nny = 1
  BY DEF Resumable
<1>4. m >= 2 /\ l.status = "ok" /\ cs[m].kind \in {"cfun", "hook"} BY <1>1, CFunctionRuns DEF Current
<1>5. /\ R \in Seq(Frame) /\ G \in Seq(Frame) /\ Len(R) \in Nat /\ Len(s) = Len(R) + 1 /\ Len(G) = Len(s)
      /\ Len(G) <= MAXSTACK /\ Len(R) <= Len(F) /\ (th[t].status = "ok" => Len(R) = 0)
      /\ \A i \in 1..Len(R) : G[i] = R[i] /\ R[i] = F[i] /\ Continues(F[i])
      /\ \A i \in Len(R) + 1..Len(F) : ~F[i].yp
      /\ Top(s).lua \in BOOLEAN /\ ~G[Len(G)].yp /\ (G[Len(G)].lua <=> Top(s).lua)
      /\ G[Len(G)].k = Top(s).k
      /\ (G[Len(G)].lua => G[Len(G)].fresh /\ G[Len(G)].op = "none")
      /\ (~Top(s).lua /\ Top(s).k = "none" => q = "yield")
  BY DEF Starting
<1>6. /\ u0 \in State /\ u0.ncc = n /\ u0.nny = 0 /\ u0.status = "ok" /\ u0.ci = R
      /\ u0.errfunc = th[t].errfunc /\ u0.allowhook = th[t].allowhook /\ u0.big = th[t].big
  BY <1>3, <1>5, GoesOnRight
<1>7. /\ u \in State /\ u.ncc = n /\ u.nny = 0 /\ u.status = "ok" /\ u.ci = G
      /\ u.errfunc = th[t].errfunc /\ u.allowhook = th[t].allowhook /\ u.big = th[t].big
  BY <1>3, <1>5, GoesOnRight
<1>8. r \in CEntry /\ r.kind = "resume" /\ r.th = t /\ r.nny = 1 /\ r.ncc = n /\ Plain(r)
  <2>1. th[t].nny \in Int BY <1>3
  <2> QED BY <2>1, <1>3, ResumeEntry
<1>9. /\ g \in CEntry /\ g.th = t /\ g.ci = Len(G) /\ ~g.counted /\ ~g.ny /\ ~g.yp
      /\ g.kind = IF Top(s).lua THEN "exec" ELSE IF Top(s).k = "none" THEN "ret" ELSE "cfun"
  <2>1. Len(s) \in Nat BY <1>5
  <2> QED BY <2>1, <1>5, GoesRight
<1>10. x \in CEntry /\ x.kind = "unroll" /\ x.th = t /\ Plain(x) BY EntryRight DEF Kinds
<1>11. D = ResumedStack(cs, q, r, x, g) OBVIOUS
<1>12. q = th[t].status /\ q \in {"ok", "yield"} BY <1>3
<1> HIDE DEF x, q, m, u0, u
<1>28. D0 = ResumeStack(cs, q, r, x) OBVIOUS
<1> HIDE DEF D0
<1>14. /\ D0 \in Seq(CEntry) /\ D \in Seq(CEntry) /\ D = Append(D0, g)
       /\ Len(D0) = IF q = "yield" THEN Len(cs) + 2 ELSE Len(cs) + 1
       /\ (\A i \in 1..Len(cs) : D0[i] = cs[i]) /\ D0[Len(cs) + 1] = r /\ (q = "yield" => D0[Len(cs) + 2] = x)
  <2>1. Stacked(cs, q, r, x, g, D0, D)
    BY <1>2, <1>8, <1>9, <1>10, <1>11, <1>28, ResumeStackRight
  <2> QED BY <2>1 DEF Stacked
<1>15. m = Len(cs) BY DEF m
<1>16. Added(D0, D, Len(D0), g) BY <1>9, <1>14, AppendAdds
<1>17. S \in [Thread -> State] /\ S[t] = u /\ Others(th, S, t)
  BY <1>1, <1>7, ThreadSet DEF u
<1>18. S0 \in [Thread -> State] /\ S0[t] = u0 /\ Others(th, S0, t) BY <1>1, <1>6, ThreadSet
<1>19. Others(S0, S, t) BY <1>17, <1>18 DEF Others
<1> HIDE DEF S0, F
<1>20. F = th[t].ci BY DEF F
<1>21. Resumes0(th, cs, S0, D0, t)
  <2>1. Runs(th, cs, L)
    <3>1. Len(cs) >= 1 BY <1>2, <1>4, <1>15
    <3> QED BY <3>1, <1>2, <1>4, <1>15 DEF Runs
  <2>2. cs[m].kind = "cfun" => ~th[L].ci[cs[m].ci].yp BY <1>2, <1>15 DEF CInv, TopRight
  <2>3. Atop(cs, D0, m, t)
    <3>1. m \in 1..Len(cs) /\ Len(D0) \in {m + 1, m + 2} BY <1>2, <1>4, <1>14, <1>15
    <3>2. Len(D0) = m + 2 => q = "yield" BY <1>2, <1>14, <1>15
    <3> QED BY <3>1, <3>2, <1>8, <1>10, <1>14, <1>15 DEF Atop
  <2>4. Len(D0) = m + 1 => Len(u0.ci) = 0 BY <1>2, <1>5, <1>6, <1>12, <1>14, <1>15
  <2>5. \A i \in m + 1..Len(D0) : Plain(D0[i])
    <3>1. \A i \in m + 1..Len(D0) : i = m + 1 \/ (q = "yield" /\ i = m + 2) BY <1>2, <1>14, <1>15
    <3> QED BY <3>1, <1>8, <1>10, <1>14, <1>15
  <2>6. D0[m + 1].nny = th[t].nny /\ D0[m + 1].ncc = th[L].ncc + 1 BY <1>2, <1>3, <1>8, <1>14, <1>15
  <2>7. m > 1 /\ th[t].status # "dead" BY <1>2, <1>3, <1>4
  <2>8. u0.ncc = th[L].ncc + 1 BY <1>2, <1>6
  <2> QED BY <2>1, <2>2, <2>3, <2>4, <2>5, <2>6, <2>7, <2>8, <1>2, <1>3, <1>4, <1>5, <1>6, <1>15, <1>18,
             <1>20 DEF Resumes0
<1>22. Core(S0, D0)
  <2>1. Typed(S0, D0) BY <1>14, <1>18 DEF Typed
  <2>2. MAXSTACK \in Nat BY DEF CallAssumption
  <2> QED BY <2>1, <2>2, <1>21, CoreResumes DEF CInv
<1>23. /\ Len(D0) >= 2 /\ D0[Len(D0)].th = t
       /\ D0[Len(D0)].kind \in {"resume", "unroll"} /\ (q = "yield" => D0[Len(D0)].kind = "unroll")
       /\ (q # "yield" => D0[Len(D0)].kind = "resume")
  <2>1. CASE q = "yield"
    <3>1. Len(D0) = m + 2 /\ D0[Len(D0)] = x /\ Len(D0) >= 2 BY <2>1, <1>2, <1>4, <1>14, <1>15
    <3> QED BY <3>1, <2>1, <1>10
  <2>2. CASE q # "yield"
    <3>1. Len(D0) = m + 1 /\ D0[Len(D0)] = r /\ Len(D0) >= 2 BY <2>2, <1>2, <1>4, <1>14, <1>15
    <3> QED BY <3>1, <2>2, <1>8
  <2> QED BY <2>1, <2>2
<1>24. Runs(S0, D0, t) BY <1>6, <1>18, <1>23 DEF Runs
<1>25. Launched(S0, D0, S, D, t, g)
  <2>1. Len(D0) # 1 BY <1>23
  <2>2. g.kind = "ret" => q = "yield" BY <1>5, <1>9
  <2>3. Same(u0, u) BY <1>6, <1>7 DEF Same
  <2>4. Len(R) \in Nat /\ Len(G) \in Nat /\ Len(G) >= 1 /\ Len(G) = Len(R) + 1 BY <1>5
  <2>5. \/ g.kind = "exec" /\ G[Len(G)].lua /\ G[Len(G)].fresh /\ G[Len(G)].op = "none"
        \/ g.kind = "cfun" /\ ~G[Len(G)].lua
        \/ g.kind = "ret" /\ ~G[Len(G)].lua /\ G[Len(G)].k = "none"
    BY <1>5, <1>9
  <2>6. g.kind = "ret" => D0[Len(D0)].kind = "unroll" BY <2>2, <1>23
  <2> QED BY <2>1, <2>3, <2>4, <2>5, <2>6, <1>5, <1>6, <1>7, <1>9, <1>16, <1>17, <1>18, <1>19, <1>23
    DEF Launched
<1>26. Typed(S, D) BY <1>14, <1>17 DEF Typed
<1>27. Core(S, D) /\ TopRight(S, D) BY <1>22, <1>24, <1>25, <1>26, CoreLaunched
<1> QED BY <1>27 DEF CInv
LEMMA lua_resumeStep ==
  ASSUME CallAssumption, CInv, NEW t \in Thread, NEW lua \in BOOLEAN, lua_resume(t, lua)
  PROVE  CInv'
<1> DEFINE n == l.ncc + 1
           s == Starts(t, lua)
           G == IF Top(s).lua THEN Fresh(s) ELSE s
           R == IF th[t].status = "yield" THEN Pop(th[t].ci) ELSE << >>
<1>1. InC /\ ~Refused(t) BY DEF lua_resume
<1>2. Resumable(t) BY <1>1, MayResume
<1>3. n \in Int BY Running DEF Typical, State
<1>4. CASE n >= MAXCCALLS
  <2>1. th' = [th EXCEPT ![t].ncc = n] /\ cs' = cs BY <1>4 DEF lua_resume
  <2> HIDE DEF n
  <2> QED BY <2>1, <1>1, <1>2, <1>3, ResumeRefused
<1>5. CASE ~(n >= MAXCCALLS)
  <2> DEFINE r == Resuming(t, th[t].nny, n)
             g == GoingOn(t, Top(s), Len(s))
             S == [th EXCEPT ![t] = GoesOn(th[t], n, G)]
             D == ResumedStack(cs, th[t].status, r, Entry("unroll", t), g)
  <2>1. th' = S /\ cs' = D BY <1>5 DEF lua_resume, GoesOn, Resuming, GoingOn, ResumedStack
  <2>2. Starting(t, s, G, R) BY <1>2, StartsRight
  <2> HIDE DEF s, G, R
  <2>3. n = l.ncc + 1 OBVIOUS
  <2> HIDE DEF n
  <2> QED BY <2>1, <2>2, <2>3, <1>1, <1>2, <1>3, ResumeStarts
<1> QED BY <1>4, <1>5

(***************************************************************************)
(* unroll                                                                  *)
(***************************************************************************)
Unrolling ==
  /\ cs \in Seq(CEntry) /\ Len(cs) \in Nat /\ Len(cs) >= 2 /\ L = cs[Len(cs)].th /\ L \in Thread
  /\ Top(cs) = cs[Len(cs)] /\ cs[Len(cs)].kind = "unroll" /\ cs[Len(cs)].ci = 0
  /\ ~cs[Len(cs)].counted /\ ~cs[Len(cs)].ny /\ ~cs[Len(cs)].yp
  /\ Below.kind = "resume" /\ l = th[L] /\ l \in State /\ l.status = "ok"
  /\ l.ci \in Seq(Frame) /\ Len(l.ci) \in Nat
LEMMA UnrollRuns ==
  ASSUME CInv, At("unroll")
  PROVE  Unrolling
<1>1. Typical /\ Current BY Running
<1>2. /\ cs \in Seq(CEntry) /\ Len(cs) \in Nat /\ Len(cs) >= 1 /\ L = cs[Len(cs)].th /\ L \in Thread
      /\ Top(cs) = cs[Len(cs)] /\ cs[Len(cs)].kind = "unroll" /\ Len(cs) # 1
      /\ l = th[L] /\ l \in State /\ l.status = "ok" /\ l.ci \in Seq(Frame) /\ Len(l.ci) \in Nat
  BY <1>1 DEF Typical, Current, At
<1>3. Len(cs) >= 2 BY <1>2, NotAlone
<1>4. Shape(cs) BY DEF CInv, Core
<1>5. Len(cs) - 1 \in 1..Len(cs) - 1 /\ Len(cs) = (Len(cs) - 1) + 1 /\ Len(cs) \in 1..Len(cs) BY <1>2, <1>3
<1>6. Over(cs[Len(cs)], Below) BY <1>4, <1>5 DEF Shape, Below
<1>7. Holds(cs[Len(cs)]) BY <1>4, <1>5 DEF Shape
<1> QED BY <1>2, <1>3, <1>6, <1>7 DEF Unrolling, Over, Holds
\* The last frame, x, runs in the entry f.
LEMMA UnrollLaunches ==
  ASSUME CallAssumption, CInv, At("unroll"), NEW u \in State, Core(With(u), cs), u.status = "ok",
         Len(u.ci) = Len(l.ci), Len(u.ci) >= 1, ~u.ci[Len(u.ci)].yp,
         NEW kind \in {"exec", "cfun"},
         \/ kind = "exec" /\ u.ci[Len(u.ci)].lua /\ u.ci[Len(u.ci)].fresh /\ u.ci[Len(u.ci)].op = "none"
         \/ kind = "cfun" /\ ~u.ci[Len(u.ci)].lua,
         Becomes(u, Append(cs, Here(kind)))
  PROVE  CInv'
<1> DEFINE f == Here(kind)
           D == Append(cs, f)
<1>1. Typical BY Running
<1>2. Unrolling BY UnrollRuns
<1>3. /\ f \in CEntry /\ f.kind = kind /\ f.th = L /\ f.ci = Len(u.ci) /\ ~f.counted /\ ~f.ny /\ ~f.yp
  BY <1>1, HereRight DEF Kinds
<1>4. D \in Seq(CEntry) /\ Added(cs, D, Len(cs), f) BY <1>2, <1>3, AppendAdds DEF Unrolling
<1> HIDE DEF f, D
<1>5. With(u)[L] = u /\ Others(With(u), With(u), L) BY <1>1, WithRight DEF Others
<1>6. Runs(With(u), cs, L)
  <2>1. Len(cs) >= 1 BY <1>2 DEF Unrolling
  <2> QED BY <2>1, <1>2, <1>5 DEF Runs, Unrolling
<1>7. ~u.big => Len(u.ci) <= MAXSTACK
  <2>1. BoundOf(With(u), cs, L) BY <1>2 DEF Core, ThreadRight, Unrolling
  <2> QED BY <2>1, <1>5 DEF BoundOf
<1>8. Launched(With(u), cs, With(u), D, L, f)
  <2>1. Same(u, u) BY DEF Same
  <2>2. Len(u.ci) \in Nat /\ Len(cs) # 1 BY <1>2 DEF Unrolling
  <2>3. cs[Len(cs)].kind = "unroll" BY <1>2 DEF Unrolling
  <2> QED BY <2>1, <2>2, <2>3, <1>3, <1>4, <1>5, <1>7 DEF Launched
<1>9. Typed(With(u), D) BY <1>1, <1>4, WithTyped
<1>10. Core(With(u), D) /\ TopRight(With(u), D) BY <1>6, <1>8, <1>9, CoreLaunched
<1> QED BY <1>10, Becoming DEF Good, D, f
LEMMA UnrollEnds ==
  ASSUME CallAssumption, CInv, At("unroll"), l.ci = << >>, Becomes(l, Pop(cs))
  PROVE  CInv'
<1>1. Typical BY Running
<1>2. Unrolling BY UnrollRuns
<1>3. Len(l.ci) = 0 OBVIOUS
<1>4. Pops(l)
  <2>1. CountedDown(l, l, Top(cs)) BY <1>2 DEF CountedDown, Unrolling
  <2> QED BY <2>1, <1>2, <1>3 DEF Pops, Owns, Unrolling
<1>5. Core(With(l), Pop(cs)) /\ Pop(cs)[Len(Pop(cs))] = Below BY <1>2, <1>4, CorePops DEF Unrolling
<1>6. TopRight(With(l), Pop(cs)) BY <1>2, <1>5 DEF TopRight, Unrolling
<1> QED BY <1>5, <1>6, Becoming DEF Good
LEMMA UnrollLua ==
  ASSUME CallAssumption, CInv, At("unroll"), l.ci # << >>, ci.lua,
         Becomes([l EXCEPT !.ci = Fresh(SetTop(@, [ci EXCEPT !.op = "none"]))], Append(cs, Here("exec")))
  PROVE  CInv'
<1> DEFINE n == Len(l.ci)
           y == [ci EXCEPT !.op = "none"]
           x == [y EXCEPT !.fresh = TRUE]
           s == SetTop(l.ci, y)
           u == [l EXCEPT !.ci = Fresh(s)]
<1>1. Typical BY Running
<1>2. Unrolling BY UnrollRuns
<1>3. n \in Nat /\ n >= 1 /\ l.ci \in Seq(Frame) /\ l \in State /\ l = th[L] /\ l.status = "ok"
  BY <1>2 DEF Unrolling
<1>4. ci = l.ci[n] /\ ci \in Frame BY <1>3, TopFrame
<1>5. y \in Frame /\ y.lua /\ y.op = "none" BY <1>4 DEF Frame
<1> HIDE DEF y
<1>6. x \in Frame /\ x.lua /\ x.op = "none" /\ x.fresh /\ x.yp = y.yp BY <1>5 DEF Frame
<1>7. s \in Seq(Frame) /\ TopSet(l.ci, s, y) BY <1>3, <1>5 DEF TopSet, SetTop, Top
<1>8. ~ci.yp /\ ~y.yp
  <2>1. ~ci.yp
    <3>1. n \in 1..n BY <1>3
    <3> QED BY <3>1, <1>4, TopFrame
  <2> QED BY <2>1, <1>4 DEF y, Frame
<1> HIDE DEF x, s
<1>9. Fresh(s) = SetTop(s, x) BY <1>7 DEF Fresh, TopSet, x
<1>10. Len(s) = n BY <1>7 DEF TopSet
<1>11. SetTop(s, x) \in Seq(Frame) /\ TopSet(s, SetTop(s, x), x)
  BY <1>3, <1>6, <1>7, <1>10 DEF TopSet, SetTop, Top
<1>12. u \in State /\ u.ci = SetTop(s, x) /\ Same(l, u) BY <1>3, <1>9, <1>11 DEF State, Same
<1>13. Becomes(u, Append(cs, Here("exec"))) BY DEF s, y
<1> HIDE DEF u
<1>14. Len(u.ci) = n /\ u.ci[n] = x /\ \A i \in 1..n - 1 : u.ci[i] = l.ci[i]
  BY <1>7, <1>10, <1>11, <1>12 DEF TopSet
<1>15. \A i \in n..n : i = n BY <1>3
<1>16. Retouched(u, n)
  <2>1. Changed(l.ci, u.ci, n) BY <1>3, <1>4, <1>6, <1>8, <1>14, <1>15 DEF Changed
  <2>2. Works(Top(cs), u.ci, Len(u.ci)) BY <1>2, <1>3, <1>14 DEF Works, Unrolling
  <2>3. Top(cs).kind = "unroll" /\ Top(cs).ci <= n BY <1>2, <1>3 DEF Unrolling
  <2> QED BY <2>1, <2>2, <2>3, <1>3, <1>6, <1>12, <1>14, <1>15 DEF Retouched
<1>17. Core(With(u), cs) BY <1>12, <1>16, CoreRetouched
<1> QED BY <1>3, <1>6, <1>8, <1>12, <1>13, <1>14, <1>17, UnrollLaunches DEF Same
LEMMA UnrollC ==
  ASSUME CallAssumption, CInv, At("unroll"), l.ci # << >>, ~ci.lua,
         Becomes([l EXCEPT !.ci = SetTop(@, [ci EXCEPT !.yp = FALSE]),
                           !.errfunc = IF ci.yp THEN ci.oef ELSE @], Append(cs, Here("cfun")))
  PROVE  CInv'
<1> DEFINE n == Len(l.ci)
           x == [ci EXCEPT !.yp = FALSE]
           s == SetTop(l.ci, x)
           o == IF ci.yp THEN ci.oef ELSE l.errfunc
           u == [l EXCEPT !.ci = s, !.errfunc = o]
<1>1. Typical BY Running
<1>2. Unrolling BY UnrollRuns
<1>3. n \in Nat /\ n >= 1 /\ l.ci \in Seq(Frame) /\ l \in State /\ l = th[L] /\ l.status = "ok"
  BY <1>2 DEF Unrolling
<1>4. ci = l.ci[n] /\ ci \in Frame BY <1>3, TopFrame
<1>5. x \in Frame /\ ~x.yp /\ (x.lua <=> ci.lua) /\ x.k = ci.k /\ ci.oef \in Handlers BY <1>4 DEF Frame
<1>6. ~ci.yp => x = ci BY <1>4 DEF Frame
<1> HIDE DEF x
<1>7. s \in Seq(Frame) /\ TopSet(l.ci, s, x) BY <1>3, <1>5 DEF TopSet, SetTop, Top
<1>8. ~ci.yp => s = l.ci BY <1>3, <1>4, <1>6 DEF SetTop
<1>9. o \in Handlers BY <1>3, <1>5 DEF State
<1>10. (ci.yp => o = ci.oef) /\ (~ci.yp => o = l.errfunc) OBVIOUS
<1>11. Becomes(u, Append(cs, Here("cfun"))) BY DEF x
<1> HIDE DEF s, o
<1>12. u = StateResetTo(l, s, o) BY DEF StateResetTo
<1> HIDE DEF u
<1>13. /\ u \in State /\ u.ci = s /\ u.ncc = l.ncc /\ u.allowhook = l.allowhook /\ u.nny = l.nny
       /\ u.errfunc = o /\ u.status = "ok" /\ u.big = l.big
  BY <1>3, <1>7, <1>9, <1>12, StateReset
<1>14. Len(s) = n /\ s[n] = x /\ \A i \in 1..n - 1 : s[i] = l.ci[i] BY <1>7 DEF TopSet
<1>15. With(u)[L] = u /\ Others(th, With(u), L) BY <1>1, <1>13, WithRight
<1>16. Typed(With(u), cs) BY <1>1, <1>2, <1>13, WithTyped DEF Unrolling
<1>17. Core(th, cs) BY DEF CInv
<1>18. Core(With(u), cs)
  <2>1. CASE ci.yp
    <3>1. Cleared(th, cs, With(u), L)
      <4>1. cs[Len(cs)].kind = "unroll" BY <1>2 DEF Unrolling
      <4>2. Len(u.ci) = n /\ u.ci[n] = x /\ \A i \in 1..n - 1 : u.ci[i] = l.ci[i] BY <1>13, <1>14
      <4>3. l.ci[n].yp /\ u.errfunc = l.ci[n].oef BY <2>1, <1>4, <1>10, <1>13
      <4>4. ~u.ci[n].yp /\ u.ci[n].k = l.ci[n].k /\ (u.ci[n].lua <=> l.ci[n].lua) BY <4>2, <1>4, <1>5
      <4>5. u.ci[n].lua = l.ci[n].lua
        <5>1. u.ci[n].lua \in BOOLEAN /\ l.ci[n].lua \in BOOLEAN BY <4>2, <1>4, <1>5 DEF Frame
        <5> QED BY <5>1, <4>4
      <4> QED BY <4>1, <4>2, <4>3, <4>4, <4>5, <1>3, <1>13, <1>15 DEF Cleared
    <3>2. Runs(th, cs, L)
      <4>1. Len(cs) >= 1 BY <1>2 DEF Unrolling
      <4> QED BY <4>1, <1>2 DEF Runs, Unrolling
    <3> QED BY <3>1, <3>2, <1>16, <1>17, CoreCleared
  <2>2. CASE ~ci.yp
    <3>1. u = l
      <4>1. u = [l EXCEPT !.ci = l.ci, !.errfunc = l.errfunc] BY <2>2, <1>8, <1>10 DEF u
      <4> QED BY <4>1, <1>3 DEF State
    <3> QED BY <3>1, <1>1, <1>17, WithMine
  <2> QED BY <2>1, <2>2
<1>19. Len(u.ci) = n /\ ~u.ci[n].yp /\ ~u.ci[n].lua BY <1>5, <1>13, <1>14
<1> QED BY <1>3, <1>11, <1>13, <1>18, <1>19, UnrollLaunches
LEMMA unrollStep ==
  ASSUME CallAssumption, CInv, unroll
  PROVE  CInv'
<1>1. At("unroll") BY DEF unroll
<1>2. CASE l.ci = << >> BY <1>1, <1>2, UnrollEnds DEF unroll
<1>3. CASE l.ci # << >> /\ ci.lua BY <1>1, <1>3, UnrollLua DEF unroll
<1>4. CASE l.ci # << >> /\ ~ci.lua
  <2>1. Becomes([l EXCEPT !.ci = SetTop(@, [ci EXCEPT !.yp = FALSE]),
                           !.errfunc = IF ci.yp THEN ci.oef ELSE @], Append(cs, Here("cfun")))
    BY <1>4 DEF unroll
  <2> QED BY <2>1, <1>1, <1>4, UnrollC
<1> QED BY <1>2, <1>3, <1>4

(***************************************************************************)
(* The invariant holds                                                     *)
(***************************************************************************)
LEMMA InitialThread ==
  ASSUME CallAssumption, Init, NEW t \in Thread
  PROVE  /\ th[t] \in State /\ th[t].status = "ok" /\ th[t].nny = 1 /\ th[t].ncc = 0
         /\ th[t].errfunc = NoHandler /\ th[t].allowhook /\ ~th[t].big
         /\ th[t].ci = IF t = mainthread THEN <<CFrame>> ELSE << >>
<1>1. NewThread \in State /\ NewThread.ci = << >>
  <2>1. << >> \in Seq(Frame) OBVIOUS
  <2> QED BY <2>1 DEF NewThread, State, Handlers
<1>2. /\ NewThread.status = "ok" /\ NewThread.nny = 1 /\ NewThread.ncc = 0
      /\ NewThread.errfunc = NoHandler /\ NewThread.allowhook /\ ~NewThread.big
  BY DEF NewThread
<1>3. <<CFrame>> \in Seq(Frame) BY CFrameRight
<1>4. CASE t # mainthread BY <1>1, <1>2, <1>4 DEF Init
<1>5. CASE t = mainthread
  <2>1. th[t] = [NewThread EXCEPT !.ci = <<CFrame>>, !.fun = FALSE] BY <1>5 DEF Init
  <2> QED BY <2>1, <1>1, <1>2, <1>3, <1>5 DEF State
<1> QED BY <1>4, <1>5
LEMMA InitialStack ==
  ASSUME CallAssumption, Init
  PROVE  /\ cs \in Seq(CEntry) /\ Len(cs) = 1 /\ cs[1] \in CEntry /\ cs[1].kind = "cfun"
         /\ cs[1].th = mainthread /\ cs[1].ci = 1 /\ ~cs[1].counted /\ ~cs[1].ny /\ ~cs[1].yp
         /\ \A i \in 1..Len(cs) : i = 1
<1> DEFINE e == [Entry("cfun", mainthread) EXCEPT !.ci = 1]
<1>1. mainthread \in Thread BY DEF CallAssumption
<1>2. /\ Entry("cfun", mainthread) \in CEntry /\ Entry("cfun", mainthread).kind = "cfun"
      /\ Entry("cfun", mainthread).th = mainthread /\ Plain(Entry("cfun", mainthread))
  BY <1>1, EntryRight DEF Kinds
<1>3. e \in CEntry /\ e.kind = "cfun" /\ e.th = mainthread /\ e.ci = 1 /\ ~e.counted /\ ~e.ny /\ ~e.yp
  BY <1>2 DEF CEntry, Plain
<1>4. cs = <<e>> BY DEF Init
<1> HIDE DEF e
<1> QED BY <1>3, <1>4
LEMMA CallInit ==
  ASSUME CallAssumption, Init
  PROVE  CInv
<1>1. /\ cs \in Seq(CEntry) /\ Len(cs) = 1 /\ cs[1] \in CEntry /\ cs[1].kind = "cfun"
      /\ cs[1].th = mainthread /\ cs[1].ci = 1 /\ ~cs[1].counted /\ ~cs[1].ny /\ ~cs[1].yp
      /\ \A i \in 1..Len(cs) : i = 1
  BY InitialStack
<1>2. \A t \in Thread :
         /\ th[t] \in State /\ th[t].status = "ok" /\ th[t].nny = 1 /\ th[t].ncc = 0
         /\ th[t].errfunc = NoHandler /\ th[t].allowhook /\ ~th[t].big
         /\ th[t].ci = IF t = mainthread THEN <<CFrame>> ELSE << >>
  BY InitialThread
<1>3. mainthread \in Thread /\ MAXSTACK \in Nat /\ 1 <= MAXSTACK BY DEF CallAssumption
<1>4. \A t \in Thread : Len(th[t].ci) = IF t = mainthread THEN 1 ELSE 0 BY <1>2
<1>5. th[mainthread].ci[1] = CFrame BY <1>2, <1>3
<1>6. ~CFrame.lua /\ ~CFrame.yp BY CFrameRight
<1>7. Typed(th, cs)
  <2>1. th = [t \in Thread |-> th[t]] BY DEF Init
  <2> QED BY <2>1, <1>1, <1>2 DEF Typed
<1>8. \A i, j \in 1..Len(cs) : i = j BY <1>1
<1>9. \A i \in 1..Len(cs) : \A j \in 1..i - 1 : FALSE BY <1>1
<1>10. \A i \in 1..Len(cs) - 1 : FALSE BY <1>1
<1>11. Shape(cs)
  <2>1. Based(cs) BY <1>1 DEF Based
  <2>2. Together(cs)
    <3>1. \A i, j \in 1..Len(cs) : \A k \in i..j : k = 1 BY <1>1
    <3> QED BY <3>1, <1>1 DEF Together
  <2>3. ResumedOnce(cs) BY <1>1, <1>9 DEF ResumedOnce
  <2>4. \A i \in 1..Len(cs) : Holds(cs[i]) BY <1>1 DEF Holds, Kinds
  <2> QED BY <2>1, <2>2, <2>3, <2>4, <1>10 DEF Shape
<1>12. Frames(th, cs)
  <2>1. Height(th, cs, 1) = 1
    <3>1. ~(1 < Len(cs)) BY <1>1
    <3>2. Len(th[cs[1].th].ci) = 1 BY <1>1, <1>3, <1>4
    <3> QED BY <3>1, <3>2 DEF Height
  <2>2. Works(cs[1], th[mainthread].ci, 1) BY <1>1, <1>3, <1>4, <1>5, <1>6 DEF Works
  <2>3. Framed(th, cs, 1) BY <2>1, <2>2, <1>1 DEF Framed
  <2> QED BY <2>3, <1>1, <1>9 DEF Frames
<1>13. \A t : Counted(cs, t, Len(cs)) = 0 /\ Ny(cs, t, Len(cs)) = 0
  <2> TAKE t
  <2>1. \A i \in 0 + 1..1 : cs[i].th = t => ~cs[i].counted /\ ~cs[i].ny
    <3>1. \A i \in 0 + 1..1 : i = 1 OBVIOUS
    <3> QED BY <3>1, <1>1
  <2>2. 0 \in Nat /\ 1 \in Nat /\ 0 <= 1 OBVIOUS
  <2>3. Counted(cs, t, 1) = Counted(cs, t, 0) /\ Ny(cs, t, 1) = Ny(cs, t, 0) BY <2>1, <2>2, CountSkip
  <2> QED BY <2>3, <1>1, CountNone
<1>14. CountsRight(th, cs)
  <2>1. Counts(th, cs, mainthread, 0, 1) BY <1>1, <1>2, <1>3, <1>13 DEF Counts
  <2>2. \A r \in 2..Len(cs) : FALSE BY <1>1
  <2> QED BY <2>1, <2>2, <1>2 DEF CountsRight
<1>15. \A t : \A i \in 1..Len(cs) : ~PcallAt(cs, t, i) BY <1>1 DEF PcallAt
<1>16. ASSUME NEW t \in Thread PROVE ThreadRight(th, cs, t)
  <2> DEFINE F == th[t].ci
  <2>1. \A f \in 1..Len(F) : t = mainthread /\ f = 1 /\ F[f] = CFrame BY <1>4, <1>5
  <2>2. YieldsOf(th, cs, t)
    <3>1. t = mainthread => Waits(cs, t, 1, 1) BY <1>1 DEF Waits
    <3>2. 1 \in 1..Len(cs) BY <1>1
    <3> QED BY <2>1, <3>1, <3>2, <1>6 DEF YieldsOf
  <2>3. HandlersOf(th, cs, t)
    <3>1. \A p \in 1..Len(F) : ~F[p].yp BY <2>1, <1>6
    <3>2. LastYp(F, Len(F), NoHandler) BY <3>1 DEF LastYp
    <3>3. Len(cs) + 1 - 1 = Len(cs) BY <1>1
    <3>4. InForceAt(F, cs, t, Len(cs) + 1, Len(F), th[t].errfunc) BY <3>2, <3>3, <1>2, <1>15 DEF InForceAt
    <3> QED BY <3>1, <3>4, <1>15 DEF HandlersOf
  <2>4. HooksOf(th, cs, t) BY <1>1, <1>2, <1>15 DEF HooksOf, NoHook
  <2>5. BoundOf(th, cs, t)
    <3>1. Len(F) <= MAXSTACK BY <1>3, <1>4
    <3> QED BY <3>1, <1>1, <1>2, <1>3 DEF BoundOf
  <2>6. StatusOf(th, cs, t)
    <3>1. th[t].status = "ok" BY <1>2
    <3>2. ~OnCStack(cs, t) => th[t].ci = << >>
      <4>1. 1 \in 1..Len(cs) BY <1>1
      <4> QED BY <4>1, <1>1, <1>2 DEF OnCStack
    <3>3. OnCStack(cs, t) => cs[Len(cs)].th = t BY <1>1 DEF OnCStack
    <3> QED BY <3>1, <3>2, <3>3 DEF StatusOf
  <2> QED BY <2>2, <2>3, <2>4, <2>5, <2>6 DEF ThreadRight
<1>17. Core(th, cs) BY <1>7, <1>11, <1>12, <1>14, <1>16 DEF Core
<1>18. TopRight(th, cs) BY <1>1, <1>5, <1>6 DEF TopRight
<1> QED BY <1>17, <1>18 DEF CInv
LEMMA CallNext ==
  ASSUME CallAssumption, CInv, [Next]_cavars
  PROVE  CInv'
<1>1. CASE UNCHANGED cavars BY <1>1 DEF cavars, CInv
<1>2. CASE CallLua BY <1>2, CallLuaStep
<1>3. CASE CallC BY <1>3, CallCStep
<1>4. CASE Hook BY <1>4, HookStep
<1>5. CASE RunError \/ MemoryError BY <1>5, FailingStep
<1>6. ASSUME NEW lua \in BOOLEAN, CallTM(lua) PROVE CInv' BY <1>6, CallTMStep
<1>7. ASSUME NEW lua \in BOOLEAN, NEW k \in Ks, lua_callk(k, lua) PROVE CInv' BY <1>7, lua_callkStep
<1>8. ASSUME NEW lua \in BOOLEAN, NEW k \in Ks, NEW h \in Handler \cup {NoHandler}, lua_pcallk(k, h, lua)
      PROVE CInv'
  <2>1. h \in Handlers BY DEF Handlers
  <2> QED BY <2>1, <1>8, lua_pcallkStep
<1>9. ASSUME NEW t \in Thread, NEW lua \in BOOLEAN, lua_resume(t, lua) PROVE CInv' BY <1>9, lua_resumeStep
<1>10. ASSUME NEW k \in Ks, lua_yieldk(k) PROVE CInv' BY <1>10, lua_yieldkStep
<1>11. ASSUME NEW lua \in BOOLEAN, luaG_errormsg(lua) PROVE CInv' BY <1>11, luaG_errormsgStep
<1>12. CASE LuaReturn BY <1>12, LuaReturnStep
<1>13. CASE HookReturn BY <1>13, HookReturnStep
<1>14. CASE PcallEnd BY <1>14, PcallEndStep
<1>15. CASE CReturn BY <1>15, CReturnStep
<1>16. CASE luaD_throw BY <1>16, luaD_throwStep
<1>17. CASE unroll BY <1>17, unrollStep
<1>18. CASE ResumeEnd BY <1>18, ResumeEndStep
<1> QED BY <1>1, <1>2, <1>3, <1>4, <1>5, <1>6, <1>7, <1>8, <1>9, <1>10, <1>11, <1>12, <1>13, <1>14,
           <1>15, <1>16, <1>17, <1>18 DEF Next

(***************************************************************************)
(* What the invariant says of the program                                  *)
(***************************************************************************)
LEMMA StackRight ==
  ASSUME CInv
  PROVE  /\ cs \in Seq(CEntry) /\ Len(cs) \in Nat /\ Len(cs) >= 1 /\ DOMAIN cs = 1..Len(cs)
         /\ Shape(cs) /\ CountsRight(th, cs) /\ \A t \in Thread : ThreadRight(th, cs, t)
         /\ \A t \in Thread : th[t].ci \in Seq(Frame) /\ Len(th[t].ci) \in Nat
                              /\ DOMAIN th[t].ci = 1..Len(th[t].ci)
         /\ \A i \in 1..Len(cs) : cs[i].th \in Thread
<1>1. Typical /\ Current BY Running
<1>2. cs \in Seq(CEntry) /\ Len(cs) \in Nat /\ Len(cs) >= 1 BY <1>1 DEF Typical, Current
<1>3. DOMAIN cs = 1..Len(cs) BY <1>2
<1>4. ASSUME NEW t \in Thread
      PROVE  th[t].ci \in Seq(Frame) /\ Len(th[t].ci) \in Nat /\ DOMAIN th[t].ci = 1..Len(th[t].ci)
  <2>1. th[t] \in State BY <1>1 DEF Typical
  <2>2. th[t].ci \in Seq(Frame) BY <2>1 DEF State
  <2> QED BY <2>2
<1>5. \A i \in 1..Len(cs) : cs[i].th \in Thread
  <2>1. \A i \in 1..Len(cs) : cs[i] \in CEntry BY <1>2
  <2> QED BY <2>1 DEF CEntry
<1> QED BY <1>2, <1>3, <1>4, <1>5 DEF CInv, Core
\* Last takes the last of a set of numbers.
LEMMA LastRight ==
  ASSUME NEW n \in Nat, NEW S, S \subseteq 1..n, S # {}
  PROVE  Last(S) \in S /\ \A j \in S : j <= Last(S)
<1>1. \E i \in S : \A j \in S : j <= i BY Largest
<1> QED BY <1>1 DEF Last
LEMMA NestingRight ==
  ASSUME CInv
  PROVE  NestingCounted
<1>1. /\ Len(cs) \in Nat /\ Len(cs) >= 1 /\ DOMAIN cs = 1..Len(cs) /\ Shape(cs) /\ CountsRight(th, cs)
      /\ \A i \in 1..Len(cs) : cs[i].th \in Thread
  BY StackRight
<1>2. Based(cs) /\ ResumedOnce(cs) BY <1>1 DEF Shape
<1>3. SUFFICES ASSUME NEW t \in Thread
               PROVE  LET counted == Cardinality({i \in OnStack(t) : cs[i].counted})
                          ny == Cardinality({i \in OnStack(t) : cs[i].ny})
                      IN /\ Cardinality(Resumes(t)) <= 1
                         /\ IF Resumes(t) # {}
                              THEN LET from == cs[Last(Resumes(t)) - 1].th
                                   IN th[t].ncc = th[from].ncc + 1 + counted /\ th[t].nny = ny
                              ELSE (t = mainthread => th[t].ncc = counted) /\ th[t].nny = 1 + ny
  BY DEF NestingCounted
<1> DEFINE counted == Cardinality({i \in OnStack(t) : cs[i].counted})
           ny == Cardinality({i \in OnStack(t) : cs[i].ny})
           R == Resumes(t)
<1>4. counted = Counted(cs, t, Len(cs)) /\ ny = Ny(cs, t, Len(cs))
  <2>1. {i \in OnStack(t) : cs[i].counted} = {i \in 1..Len(cs) : cs[i].th = t /\ cs[i].counted}
    BY <1>1 DEF OnStack
  <2>2. {i \in OnStack(t) : cs[i].ny} = {i \in 1..Len(cs) : cs[i].th = t /\ cs[i].ny}
    BY <1>1 DEF OnStack
  <2> QED BY <2>1, <2>2 DEF Counted, Ny
<1>5. R = {i \in 1..Len(cs) : cs[i].th = t /\ cs[i].kind = "resume"} BY <1>1 DEF Resumes, OnStack
<1>6. counted \in Nat /\ ny \in Nat BY <1>1, <1>4, CountType
<1> HIDE DEF counted, ny, R
<1>7. \A i, j \in R : i = j
  <2>1. \A i, j \in R : ~(j < i)
    <3>1. ASSUME NEW i \in R, NEW j \in R, j < i PROVE FALSE
      <4>1. i \in 1..Len(cs) /\ j \in 1..i - 1 /\ cs[i].th = t /\ cs[j].th = t /\ cs[i].kind = "resume"
        BY <1>1, <1>5, <3>1
      <4> QED BY <4>1, <1>2 DEF ResumedOnce
    <3> QED BY <3>1
  <2>2. \A i, j \in R : i \in Nat /\ j \in Nat BY <1>1, <1>5
  <2> QED BY <2>1, <2>2
<1>8. Cardinality(R) <= 1
  <2>1. CASE R = {}
    <3>1. Cardinality(R) = 0 BY <2>1, FS_EmptySet
    <3> QED BY <3>1
  <2>2. CASE R # {}
    <3>1. PICK r \in R : TRUE BY <2>2
    <3>2. R = {r} BY <3>1, <1>7
    <3>3. Cardinality(R) = 1 BY <3>2, FS_Singleton
    <3> QED BY <3>3
  <2> QED BY <2>1, <2>2
<1>9. R # {} => th[t].ncc = th[cs[Last(R) - 1].th].ncc + 1 + counted /\ th[t].nny = ny
  <2> SUFFICES ASSUME R # {}
               PROVE  th[t].ncc = th[cs[Last(R) - 1].th].ncc + 1 + counted /\ th[t].nny = ny
    OBVIOUS
  <2> DEFINE r == Last(R)
  <2>1. r \in R
    <3>1. R \subseteq 1..Len(cs) BY <1>5
    <3> QED BY <3>1, <1>1, LastRight
  <2> HIDE DEF r
  <2>2. r \in 1..Len(cs) /\ cs[r].kind = "resume" /\ cs[r].th = t BY <2>1, <1>5
  <2>3. r # 1 BY <2>2, <1>2 DEF Based
  <2>4. r \in 2..Len(cs) BY <2>2, <2>3, <1>1
  <2>5. cs[r].ncc = th[cs[r - 1].th].ncc + 1 /\ Counts(th, cs, t, cs[r].ncc, 0)
    BY <2>2, <2>4, <1>1 DEF CountsRight
  <2>6. th[t].ncc = cs[r].ncc + counted /\ th[t].nny = 0 + ny BY <2>5, <1>4 DEF Counts
  <2> QED BY <2>5, <2>6, <1>6 DEF r
<1>10. R = {} => (t = mainthread => th[t].ncc = counted) /\ th[t].nny = 1 + ny
  <2> SUFFICES ASSUME R = {} PROVE (t = mainthread => th[t].ncc = counted) /\ th[t].nny = 1 + ny
    OBVIOUS
  <2>1. CASE t = mainthread
    <3>1. Counts(th, cs, mainthread, 0, 1) BY <1>1 DEF CountsRight
    <3>2. th[t].ncc = 0 + counted /\ th[t].nny = 1 + ny BY <2>1, <3>1, <1>4 DEF Counts
    <3> QED BY <3>2, <1>6
  <2>2. CASE t # mainthread
    <3>1. ~OnCStack(cs, t)
      <4>1. ASSUME NEW i \in 1..Len(cs), cs[i].th = t PROVE FALSE
        <5>1. PICK r \in 2..i : cs[r].kind = "resume" /\ cs[r].th = t BY <4>1, <2>2, <1>2 DEF ResumedOnce
        <5>2. r \in R BY <5>1, <1>1, <1>5
        <5> QED BY <5>2
      <4> QED BY <4>1 DEF OnCStack
    <3>2. th[t].nny = 1 BY <3>1, <1>1 DEF CountsRight
    <3>3. {i \in OnStack(t) : cs[i].ny} = {} BY <3>1, <1>1 DEF OnCStack, OnStack
    <3>4. ny = 0 BY <3>3, FS_EmptySet DEF ny
    <3> QED BY <2>2, <3>2, <3>4
  <2> QED BY <2>1, <2>2
<1> QED BY <1>8, <1>9, <1>10 DEF R, counted, ny
LEMMA ContinuableRight ==
  ASSUME CallAssumption, CInv
  PROVE  Continuable
<1>1. /\ Len(cs) \in Nat /\ Len(cs) >= 1 /\ DOMAIN cs = 1..Len(cs) /\ Shape(cs) /\ CountsRight(th, cs)
      /\ \A t \in Thread : ThreadRight(th, cs, t)
  BY StackRight
<1>2. ASSUME At("throw"), l.status = "yield" PROVE cs[errorJmp].kind = "resume"
  <2> DEFINE i == errorJmp
  <2>1. Arrives(i) /\ cs[i].kind \in {"pcall", "resume"} BY <1>2, Arriving
  <2> HIDE DEF i
  <2>2. ASSUME cs[i].kind = "pcall" PROVE FALSE
    <3>1. /\ i \in 2..Len(cs) /\ i < Len(cs) /\ cs[i].th = L /\ th[L] = l /\ L \in Thread
          /\ cs[Len(cs)].th = L
      BY <2>1 DEF Arrives
    <3>2. OnCStack(cs, L)
      <4>1. Len(cs) \in 1..Len(cs) BY <1>1
      <4> QED BY <4>1, <3>1 DEF OnCStack
    <3>3. th[L].nny = 0 BY <1>1, <1>2, <3>1, <3>2 DEF ThreadRight, StatusOf
    <3>4. \A j \in 1..Len(cs) : cs[j].th = L => ~cs[j].ny BY <1>1, <3>1, <3>3, NyZero DEF CInv
    <3>5. i \in 1..Len(cs) - 1 /\ i + 1 \in 1..Len(cs) BY <3>1, <1>1
    <3>6. Over(cs[i + 1], cs[i]) BY <3>5, <1>1 DEF Shape
    <3>7. cs[i + 1].ny /\ cs[i + 1].th = L BY <2>2, <3>1, <3>6 DEF Over
    <3> QED BY <3>4, <3>5, <3>7
  <2> QED BY <2>1, <2>2 DEF i
<1>3. ASSUME At("unroll"), l.ci # << >>, ~ci.lua PROVE ci.k = "some" /\ l.nny = 0
  <2> DEFINE n == Len(cs)
             m == n - 1
  <2>1. Unrolling BY <1>3, UnrollRuns
  <2>2. /\ n \in Nat /\ n >= 2 /\ L = cs[n].th /\ L \in Thread /\ cs[n].kind = "unroll"
        /\ cs[m].kind = "resume" /\ l = th[L] /\ Len(l.ci) \in Nat /\ l.ci \in Seq(Frame)
    BY <2>1 DEF Unrolling, Below
  <2>3. m # 1 BY <2>2, <1>1 DEF Shape, Based
  <2>11. n = m + 1 /\ n \in 1..n BY <2>2
  <2>12. m = n - 1 OBVIOUS
  <2> HIDE DEF m, n
  <2>4. m \in 2..n /\ m \in 1..n - 1 /\ n = m + 1 /\ m \in 1..n /\ n \in 1..n
    BY <2>2, <2>3, <2>11, <2>12
  <2>5. n = Len(cs) BY DEF n
  <2>6. cs[m].th = L
    <3>1. Over(cs[n], cs[m]) BY <2>4, <2>5, <1>1 DEF Shape
    <3> QED BY <3>1, <2>2 DEF Over
  <2>7. \A j \in 1..n : cs[j].th = L => j \in {m, n}
    <3>1. \A j \in 1..m - 1 : cs[j].th # L BY <2>2, <2>4, <2>5, <2>6, <1>1 DEF Shape, ResumedOnce
    <3>2. \A j \in 1..n : j \in 1..m - 1 \/ j \in {m, n} BY <2>2, <2>4
    <3> QED BY <3>1, <3>2
  <2>8. Len(l.ci) >= 1 /\ ci = l.ci[Len(l.ci)] /\ Len(l.ci) \in 1..Len(l.ci)
    <3>1. Len(l.ci) # 0 BY <1>3, <2>2
    <3>2. Len(l.ci) >= 1 /\ Len(l.ci) \in 1..Len(l.ci) BY <3>1, <2>2
    <3> QED BY <3>2 DEF Top, ci
  <2>9. Continues(ci)
    <3>1. \A j \in 1..n : ~Waits(cs, L, Len(l.ci), j) BY <2>2, <2>7 DEF Waits
    <3>2. OnCStack(cs, L) BY <2>2, <2>4, <2>5 DEF OnCStack
    <3>3. YieldsOf(th, cs, L) BY <2>2, <1>1 DEF ThreadRight
    <3> QED BY <3>1, <3>2, <3>3, <2>2, <2>5, <2>8 DEF YieldsOf
  <2>10. l.nny = 0
    <3>1. Counts(th, cs, L, cs[m].ncc, 0) BY <2>2, <2>4, <2>5, <2>6, <1>1 DEF CountsRight
    <3>2. l.nny = 0 + Ny(cs, L, n) BY <3>1, <2>2, <2>5 DEF Counts
    <3>3. \A i \in 0 + 1..n : cs[i].th = L => ~cs[i].counted /\ ~cs[i].ny
      <4>1. \A i \in 0 + 1..n : i \in 1..n /\ (cs[i].th = L => cs[i].kind \in {"resume", "unroll"})
        BY <2>2, <2>7
      <4>2. \A i \in 1..n : Holds(cs[i]) BY <2>5, <1>1 DEF Shape
      <4> QED BY <4>1, <4>2 DEF Holds
    <3>4. 0 \in Nat /\ 0 <= n BY <2>2
    <3>5. Ny(cs, L, n) = Ny(cs, L, 0) BY <3>3, <3>4, <2>2, CountSkip
    <3> QED BY <3>2, <3>5, CountNone
  <2> QED BY <2>9, <2>10, <1>3 DEF Continues
<1>4. Executes => ci.lua /\ ci.op = "none" BY TopFrame
<1>5. At("cfun") => ~ci.lua /\ ~ci.yp BY TopFrame
<1> QED BY <1>2, <1>3, <1>4, <1>5 DEF Continuable
LEMMA NoPcallInForce ==
  ASSUME NEW F, NEW C, NEW t, NEW n \in Nat, NEW m, NEW h, InForceAt(F, C, t, n + 1, m, h),
         \A i \in 1..n : ~PcallAt(C, t, i)
  PROVE  LastYp(F, m, h)
<1>1. n + 1 - 1 = n OBVIOUS
<1> DEFINE k == n + 1
<1>2. InForceAt(F, C, t, k, m, h) /\ k - 1 = n BY <1>1
<1> HIDE DEF k
<1> QED BY <1>2 DEF InForceAt
LEMMA ErrorStateRight ==
  ASSUME CInv
  PROVE  ErrorState
<1>1. /\ Len(cs) \in Nat /\ DOMAIN cs = 1..Len(cs)
      /\ \A t \in Thread : ThreadRight(th, cs, t)
      /\ \A t \in Thread : Len(th[t].ci) \in Nat /\ DOMAIN th[t].ci = 1..Len(th[t].ci)
  BY StackRight
<1>2. SUFFICES ASSUME NEW t \in Thread, th[t].status # "dead"
               PROVE  /\ th[t].errfunc = InForce(t)
                      /\ th[t].allowhook <=> \A i \in OnStack(t) : cs[i].kind # "hook"
                      /\ th[t].big => \E i \in OnStack(t) : cs[i].kind \in {"raise", "throw"}
  BY DEF ErrorState
<1>3. HandlersOf(th, cs, t) /\ HooksOf(th, cs, t) /\ BoundOf(th, cs, t) BY <1>1 DEF ThreadRight
<1>4. OnStack(t) = {i \in 1..Len(cs) : cs[i].th = t} BY <1>1 DEF OnStack
<1>5. th[t].allowhook <=> \A i \in OnStack(t) : cs[i].kind # "hook"
  <2>1. th[t].allowhook <=> NoHook(cs, t, Len(cs)) BY <1>2, <1>3 DEF HooksOf
  <2>2. NoHook(cs, t, Len(cs)) <=> \A i \in OnStack(t) : cs[i].kind # "hook" BY <1>4 DEF NoHook
  <2> QED BY <2>1, <2>2
<1>6. th[t].big => \E i \in OnStack(t) : cs[i].kind \in {"raise", "throw"}
  BY <1>2, <1>3, <1>4 DEF BoundOf, Handling
<1>7. th[t].errfunc = InForce(t)
  <2> DEFINE F == th[t].ci
             n == Len(cs)
             m == Len(F)
             h == th[t].errfunc
             P == {i \in OnStack(t) : cs[i].kind = "pcall"}
             Y == {i \in DOMAIN th[t].ci : th[t].ci[i].yp}
  <2>1. P = {i \in 1..n : PcallAt(cs, t, i)} BY <1>4 DEF PcallAt
  <2>2. Y = {i \in 1..m : F[i].yp} BY <1>1
  <2>3. n \in Nat /\ m \in Nat /\ n + 1 - 1 = n BY <1>1
  <2>4. InForceAt(F, cs, t, n + 1, m, h) BY <1>2, <1>3 DEF HandlersOf
  <2>5. InForce(t) = IF P # {} THEN cs[Last(P)].handler ELSE IF Y # {} THEN F[Last(Y)].handler ELSE NoHandler
    BY DEF InForce
  <2> HIDE DEF F, n, m, h, P, Y
  <2>6. CASE P # {}
    <3>1. P \subseteq 1..n BY <2>1
    <3>2. Last(P) \in P /\ \A j \in P : j <= Last(P) BY <3>1, <2>3, <2>6, LastRight
    <3> DEFINE p == Last(P)
    <3>3. p \in 1..n /\ PcallAt(cs, t, p) BY <3>2, <2>1
    <3> HIDE DEF p
    <3>4. \A j \in p + 1..n : ~PcallAt(cs, t, j)
      <4>1. ASSUME NEW j \in p + 1..n, PcallAt(cs, t, j) PROVE FALSE
        <5>1. j \in 1..n /\ ~(j <= p) BY <2>3, <3>3
        <5>2. j \in P BY <5>1, <4>1, <2>1
        <5> QED BY <5>1, <5>2, <3>2 DEF p
      <4> QED BY <4>1
    <3>5. h = cs[p].handler BY <2>3, <2>4, <3>3, <3>4 DEF InForceAt
    <3> QED BY <3>5, <2>5, <2>6 DEF p, h
  <2>7. CASE P = {}
    <3>1. LastYp(F, m, h)
      <4>1. \A i \in 1..n : ~PcallAt(cs, t, i) BY <2>1, <2>7
      <4> QED BY <4>1, <2>3, <2>4, NoPcallInForce
    <3>2. CASE Y # {}
      <4>1. Y \subseteq 1..m BY <2>2
      <4>2. Last(Y) \in Y /\ \A j \in Y : j <= Last(Y) BY <4>1, <2>3, <3>2, LastRight
      <4> DEFINE p == Last(Y)
      <4>3. p \in 1..m /\ F[p].yp BY <4>2, <2>2
      <4> HIDE DEF p
      <4>4. \A q \in p + 1..m : ~F[q].yp
        <5>1. ASSUME NEW q \in p + 1..m, F[q].yp PROVE FALSE
          <6>1. q \in 1..m /\ ~(q <= p) BY <2>3, <4>3
          <6>2. q \in Y BY <6>1, <5>1, <2>2
          <6> QED BY <6>1, <6>2, <4>2 DEF p
        <5> QED BY <5>1
      <4>5. h = F[p].handler BY <3>1, <4>3, <4>4 DEF LastYp
      <4> QED BY <4>5, <3>2, <2>5, <2>7 DEF p, h
    <3>3. CASE Y = {}
      <4>1. h = NoHandler BY <3>1, <3>3, <2>2 DEF LastYp
      <4> QED BY <4>1, <3>3, <2>5, <2>7 DEF h
    <3> QED BY <3>2, <3>3
  <2> QED BY <2>6, <2>7
<1> QED BY <1>5, <1>6, <1>7

\* The counters nCcalls and nny agree with the C stack (ldo.c: luaD_call, luaD_callnoyield,
\* luaD_pcall, lua_resume, recover), whatever is called, thrown, yielded and resumed.
THEOREM NestingIsCounted ==
  ASSUME CallAssumption
  PROVE  Spec => []NestingCounted
<1>1. Init => CInv BY CallInit
<1>2. CInv /\ [Next]_cavars => CInv' BY CallNext
<1>3. CInv => NestingCounted BY NestingRight
<1> QED BY <1>1, <1>2, <1>3, PTL DEF Spec
\* A yield arrives at lua_resume, and unroll and luaV_execute find frames that they can
\* continue: the assertions of finishCcall (ldo.c:566) and of lua_resume hold.
THEOREM YieldsContinue ==
  ASSUME CallAssumption
  PROVE  Spec => []Continuable
<1>1. Init => CInv BY CallInit
<1>2. CInv /\ [Next]_cavars => CInv' BY CallNext
<1>3. CInv => Continuable BY ContinuableRight
<1> QED BY <1>1, <1>2, <1>3, PTL DEF Spec
\* errfunc, allowhook and the part of the stack for errors are what the calls in progress ask
\* for (ldo.c: luaD_pcall, luaD_hook, luaD_throw, recover, finishCcall; ldebug.c: luaG_errormsg).
THEOREM ErrorStateRestored ==
  ASSUME CallAssumption
  PROVE  Spec => []ErrorState
<1>1. Init => CInv BY CallInit
<1>2. CInv /\ [Next]_cavars => CInv' BY CallNext
<1>3. CInv => ErrorState BY ErrorStateRight
<1> QED BY <1>1, <1>2, <1>3, PTL DEF Spec
=====

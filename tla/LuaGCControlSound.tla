------------------------- MODULE LuaGCControlSound -------------------------
(***************************************************************************)
(* Proofs about the control of the collector (LuaGCControl), for any       *)
(* number of objects and any depth of calls.  Every function pushes a      *)
(* frame on the C stack, replaces its own or pops it, so the invariants    *)
(* are predicates of a stack, and one lemma says what each of the three    *)
(* does to them.                                                           *)
(***************************************************************************)
EXTENDS LuaGCControl, Integers, TLAPS
USE DEF history

(* What the frames are worth *)

\* There is room above a function for those that it calls.
Above(f) ==
  IF f.fn \in {"luaC_step", "luaC_fullgc"} THEN 2
  ELSE IF f.fn = "runafewfinalizers" THEN 1 ELSE IF f.fn = "GCTM" THEN 0 ELSE 3
Fits(s) == \A i \in 1..Len(s) : i + Above(s[i]) <= MaxNesting
StackOK(s) == s \in Seq(Frame) /\ Fits(s) /\ Len(s) <= MaxNesting

\* The functions that save gcrunning, and the value that they will restore.
Saving(f) == f.fn \in {"GCTM", "LUA_GCSTEP"}
Saved(f) == IF f.fn = "GCTM" THEN f.running ELSE f.oldrunning
\* The values of gcrunning that a stack saves, with the field itself, r, as the last.
SavesAt(s, i) == i = Len(s) + 1 \/ (i \in 1..Len(s) /\ Saving(s[i]))
Value(s, r, i) == IF i = Len(s) + 1 THEN r ELSE Saved(s[i])
\* The first of them is what the main program chose, b, and what comes after that of a
\* GCTM is FALSE: the finalizer runs with the collector stopped.
FirstKept(s, r, b) ==
  \A j \in 1..Len(s) + 1 :
    SavesAt(s, j) /\ (\A i \in 1..(j - 1) : ~SavesAt(s, i)) => Value(s, r, j) = b
StoppedAbove(s, r) ==
  \A i \in 1..Len(s) : \A j \in (i + 1)..(Len(s) + 1) :
    /\ s[i].fn = "GCTM" /\ SavesAt(s, j)
    /\ \A k \in (i + 1)..(j - 1) : ~SavesAt(s, k)
    => Value(s, r, j) = FALSE
\* No step is taken above the main program but those that are asked for.
NoAutoAbove(s) == \A i \in 1..Len(s) : s[i].fn = "luaC_step" /\ s[i].auto => i = 1
Kept(s, r, b) == FirstKept(s, r, b) /\ StoppedAbove(s, r) /\ NoAutoAbove(s)

-----------------------------------------------------------------------------
(* The invariants *)

\* Of every behaviour: types, room on the stack, and a place for every object.
FieldsOK ==
  /\ gcphase \in GCPhase /\ gckind \in {"KGC_NORMAL", "KGC_EMERGENCY"}
  /\ gcrunning \in BOOLEAN /\ gcfinnum \in 0..UIntMax /\ stopped \in BOOLEAN
  /\ finobj \in Nat /\ tobefnz \in Nat /\ finobj + tobefnz <= MaxObjects
CInv == StackOK(stack) /\ FieldsOK /\ EmergencyQuiet
HistoryOK == disturbed \in BOOLEAN /\ exhausted \in BOOLEAN
\* While no call of runafewfinalizers has called half of UIntMax finalizers the
\* doubling of gcfinnum does not wrap around.
FewCalls == \A i \in 1..Len(stack) : stack[i].fn = "runafewfinalizers" => 2 * stack[i].i <= UIntMax
\* While no finalizer interferes.
KeptNow == Kept(stack, gcrunning, ~stopped)
SteadyInv == CInv /\ (~disturbed => KeptNow)
\* While memory does not run out: nothing is due before the atomic step, but what an
\* earlier emergency left to a full collection that has not come to it.
BeforeAtomic == In("luaC_fullgc") /\ TopFrame.at \in {"finish", "start", "sweep"}
Quiet ==
  /\ gckind = "KGC_NORMAL"
  /\ gcphase \in {"GCSpause", "GCSpropagate"} /\ ~BeforeAtomic => tobefnz = 0
CalmInv == CInv /\ (~exhausted => Quiet)

-----------------------------------------------------------------------------
(* What a push and a pop do to a stack *)

LEMMA FrameKinds ==
  ASSUME ControlAssumption, NEW f \in Frame
  PROVE  /\ f.fn \in {"luaC_step", "luaC_fullgc", "runafewfinalizers", "GCTM", "LUA_GCSTEP"}
         /\ f.fn = "luaC_step" =>
              /\ f.auto \in BOOLEAN /\ f.at \in {"step", "check", "end"}
              /\ \A x \in {"step", "check", "end"} :
                   /\ [f EXCEPT !.at = x] \in Frame
                   /\ [f EXCEPT !.at = x].fn = "luaC_step" /\ [f EXCEPT !.at = x].auto = f.auto
         /\ f.fn = "luaC_fullgc" =>
              /\ f.at \in {"finish", "start", "sweep", "callfin"}
              /\ \A x \in {"finish", "start", "sweep", "callfin"} :
                   [f EXCEPT !.at = x] \in Frame /\ [f EXCEPT !.at = x].fn = "luaC_fullgc"
         /\ f.fn = "runafewfinalizers" =>
              /\ f.i \in 0..UIntMax
              /\ f.i < UIntMax =>
                   [f EXCEPT !.i = @ + 1] \in Frame /\ [f EXCEPT !.i = @ + 1].fn = "runafewfinalizers"
         /\ f.fn = "GCTM" => f.running \in BOOLEAN
         /\ f.fn = "LUA_GCSTEP" => f.oldrunning \in BOOLEAN
<1>1. CASE f \in [fn : {"luaC_step"}, auto : BOOLEAN, at : {"step", "check", "end"}]
  BY <1>1 DEF Frame
<1>2. CASE f \in [fn : {"luaC_fullgc"}, at : {"finish", "start", "sweep", "callfin"}]
  BY <1>2 DEF Frame
<1>3. CASE f \in [fn : {"runafewfinalizers"}, i : 0..UIntMax]
  <2>1. f.i \in 0..UIntMax /\ f.fn = "runafewfinalizers" BY <1>3
  <2>2. ASSUME f.i < UIntMax
        PROVE  /\ [f EXCEPT !.i = @ + 1] \in [fn : {"runafewfinalizers"}, i : 0..UIntMax]
               /\ [f EXCEPT !.i = @ + 1].fn = "runafewfinalizers"
    <3>1. f.i + 1 \in 0..UIntMax BY <2>1, <2>2 DEF ControlAssumption
    <3>2. QED BY <3>1, <1>3
  <2>3. QED BY <2>1, <2>2 DEF Frame
<1>4. CASE f \in [fn : {"GCTM"}, running : BOOLEAN] BY <1>4
<1>5. CASE f \in [fn : {"LUA_GCSTEP"}, oldrunning : BOOLEAN] BY <1>5
<1>6. QED BY <1>1, <1>2, <1>3, <1>4, <1>5 DEF Frame

\* Cut(s, n): the n functions at the bottom.
Cut(s, n) == SubSeq(s, 1, n)

LEMMA Cuts ==
  ASSUME NEW s \in Seq(Frame), NEW n \in 0..Len(s)
  PROVE  /\ Cut(s, n) \in Seq(Frame) /\ Len(Cut(s, n)) = n
         /\ \A i \in 1..n : Cut(s, n)[i] = s[i]
BY DEF Cut

LEMMA Pushes ==
  ASSUME NEW s \in Seq(Frame), NEW f \in Frame
  PROVE  /\ Append(s, f) \in Seq(Frame) /\ Len(Append(s, f)) = Len(s) + 1
         /\ \A i \in 1..Len(s) : Append(s, f)[i] = s[i]
         /\ Append(s, f)[Len(s) + 1] = f
OBVIOUS

LEMMA PushesTwo ==
  ASSUME NEW s \in Seq(Frame), NEW f \in Frame, NEW g \in Frame
  PROVE  s \o <<f, g>> = Append(Append(s, f), g)
OBVIOUS

\* A cut, a push with room for what it calls, and the top.
LEMMA CutOK ==
  ASSUME ControlAssumption, NEW s, StackOK(s), NEW n \in 0..Len(s)
  PROVE  StackOK(Cut(s, n))
<1>1. s \in Seq(Frame) /\ Len(s) \in Nat BY DEF StackOK
<1> HIDE DEF Cut
<1>2. QED BY <1>1, Cuts DEF StackOK, Fits, ControlAssumption

LEMMA PushOK ==
  ASSUME ControlAssumption, NEW s, StackOK(s), NEW f \in Frame, Len(s) + 1 + Above(f) <= MaxNesting
  PROVE  StackOK(Append(s, f))
<1> DEFINE t == Append(s, f)
<1>1. s \in Seq(Frame) /\ Len(s) \in Nat /\ MaxNesting \in Nat BY DEF StackOK, ControlAssumption
<1>2. t \in Seq(Frame) /\ Len(t) = Len(s) + 1 /\ t[Len(s) + 1] = f
      /\ \A i \in 1..Len(s) : t[i] = s[i]
  BY <1>1, Pushes
<1>3. Above(f) \in Nat BY DEF Above
<1> HIDE DEF t
<1>4. ASSUME NEW i \in 1..Len(t) PROVE i + Above(t[i]) <= MaxNesting
  <2>1. CASE i = Len(s) + 1 BY <2>1, <1>2
  <2>2. CASE i # Len(s) + 1
    <3>1. i \in 1..Len(s) BY <2>2, <1>1, <1>2
    <3>2. QED BY <3>1, <1>2 DEF StackOK, Fits
  <2>3. QED BY <2>1, <2>2
<1>5. Len(t) <= MaxNesting BY <1>1, <1>2, <1>3
<1>6. QED BY <1>2, <1>4, <1>5 DEF StackOK, Fits, t

LEMMA TopOK ==
  ASSUME ControlAssumption, NEW s, StackOK(s), s # <<>>
  PROVE  /\ s[Len(s)] \in Frame /\ Len(s) \in Nat /\ Len(s) > 0
         /\ Len(s) + Above(s[Len(s)]) <= MaxNesting
         /\ StackOK(Cut(s, Len(s) - 1)) /\ Len(Cut(s, Len(s) - 1)) = Len(s) - 1
<1>1. s \in Seq(Frame) /\ Len(s) \in Nat /\ Len(s) > 0 BY DEF StackOK
<1>2. Len(s) \in 1..Len(s) /\ Len(s) - 1 \in 0..Len(s) BY <1>1
<1>3. s[Len(s)] \in Frame BY <1>1, <1>2
<1>4. QED BY <1>1, <1>2, <1>3, CutOK, Cuts DEF StackOK, Fits

-----------------------------------------------------------------------------
(* What they do to the saved values of gcrunning *)

\* A function that saves nothing.
LEMMA KeptPush ==
  ASSUME NEW s \in Seq(Frame), NEW f \in Frame, NEW r, NEW b, Kept(s, r, b), ~Saving(f),
         f.fn = "luaC_step" /\ f.auto => Len(s) = 0
  PROVE  Kept(Append(s, f), r, b)
<1> DEFINE t == Append(s, f)
<1>1. /\ Len(s) \in Nat /\ Len(t) = Len(s) + 1 /\ t[Len(s) + 1] = f
      /\ \A i \in 1..Len(s) : t[i] = s[i]
  BY Pushes
<1> HIDE DEF t
<1>2. ~SavesAt(t, Len(s) + 1) BY <1>1 DEF SavesAt
<1>3. \A i \in 1..Len(s) : SavesAt(t, i) <=> SavesAt(s, i) BY <1>1 DEF SavesAt
<1>4. \A i \in 1..Len(s) : Value(t, r, i) = Value(s, r, i) BY <1>1 DEF Value
<1>5. /\ SavesAt(s, Len(s) + 1) /\ Value(s, r, Len(s) + 1) = r
      /\ Value(t, r, Len(s) + 2) = r
  BY <1>1 DEF SavesAt, Value
<1>6. FirstKept(t, r, b)
  <2> SUFFICES ASSUME NEW j \in 1..Len(t) + 1, SavesAt(t, j), \A i \in 1..(j - 1) : ~SavesAt(t, i)
               PROVE  Value(t, r, j) = b
    BY DEF FirstKept
  <2>1. CASE j \in 1..Len(s) BY <2>1, <1>1, <1>3, <1>4 DEF Kept, FirstKept
  <2>2. CASE j = Len(s) + 2
    <3>1. \A i \in 1..Len(s) : ~SavesAt(s, i) BY <2>2, <1>1, <1>3
    <3>2. QED BY <3>1, <2>2, <1>1, <1>5 DEF Kept, FirstKept
  <2>3. QED BY <2>1, <2>2, <1>1, <1>2
<1>7. StoppedAbove(t, r)
  <2> SUFFICES ASSUME NEW i \in 1..Len(t), NEW j \in (i + 1)..(Len(t) + 1), t[i].fn = "GCTM",
                      SavesAt(t, j), \A k \in (i + 1)..(j - 1) : ~SavesAt(t, k)
               PROVE  Value(t, r, j) = FALSE
    BY DEF StoppedAbove
  <2>1. i \in 1..Len(s) /\ s[i].fn = "GCTM" BY <1>1 DEF Saving
  <2>2. CASE j \in 1..Len(s) BY <2>1, <2>2, <1>1, <1>3, <1>4 DEF Kept, StoppedAbove
  <2>3. CASE j = Len(s) + 2
    <3>1. \A k \in (i + 1)..Len(s) : ~SavesAt(s, k) BY <2>1, <2>3, <1>1, <1>3
    <3>2. Len(s) + 1 \in (i + 1)..(Len(s) + 1) /\ (Len(s) + 1) - 1 = Len(s) BY <2>1, <1>1
    <3>3. Value(s, r, Len(s) + 1) = FALSE BY <3>1, <3>2, <2>1, <1>5 DEF Kept, StoppedAbove
    <3>4. QED BY <3>3, <2>3, <1>5
  <2>4. j \in 1..Len(s) \/ j = Len(s) + 1 \/ j = Len(s) + 2 BY <2>1, <1>1
  <2>5. QED BY <2>2, <2>3, <2>4, <1>2
<1>8. NoAutoAbove(t)
  <2> SUFFICES ASSUME NEW i \in 1..Len(t), t[i].fn = "luaC_step", t[i].auto PROVE i = 1
    BY DEF NoAutoAbove
  <2>1. CASE i \in 1..Len(s) BY <2>1, <1>1 DEF Kept, NoAutoAbove
  <2>2. QED BY <2>1, <1>1
<1>9. QED BY <1>6, <1>7, <1>8 DEF Kept, t

\* A function that saves gcrunning, and stops the collector if it is GCTM.
LEMMA KeptSave ==
  ASSUME NEW s \in Seq(Frame), NEW f \in Frame, NEW r, NEW new, NEW b, Kept(s, r, b),
         Saving(f), Saved(f) = r, f.fn = "GCTM" => new = FALSE
  PROVE  Kept(Append(s, f), new, b)
<1> DEFINE t == Append(s, f)
<1>1. /\ Len(s) \in Nat /\ Len(t) = Len(s) + 1 /\ t[Len(s) + 1] = f
      /\ \A i \in 1..Len(s) : t[i] = s[i]
  BY Pushes
<1> HIDE DEF t
<1>2. SavesAt(t, Len(s) + 1) /\ SavesAt(s, Len(s) + 1) BY <1>1 DEF SavesAt
<1>3. \A i \in 1..Len(s) + 1 : SavesAt(t, i) <=> SavesAt(s, i) BY <1>1, <1>2 DEF SavesAt
<1>4. \A i \in 1..Len(s) + 1 : Value(t, new, i) = Value(s, r, i) BY <1>1 DEF Value
<1>5. Value(t, new, Len(s) + 2) = new BY <1>1 DEF Value
<1>6. FirstKept(t, new, b)
  <2> SUFFICES ASSUME NEW j \in 1..Len(t) + 1, SavesAt(t, j), \A i \in 1..(j - 1) : ~SavesAt(t, i)
               PROVE  Value(t, new, j) = b
    BY DEF FirstKept
  <2>1. j # Len(s) + 2 BY <1>1, <1>2
  <2>2. QED BY <2>1, <1>1, <1>3, <1>4 DEF Kept, FirstKept
<1>7. StoppedAbove(t, new)
  <2> SUFFICES ASSUME NEW i \in 1..Len(t), NEW j \in (i + 1)..(Len(t) + 1), t[i].fn = "GCTM",
                      SavesAt(t, j), \A k \in (i + 1)..(j - 1) : ~SavesAt(t, k)
               PROVE  Value(t, new, j) = FALSE
    BY DEF StoppedAbove
  <2>1. CASE i = Len(s) + 1 BY <2>1, <1>1, <1>5
  <2>2. CASE i \in 1..Len(s)
    <3>1. j # Len(s) + 2 BY <2>2, <1>1, <1>2
    <3>2. j \in (i + 1)..(Len(s) + 1) /\ j \in 1..Len(s) + 1 /\ s[i].fn = "GCTM" BY <3>1, <2>2, <1>1
    <3>3. \A k \in (i + 1)..(j - 1) : ~SavesAt(s, k) BY <3>2, <2>2, <1>1, <1>3
    <3>4. Value(s, r, j) = FALSE BY <3>2, <3>3, <2>2, <1>3 DEF Kept, StoppedAbove
    <3>5. QED BY <3>2, <3>4, <1>4
  <2>3. i = Len(s) + 1 \/ i \in 1..Len(s) BY <1>1
  <2>4. QED BY <2>1, <2>2, <2>3
<1>8. NoAutoAbove(t)
  <2> SUFFICES ASSUME NEW i \in 1..Len(t), t[i].fn = "luaC_step", t[i].auto PROVE i = 1
    BY DEF NoAutoAbove
  <2>1. CASE i \in 1..Len(s) BY <2>1, <1>1 DEF Kept, NoAutoAbove
  <2>2. QED BY <2>1, <1>1 DEF Saving
<1>9. QED BY <1>6, <1>7, <1>8 DEF Kept, t

\* A function that returns and restores what it saved.
LEMMA KeptPop ==
  ASSUME NEW s \in Seq(Frame), s # <<>>, NEW r, NEW b, Kept(s, r, b)
  PROVE  Kept(Cut(s, Len(s) - 1), IF Saving(s[Len(s)]) THEN Saved(s[Len(s)]) ELSE r, b)
<1> DEFINE t == Cut(s, Len(s) - 1)
           old == IF Saving(s[Len(s)]) THEN Saved(s[Len(s)]) ELSE r
           at == IF Saving(s[Len(s)]) THEN Len(s) ELSE Len(s) + 1
<1>1. /\ Len(s) \in Nat \ {0} /\ Len(t) = Len(s) - 1
      /\ \A i \in 1..(Len(s) - 1) : t[i] = s[i]
  <2>1. Len(s) \in Nat \ {0} /\ Len(s) - 1 \in 0..Len(s) OBVIOUS
  <2> HIDE DEF Cut
  <2>2. QED BY <2>1, Cuts
<1>2. at \in 1..Len(s) + 1 /\ SavesAt(s, at) /\ Value(s, r, at) = old
      /\ at >= Len(s) /\ \A i \in Len(s)..(at - 1) : ~SavesAt(s, i)
  BY <1>1 DEF SavesAt, Value
<1> HIDE DEF t, old, at
<1>3. \A i \in 1..(Len(s) - 1) : SavesAt(t, i) <=> SavesAt(s, i) BY <1>1 DEF SavesAt
<1>4. \A i \in 1..(Len(s) - 1) : Value(t, old, i) = Value(s, r, i) BY <1>1 DEF Value
<1>5. Value(t, old, Len(s)) = old BY <1>1 DEF Value
<1>6. FirstKept(t, old, b)
  <2> SUFFICES ASSUME NEW j \in 1..Len(t) + 1, SavesAt(t, j), \A i \in 1..(j - 1) : ~SavesAt(t, i)
               PROVE  Value(t, old, j) = b
    BY DEF FirstKept
  <2>1. CASE j = Len(s)
    <3>1. \A i \in 1..(at - 1) : ~SavesAt(s, i) BY <2>1, <1>1, <1>2, <1>3
    <3>2. QED BY <3>1, <2>1, <1>1, <1>2, <1>5 DEF Kept, FirstKept
  <2>2. CASE j # Len(s) BY <2>2, <1>1, <1>3, <1>4 DEF Kept, FirstKept
  <2>3. QED BY <2>1, <2>2
<1>7. StoppedAbove(t, old)
  <2> SUFFICES ASSUME NEW i \in 1..Len(t), NEW j \in (i + 1)..(Len(t) + 1), t[i].fn = "GCTM",
                      SavesAt(t, j), \A k \in (i + 1)..(j - 1) : ~SavesAt(t, k)
               PROVE  Value(t, old, j) = FALSE
    BY DEF StoppedAbove
  <2>1. i \in 1..Len(s) /\ i < Len(s) /\ s[i].fn = "GCTM" BY <1>1
  <2>2. CASE j = Len(s)
    <3>1. \A k \in (i + 1)..(at - 1) : ~SavesAt(s, k) BY <2>1, <2>2, <1>1, <1>2, <1>3
    <3>2. at \in (i + 1)..(Len(s) + 1) BY <2>1, <1>1, <1>2
    <3>3. Value(s, r, at) = FALSE BY <3>1, <3>2, <2>1, <1>2 DEF Kept, StoppedAbove
    <3>4. QED BY <3>3, <2>2, <1>2, <1>5
  <2>3. CASE j # Len(s)
    <3>0. i \in Nat /\ j \in Nat /\ i >= 1 /\ j >= i + 1 /\ j <= Len(s) BY <2>1, <1>1
    <3> DEFINE n == Len(s)
    <3>a. n \in Nat BY <1>1
    <3> HIDE DEF n
    <3>b. i \in Nat /\ j \in Nat /\ i >= 1 /\ j >= i + 1 /\ j < n BY <3>0, <3>a, <2>3 DEF n
    <3>c. j \in 1..(n - 1) BY <3>a, <3>b
    <3>d. j \in (i + 1)..(n + 1) BY <3>a, <3>b
    <3>1. j \in 1..(Len(s) - 1) /\ j \in (i + 1)..(Len(s) + 1) BY <3>c, <3>d DEF n
    <3>2. \A k \in (i + 1)..(j - 1) : ~SavesAt(s, k) BY <3>1, <2>1, <1>1, <1>3
    <3>3. Value(s, r, j) = FALSE BY <3>1, <3>2, <2>1, <1>3 DEF Kept, StoppedAbove
    <3>4. QED BY <3>1, <3>3, <1>4
  <2>4. QED BY <2>2, <2>3
<1>8. NoAutoAbove(t) BY <1>1 DEF Kept, NoAutoAbove
<1>9. QED BY <1>6, <1>7, <1>8 DEF Kept, t, old

-----------------------------------------------------------------------------
(* Every step keeps the invariant *)

LEMMA Calm ==
  ASSUME CInv, stack = <<>> \/ TopFrame.fn # "luaC_fullgc"
  PROVE  gckind = "KGC_NORMAL"
BY DEF CInv, FieldsOK, EmergencyQuiet, In

\* What is known of the function that is running.
LEMMA TopFacts ==
  ASSUME ControlAssumption, CInv, stack # <<>>
  PROVE  /\ stack \in Seq(Frame) /\ Below \in Seq(Frame) /\ TopFrame \in Frame
         /\ StackOK(Below) /\ Below = Cut(stack, Len(stack) - 1)
         /\ Len(stack) \in Nat /\ Len(Below) \in Nat /\ Len(Below) + 1 = Len(stack)
         /\ Len(stack) + Above(TopFrame) <= MaxNesting
<1>1. StackOK(stack) BY DEF CInv
<1>2. Below = Cut(stack, Len(stack) - 1) BY DEF Below, Cut
<1>3. QED BY <1>1, <1>2, TopOK DEF TopFrame, StackOK

LEMMA PopStep ==
  ASSUME ControlAssumption, CInv, stack # <<>>, stack' = Below, FieldsOK',
         gckind' = "KGC_NORMAL"
  PROVE  CInv'
<1>1. StackOK(stack') BY TopFacts
<1>2. QED BY <1>1 DEF CInv, EmergencyQuiet

LEMMA PushStep ==
  ASSUME ControlAssumption, CInv, NEW f \in Frame, stack' = Append(stack, f),
         Len(stack) + 1 + Above(f) <= MaxNesting, FieldsOK',
         gckind' = "KGC_NORMAL" \/ f.fn = "luaC_fullgc"
  PROVE  CInv'
<1>1. StackOK(stack') BY PushOK DEF CInv
<1>2. In(f.fn)'
  <2>1. stack \in Seq(Frame) BY DEF CInv, StackOK
  <2>2. Len(stack') = Len(stack) + 1 /\ stack'[Len(stack) + 1] = f /\ stack' # <<>> BY <2>1, Pushes
  <2>3. QED BY <2>2 DEF In, TopFrame
<1>3. QED BY <1>1, <1>2 DEF CInv, EmergencyQuiet

\* The function on top goes on at another place.
LEMMA GotoStep ==
  ASSUME ControlAssumption, CInv, stack # <<>>, NEW f \in Frame, f.fn = TopFrame.fn,
         stack' = Append(Below, f), FieldsOK', gckind' = gckind
  PROVE  CInv'
<1>1. Above(f) = Above(TopFrame) BY DEF Above
<1>2. StackOK(stack') BY <1>1, TopFacts, PushOK
<1>3. In(f.fn)'
  <2>1. Below \in Seq(Frame) BY TopFacts
  <2>2. Len(stack') = Len(Below) + 1 /\ stack'[Len(Below) + 1] = f /\ stack' # <<>> BY <2>1, Pushes
  <2>3. QED BY <2>2 DEF In, TopFrame
<1>4. gckind = "KGC_EMERGENCY" => TopFrame.fn = "luaC_fullgc" BY DEF CInv, EmergencyQuiet, In
<1>5. QED BY <1>2, <1>3, <1>4 DEF CInv, EmergencyQuiet, FieldsOK

\* singlestep leaves the frames as they are, or calls finalizers if it may.
Steps(frames) ==
  /\ FieldsOK' /\ gckind' = gckind /\ gcrunning' = gcrunning
  /\ \/ stack' = frames
     \/ gckind = "KGC_NORMAL" /\ stack' = Append(frames, [fn |-> "runafewfinalizers", i |-> 0])

LEMMA FieldsKept ==
  ASSUME FieldsOK, UNCHANGED <<fields, stopped>>
  PROVE  FieldsOK'
BY DEF FieldsOK, fields

LEMMA SingleStepOK ==
  ASSUME ControlAssumption, FieldsOK, NEW frames, SingleStep(frames), UNCHANGED stopped
  PROVE  Steps(frames)
<1>1. CASE MarkAndSweep /\ stack' = frames /\ UNCHANGED <<gckind, gcrunning>>
  <2>1. CASE gcphase = "GCSpause" /\ gcphase' = "GCSpropagate" /\ UNCHANGED <<gcfinnum, finobj, tobefnz>>
    BY <1>1, <2>1 DEF Steps, FieldsOK, GCPhase
  <2>2. CASE UNCHANGED <<gcphase, gcfinnum, finobj, tobefnz>>
    BY <1>1, <2>2 DEF Steps, FieldsOK, GCPhase
  <2>3. CASE /\ gcphase' = "GCSsweep" /\ gcfinnum' = 1
             /\ \E n \in 0..finobj : finobj' = finobj - n /\ tobefnz' = tobefnz + n
    <3>1. PICK n \in 0..finobj : finobj' = finobj - n /\ tobefnz' = tobefnz + n BY <2>3
    <3>2. finobj' \in Nat /\ tobefnz' \in Nat /\ finobj' + tobefnz' <= MaxObjects
      BY <3>1 DEF FieldsOK, ControlAssumption
    <3>3. gcfinnum' \in 0..UIntMax BY <2>3 DEF ControlAssumption
    <3>4. QED BY <1>1, <2>3, <3>2, <3>3 DEF Steps, FieldsOK, GCPhase
  <2>4. CASE gcphase' \in {"GCSsweep", "GCScallfin"} /\ UNCHANGED <<gcfinnum, finobj, tobefnz>>
    BY <1>1, <2>4 DEF Steps, FieldsOK, GCPhase
  <2>5. QED BY <1>1, <2>1, <2>2, <2>3, <2>4 DEF MarkAndSweep
<1>2. CASE CallFin(frames)
  BY <1>2, FieldsKept DEF CallFin, SomeToCall, Steps, FieldsOK, fields
<1>3. CASE NoneToCall /\ stack' = frames
  BY <1>3 DEF NoneToCall, Steps, FieldsOK, GCPhase
<1>4. QED BY <1>1, <1>2, <1>3 DEF SingleStep

\* singlestep from a function that has room for two more.
LEMMA StepBodyKeeps ==
  ASSUME ControlAssumption, CInv, StepBody
  PROVE  CInv'
<1> DEFINE f == [TopFrame EXCEPT !.at = "check"]
           g == [fn |-> "runafewfinalizers", i |-> 0]
<1>1. stack # <<>> /\ TopFrame.fn = "luaC_step" BY DEF StepBody, In
<1>2. TopFrame \in Frame BY <1>1, TopFacts
<1>3. f \in Frame /\ f.fn = "luaC_step" BY <1>1, <1>2, FrameKinds
<1>4. SingleStep(Append(Below, f)) /\ UNCHANGED stopped BY DEF StepBody
<1> HIDE DEF f
<1>5. Steps(Append(Below, f)) BY <1>4, SingleStepOK DEF CInv
<1>6. CASE stack' = Append(Below, f) BY <1>1, <1>3, <1>5, <1>6, GotoStep DEF Steps
<1>7. CASE gckind = "KGC_NORMAL" /\ stack' = Append(Append(Below, f), g)
  <2>1. Above(f) = 2 /\ Above(TopFrame) = 2 BY <1>1, <1>3 DEF Above
  <2>2. Len(Below) + 3 <= MaxNesting /\ StackOK(Below) /\ Below \in Seq(Frame) /\ Len(Below) \in Nat
    BY <1>1, <2>1, TopFacts DEF ControlAssumption
  <2>3. StackOK(Append(Below, f)) BY <1>3, <2>1, <2>2, PushOK DEF ControlAssumption
  <2>4. Len(Append(Below, f)) = Len(Below) + 1 BY <1>3, <2>2, Pushes
  <2>5. g \in Frame /\ Above(g) = 1 BY DEF Frame, Above, ControlAssumption
  <2> HIDE DEF g
  <2>6. Len(Append(Below, f)) + 1 + Above(g) <= MaxNesting BY <2>2, <2>4, <2>5
  <2>7. StackOK(stack') BY <1>7, <2>3, <2>5, <2>6, PushOK
  <2>8. QED BY <1>5, <1>7, <2>7 DEF Steps, CInv, EmergencyQuiet
<1>8. QED BY <1>5, <1>6, <1>7 DEF Steps

LEMMA FullStepKeeps ==
  ASSUME ControlAssumption, CInv, In("luaC_fullgc"), SingleStep(stack), UNCHANGED stopped
  PROVE  CInv'
<1> DEFINE g == [fn |-> "runafewfinalizers", i |-> 0]
<1>1. stack # <<>> /\ TopFrame.fn = "luaC_fullgc" BY DEF In
<1>2. Steps(stack) BY SingleStepOK DEF CInv
<1>3. CASE stack' = stack BY <1>1, <1>2, <1>3 DEF Steps, CInv, EmergencyQuiet, In, TopFrame
<1>4. CASE gckind = "KGC_NORMAL" /\ stack' = Append(stack, g)
  <2>1. g \in Frame /\ Above(g) = 1 BY DEF Frame, Above, ControlAssumption
  <2>2. Len(stack) + 2 <= MaxNesting /\ Len(stack) \in Nat BY <1>1, TopFacts DEF Above
  <2>3. FieldsOK' /\ gckind' = gckind BY <1>2 DEF Steps
  <2>4. Len(stack) + 1 + Above(g) <= MaxNesting BY <2>1, <2>2
  <2> HIDE DEF g
  <2>5. QED BY <1>4, <2>1, <2>3, <2>4, PushStep
<1>5. QED BY <1>2, <1>3, <1>4 DEF Steps

\* The program.
LEMMA LuaKeeps ==
  ASSUME ControlAssumption, CInv,
         \/ MarkObject \/ (\E b \in BOOLEAN : SetRunning(b)) \/ AutoStep \/ GCStep
         \/ (\E e \in BOOLEAN : luaC_fullgc(e))
  PROVE  CInv'
<1>1. gckind = "KGC_NORMAL" BY Calm DEF MarkObject, SetRunning, AutoStep, GCStep, luaC_fullgc, InLua, In
<1>2. stack \in Seq(Frame) /\ Len(stack) \in Nat /\ StackOK(stack) /\ FieldsOK BY DEF CInv, StackOK
<1>3. CASE MarkObject
  BY <1>1, <1>2, <1>3 DEF MarkObject, CInv, FieldsOK, EmergencyQuiet, ControlAssumption
<1>4. CASE \E b \in BOOLEAN : SetRunning(b)
  BY <1>1, <1>2, <1>4 DEF SetRunning, CInv, FieldsOK, EmergencyQuiet
<1>5. CASE AutoStep
  <2> DEFINE f == [fn |-> "luaC_step", auto |-> TRUE, at |-> "step"]
  <2>1. f \in Frame /\ Above(f) = 2 BY DEF Frame, Above
  <2>2. stack' = Append(stack, f) /\ UNCHANGED <<fields, stopped>> /\ Len(stack) + 3 <= MaxNesting
    BY <1>5 DEF AutoStep, Room
  <2>3. FieldsOK' /\ gckind' = gckind BY <1>2, <2>2, FieldsKept DEF fields
  <2> HIDE DEF f
  <2>4. Len(stack) + 1 + Above(f) <= MaxNesting BY <1>2, <2>1, <2>2
  <2>5. QED BY <1>1, <2>1, <2>2, <2>3, <2>4, PushStep
<1>6. CASE GCStep
  <2> DEFINE f == [fn |-> "LUA_GCSTEP", oldrunning |-> gcrunning]
             g == [fn |-> "luaC_step", auto |-> FALSE, at |-> "step"]
  <2>1. f \in Frame /\ Above(f) = 3 /\ g \in Frame /\ Above(g) = 2 BY <1>2 DEF Frame, Above, FieldsOK
  <2>2. stack' = stack \o <<f, g>> /\ Len(stack) + 4 <= MaxNesting BY <1>6 DEF GCStep, Room
  <2>3. FieldsOK' /\ gckind' = gckind BY <1>2, <1>6 DEF GCStep, FieldsOK
  <2> HIDE DEF f, g
  <2>4. Len(stack) + 1 + Above(f) <= MaxNesting BY <1>2, <2>1, <2>2
  <2>5. StackOK(Append(stack, f)) BY <1>2, <2>1, <2>4, PushOK
  <2>6. Len(Append(stack, f)) + 1 + Above(g) <= MaxNesting
    <3>1. Len(Append(stack, f)) = Len(stack) + 1 BY <1>2, <2>1, Pushes
    <3>2. QED BY <3>1, <1>2, <2>1, <2>2
  <2>7. StackOK(stack') BY <1>2, <2>1, <2>2, <2>5, <2>6, PushOK, PushesTwo
  <2>8. QED BY <1>1, <2>3, <2>7 DEF CInv, EmergencyQuiet
<1>7. CASE \E e \in BOOLEAN : luaC_fullgc(e)
  <2> DEFINE f == [fn |-> "luaC_fullgc", at |-> "finish"]
  <2>1. f \in Frame /\ Above(f) = 2 /\ f.fn = "luaC_fullgc" BY DEF Frame, Above
  <2>2. stack' = Append(stack, f) /\ Len(stack) + 3 <= MaxNesting BY <1>7 DEF luaC_fullgc, Room
  <2>3. FieldsOK' BY <1>2, <1>7 DEF luaC_fullgc, FieldsOK, GCPhase
  <2> HIDE DEF f
  <2>4. Len(stack) + 1 + Above(f) <= MaxNesting BY <1>2, <2>1, <2>2
  <2>5. QED BY <2>1, <2>2, <2>3, <2>4, PushStep
<1>8. QED BY <1>3, <1>4, <1>5, <1>6, <1>7

\* The functions of the collector.
LEMMA FullGCStepKeeps ==
  ASSUME ControlAssumption, CInv, FullGCStep
  PROVE  CInv'
<1>1. In("luaC_fullgc") BY DEF FullGCStep, RunTilState, FullGCEnd
<1>2. stack # <<>> /\ TopFrame.fn = "luaC_fullgc" BY <1>1 DEF In
<1>3. FieldsOK /\ TopFrame \in Frame BY <1>2, TopFacts DEF CInv
<1>4. ASSUME NEW label, NEW here, NEW next \in {"start", "sweep", "callfin"},
             RunTilState(label, here, next)
      PROVE  CInv'
  <2>1. CASE gcphase \in here /\ Goto(next) /\ UNCHANGED fields
    <3>1. [TopFrame EXCEPT !.at = next] \in Frame /\ [TopFrame EXCEPT !.at = next].fn = "luaC_fullgc"
      <4>1. \A x \in {"finish", "start", "sweep", "callfin"} :
              [TopFrame EXCEPT !.at = x] \in Frame /\ [TopFrame EXCEPT !.at = x].fn = "luaC_fullgc"
        BY <1>2, <1>3, FrameKinds
      <4>2. QED BY <4>1
    <3>2. stack' = Append(Below, [TopFrame EXCEPT !.at = next]) BY <2>1 DEF Goto
    <3>3. FieldsOK' /\ gckind' = gckind BY <1>3, <1>4, <2>1, FieldsKept DEF RunTilState, fields
    <3>4. QED BY <1>2, <3>1, <3>2, <3>3, GotoStep
  <2>2. CASE SingleStep(stack) BY <1>1, <1>4, <2>2, FullStepKeeps DEF RunTilState
  <2>3. QED BY <1>4, <2>1, <2>2 DEF RunTilState
<1>5. CASE SingleStep(stack) /\ UNCHANGED stopped BY <1>1, <1>5, FullStepKeeps
<1>6. CASE FullGCEnd
  <2>1. FieldsOK' BY <1>3, <1>6 DEF FullGCEnd, FieldsOK
  <2>2. QED BY <1>2, <1>6, <2>1, PopStep DEF FullGCEnd
<1>7. QED BY <1>4, <1>5, <1>6 DEF FullGCStep

LEMMA StepCheckKeeps ==
  ASSUME ControlAssumption, CInv, StepCheck
  PROVE  CInv'
<1>1. stack # <<>> /\ TopFrame.fn = "luaC_step" BY DEF StepCheck, In
<1>2. TopFrame \in Frame /\ gckind = "KGC_NORMAL" BY <1>1, TopFacts, Calm
<1>3. FieldsOK' /\ gckind' = gckind BY FieldsKept DEF StepCheck, CInv, fields
<1>4. CASE stack' = Below BY <1>1, <1>2, <1>3, <1>4, PopStep
<1>5. CASE Goto("step")
  <2>1. [TopFrame EXCEPT !.at = "step"] \in Frame /\ [TopFrame EXCEPT !.at = "step"].fn = "luaC_step"
    BY <1>1, <1>2, FrameKinds
  <2>2. stack' = Append(Below, [TopFrame EXCEPT !.at = "step"]) BY <1>5 DEF Goto
  <2>3. QED BY <1>1, <1>3, <2>1, <2>2, GotoStep
<1>6. CASE stack' = Below \o <<[TopFrame EXCEPT !.at = "end"], [fn |-> "runafewfinalizers", i |-> 0]>>
  <2> DEFINE f == [TopFrame EXCEPT !.at = "end"]
             g == [fn |-> "runafewfinalizers", i |-> 0]
  <2>1. f \in Frame /\ f.fn = "luaC_step" BY <1>1, <1>2, FrameKinds
  <2>2. g \in Frame /\ Above(g) = 1 BY DEF Frame, Above, ControlAssumption
  <2>3. stack' = Below \o <<f, g>> BY <1>6
  <2> HIDE DEF f, g
  <2>4. Above(f) = 2 /\ Above(TopFrame) = 2 BY <1>1, <2>1 DEF Above
  <2>5. /\ StackOK(Below) /\ Below \in Seq(Frame) /\ Len(Below) \in Nat
        /\ Len(Below) + 1 + Above(f) <= MaxNesting
    BY <1>1, <2>4, TopFacts
  <2>6. StackOK(Append(Below, f)) /\ Len(Append(Below, f)) = Len(Below) + 1
    BY <2>1, <2>5, PushOK, Pushes
  <2>7. Len(Append(Below, f)) + 1 + Above(g) <= MaxNesting
    BY <2>2, <2>4, <2>5, <2>6 DEF ControlAssumption
  <2>8. StackOK(stack') BY <2>1, <2>2, <2>3, <2>5, <2>6, <2>7, PushOK, PushesTwo
  <2>9. QED BY <1>2, <1>3, <2>8 DEF CInv, EmergencyQuiet
<1>7. QED BY <1>4, <1>5, <1>6 DEF StepCheck

LEMMA CallFinalizerKeeps ==
  ASSUME ControlAssumption, CInv, CallFinalizer
  PROVE  CInv'
<1> DEFINE f == [TopFrame EXCEPT !.i = @ + 1]
           g == [fn |-> "GCTM", running |-> gcrunning]
<1>1. stack # <<>> /\ TopFrame.fn = "runafewfinalizers" BY DEF CallFinalizer, In
<1>2. TopFrame \in Frame /\ gckind = "KGC_NORMAL" BY <1>1, TopFacts, Calm
<1>3. f \in Frame /\ f.fn = "runafewfinalizers"
  <2>1. TopFrame.i \in 0..UIntMax BY <1>1, <1>2, FrameKinds
  <2>2. TopFrame.i < gcfinnum /\ gcfinnum \in 0..UIntMax BY DEF CallFinalizer, MoreToCall, CInv, FieldsOK
  <2>3. TopFrame.i < UIntMax BY <2>1, <2>2 DEF ControlAssumption
  <2>4. QED BY <1>1, <1>2, <2>3, FrameKinds
<1>4. FieldsOK' /\ gckind' = gckind
  <2>1. tobefnz > 0 /\ tobefnz' = tobefnz - 1 /\ gcrunning' \in {gcrunning, FALSE}
        /\ UNCHANGED <<gcphase, gckind, gcfinnum, finobj, stopped>>
    BY DEF CallFinalizer, MoreToCall
  <2>2. tobefnz' \in Nat /\ finobj + tobefnz' <= MaxObjects
    BY <2>1 DEF CInv, FieldsOK, ControlAssumption
  <2>3. QED BY <2>1, <2>2 DEF CInv, FieldsOK
<1>5. Above(f) = 1 /\ Above(TopFrame) = 1 BY <1>1, <1>3 DEF Above
<1>6. g \in Frame /\ Above(g) = 0 BY DEF Frame, Above, CInv, FieldsOK
<1>7. stack' = Append(Below, f) \/ stack' = Append(Append(Below, f), g)
  BY DEF CallFinalizer, Counted
<1> HIDE DEF f, g
<1>8. /\ Below \in Seq(Frame) /\ StackOK(Below) /\ Len(Below) \in Nat
      /\ Len(Below) + 1 + Above(f) <= MaxNesting
  BY <1>1, <1>5, TopFacts
<1>9. StackOK(Append(Below, f)) /\ Len(Append(Below, f)) = Len(Below) + 1
  BY <1>3, <1>8, PushOK, Pushes
<1>10. Len(Append(Below, f)) + 1 + Above(g) <= MaxNesting BY <1>5, <1>6, <1>8, <1>9 DEF ControlAssumption
<1>11. StackOK(stack') BY <1>6, <1>7, <1>9, <1>10, PushOK
<1>12. QED BY <1>2, <1>4, <1>11 DEF CInv, EmergencyQuiet

LEMMA ReturnsKeep ==
  ASSUME ControlAssumption, CInv,
         StepEnd \/ GCStepEnd \/ FewFinalizersEnd \/ FinalizerReturn \/ FinalizerError
  PROVE  CInv'
<1>1. stack # <<>> /\ TopFrame.fn # "luaC_fullgc"
  BY DEF StepEnd, GCStepEnd, FewFinalizersEnd, FinalizerReturn, FinalizerError, In
<1>2. TopFrame \in Frame /\ gckind = "KGC_NORMAL" /\ FieldsOK BY <1>1, TopFacts, Calm DEF CInv
<1>3. CASE StepEnd
  <2>1. FieldsOK' /\ gckind' = gckind BY <1>2, <1>3, FieldsKept DEF StepEnd, fields
  <2>2. QED BY <1>1, <1>2, <1>3, <2>1, PopStep DEF StepEnd
<1>4. CASE GCStepEnd
  <2>1. TopFrame.oldrunning \in BOOLEAN BY <1>2, <1>4, FrameKinds DEF GCStepEnd, In
  <2>2. FieldsOK' BY <1>2, <1>4, <2>1 DEF GCStepEnd, FieldsOK
  <2>3. QED BY <1>1, <1>2, <1>4, <2>2, PopStep DEF GCStepEnd
<1>5. CASE FewFinalizersEnd
  <2>1. gcfinnum' \in 0..UIntMax
    BY <1>2, <1>5 DEF FewFinalizersEnd, FieldsOK, ControlAssumption
  <2>2. FieldsOK' BY <1>2, <1>5, <2>1 DEF FewFinalizersEnd, FieldsOK
  <2>3. QED BY <1>1, <1>2, <1>5, <2>2, PopStep DEF FewFinalizersEnd
<1>6. CASE FinalizerReturn
  <2>1. TopFrame.running \in BOOLEAN BY <1>2, <1>6, FrameKinds DEF FinalizerReturn, In
  <2>2. FieldsOK' BY <1>2, <1>6, <2>1 DEF FinalizerReturn, FieldsOK
  <2>3. QED BY <1>1, <1>2, <1>6, <2>2, PopStep DEF FinalizerReturn
<1>7. CASE FinalizerError
  <2>1. TopFrame.running \in BOOLEAN BY <1>2, <1>7, FrameKinds DEF FinalizerError, In
  <2>2. FieldsOK' BY <1>2, <1>7, <2>1 DEF FinalizerError, FieldsOK
  <2>3. PICK n \in 0..(Len(stack) - 1) : stack' = Cut(stack, n) BY <1>7 DEF FinalizerError, Cut
  <2>4. n \in 0..Len(stack) BY <2>3, <1>1, TopFacts
  <2>5. StackOK(stack') BY <2>3, <2>4, CutOK DEF CInv
  <2>6. QED BY <1>2, <1>7, <2>2, <2>5 DEF FinalizerError, CInv, EmergencyQuiet
<1>8. QED BY <1>3, <1>4, <1>5, <1>6, <1>7

LEMMA CInvNext ==
  ASSUME ControlAssumption, CInv, [ControlNext]_controlvars
  PROVE  CInv'
<1>1. CASE ControlNext
  BY <1>1, LuaKeeps, ReturnsKeep, StepBodyKeeps, StepCheckKeeps, FullGCStepKeeps, CallFinalizerKeeps
  DEF ControlNext, Lua, Collecting
<1>2. CASE UNCHANGED controlvars
  BY <1>2 DEF controlvars, CInv, StackOK, FieldsOK, EmergencyQuiet, In, TopFrame
<1>3. QED BY <1>1, <1>2

LEMMA CInvInit ==
  ASSUME ControlAssumption, ControlInit
  PROVE  CInv
<1>1. stack = <<>> /\ Len(stack) = 0 /\ stack \in Seq(Frame) BY DEF ControlInit
<1>2. StackOK(stack) BY <1>1 DEF StackOK, Fits, ControlAssumption
<1>3. FieldsOK
  <2>1. gcrunning \in BOOLEAN /\ stopped \in BOOLEAN BY Zenon DEF ControlInit
  <2>2. gcfinnum \in 0..UIntMax /\ finobj \in Nat /\ tobefnz \in Nat /\ finobj + tobefnz <= MaxObjects
    <3>1. gcfinnum = 0 /\ finobj = 0 /\ tobefnz = 0 BY DEF ControlInit
    <3>2. QED BY <3>1 DEF ControlAssumption
  <2>3. gcphase \in GCPhase /\ gckind \in {"KGC_NORMAL", "KGC_EMERGENCY"} BY DEF ControlInit, GCPhase
  <2>4. QED BY <2>1, <2>2, <2>3 DEF FieldsOK
<1>4. QED BY <1>2, <1>3 DEF CInv, ControlInit, EmergencyQuiet

-----------------------------------------------------------------------------
(* What holds in every behaviour *)

\* The inductive invariant.
THEOREM CInvAlways ==
  ASSUME ControlAssumption
  PROVE  ControlSpec => []CInv
<1>1. ControlInit => CInv BY CInvInit
<1>2. CInv /\ [ControlNext]_controlvars => CInv' BY CInvNext
<1>3. QED BY <1>1, <1>2, PTL DEF ControlSpec

\* Every field and every frame has its type, and however the functions call each other
\* through finalizers, those that have begun have room on the stack for what they call
\* (luaC_step, luaC_fullgc, GCTM).
THEOREM ControlTyped ==
  ASSUME ControlAssumption
  PROVE  ControlSpec => []ControlTypes
<1>1. ASSUME CInv, HistoryOK PROVE ControlTypes
  <2>1. stack \in Seq(Frame) /\ Len(stack) <= MaxNesting BY <1>1 DEF CInv, StackOK
  <2>2. finobj \in 0..MaxObjects /\ tobefnz \in 0..MaxObjects
    <3>1. finobj \in Nat /\ tobefnz \in Nat /\ finobj + tobefnz <= MaxObjects
      BY <1>1 DEF CInv, FieldsOK
    <3>2. QED BY <3>1 DEF ControlAssumption
  <2>3. QED BY <1>1, <2>1, <2>2 DEF CInv, FieldsOK, HistoryOK, ControlTypes
<1>2. ControlInit => HistoryOK BY Zenon DEF ControlInit, HistoryOK
<1>3. HistoryOK /\ [ControlNext]_controlvars => HistoryOK'
  <2> SUFFICES ASSUME HistoryOK, [ControlNext]_controlvars PROVE HistoryOK' OBVIOUS
  <2>1. CASE \E b \in BOOLEAN : SetRunning(b) BY <2>1, Zenon DEF SetRunning, HistoryOK
  <2>2. CASE FinalizerError BY <2>2, Zenon DEF FinalizerError, HistoryOK
  <2>3. CASE \E e \in BOOLEAN : luaC_fullgc(e)
    <3>1. exhausted' \in BOOLEAN BY <2>3, Zenon DEF luaC_fullgc
    <3>2. disturbed' = disturbed BY <2>3 DEF luaC_fullgc
    <3>3. QED BY <3>1, <3>2 DEF HistoryOK
  <2>4. CASE UNCHANGED history BY <2>4 DEF HistoryOK
  <2>5. QED BY <2>1, <2>2, <2>3, <2>4 DEF ControlNext, Lua, Collecting, MarkObject, AutoStep, GCStep,
       FinalizerReturn, StepBody, StepCheck, StepEnd, FullGCStep, RunTilState, FullGCEnd, CallFinalizer,
       FewFinalizersEnd, GCStepEnd, controlvars
<1>4. QED BY <1>1, <1>2, <1>3, CInvAlways, PTL DEF ControlSpec

\* No Lua code runs inside an emergency collection, so luaC_fullgc is never entered again
\* before it has reset gckind, which it asserts.
THEOREM EmergencyQuietAlways ==
  ASSUME ControlAssumption
  PROVE  ControlSpec => []EmergencyQuiet
<1>1. CInv => EmergencyQuiet BY DEF CInv
<1>2. QED BY <1>1, CInvAlways, PTL

LEMMA FinNumNext ==
  ASSUME ControlAssumption, CInv, FinNumPositive, [ControlNext /\ FewCalls]_controlvars
  PROVE  FinNumPositive'
<1>1. ASSUME NEW frames, SingleStep(frames) PROVE FinNumPositive'
  <2>1. gcfinnum' = 1 \/ UNCHANGED <<gcfinnum, tobefnz>>
    BY <1>1 DEF SingleStep, MarkAndSweep, CallFin, NoneToCall, fields
  <2>2. QED BY <2>1 DEF FinNumPositive
<1>2. ASSUME UNCHANGED <<gcfinnum, tobefnz>> PROVE FinNumPositive' BY <1>2 DEF FinNumPositive
<1>3. CASE CallFinalizer
  <2>1. tobefnz > 0 /\ gcfinnum' = gcfinnum BY <1>3 DEF CallFinalizer, MoreToCall
  <2>2. QED BY <2>1 DEF FinNumPositive
<1>4. CASE FewFinalizersEnd /\ FewCalls
  <2> SUFFICES ASSUME tobefnz' > 0 PROVE gcfinnum' > 0 BY DEF FinNumPositive
  <2>1. stack # <<>> /\ TopFrame.fn = "runafewfinalizers" BY <1>4 DEF FewFinalizersEnd, In
  <2>2. tobefnz > 0 /\ tobefnz # 0 /\ ~(TopFrame.i < gcfinnum)
    BY <1>4 DEF FewFinalizersEnd, MoreToCall
  <2>3. TopFrame.i \in 0..UIntMax /\ Len(stack) \in 1..Len(stack)
    <3>1. TopFrame \in Frame /\ Len(stack) \in Nat /\ Len(Below) \in Nat /\ Len(Below) + 1 = Len(stack)
      BY <2>1, TopFacts
    <3>2. TopFrame.i \in 0..UIntMax BY <2>1, <3>1, FrameKinds
    <3>3. QED BY <3>1, <3>2
  <2>4. 2 * TopFrame.i <= UIntMax BY <1>4, <2>1, <2>3 DEF FewCalls, TopFrame
  <2>5. gcfinnum \in 0..UIntMax /\ gcfinnum > 0 /\ UIntMax \in Nat
    BY <2>2 DEF CInv, FieldsOK, FinNumPositive, ControlAssumption
  <2>6. gcfinnum * 2 \in 1..UIntMax BY <2>2, <2>3, <2>4, <2>5
  <2>7. gcfinnum' = (gcfinnum * 2) % (UIntMax + 1) BY <1>4, <2>2 DEF FewFinalizersEnd
  <2>8. (gcfinnum * 2) % (UIntMax + 1) = gcfinnum * 2 BY <2>5, <2>6
  <2>9. QED BY <2>5, <2>6, <2>7, <2>8
<1>5. CASE Lua \/ (\E e \in BOOLEAN : luaC_fullgc(e)) \/ StepCheck \/ StepEnd \/ GCStepEnd \/ FullGCEnd
  BY <1>2, <1>5 DEF Lua, MarkObject, SetRunning, AutoStep, GCStep, FinalizerReturn, FinalizerError,
     luaC_fullgc, StepCheck, StepEnd, GCStepEnd, FullGCEnd, fields
<1>6. CASE StepBody BY <1>1, <1>6 DEF StepBody
<1>7. CASE FullGCStep
  <2>1. ASSUME NEW label, NEW here, NEW next, RunTilState(label, here, next) PROVE FinNumPositive'
    BY <1>1, <1>2, <2>1 DEF RunTilState, fields
  <2>2. QED BY <1>1, <1>5, <1>7, <2>1 DEF FullGCStep
<1>8. CASE UNCHANGED controlvars BY <1>2, <1>8 DEF controlvars
<1>9. QED BY <1>3, <1>4, <1>5, <1>6, <1>7, <1>8 DEF ControlNext, Collecting

\* When finalizers are due the next call of runafewfinalizers calls some, which it
\* asserts, as long as no call of it has come to half of UIntMax finalizers: then the
\* doubling of gcfinnum would wrap around to 0.
THEOREM FinNumPositiveAlways ==
  ASSUME ControlAssumption
  PROVE  ControlInit /\ [][ControlNext /\ FewCalls]_controlvars => []FinNumPositive
<1>1. ControlInit => CInv /\ FinNumPositive
  <2>1. ControlInit => FinNumPositive BY DEF ControlInit, FinNumPositive
  <2>2. QED BY <2>1, CInvInit
<1>2. CInv /\ FinNumPositive /\ [ControlNext /\ FewCalls]_controlvars => (CInv /\ FinNumPositive)'
  <2>1. ASSUME CInv, FinNumPositive, [ControlNext /\ FewCalls]_controlvars PROVE CInv'
    BY <2>1, CInvNext
  <2>2. QED BY <2>1, FinNumNext
<1>3. QED BY <1>1, <1>2, PTL

-----------------------------------------------------------------------------
(* Full collections complete *)

\* A full collection that begins.
LEMMA CalmStart ==
  ASSUME ControlAssumption, CalmInv, NEW e \in BOOLEAN, luaC_fullgc(e)
  PROVE  (~exhausted' => Quiet') /\ Completes
<1> DEFINE f == [fn |-> "luaC_fullgc", at |-> "finish"]
<1>1. stack \in Seq(Frame) /\ f \in Frame BY DEF CalmInv, CInv, StackOK, Frame
<1>2. stack' = Append(stack, f) /\ ~In("luaC_fullgc") BY DEF luaC_fullgc, InLua, In
<1>3. BeforeAtomic'
  <2>1. f.fn = "luaC_fullgc" /\ f.at = "finish" OBVIOUS
  <2> HIDE DEF f
  <2>2. stack' # <<>> /\ stack'[Len(stack')] = f BY <1>1, <1>2, Pushes
  <2>3. QED BY <2>1, <2>2 DEF BeforeAtomic, In, TopFrame
<1>4. ASSUME ~exhausted' PROVE gckind' = "KGC_NORMAL"
  <2>1. ~e BY <1>4, Zenon DEF luaC_fullgc
  <2>2. gckind = "KGC_NORMAL" BY <1>2, Calm DEF CalmInv, In
  <2>3. QED BY <2>1, <2>2 DEF luaC_fullgc
<1>5. QED BY <1>2, <1>3, <1>4 DEF Quiet, Completes

\* singlestep from anywhere, if nothing is due before the atomic step.
Due == gckind = "KGC_NORMAL" /\ (gcphase \in {"GCSpause", "GCSpropagate"} => tobefnz = 0)
LEMMA StepDue ==
  ASSUME FieldsOK, Due, NEW frames, SingleStep(frames)
  PROVE  Due'
<1>1. CASE MarkAndSweep /\ UNCHANGED gckind BY <1>1 DEF MarkAndSweep, Due
<1>2. CASE CallFin(frames) BY <1>2 DEF CallFin, fields, Due
<1>3. CASE NoneToCall
  <2>1. tobefnz' = tobefnz /\ gckind' = gckind /\ ~(tobefnz > 0) BY <1>3 DEF NoneToCall, SomeToCall, Due
  <2>2. tobefnz \in Nat BY DEF FieldsOK
  <2>3. QED BY <2>1, <2>2 DEF Due
<1>4. QED BY <1>1, <1>2, <1>3 DEF SingleStep

\* A step of luaC_fullgc.
LEMMA CalmFull ==
  ASSUME ControlAssumption, CInv, Quiet, FullGCStep
  PROVE  Quiet' /\ Completes
<1>1. In("luaC_fullgc") BY DEF FullGCStep, RunTilState, FullGCEnd
<1>2. /\ stack \in Seq(Frame) /\ Below \in Seq(Frame) /\ Len(stack) \in Nat /\ TopFrame \in Frame
      /\ Len(Below) + 1 = Len(stack) /\ TopFrame.fn = "luaC_fullgc"
  BY <1>1, TopFacts DEF In, CInv, StackOK
<1>3. ~BeforeAtomic => Due BY DEF Quiet, Due
<1>4. Due' => Quiet' BY DEF Quiet, Due
<1>5. ASSUME SingleStep(stack), UNCHANGED stopped PROVE Quiet' /\ Completes
  <2>1. Steps(stack) BY <1>5, SingleStepOK DEF CInv
  <2>2. [fn |-> "runafewfinalizers", i |-> 0] \in Frame BY DEF Frame, ControlAssumption
  <2>3. Len(stack') = Len(stack) \/ Len(stack') = Len(stack) + 1
    BY <1>2, <2>1, <2>2, Pushes DEF Steps
  <2>4. Completes BY <1>2, <2>3 DEF Completes
  <2>5. CASE ~BeforeAtomic BY <1>3, <1>4, <1>5, <2>4, <2>5, StepDue DEF CInv
  <2>6. CASE BeforeAtomic
    <3>1. gckind' = "KGC_NORMAL" BY <1>5 DEF SingleStep, CallFin, NoneToCall, fields, Quiet
    <3>2. CASE stack' = stack BY <2>4, <2>6, <3>1, <3>2 DEF Quiet, BeforeAtomic, In, TopFrame
    <3>3. CASE CallFin(stack)
      BY <2>4, <3>1, <3>3 DEF CallFin, fields, Quiet
    <3>4. QED BY <1>5, <3>2, <3>3 DEF SingleStep
  <2>7. QED BY <2>5, <2>6
<1>6. ASSUME NEW label, NEW here, NEW next \in {"start", "sweep", "callfin"},
             RunTilState(label, here, next),
             next = "callfin" => here = {"GCScallfin"}
      PROVE  Quiet' /\ Completes
  <2>1. CASE gcphase \in here /\ Goto(next) /\ UNCHANGED fields
    <3> DEFINE f == [TopFrame EXCEPT !.at = next]
    <3>1. f \in Frame /\ f.fn = "luaC_fullgc" /\ f.at = next
      <4>1. \A x \in {"finish", "start", "sweep", "callfin"} :
              [TopFrame EXCEPT !.at = x] \in Frame /\ [TopFrame EXCEPT !.at = x].fn = "luaC_fullgc"
        BY <1>2, FrameKinds
      <4>2. f.at = next
        <5>1. TopFrame \in [fn : {"luaC_fullgc"}, at : {"finish", "start", "sweep", "callfin"}]
          BY <1>2 DEF Frame
        <5>2. QED BY <5>1
      <4>3. QED BY <4>1, <4>2
    <3>2. stack' = Append(Below, f) BY <2>1 DEF Goto
    <3> HIDE DEF f
    <3>3. Len(stack') = Len(stack) /\ stack' # <<>> /\ stack'[Len(stack')] = f
      BY <1>2, <3>1, <3>2, Pushes
    <3>4. Completes BY <1>2, <3>3 DEF Completes
    <3>5. CASE next = "callfin"
      <4>1. gcphase' = "GCScallfin" /\ gckind' = gckind BY <1>6, <2>1, <3>5 DEF fields
      <4>2. QED BY <3>4, <4>1 DEF Quiet
    <3>6. CASE next # "callfin"
      <4>1. BeforeAtomic' BY <3>1, <3>3, <3>6 DEF BeforeAtomic, In, TopFrame
      <4>2. QED BY <2>1, <3>4, <4>1 DEF Quiet, fields
    <3>7. QED BY <3>5, <3>6
  <2>2. CASE SingleStep(stack) BY <1>5, <1>6, <2>2 DEF RunTilState
  <2>3. QED BY <1>6, <2>1, <2>2 DEF RunTilState
<1>7. CASE FullGCEnd
  <2>1. ~BeforeAtomic BY <1>7 DEF FullGCEnd, BeforeAtomic
  <2>2. tobefnz' = 0 /\ gckind' = "KGC_NORMAL" BY <1>3, <1>7, <2>1 DEF FullGCEnd, Due
  <2>3. QED BY <2>2 DEF Completes, Quiet
<1>8. QED BY <1>5, <1>6, <1>7 DEF FullGCStep

\* Any step.
LEMMA CalmNext ==
  ASSUME ControlAssumption, CalmInv, [ControlNext]_controlvars
  PROVE  CalmInv' /\ Completes
<1>1. CInv' /\ CInv BY CInvNext DEF CalmInv
<1> SUFFICES (~exhausted' => Quiet') /\ Completes BY <1>1 DEF CalmInv
<1>2. CASE \E e \in BOOLEAN : luaC_fullgc(e) BY <1>2, CalmStart
<1>3. CASE FullGCStep
  <2>1. exhausted' = exhausted BY <1>3 DEF FullGCStep, RunTilState, FullGCEnd
  <2>2. CASE exhausted BY <2>1, <2>2 DEF Completes
  <2>3. CASE ~exhausted BY <1>1, <1>3, <2>3, CalmFull DEF CalmInv
  <2>4. QED BY <2>2, <2>3
<1>4. CASE \/ MarkObject \/ (\E b \in BOOLEAN : SetRunning(b)) \/ AutoStep \/ GCStep
           \/ FinalizerReturn \/ FinalizerError
           \/ StepBody \/ StepCheck \/ StepEnd \/ GCStepEnd \/ CallFinalizer \/ FewFinalizersEnd
  <2>1. ~In("luaC_fullgc")
    BY <1>4 DEF MarkObject, SetRunning, AutoStep, GCStep, InLua, In, StepBody, StepCheck,
       StepEnd, GCStepEnd, CallFinalizer, FewFinalizersEnd, FinalizerReturn, FinalizerError
  <2>2. exhausted' = exhausted
    BY <1>4 DEF MarkObject, SetRunning, AutoStep, GCStep, StepBody, StepCheck,
       StepEnd, GCStepEnd, CallFinalizer, FewFinalizersEnd, FinalizerReturn, FinalizerError
  <2>3. ASSUME ~exhausted PROVE Due'
    <3>1. Due BY <2>1, <2>3 DEF CalmInv, Quiet, BeforeAtomic, Due
    <3>2. CASE StepBody BY <1>1, <3>1, <3>2, StepDue DEF StepBody, CInv
    <3>3. CASE CallFinalizer
      <4>1. tobefnz > 0 /\ UNCHANGED <<gckind, gcphase>> BY <3>3 DEF CallFinalizer, MoreToCall
      <4>2. ~(gcphase \in {"GCSpause", "GCSpropagate"}) BY <3>1, <4>1 DEF Due
      <4>3. QED BY <3>1, <4>1, <4>2 DEF Due
    <3>4. CASE \/ MarkObject \/ (\E b \in BOOLEAN : SetRunning(b)) \/ AutoStep \/ GCStep
               \/ FinalizerReturn \/ FinalizerError
               \/ StepCheck \/ StepEnd \/ GCStepEnd \/ FewFinalizersEnd
      BY <3>1, <3>4 DEF MarkObject, SetRunning, AutoStep, GCStep, FinalizerReturn, FinalizerError,
         StepCheck, StepEnd, GCStepEnd, FewFinalizersEnd, fields, Due
    <3>5. QED BY <1>4, <3>2, <3>3, <3>4
  <2>4. QED BY <2>1, <2>2, <2>3 DEF Completes, Due, Quiet
<1>5. CASE UNCHANGED controlvars
  <2>1. stack' = stack /\ UNCHANGED <<gckind, gcphase, tobefnz, exhausted>> BY <1>5 DEF controlvars
  <2>2. Len(stack) \in Nat BY <1>1 DEF CInv, StackOK
  <2>3. Completes BY <2>1, <2>2 DEF Completes
  <2>4. QED BY <2>1, <2>3 DEF CalmInv, Quiet, BeforeAtomic, In, TopFrame
<1>6. QED BY <1>2, <1>3, <1>4, <1>5 DEF ControlNext, Lua, Collecting

\* Unless memory has run out since the main program last began a full collection, one that
\* returns has called every finalizer that was due, although finalizers collect, step and
\* fail in each other (luaC_fullgc).
THEOREM CollectionsComplete ==
  ASSUME ControlAssumption
  PROVE  ControlSpec => CollectCompletes
<1>1. ControlInit => CalmInv
  <2>1. ControlInit => gckind = "KGC_NORMAL" /\ tobefnz = 0 BY DEF ControlInit
  <2>2. QED BY <2>1, CInvInit DEF CalmInv, Quiet
<1>2. CalmInv /\ [ControlNext]_controlvars => CalmInv' /\ [Completes]_controlvars BY CalmNext
<1>3. QED BY <1>1, <1>2, PTL DEF ControlSpec, CollectCompletes

-----------------------------------------------------------------------------
(* Who stops the collector, and who lets it run *)

\* A function that saves nothing goes on at another place, or returns.
LEMMA KeptGoto ==
  ASSUME NEW s \in Seq(Frame), s # <<>>, NEW r, NEW b, Kept(s, r, b), NEW f \in Frame,
         ~Saving(s[Len(s)]), f.fn = s[Len(s)].fn,
         f.fn = "luaC_step" => f.auto = s[Len(s)].auto
  PROVE  /\ Kept(Cut(s, Len(s) - 1), r, b)
         /\ Kept(Append(Cut(s, Len(s) - 1), f), r, b)
<1> DEFINE t == Cut(s, Len(s) - 1)
<1>1. Len(s) \in Nat \ {0} /\ Len(s) - 1 \in 0..Len(s) /\ Len(s) \in 1..Len(s) OBVIOUS
<1>2. t \in Seq(Frame) /\ Len(t) = Len(s) - 1
  <2> HIDE DEF Cut
  <2>1. QED BY <1>1, Cuts
<1>3. Kept(t, r, b) BY KeptPop
<1> HIDE DEF t
<1>4. ~Saving(f) BY DEF Saving
<1>5. f.fn = "luaC_step" /\ f.auto => Len(t) = 0
  <2>1. ASSUME f.fn = "luaC_step", f.auto PROVE Len(s) = 1
    BY <1>1, <2>1 DEF Kept, NoAutoAbove
  <2>2. QED BY <2>1, <1>2
<1>6. Kept(Append(t, f), r, b) BY <1>2, <1>3, <1>4, <1>5, KeptPush
<1>7. QED BY <1>3, <1>6 DEF t

\* The collector is stopped while a finalizer runs.
LEMMA StoppedInside ==
  ASSUME NEW s \in Seq(Frame), s # <<>>, NEW r, NEW b, Kept(s, r, b), s[Len(s)].fn = "GCTM"
  PROVE  r = FALSE
<1>1. Len(s) \in Nat /\ Len(s) \in 1..Len(s) /\ Len(s) + 1 \in (Len(s) + 1)..(Len(s) + 1) OBVIOUS
<1>2. SavesAt(s, Len(s) + 1) /\ Value(s, r, Len(s) + 1) = r BY DEF SavesAt, Value
<1>3. \A k \in (Len(s) + 1)..((Len(s) + 1) - 1) : ~SavesAt(s, k) BY <1>1
<1>4. QED BY <1>1, <1>2, <1>3 DEF Kept, StoppedAbove

LEMMA StartsKept ==
  ASSUME ControlInit
  PROVE  KeptNow
<1>1. stack = <<>> /\ Len(stack) = 0 BY DEF ControlInit
<1>2. FirstKept(stack, gcrunning, ~stopped)
  <2>1. gcrunning = ~stopped BY Zenon DEF ControlInit
  <2>2. \A j \in 1..Len(stack) + 1 : j = Len(stack) + 1 BY <1>1
  <2>3. QED BY <2>1, <2>2 DEF FirstKept, Value
<1>3. QED BY <1>1, <1>2 DEF KeptNow, Kept, StoppedAbove, NoAutoAbove

LEMMA ProgramKept ==
  ASSUME ControlAssumption, CInv, KeptNow,
         \/ MarkObject \/ (stack = <<>> /\ \E b \in BOOLEAN : SetRunning(b)) \/ AutoStep \/ GCStep
         \/ (\E e \in BOOLEAN : luaC_fullgc(e))
  PROVE  KeptNow'
<1>1. stack \in Seq(Frame) /\ Len(stack) \in Nat BY DEF CInv, StackOK
<1>2. CASE MarkObject BY <1>2 DEF MarkObject, KeptNow
<1>3. CASE stack = <<>> /\ \E b \in BOOLEAN : SetRunning(b)
  <2>1. stack' = <<>> /\ Len(stack') = 0 BY <1>3 DEF SetRunning
  <2>2. gcrunning' = ~stopped' BY <1>3, Zenon DEF SetRunning
  <2>3. \A j \in 1..Len(stack') + 1 : j = Len(stack') + 1 BY <2>1
  <2>4. FirstKept(stack', gcrunning', ~stopped') BY <2>2, <2>3 DEF FirstKept, Value
  <2>5. QED BY <2>1, <2>4 DEF KeptNow, Kept, StoppedAbove, NoAutoAbove
<1>4. CASE AutoStep
  <2> DEFINE f == [fn |-> "luaC_step", auto |-> TRUE, at |-> "step"]
  <2>1. f \in Frame /\ ~Saving(f) BY DEF Frame, Saving
  <2>2. stack' = Append(stack, f) /\ gcrunning' = gcrunning /\ stopped' = stopped
    BY <1>4 DEF AutoStep, fields
  <2>3. Len(stack) = 0
    <3>1. gcrunning /\ (stack = <<>> \/ (stack # <<>> /\ stack[Len(stack)].fn = "GCTM"))
      BY <1>4 DEF AutoStep, InLua, In, TopFrame
    <3>2. ASSUME stack # <<>> PROVE FALSE
      <4>1. gcrunning = FALSE BY <1>1, <3>1, <3>2, StoppedInside DEF KeptNow
      <4>2. gcrunning BY <3>1
      <4>3. QED BY <4>1, <4>2, Zenon
    <3>3. QED BY <3>2
  <2> HIDE DEF f
  <2>4. QED BY <1>1, <2>1, <2>2, <2>3, KeptPush DEF KeptNow
<1>5. CASE GCStep
  <2> DEFINE f == [fn |-> "LUA_GCSTEP", oldrunning |-> gcrunning]
             g == [fn |-> "luaC_step", auto |-> FALSE, at |-> "step"]
  <2>1. f \in Frame /\ Saving(f) /\ Saved(f) = gcrunning /\ f.fn # "GCTM"
    BY DEF Frame, Saving, Saved, CInv, FieldsOK
  <2>2. g \in Frame /\ ~Saving(g) /\ ~g.auto BY DEF Frame, Saving
  <2>3. stack' = stack \o <<f, g>> /\ stopped' = stopped /\ gcrunning' = TRUE BY <1>5 DEF GCStep
  <2> HIDE DEF f, g
  <2>4. Kept(Append(stack, f), gcrunning', ~stopped) BY <1>1, <2>1, KeptSave DEF KeptNow
  <2>5. Append(stack, f) \in Seq(Frame) BY <1>1, <2>1
  <2>6. Kept(Append(Append(stack, f), g), gcrunning', ~stopped) BY <2>2, <2>4, <2>5, KeptPush
  <2>7. QED BY <1>1, <2>1, <2>2, <2>3, <2>6, PushesTwo DEF KeptNow
<1>6. CASE \E e \in BOOLEAN : luaC_fullgc(e)
  <2> DEFINE f == [fn |-> "luaC_fullgc", at |-> "finish"]
  <2>1. f \in Frame /\ ~Saving(f) /\ f.fn # "luaC_step" BY DEF Frame, Saving
  <2>2. stack' = Append(stack, f) /\ gcrunning' = gcrunning /\ stopped' = stopped BY <1>6 DEF luaC_fullgc
  <2> HIDE DEF f
  <2>3. QED BY <1>1, <2>1, <2>2, KeptPush DEF KeptNow
<1>7. QED BY <1>2, <1>3, <1>4, <1>5, <1>6

\* singlestep keeps what the frames keep.
LEMMA StepsKept ==
  ASSUME ControlAssumption, NEW frames \in Seq(Frame), Kept(frames, gcrunning, ~stopped),
         Steps(frames), UNCHANGED stopped
  PROVE  KeptNow'
<1> DEFINE g == [fn |-> "runafewfinalizers", i |-> 0]
<1>1. g \in Frame /\ ~Saving(g) /\ g.fn # "luaC_step" BY DEF Frame, Saving, ControlAssumption
<1>2. (stack' = frames \/ stack' = Append(frames, g)) /\ gcrunning' = gcrunning BY DEF Steps
<1> HIDE DEF g
<1>3. Kept(Append(frames, g), gcrunning, ~stopped) BY <1>1, KeptPush
<1>4. QED BY <1>2, <1>3 DEF KeptNow

LEMMA CollectorKept ==
  ASSUME ControlAssumption, CInv, KeptNow, Collecting \/ FinalizerReturn
  PROVE  KeptNow'
<1>1. stack # <<>> BY DEF Collecting, StepBody, StepCheck, StepEnd, FullGCStep, RunTilState, FullGCEnd,
                          CallFinalizer, FewFinalizersEnd, GCStepEnd, FinalizerReturn, In
<1>0. TopFrame \in Frame BY <1>1, TopFacts
<1>2. /\ stack \in Seq(Frame) /\ Below \in Seq(Frame) /\ TopFrame \in Frame
      /\ Below = Cut(stack, Len(stack) - 1) /\ TopFrame = stack[Len(stack)] /\ FieldsOK
  BY <1>1, TopFacts DEF TopFrame, CInv
<1>3. ASSUME ~Saving(TopFrame), NEW f \in Frame, f.fn = TopFrame.fn, f.fn = "luaC_step" => f.auto = TopFrame.auto
      PROVE  Kept(Append(Below, f), gcrunning, ~stopped)
  BY <1>1, <1>2, <1>3, KeptGoto DEF KeptNow
<1>4. ASSUME ~Saving(TopFrame) PROVE Kept(Below, gcrunning, ~stopped)
  BY <1>1, <1>2, <1>4, KeptGoto DEF KeptNow
<1>5. CASE StepBody
  <2> DEFINE f == [TopFrame EXCEPT !.at = "check"]
  <2>1. TopFrame.fn = "luaC_step" /\ ~Saving(TopFrame) BY <1>5 DEF StepBody, In, Saving
  <2>2. f \in Frame /\ f.fn = "luaC_step" /\ f.auto = TopFrame.auto BY <1>0, <2>1, FrameKinds
  <2>3. SingleStep(Append(Below, f)) /\ UNCHANGED stopped BY <1>5 DEF StepBody
  <2> HIDE DEF f
  <2>4. Steps(Append(Below, f)) BY <1>2, <2>3, SingleStepOK
  <2>5. Kept(Append(Below, f), gcrunning, ~stopped) BY <1>3, <2>1, <2>2
  <2>6. Append(Below, f) \in Seq(Frame) BY <1>2, <2>2
  <2>7. QED BY <2>3, <2>4, <2>5, <2>6, StepsKept
<1>6. CASE StepCheck
  <2>1. TopFrame.fn = "luaC_step" /\ ~Saving(TopFrame) BY <1>6 DEF StepCheck, In, Saving
  <2>2. gcrunning' = gcrunning /\ stopped' = stopped BY <1>6 DEF StepCheck, fields
  <2>3. CASE stack' = Below BY <1>4, <2>1, <2>2, <2>3 DEF KeptNow
  <2>4. CASE Goto("step")
    <3> DEFINE f == [TopFrame EXCEPT !.at = "step"]
    <3>1. f \in Frame /\ f.fn = "luaC_step" /\ f.auto = TopFrame.auto BY <1>0, <2>1, FrameKinds
    <3>2. stack' = Append(Below, f) BY <2>4 DEF Goto
    <3> HIDE DEF f
    <3>3. QED BY <1>3, <2>1, <2>2, <3>1, <3>2 DEF KeptNow
  <2>5. CASE stack' = Below \o <<[TopFrame EXCEPT !.at = "end"], [fn |-> "runafewfinalizers", i |-> 0]>>
    <3> DEFINE f == [TopFrame EXCEPT !.at = "end"]
               g == [fn |-> "runafewfinalizers", i |-> 0]
    <3>1. f \in Frame /\ f.fn = "luaC_step" /\ f.auto = TopFrame.auto BY <1>0, <2>1, FrameKinds
    <3>2. g \in Frame /\ ~Saving(g) /\ g.fn # "luaC_step" BY DEF Frame, Saving, ControlAssumption
    <3>3. stack' = Below \o <<f, g>> BY <2>5
    <3> HIDE DEF f, g
    <3>4. Kept(Append(Below, f), gcrunning, ~stopped) BY <1>3, <2>1, <3>1
    <3>5. Append(Below, f) \in Seq(Frame) BY <1>2, <3>1
    <3>6. Kept(Append(Append(Below, f), g), gcrunning, ~stopped) BY <3>2, <3>4, <3>5, KeptPush
    <3>7. QED BY <1>2, <2>2, <3>1, <3>2, <3>3, <3>6, PushesTwo DEF KeptNow
  <2>6. QED BY <1>6, <2>3, <2>4, <2>5 DEF StepCheck
<1>7. CASE StepEnd
  BY <1>4, <1>7 DEF StepEnd, In, Saving, KeptNow, fields
<1>8. CASE FewFinalizersEnd
  BY <1>4, <1>8 DEF FewFinalizersEnd, In, Saving, KeptNow
<1>9. CASE FullGCEnd
  BY <1>4, <1>9 DEF FullGCEnd, In, Saving, KeptNow
<1>10. ASSUME In("luaC_fullgc"), SingleStep(stack), UNCHANGED stopped PROVE KeptNow'
  <2>1. Steps(stack) BY <1>2, <1>10, SingleStepOK
  <2>2. QED BY <1>2, <1>10, <2>1, StepsKept DEF KeptNow
<1>11. ASSUME NEW label, NEW here, NEW next \in {"start", "sweep", "callfin"},
              RunTilState(label, here, next)
       PROVE  KeptNow'
  <2>1. TopFrame.fn = "luaC_fullgc" /\ ~Saving(TopFrame) BY <1>11 DEF RunTilState, In, Saving
  <2>2. CASE Goto(next) /\ UNCHANGED fields
    <3> DEFINE f == [TopFrame EXCEPT !.at = next]
    <3>1. f \in Frame /\ f.fn = "luaC_fullgc"
      <4>1. \A x \in {"finish", "start", "sweep", "callfin"} :
              [TopFrame EXCEPT !.at = x] \in Frame /\ [TopFrame EXCEPT !.at = x].fn = "luaC_fullgc"
        BY <1>0, <2>1, FrameKinds
      <4>2. QED BY <4>1
    <3>2. stack' = Append(Below, f) /\ gcrunning' = gcrunning /\ stopped' = stopped
      BY <1>11, <2>2 DEF Goto, RunTilState, fields
    <3> HIDE DEF f
    <3>3. QED BY <1>3, <2>1, <3>1, <3>2 DEF KeptNow
  <2>3. CASE SingleStep(stack) BY <1>10, <1>11, <2>3 DEF RunTilState
  <2>4. QED BY <1>11, <2>2, <2>3 DEF RunTilState
<1>12. CASE FullGCStep BY <1>9, <1>10, <1>11, <1>12 DEF FullGCStep
<1>13. CASE CallFinalizer
  <2> DEFINE f == [TopFrame EXCEPT !.i = @ + 1]
             g == [fn |-> "GCTM", running |-> gcrunning]
  <2>1. TopFrame.fn = "runafewfinalizers" /\ ~Saving(TopFrame) BY <1>13 DEF CallFinalizer, In, Saving
  <2>2. f \in Frame /\ f.fn = "runafewfinalizers"
    <3>1. TopFrame.i \in 0..UIntMax BY <1>0, <2>1, FrameKinds
    <3>2. TopFrame.i < gcfinnum /\ gcfinnum \in 0..UIntMax
      BY <1>2, <1>13 DEF CallFinalizer, MoreToCall, FieldsOK
    <3>3. TopFrame.i < UIntMax BY <3>1, <3>2 DEF ControlAssumption
    <3>4. QED BY <1>0, <2>1, <3>3, FrameKinds
  <2>3. g \in Frame /\ Saving(g) /\ Saved(g) = gcrunning BY <1>2 DEF Frame, Saving, Saved, FieldsOK
  <2>4. /\ stopped' = stopped
        /\ \/ stack' = Append(Append(Below, f), g) /\ gcrunning' = FALSE
           \/ stack' = Append(Below, f) /\ gcrunning' = gcrunning
    BY <1>13 DEF CallFinalizer, Counted
  <2> HIDE DEF f, g
  <2>5. Kept(Append(Below, f), gcrunning, ~stopped) BY <1>3, <2>1, <2>2
  <2>6. Append(Below, f) \in Seq(Frame) BY <1>2, <2>2
  <2>7. Kept(Append(Append(Below, f), g), FALSE, ~stopped) BY <2>3, <2>5, <2>6, KeptSave
  <2>8. QED BY <2>4, <2>5, <2>7 DEF KeptNow
<1>14. CASE GCStepEnd \/ FinalizerReturn
  <2>1. Saving(TopFrame) /\ gcrunning' = Saved(TopFrame) /\ stack' = Below /\ stopped' = stopped
    BY <1>14 DEF GCStepEnd, FinalizerReturn, In, Saving, Saved
  <2>2. Kept(Below, Saved(TopFrame), ~stopped)
    <3>1. Kept(Cut(stack, Len(stack) - 1),
               IF Saving(stack[Len(stack)]) THEN Saved(stack[Len(stack)]) ELSE gcrunning, ~stopped)
      BY <1>1, <1>2, KeptPop DEF KeptNow
    <3>2. QED BY <3>1, <1>2, <2>1
  <2>3. QED BY <2>1, <2>2 DEF KeptNow
<1>15. QED BY <1>5, <1>6, <1>7, <1>8, <1>12, <1>13, <1>14 DEF Collecting

\* Once the main program has set the switch nothing of what was saved is left.
LEMMA SwitchKept ==
  ASSUME stack = <<>>, NEW b \in BOOLEAN, SetRunning(b)
  PROVE  KeptNow'
<1>1. stack' = <<>> /\ Len(stack') = 0 BY DEF SetRunning
<1>2. gcrunning' = ~stopped' BY Zenon DEF SetRunning
<1>3. \A j \in 1..Len(stack') + 1 : j = Len(stack') + 1 BY <1>1
<1>4. FirstKept(stack', gcrunning', ~stopped') BY <1>2, <1>3 DEF FirstKept, Value
<1>5. QED BY <1>1, <1>4 DEF KeptNow, Kept, StoppedAbove, NoAutoAbove

LEMMA SteadyNext ==
  ASSUME ControlAssumption, SteadyInv, [ControlNext]_controlvars
  PROVE  SteadyInv'
<1>1. CInv /\ (~disturbed => KeptNow) BY DEF SteadyInv
<1>2. CInv' BY <1>1, CInvNext
<1>3. ASSUME ~disturbed' PROVE KeptNow'
  <2>1. CASE \E b \in BOOLEAN : SetRunning(b)
    <3>1. stack = <<>> BY <1>3, <2>1 DEF SetRunning
    <3>2. QED BY <2>1, <3>1, SwitchKept
  <2>2. CASE FinalizerError BY <1>3, <2>2 DEF FinalizerError
  <2>3. CASE MarkObject \/ AutoStep \/ GCStep \/ (\E e \in BOOLEAN : luaC_fullgc(e))
    <3>1. disturbed' = disturbed BY <2>3 DEF MarkObject, AutoStep, GCStep, luaC_fullgc
    <3>2. QED BY <1>1, <1>3, <2>3, <3>1, ProgramKept
  <2>4. CASE Collecting \/ FinalizerReturn
    <3>1. disturbed' = disturbed
      BY <2>4 DEF Collecting, StepBody, StepCheck, StepEnd, FullGCStep, RunTilState, FullGCEnd,
                  CallFinalizer, FewFinalizersEnd, GCStepEnd, FinalizerReturn
    <3>2. QED BY <1>1, <1>3, <2>4, <3>1, CollectorKept
  <2>5. CASE UNCHANGED controlvars BY <1>1, <1>3, <2>5 DEF controlvars, KeptNow
  <2>6. QED BY <2>1, <2>2, <2>3, <2>4, <2>5 DEF ControlNext, Lua
<1>4. QED BY <1>2, <1>3 DEF SteadyInv

LEMMA SteadyFacts ==
  ASSUME ControlAssumption, SteadyInv
  PROVE  StopKept /\ FinalizerQuiet
<1>1. StopKept
  <2> SUFFICES ASSUME stack = <<>>, ~disturbed PROVE gcrunning = ~stopped BY DEF StopKept
  <2>1. Len(stack) = 0 /\ 1 \in 1..Len(stack) + 1 /\ \A i \in 1..(1 - 1) : FALSE OBVIOUS
  <2>2. SavesAt(stack, 1) /\ Value(stack, gcrunning, 1) = gcrunning BY <2>1 DEF SavesAt, Value
  <2>3. QED BY <2>1, <2>2 DEF SteadyInv, KeptNow, Kept, FirstKept
<1>2. FinalizerQuiet BY DEF SteadyInv, KeptNow, Kept, NoAutoAbove, FinalizerQuiet
<1>3. QED BY <1>1, <1>2

\* The inductive invariant of the switch.
LEMMA SteadyAlways ==
  ASSUME ControlAssumption
  PROVE  ControlSpec => []SteadyInv
<1>1. ControlInit => SteadyInv BY CInvInit, StartsKept DEF SteadyInv
<1>2. SteadyInv /\ [ControlNext]_controlvars => SteadyInv' BY SteadyNext
<1>3. QED BY <1>1, <1>2, PTL DEF ControlSpec

\* Between two operations of the main program the collector is running exactly when the
\* program has not stopped it (manual, collectgarbage), unless since then a finalizer failed
\* or used the switch: GCTM and lua_gc restore in pairs what they saved.
THEOREM StopKeptAlways ==
  ASSUME ControlAssumption
  PROVE  ControlSpec => []StopKept
<1>1. SteadyInv => StopKept BY SteadyFacts
<1>2. QED BY <1>1, SteadyAlways, PTL

\* Under the same condition no step of the collector is taken in a finalizer but those
\* that it asks for, at any depth: GCTM sets gcrunning to 0 to avoid them.
THEOREM FinalizerQuietAlways ==
  ASSUME ControlAssumption
  PROVE  ControlSpec => []FinalizerQuiet
<1>1. SteadyInv => FinalizerQuiet BY SteadyFacts
<1>2. QED BY <1>1, SteadyAlways, PTL

\* All of it: the flags come out right, however finalizers collect, step, stop the collector,
\* run out of memory and fail in each other, as long as no call of runafewfinalizers comes
\* to half of UIntMax finalizers.
THEOREM ControlSoundAlways ==
  ASSUME ControlAssumption
  PROVE  ControlInit /\ [][ControlNext /\ FewCalls]_controlvars => []ControlSound
<1>1. ControlInit /\ [][ControlNext /\ FewCalls]_controlvars => ControlSpec
  <2>1. [ControlNext /\ FewCalls]_controlvars => [ControlNext]_controlvars OBVIOUS
  <2>2. QED BY <2>1, PTL DEF ControlSpec
<1>2. ControlTypes /\ EmergencyQuiet /\ StopKept /\ FinalizerQuiet /\ FinNumPositive => ControlSound
  BY DEF ControlSound
<1>3. QED BY <1>1, <1>2, ControlTyped, EmergencyQuietAlways, StopKeptAlways, FinalizerQuietAlways,
             FinNumPositiveAlways, PTL
=============================================================================

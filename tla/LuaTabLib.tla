----------------------------- MODULE LuaTabLib -----------------------------
(***************************************************************************)
(* The table library (ltablib.c).  A table is a function t from the        *)
(* integers of the build, which wrap around, to values; n is what its      *)
(* length operator answers.  An answer tells the table afterwards, the     *)
(* results and the error.                                                  *)
(***************************************************************************)
EXTENDS Integers, Sequences

CONSTANTS LUA_MAXINTEGER, INT_MAX,
          StackFree,     \* how many values lua_checkstack grants
          RANLIMIT, Unbalanced,
          Nil

Size == LUA_MAXINTEGER + 1
Int64 == -Size..LUA_MAXINTEGER
Wrap(x) == ((x + Size) % (2 * Size)) - Size
geti(t, i) == t[Wrap(i)]
seti(t, i, v) == [t EXCEPT ![Wrap(i)] = v]
Copy(t, to, from) == seti(t, to, geti(t, from))
Done(t, res) == [t |-> t, res |-> res, err |-> ""]
Fails(t, e) == [t |-> t, res |-> << >>, err |-> e]

\* An argument is a table, or has the metamethods that the operation needs.
checktab(arg, what) == arg.table \/ what \subseteq arg.metamethods

(***************************************************************************)
(* insert, remove, move, concat, pack, unpack                              *)
(***************************************************************************)
RECURSIVE ShiftUp(_, _, _), ShiftDown(_, _, _)
ShiftUp(t, i, pos) == IF i > pos THEN ShiftUp(Copy(t, i, i - 1), i - 1, pos) ELSE t
ShiftDown(t, pos, size) ==
  IF pos < size THEN ShiftDown(Copy(t, pos, pos + 1), pos + 1, size) ELSE seti(t, pos, Nil)
tinsert(t, n, v) == Done(seti(t, n + 1, v), << >>)
tinsertAt(t, n, pos, v) ==
  IF pos \notin 1..Wrap(n + 1) THEN Fails(t, "position out of bounds")
  ELSE Done(seti(ShiftUp(t, Wrap(n + 1), pos), pos, v), << >>)
tremove(t, n, pos) ==
  IF pos # n /\ pos \notin 1..Wrap(n + 1) THEN Fails(t, "position out of bounds")
  ELSE Done(ShiftDown(t, pos, n), <<geti(t, pos)>>)

RECURSIVE MoveUp(_, _, _, _, _, _), MoveDown(_, _, _, _)
Item(a, b, same) == IF same THEN b ELSE a     \* the table that is read, as it is now
MoveUp(a, b, same, f, t, left) ==        \* forward, left elements
  IF left <= 0 THEN b
  ELSE MoveUp(a, seti(b, t, geti(Item(a, b, same), f)), same, f + 1, t + 1, left - 1)
MoveDown(b, f, t, i) == IF i < 0 THEN b ELSE MoveDown(seti(b, t + i, geti(b, f + i)), f, t, i - 1)
\* Always forward.
tmoveForward(a, b, same, f, e, t) ==
  IF f > e THEN Done(b, << >>)
  ELSE IF ~(f > 0 \/ e < LUA_MAXINTEGER + f) THEN Fails(b, "too many elements to move")
  ELSE IF t > Wrap(LUA_MAXINTEGER - Wrap(e - f + 1) + 1) THEN Fails(b, "destination wrap around")
  ELSE Done(MoveUp(a, b, same, f, t, Wrap(e - f + 1)), << >>)
tmove(a, b, same, f, e, t) ==            \* a[f..e] to b[t..]; same: b is a
  IF f > e THEN Done(b, << >>)
  ELSE IF ~(f > 0 \/ e < LUA_MAXINTEGER + f) THEN Fails(b, "too many elements to move")
  ELSE IF t > Wrap(LUA_MAXINTEGER - Wrap(e - f + 1) + 1) THEN Fails(b, "destination wrap around")
  ELSE IF t > e \/ t <= f \/ ~same THEN Done(MoveUp(a, b, same, f, t, Wrap(e - f + 1)), << >>)
  ELSE Done(MoveDown(b, f, t, Wrap(e - f)), << >>)

RECURSIVE tconcat(_, _, _, _)
tconcat(t, sep, i, last) ==
  LET rest == tconcat(t, sep, i + 1, last)
  IN IF i > last THEN Done(t, << >>)
     ELSE IF geti(t, i) = Nil THEN Fails(t, "invalid value")
     ELSE IF i = last THEN Done(t, <<geti(t, i)>>)
     ELSE IF rest.err # "" THEN rest ELSE Done(t, <<geti(t, i)>> \o sep \o rest.res)
pack(args) == [i \in Int64 |-> IF i \in DOMAIN args THEN args[i] ELSE Nil]   \* and "n" is Len(args)
unpack(t, i, e) ==
  LET n == (e - i) % (2 * Size)
  IN IF i > e THEN Done(t, << >>)
     ELSE IF n >= INT_MAX \/ n + 1 > StackFree THEN Fails(t, "too many results to unpack")
     ELSE Done(t, [k \in 1..n + 1 |-> geti(t, i + k - 1)])

(***************************************************************************)
(* sort.  a is the sequence that is sorted and Lt the order function, a    *)
(* set of pairs, which need not be an order.                               *)
(***************************************************************************)
Invalid == "invalid order function for sorting"
set2(a, i, j) == [a EXCEPT ![i] = a[j], ![j] = a[i]]
SwapIf(c, a, i, j) == IF c THEN set2(a, i, j) ELSE a
Less(Lt, x, y) == <<x, y>> \in Lt

\* The next i with a[i] >= P and the next j with a[j] <= P; an error is a place outside lo..up.
RECURSIVE ScanUp(_, _, _, _, _), ScanDown(_, _, _, _, _)
ScanUp(Lt, a, P, i, up) ==
  IF ~Less(Lt, a[i], P) THEN i ELSE IF i = up - 1 THEN 0 ELSE ScanUp(Lt, a, P, i + 1, up)
ScanDown(Lt, a, P, j, i) ==
  IF ~Less(Lt, P, a[j]) THEN j ELSE IF j < i THEN 0 ELSE ScanDown(Lt, a, P, j - 1, i)
RECURSIVE Partition(_, _, _, _, _, _)
Partition(Lt, a, P, i0, j0, up) ==
  LET i == ScanUp(Lt, a, P, i0 + 1, up)
      j == ScanDown(Lt, a, P, j0 - 1, i)
  IN IF i = 0 \/ j = 0 THEN [a |-> a, p |-> i, err |-> Invalid]
     ELSE IF j < i THEN [a |-> set2(a, up - 1, i), p |-> i, err |-> ""]
     ELSE Partition(Lt, set2(a, i, j), P, i, j, up)
\* Leaves the pivot where it was.
partitionStays(Lt, a, lo, up) ==
  LET r == Partition(Lt, a, a[up - 1], lo, up - 1, up)
  IN IF r.err = "" THEN [r EXCEPT !.a = set2(r.a, up - 1, r.p)] ELSE r
partition(Lt, a, lo, up) == Partition(Lt, a, a[up - 1], lo, up - 1, up)
choosePivot(lo, up, rnd) == LET r4 == (up - lo) \div 4 IN (rnd % (r4 * 2)) + lo + r4

\* Rnd is what l_randomizePivot answers, rnd the number in use.
RECURSIVE auxsort(_, _, _, _, _, _)
auxsort(Lt, a0, lo, up, rnd, Rnd) ==
  LET a1 == SwapIf(Less(Lt, a0[up], a0[lo]), a0, lo, up)
      p0 == IF up - lo < RANLIMIT \/ rnd = 0 THEN (lo + up) \div 2 ELSE choosePivot(lo, up, rnd)
      below == Less(Lt, a1[p0], a1[lo])
      a2 == IF below THEN set2(a1, p0, lo) ELSE SwapIf(Less(Lt, a1[up], a1[p0]), a1, p0, up)
      r == partition(Lt, set2(a2, p0, up - 1), lo, up)
      p == r.p
      lower == p - lo < up - p      \* which part is sorted by the inner call
      n == IF lower THEN p - lo ELSE up - p
      one == IF lower THEN auxsort(Lt, r.a, lo, p - 1, rnd, Rnd) ELSE auxsort(Lt, r.a, p + 1, up, rnd, Rnd)
      lo1 == IF lower THEN p + 1 ELSE lo
      up1 == IF lower THEN up ELSE p - 1
      unbalanced == (up1 - lo1) \div Unbalanced > n
  IN IF lo >= up THEN [a |-> a0, p |-> 0, err |-> ""]
     ELSE IF up - lo = 1 THEN [a |-> a1, p |-> 0, err |-> ""]
     ELSE IF up - lo = 2 THEN [a |-> a2, p |-> 0, err |-> ""]
     ELSE IF r.err # "" THEN r
     ELSE IF one.err # "" THEN one
     ELSE auxsort(Lt, one.a, lo1, up1, IF unbalanced THEN Rnd ELSE rnd, Rnd)
sort(Lt, a, Rnd) == IF Len(a) > 1 THEN auxsort(Lt, a, 1, Len(a), 0, Rnd) ELSE [a |-> a, p |-> 0, err |-> ""]
=============================================================================

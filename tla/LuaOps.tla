------------------------------- MODULE LuaOps -------------------------------
(***************************************************************************)
(* Operations that may call metamethods (lvm.c, ltm.c).  A metamethod may  *)
(* yield: then what the virtual machine was doing is lost, and             *)
(* luaV_finishOp finishes the instruction with the result.                 *)
(*                                                                         *)
(* Values are <<"text", characters>>, <<"num", characters>>, <<"nil">> and *)
(* objects <<"obj", name>>.  mt[name] is the metatable of an object: the   *)
(* events that it handles, for the events of operations.                   *)
(***************************************************************************)
EXTENDS Integers, Sequences

CONSTANTS mt, Handler(_, _, _),    \* the result of an event's handler for two operands
          MAXTAGLOOP, MAX_SIZE

Nil == <<"nil">>
False == <<"false">>
IsObj(v) == v[1] = "obj"
l_isfalse(v) == v \in {Nil, False}
Err(e) == <<"error", e>>
IsErr(v) == v[1] = "error"
luaT_gettmbyobj(v, event) == IsObj(v) /\ event \in mt[v[2]]
\* Does the first operand or else the second handle the event?
Handled(p1, p2, event) == luaT_gettmbyobj(p1, event) \/ luaT_gettmbyobj(p2, event)

(***************************************************************************)
(* Concatenation.  m.stack holds the operands that are left, m.yields the  *)
(* answers of the coming metamethods to: do you yield?                     *)
(***************************************************************************)
ttisstring(v) == v[1] = "text"
cvt2str(v) == v[1] = "num"
HasText(v) == ttisstring(v) \/ cvt2str(v)
tostring(v) == IF HasText(v) THEN <<"text", v[2]>> ELSE v
isempty(v) == v = <<"text", << >>>>
\* The longest run of texts before the last one, not longer than total.
RECURSIVE Collect(_, _, _), copy2buff(_, _)
Collect(stack, n, total) ==
  IF n < total /\ HasText(stack[Len(stack) - n]) THEN Collect(stack, n + 1, total) ELSE n
copy2buff(stack, n) == IF n = 0 THEN << >> ELSE stack[Len(stack) - n + 1][2] \o copy2buff(stack, n - 1)
PopPut(stack, n, v) == Append(SubSeq(stack, 1, Len(stack) - n), v)    \* n values replaced by one
Yields(m) == m.yields # << >> /\ m.yields[1]
RECURSIVE luaV_concat(_, _)
\* Goes on with the operands that were there before the call.
finishConcatAll(m, result) ==
  LET placed == [m EXCEPT !.stack = Append(SubSeq(m.stack, 1, Len(m.stack) - 1), result)]
  IN IF Len(m.stack) > 1 THEN luaV_concat(placed, Len(m.stack)) ELSE placed
\* The metamethod's result lies above the operands: it goes to its place and the rest is concatenated.
finishConcat(m, result) ==
  LET top == Len(m.stack) + 1          \* where the metamethod was called
      total == top - 1 - 1             \* operands that are left, the result one of them
      placed == [m EXCEPT !.stack = PopPut(m.stack, 2, result)]
  IN IF total > 1 THEN luaV_concat(placed, total) ELSE placed
luaV_concat(m, total) ==
  LET k == Len(m.stack)
      l == m.stack[k - 1]
      r == m.stack[k]
      called == [m EXCEPT !.yields = IF @ = << >> THEN @ ELSE Tail(@)]
      result == Handler("concat", l, r)
      n == Collect(m.stack, 1, total)
      text == copy2buff(m.stack, n)
      With(v, j) == luaV_concat([m EXCEPT !.stack = PopPut(m.stack, j, v)], total - (j - 1))
  IN CASE total = 1 -> m
       [] total > 1 /\ ~(HasText(l) /\ HasText(r)) ->
            IF ~Handled(l, r, "concat") THEN [m EXCEPT !.stack = <<Err("concatenate")>>]
            ELSE IF Yields(m) THEN finishConcat(called, result)
            ELSE luaV_concat([called EXCEPT !.stack = PopPut(m.stack, 2, result)], total - 1)
       [] total > 1 /\ HasText(l) /\ isempty(tostring(r)) -> With(tostring(l), 2)
       [] total > 1 /\ HasText(r) /\ isempty(l) /\ ~isempty(tostring(r)) -> With(tostring(r), 2)
       [] OTHER -> IF Len(text) >= MAX_SIZE THEN [m EXCEPT !.stack = <<Err("string length overflow")>>]
                   ELSE With(<<"text", text>>, n)
OP_CONCAT(operands, yields) == luaV_concat([stack |-> operands, yields |-> yields], Len(operands)).stack[1]

(***************************************************************************)
(* Comparison and arithmetic.  A frame f has the flag CIST_LEQ (leq) and   *)
(* the results so far (out).                                               *)
(***************************************************************************)
Out(f, v) == [f EXCEPT !.out = Append(@, v)]
finishOp(f, op, result) ==
  IF op \in {"le", "lt", "eq"}
    THEN Out([f EXCEPT !.leq = FALSE], ~l_isfalse(result) # f.leq)
    ELSE Out(f, result)
luaV_equalobj(f, l, r, y) ==
  IF ~IsObj(l) \/ ~IsObj(r) \/ l = r THEN Out(f, l = r)
  ELSE IF ~Handled(l, r, "eq") THEN Out(f, FALSE)
  ELSE IF y THEN finishOp(f, "eq", Handler("eq", l, r)) ELSE Out(f, ~l_isfalse(Handler("eq", l, r)))
luaV_lessthan(f, l, r, y) ==
  IF ~Handled(l, r, "lt") THEN Out(f, Err("compare"))
  ELSE IF y THEN finishOp(f, "lt", Handler("lt", l, r)) ELSE Out(f, ~l_isfalse(Handler("lt", l, r)))
\* Without an __le, not (r < l): the flag tells luaV_finishOp to negate the result.
luaV_lessequal(f, l, r, y) ==
  LET leq == [f EXCEPT !.leq = TRUE]
      res == Handler("lt", r, l)
  IN IF Handled(l, r, "le")
       THEN IF y THEN finishOp(f, "le", Handler("le", l, r)) ELSE Out(f, ~l_isfalse(Handler("le", l, r)))
     ELSE IF ~Handled(r, l, "lt") THEN Out([leq EXCEPT !.leq = FALSE], Err("compare"))
     ELSE IF y THEN finishOp(leq, "le", res)
     ELSE Out([leq EXCEPT !.leq = ~@], l_isfalse(res))
luaT_trybinTM(f, l, r, y) ==
  IF ~Handled(l, r, "add") THEN Out(f, Err("perform arithmetic on"))
  ELSE IF y THEN finishOp(f, "add", Handler("add", l, r)) ELSE Out(f, Handler("add", l, r))
Execute(f, op, l, r, y) ==
  CASE op = "eq" -> luaV_equalobj(f, l, r, y) [] op = "lt" -> luaV_lessthan(f, l, r, y)
    [] op = "le" -> luaV_lessequal(f, l, r, y) [] op = "add" -> luaT_trybinTM(f, l, r, y)

(***************************************************************************)
(* Access.  heap[name] is an object: is it a table, its field, and what    *)
(* __index or __newindex of its metatable is: Nil, a function <<"fun">>,   *)
(* or an object.                                                           *)
(***************************************************************************)
fastget(heap, v) == IsObj(v) /\ heap[v[2]].table /\ heap[v[2]].field # Nil
RECURSIVE luaV_finishget(_, _, _), luaV_finishset(_, _, _)
luaV_finishget(heap, t, loop) ==
  LET o == heap[t[2]]
      tm == IF IsObj(t) THEN o.index ELSE Nil
  IN CASE loop = MAXTAGLOOP -> Err("'__index' chain too long; possible loop")
       [] loop < MAXTAGLOOP /\ tm = Nil -> IF IsObj(t) /\ o.table THEN Nil ELSE Err("index")
       [] loop < MAXTAGLOOP /\ tm = <<"fun">> -> <<"call", t>>
       [] OTHER -> IF fastget(heap, tm) THEN heap[tm[2]].field ELSE luaV_finishget(heap, tm, loop + 1)
gettable(heap, t) == IF fastget(heap, t) THEN heap[t[2]].field ELSE luaV_finishget(heap, t, 0)
luaV_finishset(heap, t, loop) ==      \* where the value goes
  LET o == heap[t[2]]
      tm == IF IsObj(t) THEN o.index ELSE Nil
  IN CASE loop = MAXTAGLOOP -> Err("'__newindex' chain too long; possible loop")
       [] loop < MAXTAGLOOP /\ tm = Nil -> IF IsObj(t) /\ o.table THEN <<"set", t>> ELSE Err("index")
       [] loop < MAXTAGLOOP /\ tm = <<"fun">> -> <<"call", t>>
       [] OTHER -> IF fastget(heap, tm) THEN <<"set", tm>> ELSE luaV_finishset(heap, tm, loop + 1)
settable(heap, t) == IF fastget(heap, t) THEN <<"set", t>> ELSE luaV_finishset(heap, t, 0)
=============================================================================

------------------------------- MODULE LuaVM -------------------------------
(***************************************************************************)
(* The interpreter of the instructions that the model's compiler writes    *)
(* (luaV_execute in lvm.c, with the call and return of ldo.c and the open  *)
(* upvalues of lfunc.c).  A machine is one record m:                       *)
(*   stk     the stack, Junk where nothing was stored since the frame came *)
(*   top     L->top, which counts only after an open result or argument    *)
(*   ci      the frames, the running one last                              *)
(*   uv      the upvalues; an open one is at a level of the stack          *)
(*   fns     the closures       heap  the tables, 1 the globals            *)
(*   feed    what the external functions will return, call by call         *)
(*   log     the external calls and their arguments, so far                *)
(*   st      "run", or how it ended: "done", "error", "halt" (feed empty), *)
(*           or "slow" (given up)                                          *)
(***************************************************************************)
EXTENDS LuaCode

CONSTANTS StackSize, MaxSteps
LOCAL INSTANCE TLC

Junk == <<"junk", 0>>
IsFalse(v) == v = Nil \/ v = Bool(FALSE)
Least(x, y) == IF x < y THEN x ELSE y
Text(v) == IF v[1] = "int" THEN ToString(v[2]) ELSE v[2]
RECURSIVE ConcatAll(_)
ConcatAll(q) == IF q = << >> THEN "" ELSE Text(q[1]) \o ConcatAll(Tail(q))
\* What the program shows of a value: not which table or function it is.
Shown(v) == IF v[1] \in {"table", "fn"} THEN v[1] ELSE v

\* Tables: functions from keys to values.
luaH_get(h, k) == IF k \in DOMAIN h THEN h[k] ELSE Nil
luaH_set(h, k, v) == [x \in DOMAIN h \cup {k} |-> IF x = k THEN v ELSE h[x]]
luaH_getn(h) ==
  CHOOSE n \in 0..StackSize : /\ n = 0 \/ luaH_get(h, Number(n)) # Nil
                              /\ luaH_get(h, Number(n + 1)) = Nil

CI(m) == m.ci[Len(m.ci)]
Cl(m) == m.fns[CI(m).cl]
R(m, i) == m.stk[CI(m).base + i]
SetR(m, i, v) == [m EXCEPT !.stk[CI(m).base + i] = v]
RKv(m, x) == IF ISK(x) THEN Cl(m).p.k[x - BITRK + 1] ELSE R(m, x)
Skip(m, n) == [m EXCEPT !.ci[Len(m.ci)].pc = @ + n]
Fail(m) == [m EXCEPT !.st = "error"]

(***************************************************************************)
(* Upvalues                                                                *)
(***************************************************************************)
UpVal(m, u) == IF m.uv[u].open THEN m.stk[m.uv[u].v] ELSE m.uv[u].v
SetUpVal(m, u, v) ==
  IF m.uv[u].open THEN [m EXCEPT !.stk[m.uv[u].v] = v] ELSE [m EXCEPT !.uv[u].v = v]
RECURSIVE CloseEach(_, _)
CloseEach(m, us) ==
  LET u == CHOOSE x \in us : TRUE
  IN IF us = {} THEN m
     ELSE CloseEach([m EXCEPT !.uv[u] = [open |-> FALSE, v |-> m.stk[@.v]]], us \ {u})
luaF_close(m, level) ==
  CloseEach(m, {u \in DOMAIN m.uv : m.uv[u].open /\ m.uv[u].v >= level})
OpenAt(m, level) == {u \in DOMAIN m.uv : m.uv[u].open /\ m.uv[u].v = level}
RECURSIVE Capture(_, _, _)
Capture(m, desc, ups) ==   \* finds or makes the upvalues of a new closure
  LET d == Head(desc)
      level == CI(m).base + d.idx
      found == OpenAt(m, level)
      u == IF ~d.instack THEN Cl(m).up[d.idx + 1]
           ELSE IF found # {} THEN CHOOSE x \in found : TRUE ELSE Len(m.uv) + 1
      m1 == IF u <= Len(m.uv) THEN m
            ELSE [m EXCEPT !.uv = Append(@, [open |-> TRUE, v |-> level])]
  IN IF desc = << >> THEN [m EXCEPT !.fns = Append(@, [p |-> Cl(m).p, up |-> ups])]
     ELSE Capture(m1, Tail(desc), Append(ups, u))
pushclosure(m, a, p) ==
  LET m1 == Capture(m, p.upv, << >>)
  IN SetR([m1 EXCEPT !.fns[Len(m1.fns)].p = p], a, <<"fn", Len(m1.fns)>>)

(***************************************************************************)
(* Calls                                                                   *)
(***************************************************************************)
\* n results, of which the caller wants some, go to res.
moveresults(m, first, res, n, wanted) ==
  LET count == IF wanted = LUA_MULTRET THEN n ELSE wanted
  IN [m EXCEPT !.stk = [i \in DOMAIN @ |->
                          IF i \notin res..res + count - 1 THEN @[i]
                          ELSE IF i - res < n THEN @[first + i - res] ELSE Nil],
               !.top = res + count]
luaD_precall(m, func, nresults) ==
  LET fv == m.stk[func]
      nargs == m.top - func - 1
      args == [i \in 1..nargs |-> m.stk[func + i]]
      p == m.fns[fv[2]].p
      base == IF p.vararg THEN func + 1 + (IF nargs < p.nump THEN p.nump ELSE nargs) ELSE func + 1
      Arg(i) == IF i <= nargs THEN args[i] ELSE Nil
      stk == [i \in DOMAIN m.stk |->
                IF i \in base..base + p.nump - 1 THEN Arg(i - base + 1)
                ELSE IF i <= func THEN m.stk[i]
                ELSE IF i >= base THEN Junk
                ELSE IF i - func <= p.nump THEN Nil ELSE m.stk[i]]
      ret == Head(m.feed)
      top == m.top
      m1 == [m EXCEPT !.log = Append(@, <<fv[2], [i \in 1..nargs |-> Shown(args[i])]>>)]
      m2 == [m1 EXCEPT !.feed = Tail(@),
                       !.stk = [i \in DOMAIN @ |-> IF i \in top..top + Len(ret) - 1
                                                   THEN ret[i - top + 1] ELSE @[i]]]
      m3 == moveresults(m2, top, func, Len(ret), nresults)
  IN CASE fv[1] = "ext" /\ m.feed = << >> -> [m1 EXCEPT !.st = "halt"]
       [] fv[1] = "ext" -> m3
       [] fv[1] = "fn" ->
            [m EXCEPT !.stk = stk, !.top = base + p.maxstacksize,
                      !.ci = Append(@, [func |-> func, base |-> base, cl |-> fv[2], pc |-> 0,
                                        nresults |-> nresults])]
       [] OTHER -> Fail(m)
CITop(m) == [m EXCEPT !.top = CI(m).base + Cl(m).p.maxstacksize]

OP_CALL(m, i) ==
  LET func == CI(m).base + i.a
      m1 == luaD_precall(IF i.b # 0 THEN [m EXCEPT !.top = func + i.b] ELSE m, func, i.c - 1)
  IN IF m.stk[func][1] = "ext" /\ i.c > 0 /\ m1.st = "run" THEN CITop(m1) ELSE m1
OP_RETURN(m, i) ==
  LET m1 == IF Cl(m).p.p # << >> THEN luaF_close(m, CI(m).base) ELSE m
      ra == CI(m).base + i.a
      ci == CI(m)
      m2 == moveresults(m1, ra, ci.func, IF i.b # 0 THEN i.b - 1 ELSE m.top - ra, ci.nresults)
      m3 == [m2 EXCEPT !.ci = SubSeq(@, 1, Len(@) - 1)]
  IN IF Len(m.ci) = 1 THEN [m3 EXCEPT !.st = "done"]
     ELSE IF ci.nresults # LUA_MULTRET THEN CITop(m3) ELSE m3
\* The frame of the called Lua function takes the place of the caller's.
OP_TAILCALL(m, i) ==
  LET func == CI(m).base + i.a
      m1 == luaD_precall(IF i.b # 0 THEN [m EXCEPT !.top = func + i.b] ELSE m, func, LUA_MULTRET)
      m2 == IF Cl(m).p.p # << >> THEN luaF_close(m1, CI(m).base) ELSE m1
      old == CI(m)
      new == CI(m1)
      lim == new.base + Cl(m1).p.nump
      down == new.func - old.func
  IN IF m.stk[func][1] # "fn" THEN m1
     ELSE [m2 EXCEPT !.stk = [x \in DOMAIN @ |->
                                IF x \in old.func..old.func + (lim - new.func) - 1 THEN @[x + down]
                                ELSE IF x < old.func THEN @[x] ELSE Junk],
                     !.ci = Append(SubSeq(m.ci, 1, Len(m.ci) - 1),
                              [new EXCEPT !.func = old.func, !.base = @ - down,
                                          !.nresults = old.nresults]),
                     !.top = @ - down]

(***************************************************************************)
(* The other instructions; pc is already past the instruction              *)
(***************************************************************************)
dojump(m, i, e) ==
  Skip(IF i.a # 0 THEN luaF_close(m, CI(m).base + i.a - 1) ELSE m, i.b + e)
donextjump(m) == dojump(m, Cl(m).p.code[CI(m).pc + 1], 1)
TestJump(m, cond) == IF cond THEN donextjump(m) ELSE Skip(m, 1)

GetTable(m, a, t, k) == IF t[1] = "table" THEN SetR(m, a, luaH_get(m.heap[t[2]], k)) ELSE Fail(m)
SetTable(m, t, k, v) ==
  IF t[1] = "table" /\ k # Nil THEN [m EXCEPT !.heap[t[2]] = luaH_set(@, k, v)] ELSE Fail(m)
BothNumbers(x, y) == x[1] = "int" /\ y[1] = "int"
OP_SETLIST(m, i) ==
  LET n == IF i.b = 0 THEN m.top - (CI(m).base + i.a) - 1 ELSE i.b
      c == IF i.c = 0 THEN Cl(m).p.code[CI(m).pc + 1].a ELSE i.c
      h == m.heap[R(m, i.a)[2]]
      keys == {Number((c - 1) * LFIELDS_PER_FLUSH + j) : j \in 1..n}
      new == [k \in DOMAIN h \cup keys |->
                IF k \in keys THEN R(m, i.a + k[2] - (c - 1) * LFIELDS_PER_FLUSH) ELSE h[k]]
  IN CITop(Skip([m EXCEPT !.heap[R(m, i.a)[2]] = new], IF i.c = 0 THEN 1 ELSE 0))
OP_VARARG(m, i) ==
  LET extra == CI(m).base - CI(m).func - Cl(m).p.nump - 1
      n == IF extra < 0 THEN 0 ELSE extra
      b == IF i.b = 0 THEN n ELSE i.b - 1
      ra == CI(m).base + i.a
  IN [m EXCEPT !.stk = [x \in DOMAIN @ |->
                          IF x \notin ra..ra + b - 1 THEN @[x]
                          ELSE IF x - ra < n THEN @[CI(m).base - n + (x - ra)] ELSE Nil],
               !.top = IF i.b = 0 THEN ra + n ELSE @]
OP_FORLOOP(m, i) ==
  LET step == R(m, i.a + 2)[2]
      idx == Number(R(m, i.a)[2] + step)
      limit == R(m, i.a + 1)[2]
  IN IF IF 0 < step THEN idx[2] <= limit ELSE limit <= idx[2]
       THEN SetR(SetR(Skip(m, i.b), i.a, idx), i.a + 3, idx) ELSE m
OP_TFORCALL(m, i) ==
  LET cb == CI(m).base + i.a + 3
      m1 == [m EXCEPT !.stk = [x \in DOMAIN @ |-> IF x \in cb..cb + 2 THEN @[x - 3] ELSE @[x]],
                      !.top = cb + 3]
  IN luaD_precall(m1, cb, i.c)

\* One operator for each group of instructions that luaV_execute has next to each other.
Loads == {"MOVE", "LOADK", "LOADKX", "LOADBOOL", "LOADNIL"}
Load(m, i) ==
  LET K(n) == Cl(m).p.k[n + 1]
  IN CASE i.op = "MOVE" -> SetR(m, i.a, R(m, i.b))
       [] i.op = "LOADK" -> SetR(m, i.a, K(i.b))
       [] i.op = "LOADKX" -> Skip(SetR(m, i.a, K(Cl(m).p.code[CI(m).pc + 1].a)), 1)
       [] i.op = "LOADBOOL" -> Skip(SetR(m, i.a, Bool(i.b = 1)), i.c)
       [] OTHER -> [m EXCEPT !.stk = [r \in DOMAIN @ |->
                      IF r - CI(m).base \in i.a..i.a + i.b THEN Nil ELSE @[r]]]
Accesses == {"GETUPVAL", "GETTABUP", "GETTABLE", "SETTABUP", "SETUPVAL", "SETTABLE", "NEWTABLE", "SELF"}
Access(m, i) ==
  CASE i.op = "GETUPVAL" -> SetR(m, i.a, UpVal(m, Cl(m).up[i.b + 1]))
    [] i.op = "GETTABUP" -> GetTable(m, i.a, UpVal(m, Cl(m).up[i.b + 1]), RKv(m, i.c))
    [] i.op = "GETTABLE" -> GetTable(m, i.a, R(m, i.b), RKv(m, i.c))
    [] i.op = "SETTABUP" -> SetTable(m, UpVal(m, Cl(m).up[i.a + 1]), RKv(m, i.b), RKv(m, i.c))
    [] i.op = "SETUPVAL" -> SetUpVal(m, Cl(m).up[i.b + 1], R(m, i.a))
    [] i.op = "SETTABLE" -> SetTable(m, R(m, i.a), RKv(m, i.b), RKv(m, i.c))
    [] i.op = "NEWTABLE" ->
         SetR([m EXCEPT !.heap = Append(@, << >>)], i.a, <<"table", Len(m.heap) + 1>>)
    [] OTHER -> GetTable(SetR(m, i.a + 1, R(m, i.b)), i.a, R(m, i.b), RKv(m, i.c))
Binaries == {"ADD", "SUB"}
Arith(m, i) ==
  LET x == RKv(m, i.b)
      y == RKv(m, i.c)
  IN IF BothNumbers(x, y)
       THEN SetR(m, i.a, Number(IF i.op = "ADD" THEN x[2] + y[2] ELSE x[2] - y[2])) ELSE Fail(m)
Unaries == {"UNM", "NOT", "LEN", "CONCAT"}
Operate(m, i) ==
  LET b == R(m, i.b)
      parts == [j \in 1..i.c - i.b + 1 |-> R(m, i.b + j - 1)]
  IN CASE i.op = "UNM" /\ b[1] = "int" -> SetR(m, i.a, Number(-b[2]))
       [] i.op = "NOT" -> SetR(m, i.a, Bool(IsFalse(b)))
       [] i.op = "LEN" /\ b[1] = "table" -> SetR(m, i.a, Number(luaH_getn(m.heap[b[2]])))
       [] i.op = "CONCAT" /\ \A j \in DOMAIN parts : parts[j][1] \in {"str", "int"} ->
            CITop(SetR(m, i.a, Str(ConcatAll(parts))))
       [] OTHER -> Fail(m)
Branches == {"JMP", "EQ", "LT", "LE", "TEST", "TESTSET"}
Branch(m, i) ==
  LET x == RKv(m, i.b)
      y == RKv(m, i.c)
      less == IF i.op = "LT" THEN x[2] < y[2] ELSE x[2] <= y[2]
      b == R(m, i.b)
  IN CASE i.op = "JMP" -> dojump(m, i, 0)
       [] i.op = "EQ" -> TestJump(m, (x = y) = (i.a = 1))
       [] i.op = "TEST" -> TestJump(m, IsFalse(R(m, i.a)) = (i.c = 0))
       [] i.op = "TESTSET" ->
            IF IsFalse(b) = (i.c = 0) THEN donextjump(SetR(m, i.a, b)) ELSE Skip(m, 1)
       [] OTHER -> IF BothNumbers(x, y) THEN TestJump(m, less = (i.a = 1)) ELSE Fail(m)
Loops == {"FORLOOP", "FORPREP", "TFORCALL", "TFORLOOP"}
Loop(m, i) ==
  CASE i.op = "FORLOOP" -> OP_FORLOOP(m, i)
    [] i.op = "FORPREP" ->
         IF \A j \in 0..2 : R(m, i.a + j)[1] = "int"
           THEN Skip(SetR(m, i.a, Number(R(m, i.a)[2] - R(m, i.a + 2)[2])), i.b) ELSE Fail(m)
    [] i.op = "TFORCALL" -> OP_TFORCALL(m, i)
    [] OTHER -> IF R(m, i.a + 1) = Nil THEN m ELSE SetR(Skip(m, i.b), i.a, R(m, i.a + 1))
Execute(m0) ==
  LET i == Cl(m0).p.code[CI(m0).pc + 1]
      m == Skip(m0, 1)
  IN CASE i.op \in Loads -> Load(m, i)
       [] i.op \in Accesses -> Access(m, i)
       [] i.op \in Binaries -> Arith(m, i)
       [] i.op \in Unaries -> Operate(m, i)
       [] i.op \in Branches -> Branch(m, i)
       [] i.op = "CALL" -> OP_CALL(m, i)
       [] i.op = "TAILCALL" -> OP_TAILCALL(m, i)
       [] i.op = "RETURN" -> OP_RETURN(m, i)
       [] i.op \in Loops -> Loop(m, i)
       [] i.op = "SETLIST" -> OP_SETLIST(m, i)
       [] i.op = "CLOSURE" -> pushclosure(m, i.a, Cl(m).p.p[i.b + 1])
       [] OTHER -> OP_VARARG(m, i)

RECURSIVE Run(_, _)
Run(m, steps) ==          \* halves, so that the recursion stays shallow
  LET half == steps \div 2
  IN IF m.st # "run" THEN m ELSE IF steps = 1 THEN Execute(m) ELSE Run(Run(m, half), steps - half)

\* A chunk is called with no arguments; f and g are external functions.
luaV_execute(p, feed) ==
  LET globals == [k \in {Str("f"), Str("g")} |-> <<"ext", k[2]>>]
      m == [stk |-> [i \in 0..StackSize |-> IF i = 0 THEN <<"fn", 1>> ELSE Junk], top |-> 1,
            ci |-> << >>, uv |-> <<[open |-> FALSE, v |-> <<"table", 1>>]>>,
            fns |-> <<[p |-> p, up |-> <<1>>]>>, heap |-> <<globals>>, feed |-> feed,
            log |-> << >>, st |-> "run"]
      ran == Run(luaD_precall(m, 0, LUA_MULTRET), MaxSteps)
      end == IF ran.st = "run" THEN [ran EXCEPT !.st = "slow"] ELSE ran
      results == [i \in 1..end.top |-> Shown(end.stk[i - 1])]
  IN [log |-> end.log, st |-> end.st, results |-> IF end.st = "done" THEN results ELSE << >>]
=============================================================================

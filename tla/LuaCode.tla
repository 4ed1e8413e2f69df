------------------------------ MODULE LuaCode ------------------------------
(***************************************************************************)
(* The code generator (lcode.c).  A compilation is one record s: s.fs is   *)
(* the sequence of FuncStates, the innermost last, s.e the expression      *)
(* descriptor (expdesc) that is being built, s.err tells a syntax error,   *)
(* s.failed collects the assertions of the code that did not hold.  Every  *)
(* operator returns the record that the function of its name leaves.       *)
(* Numbers are integers only.                                              *)
(***************************************************************************)
EXTENDS Integers, Sequences

CONSTANTS MAXREGS, MAXINDEXRK, MAXARG_Bx, MAXARG_C, LFIELDS_PER_FLUSH

NO_JUMP == -1
NO_REG == 255
BITRK == 256
LUA_MULTRET == -1
ISK(r) == r >= BITRK

\* The order of values: a tag, then what is compared only with the same tag.
Nil == <<"nil", 0>>
Bool(b) == <<"bool", IF b THEN 1 ELSE 0>>
Number(i) == <<"int", i>>
Str(x) == <<"str", x>>

\* A jump has its offset (sBx) in b.
Instr(op, a, b, c) == [op |-> op, a |-> a, b |-> b, c |-> c]
TestMode == {"EQ", "LT", "LE", "TEST", "TESTSET"}

\* expdesc: kind, info, the two lists of jumps, and for VINDEXED what is indexed.
Exp(k, i) == [k |-> k, i |-> i, t |-> NO_JUMP, f |-> NO_JUMP, vt |-> "LOCAL", tab |-> 0]
HasJumps(e) == e.t # e.f
HasMultRet(e) == e.k \in {"CALL", "VARARG"}
Constant == {"K", "KINT", "TRUE"}      \* constants that are true

F(s) == s.fs[Len(s.fs)]
Put(s, g) == [s EXCEPT !.fs[Len(s.fs)] = g]
PC(s) == Len(F(s).code)
At(s, pc) == F(s).code[pc + 1]
SetAt(s, pc, i) == [s EXCEPT !.fs[Len(s.fs)].code[pc + 1] = i]
SetE(s, e) == [s EXCEPT !.e = e]
Is(s, k, i) == [s EXCEPT !.e.k = k, !.e.i = i]      \* the jumps stay
lua_assert(s, cond, name) == IF cond THEN s ELSE [s EXCEPT !.failed = @ \cup {name}]

(***************************************************************************)
(* Lists of jumps, threaded through the jumps themselves                   *)
(***************************************************************************)
getjump(code, pc) == LET o == code[pc + 1].b IN IF o = NO_JUMP THEN NO_JUMP ELSE pc + 1 + o
fixjump(code, pc, dest) == [code EXCEPT ![pc + 1].b = dest - (pc + 1)]
RECURSIVE List(_, _)
List(code, l) == IF l = NO_JUMP THEN << >> ELSE <<l>> \o List(code, getjump(code, l))

\* luaK_concat: the list that results, and the code.
Joined(l1, l2) == IF l1 = NO_JUMP THEN l2 ELSE l1
\* The second list replaces what follows the head of the first.
JoinHead(s, l1, l2) ==
  IF l1 = NO_JUMP \/ l2 = NO_JUMP THEN s
  ELSE [s EXCEPT !.fs[Len(s.fs)].code = fixjump(@, l1, l2)]
Join(s, l1, l2) ==
  IF l1 = NO_JUMP \/ l2 = NO_JUMP THEN s
  ELSE LET l == List(F(s).code, l1)
       IN [s EXCEPT !.fs[Len(s.fs)].code = fixjump(@, l[Len(l)], l2)]

\* The instruction that controls a jump: the test before it.
Control(code, pc) == IF pc >= 1 /\ code[pc].op \in TestMode THEN pc - 1 ELSE pc
IsTestSet(code, pc) == code[Control(code, pc) + 1].op = "TESTSET"
patchtestreg(code, pc, reg) ==
  LET i == code[Control(code, pc) + 1]
  IN [code EXCEPT ![Control(code, pc) + 1] =
        IF i.op # "TESTSET" THEN i
        ELSE IF reg # NO_REG /\ reg # i.b THEN [i EXCEPT !.a = reg]
        ELSE Instr("TEST", i.b, 0, i.c)]
RECURSIVE PatchAll(_, _, _, _, _)
PatchAll(code, l, vtarget, reg, dtarget) ==
  IF l = << >> THEN code
  ELSE PatchAll(fixjump(patchtestreg(code, l[1], reg), l[1],
                        IF IsTestSet(code, l[1]) THEN vtarget ELSE dtarget),
                Tail(l), vtarget, reg, dtarget)
patchlistaux(s, list, vtarget, reg, dtarget) ==
  [s EXCEPT !.fs[Len(s.fs)].code = PatchAll(@, List(@, list), vtarget, reg, dtarget)]
removevalues(s, list) ==
  LET l == List(F(s).code, list)
      RECURSIVE Remove(_, _)
      Remove(code, i) == IF i > Len(l) THEN code
                         ELSE Remove(patchtestreg(code, l[i], NO_REG), i + 1)
  IN [s EXCEPT !.fs[Len(s.fs)].code = Remove(@, 1)]
need_value(s, list) ==
  LET code == F(s).code
  IN \E i \in DOMAIN List(code, list) : ~IsTestSet(code, List(code, list)[i])

\* Jumps to here wait in jpc until the next instruction is written (luaK_code).
Code(s, i) ==
  LET d == patchlistaux(s, F(s).jpc, PC(s), NO_REG, PC(s))
  IN [d EXCEPT !.fs[Len(s.fs)] = [@ EXCEPT !.jpc = NO_JUMP, !.code = Append(@, i)]]
codeABC(s, op, a, b, c) == Code(s, Instr(op, a, b, c))
luaK_getlabel(s) == [s EXCEPT !.fs[Len(s.fs)].lasttarget = PC(s)]
luaK_patchtohere(s, list) ==
  LET s1 == luaK_getlabel(s)
      jpc == F(s).jpc
  IN [Join(s1, jpc, list) EXCEPT !.fs[Len(s.fs)].jpc = Joined(jpc, list)]
luaK_patchlist(s, list, target) ==
  IF target = PC(s) THEN luaK_patchtohere(s, list)
  ELSE patchlistaux(s, list, target, NO_REG, target)
RECURSIVE CloseAll(_, _, _)
CloseAll(code, l, a) == IF l = << >> THEN code ELSE CloseAll([code EXCEPT ![l[1] + 1].a = a], Tail(l), a)
luaK_patchclose(s, list, level) ==
  LET l == List(F(s).code, list)
      ok == \A i \in DOMAIN l : At(s, l[i]).op = "JMP" /\ (At(s, l[i]).a = 0 \/ At(s, l[i]).a > level)
  IN [lua_assert(s, ok, "luaK_patchclose") EXCEPT !.fs[Len(s.fs)].code = CloseAll(@, l, level + 1)]

\* luaK_jump: the jump is the last instruction, with what waited in jpc as its list.
luaK_jump(s) ==
  LET jpc == F(s).jpc
      s1 == codeABC([s EXCEPT !.fs[Len(s.fs)].jpc = NO_JUMP], "JMP", 0, NO_JUMP, 0)
  IN Join(s1, PC(s1) - 1, jpc)
condjump(s, op, a, b, c) == luaK_jump(codeABC(s, op, a, b, c))
luaK_ret(s, first, nret) == codeABC(s, "RETURN", first, nret + 1, 0)

(***************************************************************************)
(* Registers and constants                                                 *)
(***************************************************************************)
\* The size of the frame falls one short.
luaK_checkstackLess(s, n) ==
  LET new == F(s).freereg + n
  IN IF new <= F(s).maxstacksize + 1 THEN s
     ELSE [s EXCEPT !.fs[Len(s.fs)].maxstacksize = new, !.err = @ \/ new >= MAXREGS]
luaK_checkstack(s, n) ==
  LET new == F(s).freereg + n
  IN IF new <= F(s).maxstacksize THEN s
     ELSE [s EXCEPT !.fs[Len(s.fs)].maxstacksize = new, !.err = @ \/ new >= MAXREGS]
luaK_reserveregs(s, n) ==
  [luaK_checkstack(s, n) EXCEPT !.fs[Len(s.fs)].freereg = @ + n]
freereg(s, r) ==
  IF ISK(r) \/ r < F(s).nactvar THEN s
  ELSE lua_assert([s EXCEPT !.fs[Len(s.fs)].freereg = @ - 1], r = F(s).freereg - 1, "freereg")
freeexp(s, e) == IF e.k = "NONRELOC" THEN freereg(s, e.i) ELSE s
freeexps(s, e1, e2) ==
  IF e1.k = "NONRELOC" /\ e2.k = "NONRELOC" /\ e1.i > e2.i
    THEN freeexp(freeexp(s, e1), e2) ELSE freeexp(freeexp(s, e2), e1)

\* addk: a value that is a constant already keeps its index.
KIndex(s, v) == LET k == F(s).k IN
  IF \E i \in DOMAIN k : k[i] = v THEN (CHOOSE i \in DOMAIN k : k[i] = v) - 1 ELSE Len(k)
addk(s, v) == IF KIndex(s, v) < Len(F(s).k) THEN s
              ELSE [s EXCEPT !.fs[Len(s.fs)].k = Append(@, v)]
\* luaK_codek: an index that does not fit follows in an instruction of its own.
luaK_codek(s, reg, k) ==
  IF k <= MAXARG_Bx THEN codeABC(s, "LOADK", reg, k, 0)
  ELSE codeABC(codeABC(s, "LOADKX", reg, 0, 0), "EXTRAARG", k, 0, 0)

luaK_nil(s, from, n) ==
  LET p == At(s, PC(s) - 1)
      l == from + n - 1
      pl == p.a + p.b
      low == IF p.a < from THEN p.a ELSE from
      high == IF pl > l THEN pl ELSE l
  IN IF PC(s) > F(s).lasttarget /\ PC(s) > 0 /\ p.op = "LOADNIL"
          /\ \/ p.a <= from /\ from <= pl + 1
             \/ from <= p.a /\ p.a <= l + 1
       THEN SetAt(s, PC(s) - 1, Instr("LOADNIL", low, high - low, 0))
       ELSE codeABC(s, "LOADNIL", from, n - 1, 0)

(***************************************************************************)
(* Expressions to registers; the expression is s.e                         *)
(***************************************************************************)
luaK_setreturns(s, n) ==
  IF s.e.k = "CALL" THEN [s EXCEPT !.fs[Len(s.fs)].code[s.e.i + 1].c = n + 1]
  ELSE IF s.e.k = "VARARG"
    THEN luaK_reserveregs([s EXCEPT !.fs[Len(s.fs)].code[s.e.i + 1] =
                             [@ EXCEPT !.b = n + 1, !.a = F(s).freereg]], 1)
    ELSE s
luaK_setoneret(s) ==
  IF s.e.k = "CALL" THEN Is(s, "NONRELOC", At(s, s.e.i).a)
  ELSE IF s.e.k = "VARARG"
    THEN Is([s EXCEPT !.fs[Len(s.fs)].code[s.e.i + 1].b = 2], "RELOC", s.e.i)
    ELSE s

luaK_dischargevars(s) ==
  LET e == s.e
      free == IF e.vt = "LOCAL" THEN freereg(freereg(s, e.i), e.tab) ELSE freereg(s, e.i)
  IN CASE e.k = "LOCAL" -> Is(s, "NONRELOC", e.i)
       [] e.k = "UPVAL" -> Is(codeABC(s, "GETUPVAL", 0, e.i, 0), "RELOC", PC(s))
       [] e.k = "INDEXED" ->
            Is(codeABC(free, IF e.vt = "LOCAL" THEN "GETTABLE" ELSE "GETTABUP", 0, e.tab, e.i),
               "RELOC", PC(s))
       [] OTHER -> luaK_setoneret(s)

discharge2reg(s0, reg) ==
  LET s == luaK_dischargevars(s0)
      e == s.e
      done == CASE e.k = "NIL" -> luaK_nil(s, reg, 1)
                [] e.k \in {"TRUE", "FALSE"} ->
                     codeABC(s, "LOADBOOL", reg, IF e.k = "TRUE" THEN 1 ELSE 0, 0)
                [] e.k = "K" -> luaK_codek(s, reg, e.i)
                [] e.k = "KINT" -> luaK_codek(addk(s, Number(e.i)), reg, KIndex(s, Number(e.i)))
                [] e.k = "RELOC" -> [s EXCEPT !.fs[Len(s.fs)].code[e.i + 1].a = reg]
                [] OTHER -> IF reg = e.i THEN s ELSE codeABC(s, "MOVE", reg, e.i, 0)
  IN IF e.k = "JMP" THEN s ELSE Is(done, "NONRELOC", reg)
discharge2anyreg(s) ==
  IF s.e.k = "NONRELOC" THEN s
  ELSE LET s1 == luaK_reserveregs(s, 1) IN discharge2reg(s1, F(s1).freereg - 1)

code_loadbool(s, a, b, jump) == codeABC(luaK_getlabel(s), "LOADBOOL", a, b, jump)

\* Both lists of jumps end here: with the value that the test has put in the register, or
\* at one of two instructions that load a boolean.
exp2reg(s0, reg) ==
  LET s1 == discharge2reg(s0, reg)
      s == IF s1.e.k = "JMP"
             THEN [Join(s1, s1.e.t, s1.e.i) EXCEPT !.e.t = Joined(s1.e.t, s1.e.i)] ELSE s1
      need == need_value(s, s.e.t) \/ need_value(s, s.e.f)
      s2 == IF s.e.k = "JMP" THEN s ELSE luaK_jump(s)
      fj == IF s.e.k = "JMP" THEN NO_JUMP ELSE PC(s2) - 1
      s3 == code_loadbool(s2, reg, 0, 1)
      s4 == code_loadbool(s3, reg, 1, 0)
      loaded == IF need THEN luaK_patchtohere(s4, fj) ELSE s
      final == luaK_getlabel(loaded)
      s5 == patchlistaux(final, s.e.f, PC(final), reg, PC(s3) - 1)
      s6 == patchlistaux(s5, s.e.t, PC(final), reg, PC(s4) - 1)
  IN SetE(IF HasJumps(s.e) THEN s6 ELSE s, Exp("NONRELOC", reg))

luaK_exp2nextreg(s) ==
  LET s1 == luaK_dischargevars(s)
      s2 == luaK_reserveregs(freeexp(s1, s1.e), 1)
  IN exp2reg(s2, F(s2).freereg - 1)
luaK_exp2anyreg(s) ==
  LET s1 == luaK_dischargevars(s)
      e == s1.e
  IN IF e.k = "NONRELOC" /\ ~HasJumps(e) THEN s1
     ELSE IF e.k = "NONRELOC" /\ e.i >= F(s1).nactvar THEN exp2reg(s1, e.i)
     ELSE luaK_exp2nextreg(s1)
luaK_exp2anyregup(s) ==
  IF s.e.k # "UPVAL" \/ HasJumps(s.e) THEN luaK_exp2anyreg(s) ELSE s
luaK_exp2val(s) == IF HasJumps(s.e) THEN luaK_exp2anyreg(s) ELSE luaK_dischargevars(s)

\* A register or a constant; RK is its operand.
RK(s) == IF s.e.k = "K" THEN BITRK + s.e.i ELSE s.e.i
KValue(e) == CASE e.k = "NIL" -> Nil [] e.k = "KINT" -> Number(e.i) [] OTHER -> Bool(e.k = "TRUE")
luaK_exp2RK(s0) ==
  LET s == luaK_exp2val(s0)
      k == IF s.e.k \in {"NIL", "TRUE", "FALSE", "KINT"}
             THEN Is(addk(s, KValue(s.e)), "K", KIndex(s, KValue(s.e))) ELSE s
  IN IF k.e.k = "K" /\ k.e.i <= MAXINDEXRK THEN k ELSE luaK_exp2anyreg(k)

\* The value s.e goes to a variable.
luaK_storevar(s, var) ==
  LET up == luaK_exp2anyreg(s)
      rk == luaK_exp2RK(s)
  IN CASE var.k = "LOCAL" -> exp2reg(freeexp(s, s.e), var.i)
       [] var.k = "UPVAL" -> freeexp(codeABC(up, "SETUPVAL", up.e.i, var.i, 0), up.e)
       [] OTHER -> freeexp(codeABC(rk, IF var.vt = "LOCAL" THEN "SETTABLE" ELSE "SETTABUP",
                                   var.tab, var.i, RK(rk)), rk.e)
luaK_self(s0, key) ==
  LET s == luaK_exp2anyreg(s0)
      s1 == freeexp(s, s.e)
      base == F(s1).freereg
      s2 == luaK_exp2RK(SetE(luaK_reserveregs(s1, 2), key))
      s3 == codeABC(s2, "SELF", base, s.e.i, RK(s2))
  IN SetE(freeexp(s3, s3.e), [s.e EXCEPT !.i = base, !.k = "NONRELOC"])
luaK_indexed(s, t) ==   \* the key is s.e, the table t
  LET s1 == luaK_exp2RK(s)
  IN SetE(s1, [Exp("INDEXED", RK(s1)) EXCEPT !.tab = t.i,
                 !.vt = IF t.k = "UPVAL" THEN "UPVAL" ELSE "LOCAL"])

(***************************************************************************)
(* Conditions                                                              *)
(***************************************************************************)
negatecondition(s) ==
  [s EXCEPT !.fs[Len(s.fs)].code[Control(F(s).code, s.e.i) + 1].a = 1 - @]
\* A jump is added, the last instruction.
jumponcond(s, cond) ==
  LET i == At(s, s.e.i)
      s1 == discharge2anyreg(s)
      back == [s EXCEPT !.fs[Len(s.fs)].code = SubSeq(@, 1, PC(s) - 1)]
  IN IF s.e.k = "RELOC" /\ i.op = "NOT" THEN condjump(back, "TEST", i.b, 0, 1 - cond)
     ELSE condjump(freeexp(s1, s1.e), "TESTSET", NO_REG, s1.e.i, cond)

luaK_goiftrue(s0) ==
  LET s == luaK_dischargevars(s0)
      s1 == CASE s.e.k = "JMP" -> negatecondition(s)
              [] s.e.k \in Constant -> s
              [] OTHER -> jumponcond(s, 0)
      pc == CASE s.e.k = "JMP" -> s.e.i [] s.e.k \in Constant -> NO_JUMP [] OTHER -> PC(s1) - 1
      s2 == [Join(s1, s.e.f, pc) EXCEPT !.e.f = Joined(s.e.f, pc)]
  IN [luaK_patchtohere(s2, s.e.t) EXCEPT !.e.t = NO_JUMP]
luaK_goiffalse(s0) ==
  LET s == luaK_dischargevars(s0)
      s1 == IF s.e.k \in {"JMP", "NIL", "FALSE"} THEN s ELSE jumponcond(s, 1)
      pc == CASE s.e.k = "JMP" -> s.e.i [] s.e.k \in {"NIL", "FALSE"} -> NO_JUMP
              [] OTHER -> PC(s1) - 1
      s2 == [Join(s1, s.e.t, pc) EXCEPT !.e.t = Joined(s.e.t, pc)]
  IN [luaK_patchtohere(s2, s.e.f) EXCEPT !.e.f = NO_JUMP]

codenot(s0) ==
  LET s == luaK_dischargevars(s0)
      s1 == discharge2anyreg(s)
      s2 == CASE s.e.k \in {"NIL", "FALSE"} -> [s EXCEPT !.e.k = "TRUE"]
              [] s.e.k \in Constant -> [s EXCEPT !.e.k = "FALSE"]
              [] s.e.k = "JMP" -> negatecondition(s)
              [] OTHER -> Is(codeABC(freeexp(s1, s1.e), "NOT", 0, s1.e.i, 0), "RELOC", PC(s1))
      s3 == [s2 EXCEPT !.e.t = s2.e.f, !.e.f = s2.e.t]
  IN removevalues(removevalues(s3, s3.e.f), s3.e.t)

(***************************************************************************)
(* Operators.  The first operand of a binary operator is e1, s.e the       *)
(* second.                                                                 *)
(***************************************************************************)
IsNumeral(e) == e.k = "KINT" /\ ~HasJumps(e)
Fold(op, x, y) == IF op = "+" THEN x + y ELSE x - y

codeunexpval(s, op) ==
  LET s1 == luaK_exp2anyreg(s)
  IN Is(codeABC(freeexp(s1, s1.e), op, 0, s1.e.i, 0), "RELOC", PC(s1))
codebinexpval(s, op, e1) ==
  LET s2 == luaK_exp2RK(s)
      s1 == luaK_exp2RK(SetE(s2, e1))
      free == freeexps(s1, s1.e, s2.e)
  IN Is(codeABC(free, op, 0, RK(s1), RK(s2)), "RELOC", PC(free))
codecomp(s, opr, e1) ==
  LET s2 == luaK_exp2RK(s)
      rk1 == RK(SetE(s, e1))
      free == freeexps(s2, e1, s2.e)
      j == CASE opr = "==" -> condjump(free, "EQ", 1, rk1, RK(s2))
             [] opr = "~=" -> condjump(free, "EQ", 0, rk1, RK(s2))
             [] opr = "<" -> condjump(free, "LT", 1, rk1, RK(s2))
             [] opr = "<=" -> condjump(free, "LE", 1, rk1, RK(s2))
             [] opr = ">" -> condjump(free, "LT", 1, RK(s2), rk1)
             [] OTHER -> condjump(free, "LE", 1, RK(s2), rk1)
  IN SetE(j, [e1 EXCEPT !.k = "JMP", !.i = PC(j) - 1])

luaK_prefix(s, op) ==
  CASE op = "not" -> codenot(s)
    [] op = "-" /\ IsNumeral(s.e) -> [s EXCEPT !.e.i = -@]
    [] OTHER -> codeunexpval(s, IF op = "-" THEN "UNM" ELSE "LEN")

luaK_infix(s, op) ==
  CASE op = "and" -> luaK_goiftrue(s)
    [] op = "or" -> luaK_goiffalse(s)
    [] op = ".." -> luaK_exp2nextreg(s)
    [] op \in {"+", "-"} /\ IsNumeral(s.e) -> s
    [] OTHER -> luaK_exp2RK(s)

posfixConcat(s0, e1) ==
  LET s == luaK_exp2val(s0)
      free == freeexp(s, e1)
  IN IF s.e.k = "RELOC" /\ At(s, s.e.i).op = "CONCAT"
       THEN SetE([free EXCEPT !.fs[Len(s.fs)].code[s.e.i + 1].b = e1.i],
                 [e1 EXCEPT !.k = "RELOC", !.i = s.e.i])
       ELSE codebinexpval(luaK_exp2nextreg(s), "CONCAT", e1)
luaK_posfix(s, op, e1) ==
  LET d == luaK_dischargevars(s)
  IN CASE op = "and" ->
            [Join(lua_assert(d, e1.t = NO_JUMP, "luaK_posfix"), d.e.f, e1.f)
               EXCEPT !.e.f = Joined(d.e.f, e1.f)]
       [] op = "or" ->
            [Join(lua_assert(d, e1.f = NO_JUMP, "luaK_posfix"), d.e.t, e1.t)
               EXCEPT !.e.t = Joined(d.e.t, e1.t)]
       [] op = ".." -> posfixConcat(s, e1)
       [] op \in {"+", "-"} ->
            IF IsNumeral(e1) /\ IsNumeral(s.e)
              THEN SetE(s, [e1 EXCEPT !.i = Fold(op, e1.i, s.e.i)])
              ELSE codebinexpval(s, IF op = "+" THEN "ADD" ELSE "SUB", e1)
       [] OTHER -> codecomp(s, op, e1)

luaK_setlist(s, base, nelems, tostore) ==
  LET c == (nelems - 1) \div LFIELDS_PER_FLUSH + 1
      b == IF tostore = LUA_MULTRET THEN 0 ELSE tostore
      s1 == IF c <= MAXARG_C THEN codeABC(s, "SETLIST", base, b, c)
            ELSE codeABC(codeABC(s, "SETLIST", base, b, 0), "EXTRAARG", c, 0, 0)
  IN [s1 EXCEPT !.fs[Len(s.fs)].freereg = base + 1]
=============================================================================

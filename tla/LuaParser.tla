----------------------------- MODULE LuaParser -----------------------------
(***************************************************************************)
(* The parser (lparser.c), which reads tokens and drives the code          *)
(* generator.  Besides what LuaCode uses, the record s holds the tokens    *)
(* left (s.toks), the active variables of all open functions (s.actvar)    *)
(* and the pending gotos and visible labels (s.gt, s.label).               *)
(***************************************************************************)
EXTENDS LuaCode

T(s) == s.toks[1][1]          \* kind of the current token
V(s) == s.toks[1][2]          \* name, number or string
Next1(s) == [s EXCEPT !.toks = Tail(@)]
LookAhead(s) == s.toks[2][1]
SyntaxError(s) == [s EXCEPT !.err = TRUE]
checknext(s, t) == IF T(s) = t THEN Next1(s) ELSE SyntaxError(s)

(***************************************************************************)
(* Variables                                                               *)
(***************************************************************************)
new_localvar(s, name) == [s EXCEPT !.actvar = Append(@, name)]
adjustlocalvars(s, n) == [s EXCEPT !.fs[Len(s.fs)].nactvar = @ + n]
removevars(s, level) ==
  [s EXCEPT !.actvar = SubSeq(@, 1, Len(@) - (F(s).nactvar - level)),
            !.fs[Len(s.fs)].nactvar = level]

searchvar(s, d, name) ==
  LET g == s.fs[d] IN {i \in 0..g.nactvar - 1 : s.actvar[g.first + i + 1] = name}
searchupvalue(s, d, name) ==
  {i \in 0..Len(s.fs[d].upv) - 1 : s.fs[d].upv[i + 1].name = name}
Most(S) == CHOOSE i \in S : \A j \in S : j <= i
\* The innermost block that was entered before the variable became active.
markupval(s, d, level) ==
  LET bl == s.fs[d].bl
  IN [s EXCEPT !.fs[d].bl[Most({i \in DOMAIN bl : bl[i].nactvar <= level})].upval = TRUE]

RECURSIVE singlevaraux(_, _, _, _)
singlevaraux(s, d, name, base) ==
  IF d = 0 THEN SetE(s, Exp("VOID", 0))
  ELSE IF searchvar(s, d, name) # {}
    THEN LET v == Most(searchvar(s, d, name))
         IN SetE(IF base THEN s ELSE markupval(s, d, v), Exp("LOCAL", v))
  ELSE IF searchupvalue(s, d, name) # {}
    THEN SetE(s, Exp("UPVAL", Most(searchupvalue(s, d, name))))
  ELSE LET out == singlevaraux(s, d - 1, name, FALSE)
           new == [name |-> name, instack |-> out.e.k = "LOCAL", idx |-> out.e.i]
       IN IF out.e.k = "VOID" THEN out
          ELSE SetE([out EXCEPT !.fs[d].upv = Append(@, new)], Exp("UPVAL", Len(s.fs[d].upv)))

codestring(s, x) == SetE(addk(s, Str(x)), Exp("K", KIndex(s, Str(x))))
\* A name that is no variable is a field of _ENV.
singlevar(s0) ==
  LET s == singlevaraux(Next1(s0), Len(s0.fs), V(s0), TRUE)
      env == singlevaraux(s, Len(s.fs), "_ENV", TRUE)
  IN IF s.e.k # "VOID" THEN s ELSE luaK_indexed(codestring(env, V(s0)), env.e)

\* As many values as variables: the last expression gives several, or nil does.
adjust_assign(s, nvars, nexps) ==
  LET extra == nvars - nexps
      more == IF extra + 1 < 0 THEN 0 ELSE extra + 1
      s1 == luaK_setreturns(s, more)
      s2 == IF s.e.k # "VOID" THEN luaK_exp2nextreg(s) ELSE s
      s3 == IF HasMultRet(s.e)
              THEN IF more > 1 THEN luaK_reserveregs(s1, more - 1) ELSE s1
              ELSE IF extra > 0 THEN luaK_nil(luaK_reserveregs(s2, extra), F(s2).freereg, extra)
              ELSE s2
  IN IF nexps > nvars THEN [s3 EXCEPT !.fs[Len(s.fs)].freereg = @ - (nexps - nvars)] ELSE s3

(***************************************************************************)
(* Blocks, gotos and labels                                                *)
(***************************************************************************)
BL(s) == F(s).bl[Len(F(s).bl)]
enterblock(s, isloop) ==
  [lua_assert(s, F(s).freereg = F(s).nactvar, "enterblock") EXCEPT !.fs[Len(s.fs)].bl =
     Append(@, [isloop |-> isloop, nactvar |-> F(s).nactvar, firstlabel |-> Len(s.label),
                firstgoto |-> Len(s.gt), upval |-> FALSE])]
Entry(s, name, pc) == [name |-> name, nactvar |-> F(s).nactvar, pc |-> pc]

Without(q, i) == SubSeq(q, 1, i - 1) \o SubSeq(q, i + 1, Len(q))
\* A goto that may enter the scope of a local.
closegotoUnchecked(s, g, label) ==
  [luaK_patchlist(s, s.gt[g].pc, label.pc) EXCEPT !.gt = Without(@, g)]
\* A goto meets its label, which may not be in the scope of a local of its own.
closegoto(s, g, label) ==
  LET gt == s.gt[g]
  IN [luaK_patchlist(s, gt.pc, label.pc) EXCEPT
        !.gt = Without(@, g), !.err = @ \/ gt.nactvar < label.nactvar]
Matching(s, g) ==
  {i \in BL(s).firstlabel + 1..Len(s.label) : s.label[i].name = s.gt[g].name}
findlabel(s, g) ==
  LET label == s.label[CHOOSE i \in Matching(s, g) : \A j \in Matching(s, g) : i <= j]
      close == s.gt[g].nactvar > label.nactvar
                 /\ (BL(s).upval \/ Len(s.label) > BL(s).firstlabel)
  IN IF Matching(s, g) = {} THEN s
     ELSE closegoto(IF close THEN luaK_patchclose(s, s.gt[g].pc, label.nactvar) ELSE s, g, label)
RECURSIVE FindGotos(_, _, _)
FindGotos(s, i, label) ==
  IF i > Len(s.gt) THEN s
  ELSE IF s.gt[i].name = label.name THEN FindGotos(closegoto(s, i, label), i, label)
  ELSE FindGotos(s, i + 1, label)
findgotos(s, label) == FindGotos(s, BL(s).firstgoto + 1, label)

\* The gotos that leave block bl: they close its variables.
RECURSIVE MoveGotosOut(_, _, _)
MoveGotosOut(s, i, bl) ==
  IF i > Len(s.gt) THEN s
  ELSE LET inner == s.gt[i].nactvar > bl.nactvar
           s1 == IF inner /\ bl.upval THEN luaK_patchclose(s, s.gt[i].pc, bl.nactvar) ELSE s
           s2 == IF inner THEN [s1 EXCEPT !.gt[i].nactvar = bl.nactvar] ELSE s1
       IN IF Matching(s2, i) # {} THEN MoveGotosOut(findlabel(s2, i), i, bl)
          ELSE MoveGotosOut(s2, i + 1, bl)

breaklabel(s) == findgotos([s EXCEPT !.label = Append(@, Entry(s, "break", PC(s)))],
                           Entry(s, "break", PC(s)))
leaveblock(s) ==
  LET bl == BL(s)
      outer == Len(F(s).bl) > 1
      j == luaK_jump(s)
      s1 == IF outer /\ bl.upval
              THEN luaK_patchtohere(luaK_patchclose(j, PC(j) - 1, bl.nactvar), PC(j) - 1) ELSE s
      s2 == IF bl.isloop THEN breaklabel(s1) ELSE s1
      s3 == removevars([s2 EXCEPT !.fs[Len(s.fs)].bl = SubSeq(@, 1, Len(@) - 1)], bl.nactvar)
      s4 == [s3 EXCEPT !.fs[Len(s.fs)].freereg = bl.nactvar,
                       !.label = SubSeq(@, 1, bl.firstlabel)]
  IN IF outer THEN MoveGotosOut(s4, bl.firstgoto + 1, bl)
     ELSE [s4 EXCEPT !.err = @ \/ bl.firstgoto < Len(s.gt), !.gt = SubSeq(@, 1, bl.firstgoto)]

open_func(s) ==
  enterblock([s EXCEPT !.fs = Append(@,
     [code |-> << >>, k |-> << >>, p |-> << >>, upv |-> << >>, jpc |-> NO_JUMP,
      lasttarget |-> 0, freereg |-> 0, nactvar |-> 0, first |-> Len(s.actvar), bl |-> << >>,
      maxstacksize |-> 2, vararg |-> FALSE, nump |-> 0])], FALSE)
Proto(g) == [code |-> g.code, k |-> g.k, p |-> g.p, upv |-> g.upv, nump |-> g.nump,
             vararg |-> g.vararg, maxstacksize |-> g.maxstacksize]
\* The prototype goes to the enclosing function.
close_func(s) ==
  LET c == leaveblock(luaK_ret(s, 0, 0))
      out == SubSeq(c.fs, 1, Len(c.fs) - 1)
  IN IF out = << >> THEN c
     ELSE [c EXCEPT !.fs = [out EXCEPT ![Len(out)].p = Append(@, Proto(F(c)))]]
codeclosure(s) ==
  luaK_exp2nextreg(SetE(codeABC(s, "CLOSURE", 0, Len(F(s).p) - 1, 0), Exp("RELOC", PC(s))))

(***************************************************************************)
(* Expressions                                                             *)
(***************************************************************************)
Comparison == {"==", "~=", "<", "<=", ">", ">="}
Left == [op \in {"+", "-", "..", "and", "or"} \cup Comparison |->
           CASE op \in {"+", "-"} -> 10 [] op = ".." -> 9 [] op = "and" -> 2 [] op = "or" -> 1
             [] OTHER -> 3]
Right == [Left EXCEPT ![".."] = 8]
UNARY_PRIORITY == 12
UnOp == {"not", "-", "#"}

RECURSIVE subexpr(_, _), BinLoop(_, _), suffixes(_), constructor(_), Fields(_, _),
          statlist(_), statement(_), ExpList(_, _)
expr(s) == subexpr(s, 0)
\* The number of expressions is left in s.n.
explist(s) == ExpList(expr(s), 1)
ExpList(s, n) == IF T(s) = "," THEN ExpList(expr(luaK_exp2nextreg(Next1(s))), n + 1)
                 ELSE [s EXCEPT !.n = n]

\* Parameters: names, then perhaps "...".
RECURSIVE ParList(_)
ParList(s) ==
  LET s1 == IF T(s) = "name" THEN Next1(new_localvar(s, V(s)))
            ELSE [Next1(s) EXCEPT !.fs[Len(s.fs)].vararg = TRUE]
  IN IF T(s) = ")" THEN s
     ELSE IF ~F(s1).vararg /\ T(s1) = "," THEN ParList(Next1(s1)) ELSE s1
parlist(s) ==
  LET s1 == ParList(s)
      n == Len(s1.actvar) - F(s1).first
      s2 == adjustlocalvars(s1, n - F(s1).nactvar)
  IN luaK_reserveregs([s2 EXCEPT !.fs[Len(s.fs)].nump = n], n)
body(s, ismethod) ==
  LET s1 == checknext(open_func(s), "(")
      s2 == IF ismethod THEN adjustlocalvars(new_localvar(s1, "self"), 1) ELSE s1
      s3 == statlist(checknext(parlist(s2), ")"))
  IN codeclosure(close_func(checknext(s3, "end")))

simpleexp(s) ==
  LET literal(k, i) == Next1(SetE(s, Exp(k, i)))
      vararg == codeABC([s EXCEPT !.err = @ \/ ~F(s).vararg], "VARARG", 0, 1, 0)
  IN CASE T(s) = "int" -> literal("KINT", V(s))
       [] T(s) = "string" -> Next1(codestring(s, V(s)))
       [] T(s) = "nil" -> literal("NIL", 0)
       [] T(s) = "true" -> literal("TRUE", 0)
       [] T(s) = "false" -> literal("FALSE", 0)
       [] T(s) = "..." -> Next1(SetE(vararg, Exp("VARARG", PC(vararg) - 1)))
       [] T(s) = "{" -> constructor(s)
       [] T(s) = "function" -> body(Next1(s), FALSE)
       [] OTHER -> suffixes(
            IF T(s) = "name" THEN singlevar(s)
            ELSE IF T(s) = "(" THEN luaK_dischargevars(checknext(expr(Next1(s)), ")"))
            ELSE SyntaxError(s))

subexpr(s, limit) ==
  BinLoop(IF T(s) \in UnOp THEN luaK_prefix(subexpr(Next1(s), UNARY_PRIORITY), T(s))
          ELSE simpleexp(s), limit)
BinLoop(s, limit) ==
  LET op == T(s)
      s1 == luaK_infix(Next1(s), op)
  IN IF op \in DOMAIN Left /\ Left[op] > limit
       THEN BinLoop(luaK_posfix(subexpr(s1, Right[op]), op, s1.e), limit)
       ELSE s

fieldsel(s) ==
  LET s1 == luaK_exp2anyregup(s)
  IN luaK_indexed(codestring(Next1(Next1(s1)), s1.toks[2][2]), s1.e)
yindex(s) == checknext(luaK_exp2val(expr(Next1(s))), "]")

\* The arguments: all values when the last one is a call or "...".
funcargs(s) ==
  LET f == s.e
      empty == T(s) = "(" /\ LookAhead(s) = ")"
      list == explist(Next1(s))
      s1 == CASE empty -> SetE(Next1(Next1(s)), Exp("VOID", 0))
              [] T(s) = "(" -> checknext(luaK_setreturns(list, LUA_MULTRET), ")")
              [] T(s) = "{" -> constructor(s)
              [] T(s) = "string" -> Next1(codestring(s, V(s)))
              [] OTHER -> SyntaxError(s)
      s2 == IF HasMultRet(s1.e) \/ s1.e.k = "VOID" THEN s1 ELSE luaK_exp2nextreg(s1)
      nparams == IF HasMultRet(s1.e) THEN LUA_MULTRET ELSE F(s2).freereg - (f.i + 1)
      s3 == codeABC(lua_assert(s2, f.k = "NONRELOC", "funcargs"), "CALL", f.i, nparams + 1, 2)
  IN [SetE(s3, Exp("CALL", PC(s2))) EXCEPT !.fs[Len(s.fs)].freereg = f.i + 1]
suffixes(s) ==
  CASE T(s) = "." -> suffixes(fieldsel(s))
    [] T(s) = "[" -> LET t == luaK_exp2anyregup(s)
                     IN suffixes(luaK_indexed(yindex(t), t.e))
    [] T(s) = ":" -> LET k == codestring(Next1(Next1(s)), s.toks[2][2])
                     IN suffixes(funcargs(luaK_self(SetE(k, s.e), k.e)))
    [] T(s) \in {"(", "string", "{"} -> suffixes(funcargs(luaK_exp2nextreg(s)))
    [] OTHER -> s

(***************************************************************************)
(* Constructors.  cc: the pending list item v, the register of the table,  *)
(* the number of items na and how many of them are not stored yet          *)
(***************************************************************************)
recfield(s, cc) ==
  LET reg == F(s).freereg
      s1 == IF T(s) = "name" THEN Next1(codestring(s, V(s))) ELSE yindex(s)
      key == luaK_exp2RK(checknext(s1, "="))
      val == luaK_exp2RK(expr(key))
  IN [codeABC(val, "SETTABLE", cc.t, RK(key), RK(val)) EXCEPT !.fs[Len(s.fs)].freereg = reg]
closelistfield(s, cc) ==
  LET s1 == luaK_exp2nextreg(SetE(s, cc.v))
  IN IF cc.v.k = "VOID" THEN s
     ELSE IF cc.tostore = LFIELDS_PER_FLUSH THEN luaK_setlist(s1, cc.t, cc.na, cc.tostore)
     ELSE s1
Closed(cc) == [cc EXCEPT !.v = Exp("VOID", 0),
                 !.tostore = IF cc.v.k # "VOID" /\ @ = LFIELDS_PER_FLUSH THEN 0 ELSE @]
lastlistfield(s, cc) ==
  LET v == SetE(s, cc.v)
      s1 == IF cc.v.k # "VOID" THEN luaK_exp2nextreg(v) ELSE v
  IN IF cc.tostore = 0 THEN s
     ELSE IF HasMultRet(cc.v)
       THEN luaK_setlist(luaK_setreturns(v, LUA_MULTRET), cc.t, cc.na, LUA_MULTRET)
       ELSE luaK_setlist(s1, cc.t, cc.na, cc.tostore)
Fields(s0, cc0) ==
  LET s == closelistfield(s0, cc0)
      cc == Closed(cc0)
      isrec == T(s) = "[" \/ (T(s) = "name" /\ LookAhead(s) = "=")
      item == expr(s)
      s1 == IF isrec THEN recfield(s, cc) ELSE item
      cc1 == IF isrec THEN cc
             ELSE [cc EXCEPT !.v = item.e, !.na = @ + 1, !.tostore = @ + 1]
  IN IF T(s0) = "}" THEN lastlistfield(Next1(s0), cc0)
     ELSE IF T(s1) \in {",", ";"} THEN Fields(Next1(s1), cc1)
     ELSE lastlistfield(checknext(s1, "}"), cc1)
constructor(s) ==
  LET s1 == luaK_exp2nextreg(SetE(codeABC(s, "NEWTABLE", 0, 0, 0), Exp("RELOC", PC(s))))
      s2 == Fields(Next1(s1), [v |-> Exp("VOID", 0), t |-> s1.e.i, na |-> 0, tostore |-> 0])
  IN SetE(s2, s1.e)

(***************************************************************************)
(* Statements                                                              *)
(***************************************************************************)
block_follow(s, withuntil) ==
  T(s) \in {"else", "elseif", "end", "eos"} \/ (withuntil /\ T(s) = "until")
statlist(s) ==
  IF block_follow(s, TRUE) THEN s
  ELSE IF T(s) = "return" THEN statement(s) ELSE statlist(statement(s))
block(s) == leaveblock(statlist(enterblock(s, FALSE)))

\* A local or upvalue that is assigned to, and that an earlier target uses as its table or
\* key, is copied first.
Uses(lh, v) == lh.k = "INDEXED" /\ (\/ lh.vt = v.k /\ lh.tab = v.i
                                    \/ v.k = "LOCAL" /\ lh.i = v.i)
check_conflict(lh, v, extra) ==
  [i \in DOMAIN lh |->
     IF lh[i].k # "INDEXED" THEN lh[i]
     ELSE LET t == lh[i].vt = v.k /\ lh[i].tab = v.i
              k == v.k = "LOCAL" /\ lh[i].i = v.i
          IN [lh[i] EXCEPT !.vt = IF t THEN "LOCAL" ELSE @, !.tab = IF t THEN extra ELSE @,
                           !.i = IF k THEN extra ELSE @]]
RECURSIVE Targets(_, _)
Targets(s, lh) ==   \* all variables on the left of an assignment: s and s.lh
  LET s1 == simpleexp(Next1(s))
      v == s1.e
      copies == v.k # "INDEXED" /\ \E i \in DOMAIN lh : Uses(lh[i], v)
      extra == F(s1).freereg
      s2 == IF copies
              THEN luaK_reserveregs(codeABC(s1, IF v.k = "LOCAL" THEN "MOVE" ELSE "GETUPVAL",
                                            extra, v.i, 0), 1)
              ELSE s1
  IN IF T(s) # "," THEN [s EXCEPT !.lh = lh]
     ELSE Targets(s2, Append(IF copies THEN check_conflict(lh, v, extra) ELSE lh, v))
RECURSIVE StoreAll(_, _)
StoreAll(s, lh) ==
  IF lh = << >> THEN s
  ELSE StoreAll(luaK_storevar(SetE(s, Exp("NONRELOC", F(s).freereg - 1)), lh[Len(lh)]),
                SubSeq(lh, 1, Len(lh) - 1))
assignment(s0) ==
  LET s == Targets(s0, <<s0.e>>)
      lh == s.lh
      s1 == explist(checknext(s, "="))
      s2 == luaK_storevar(luaK_setoneret(s1), lh[Len(lh)])
      isvar == \A i \in DOMAIN lh : lh[i].k \in {"LOCAL", "UPVAL", "INDEXED"}
  IN IF ~isvar THEN SyntaxError(s)
     ELSE IF s1.n = Len(lh) THEN StoreAll(s2, SubSeq(lh, 1, Len(lh) - 1))
     ELSE StoreAll(adjust_assign(s1, Len(lh), s1.n), lh)
exprstat(s) ==
  LET s1 == simpleexp(s)
  IN IF T(s1) \in {"=", ","} THEN assignment(s1)
     ELSE IF s1.e.k = "CALL" THEN [s1 EXCEPT !.fs[Len(s.fs)].code[s1.e.i + 1].c = 1]
     ELSE SyntaxError(s1)

cond(s) ==   \* s.e.f is the list of jumps to be patched
  LET s1 == expr(s) IN luaK_goiftrue(IF s1.e.k = "NIL" THEN [s1 EXCEPT !.e.k = "FALSE"] ELSE s1)

gotostat(s, pc) ==
  LET isgoto == T(s) = "goto"
      s1 == IF isgoto THEN Next1(Next1(s)) ELSE Next1(s)
      name == IF isgoto THEN s.toks[2][2] ELSE "break"
      s2 == [s1 EXCEPT !.gt = Append(@, Entry(s1, name, pc))]
  IN findlabel(s2, Len(s2.gt))
RECURSIVE skipnoopstat(_)
skipnoopstat(s) == IF T(s) \in {";", "::"} THEN skipnoopstat(statement(s)) ELSE s
checkrepeated(s, name) ==
  \E i \in BL(s).firstlabel + 1..Len(s.label) : s.label[i].name = name
\* A label that only void statements follow counts as outside of the scope of locals.
labelstat(s, name) ==
  LET s1 == luaK_getlabel(checknext([s EXCEPT !.err = @ \/ checkrepeated(s, name)], "::"))
      s2 == skipnoopstat([s1 EXCEPT !.label = Append(@, Entry(s1, name, PC(s1)))])
      l == Len(s.label) + 1
      s3 == IF block_follow(s2, FALSE) THEN [s2 EXCEPT !.label[l].nactvar = BL(s2).nactvar]
            ELSE s2
  IN findgotos(s3, s3.label[l])

whilestat(s) ==
  LET s1 == luaK_getlabel(Next1(s))
      s2 == cond(s1)
      s3 == block(checknext(enterblock(s2, TRUE), "do"))
      j == luaK_jump(s3)
      s4 == luaK_patchlist(j, PC(j) - 1, PC(s1))
  IN luaK_patchtohere(leaveblock(checknext(s4, "end")), s2.e.f)
repeatstat(s) ==
  LET s1 == luaK_getlabel(s)
      s2 == statlist(Next1(enterblock(enterblock(s1, TRUE), FALSE)))
      s3 == cond(checknext(s2, "until"))
      s4 == IF BL(s3).upval THEN luaK_patchclose(s3, s3.e.f, BL(s3).nactvar) ELSE s3
  IN leaveblock(luaK_patchlist(leaveblock(s4), s3.e.f, PC(s1)))

exp1(s) == luaK_exp2nextreg(expr(s))
forbody(s, base, nvars, isnum) ==
  LET s1 == checknext(adjustlocalvars(s, 3), "do")
      s2 == IF isnum THEN codeABC(s1, "FORPREP", base, NO_JUMP, 0) ELSE luaK_jump(s1)
      prep == PC(s2) - 1
      s3 == luaK_reserveregs(adjustlocalvars(enterblock(s2, FALSE), nvars), nvars)
      s4 == luaK_patchtohere(leaveblock(block(s3)), prep)
      s5 == IF isnum THEN codeABC(s4, "FORLOOP", base, NO_JUMP, 0)
            ELSE codeABC(codeABC(s4, "TFORCALL", base, 0, nvars), "TFORLOOP", base + 2, NO_JUMP, 0)
  IN luaK_patchlist(s5, PC(s5) - 1, prep + 1)
NewLocals(s, names) == [s EXCEPT !.actvar = @ \o names]
fornum(s, name) ==
  LET s1 == exp1(checknext(NewLocals(s, <<"(index)", "(limit)", "(step)", name>>), "="))
      s2 == exp1(checknext(s1, ","))
      k == addk(s2, Number(1))
      s3 == IF T(s2) = "," THEN exp1(Next1(s2))
            ELSE luaK_reserveregs(luaK_codek(k, F(k).freereg, KIndex(s2, Number(1))), 1)
  IN forbody(s3, F(s).freereg, 1, TRUE)
RECURSIVE Names(_)
Names(s) == IF T(s) = "," THEN Names(Next1(Next1([s EXCEPT !.actvar = Append(@, s.toks[2][2])])))
            ELSE s
forlist(s, name) ==
  LET s1 == Names(NewLocals(s, <<"(generator)", "(state)", "(control)", name>>))
      s2 == explist(checknext(s1, "in"))
      s3 == luaK_checkstack(adjust_assign(s2, 3, s2.n), 3)
  IN forbody(s3, F(s).freereg, Len(s1.actvar) - Len(s.actvar) - 3, FALSE)
forstat(s) ==
  LET s1 == Next1(enterblock(s, TRUE))
      s2 == Next1(s1)
      s3 == IF T(s2) = "=" THEN fornum(s2, V(s1)) ELSE forlist(s2, V(s1))
  IN leaveblock(checknext(s3, "end"))

\* One "if" or "elseif" part; s.esc is the list of jumps to the end.  A part that is a
\* "goto" or "break" makes it when the condition is true.
test_then_block(s) ==
  LET c == expr(Next1(s))
      then == checknext(c, "then")
      direct == T(then) \in {"goto", "break"}
      g == luaK_goiffalse(then)
      g1 == skipnoopstat(gotostat(enterblock(g, FALSE), g.e.t))
      alone == block_follow(g1, FALSE)
      g2 == luaK_jump(g1)
      n == luaK_goiftrue(then)
      jf == IF direct THEN PC(g2) - 1 ELSE n.e.f
      s1 == leaveblock(statlist(IF direct THEN g2 ELSE enterblock(n, FALSE)))
      j == luaK_jump(s1)
      s2 == IF T(s1) \in {"else", "elseif"}
              THEN [Join(j, s.esc, PC(j) - 1) EXCEPT !.esc = Joined(s.esc, PC(j) - 1)]
              ELSE [s1 EXCEPT !.esc = s.esc]
  IN IF direct /\ alone THEN [leaveblock(g1) EXCEPT !.esc = s.esc]
     ELSE luaK_patchtohere(s2, jf)
RECURSIVE ElseIfs(_)
ElseIfs(s) == IF T(s) = "elseif" THEN ElseIfs(test_then_block(s)) ELSE s
ifstat(s) ==
  LET s1 == ElseIfs(test_then_block([s EXCEPT !.esc = NO_JUMP]))
      s2 == IF T(s1) = "else" THEN block(Next1(s1)) ELSE s1
  IN luaK_patchtohere(checknext(s2, "end"), s1.esc)

localfunc(s) == body(Next1(adjustlocalvars(new_localvar(s, V(s)), 1)), FALSE)
localstat(s) ==
  LET s1 == Names(Next1(new_localvar(s, V(s))))
      n == Len(s1.actvar) - Len(s.actvar)
      s2 == explist(Next1(s1))
      s3 == IF T(s1) = "=" THEN adjust_assign(s2, n, s2.n)
            ELSE adjust_assign(SetE(s1, Exp("VOID", 0)), n, 0)
  IN adjustlocalvars(s3, n)
RECURSIVE Path(_)
Path(s) == IF T(s) = "." THEN Path(fieldsel(s)) ELSE s
funcstat(s) ==
  LET v == Path(singlevar(Next1(s)))
      method == T(v) = ":"
      name == IF method THEN fieldsel(v) ELSE v
  IN luaK_storevar(body(name, method), name.e)

retstat(s) ==
  LET none == block_follow(s, TRUE) \/ T(s) = ";"
      list == explist(s)
      e == list.e
      multi == luaK_setreturns(list, LUA_MULTRET)
      tail == IF e.k = "CALL" /\ list.n = 1
                THEN [multi EXCEPT !.fs[Len(s.fs)].code[e.i + 1].op = "TAILCALL"] ELSE multi
      one == luaK_exp2anyreg(list)
      r == CASE none -> luaK_ret(s, 0, 0)
             [] HasMultRet(e) -> luaK_ret(tail, F(s).nactvar, LUA_MULTRET)
             [] list.n = 1 -> luaK_ret(one, one.e.i, 1)
             [] OTHER -> luaK_ret(luaK_exp2nextreg(list), F(s).nactvar, list.n)
  IN IF T(r) = ";" THEN Next1(r) ELSE r

statement(s) ==
  LET jump == luaK_jump(s)
      rest == Next1(s)
      s1 == CASE T(s) = ";" -> rest
              [] T(s) = "if" -> [ifstat(s) EXCEPT !.esc = s.esc]
              [] T(s) = "while" -> whilestat(s)
              [] T(s) = "do" -> checknext(block(rest), "end")
              [] T(s) = "for" -> forstat(s)
              [] T(s) = "repeat" -> repeatstat(s)
              [] T(s) = "function" -> funcstat(s)
              [] T(s) = "local" ->
                   IF T(rest) = "function" THEN localfunc(Next1(rest)) ELSE localstat(rest)
              [] T(s) = "::" -> labelstat(Next1(rest), V(rest))
              [] T(s) = "return" -> retstat(rest)
              [] T(s) \in {"goto", "break"} -> gotostat(jump, PC(jump) - 1)
              [] OTHER -> exprstat(s)
      g == F(s1)
      ok == g.maxstacksize >= g.freereg /\ g.freereg >= g.nactvar
  IN [lua_assert(s1, ok, "statement") EXCEPT !.fs[Len(s.fs)].freereg = g.nactvar]

\* The main function, with _ENV as its upvalue.
mainfunc(toks) ==
  LET s == open_func([toks |-> toks, fs |-> << >>, e |-> Exp("VOID", 0), n |-> 0, lh |-> << >>,
                      esc |-> NO_JUMP, actvar |-> << >>, gt |-> << >>, label |-> << >>,
                      err |-> FALSE, failed |-> {}])
      s1 == [s EXCEPT !.fs[1].vararg = TRUE,
                      !.fs[1].upv = <<[name |-> "_ENV", instack |-> TRUE, idx |-> 0]>>]
      s2 == statlist(s1)
  IN close_func([s2 EXCEPT !.err = @ \/ T(s2) # "eos"])
=============================================================================

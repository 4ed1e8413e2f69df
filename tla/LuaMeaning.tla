----------------------------- MODULE LuaMeaning -----------------------------
(***************************************************************************)
(* What a program means, by chapter 3 of the reference manual: programs    *)
(* are trees, variables are cells, a function remembers the cells that it  *)
(* sees.  The compiler and the interpreter are compared with it.  A node   *)
(* of a program is a tuple whose first component is its kind.  A program   *)
(* that does not end is given up after MaxStatements.                      *)
(***************************************************************************)
EXTENDS Integers, Sequences

CONSTANT MaxStatements
LOCAL INSTANCE TLC
LOCAL INSTANCE SequencesExt

MNil == <<"nil", 0>>
MBool(b) == <<"bool", IF b THEN 1 ELSE 0>>
MFalse(v) == v \in {MNil, MBool(FALSE)}
None == <<"none">>

(***************************************************************************)
(* The legal programs: break stands in a loop, a label is unique in its    *)
(* block, a goto sees its label and does not enter the scope of a local    *)
(***************************************************************************)
IsLocal(s) == s[1] \in {"local", "localfunction"}
Void(s) == s[1] \in {"label", ";"}
\* The position of label l in block b, 0 when there is none.
LabelAt(b, l) ==
  IF \E i \in DOMAIN b : b[i] = <<"label", l>>
    THEN CHOOSE i \in DOMAIN b : b[i] = <<"label", l>> ELSE 0
\* Statement i may jump to position j: no local in between is in scope at j.
Reaches(b, i, j, inrepeat) ==
  \/ j < i
  \/ \A n \in i + 1..j : ~IsLocal(b[n])
  \/ ~inrepeat /\ \A n \in j..Len(b) : Void(b[n])
\* The blocks of a statement (not those of functions in it).
Blocks(s) ==
  CASE s[1] = "do" -> {<<s[2], FALSE>>}
    [] s[1] = "while" -> {<<s[3], FALSE>>}
    [] s[1] = "repeat" -> {<<s[2], TRUE>>}
    [] s[1] = "if" -> {<<b, FALSE>> : b \in ToSet(s[3])}
    [] s[1] = "fornum" -> {<<s[6], FALSE>>}
    [] s[1] = "forin" -> {<<s[4], FALSE>>}
    [] OTHER -> {}
IsLoop(s) == s[1] \in {"while", "repeat", "fornum", "forin"}
RECURSIVE LegalBlock(_, _, _, _)
\* gotos: the labels of enclosing blocks that a goto here may name.
LegalBlock(b, inloop, inrepeat, gotos) ==
  LET own == {b[i][2] : i \in {n \in DOMAIN b : b[n][1] = "label"}}
      From(i) == {l \in own : Reaches(b, i, LabelAt(b, l), inrepeat)} \cup (gotos \ own)
  IN /\ \A i, j \in DOMAIN b : i # j /\ b[i][1] = "label" => b[i] # b[j]
     /\ \A i \in DOMAIN b :
          /\ b[i][1] = "break" => inloop
          /\ b[i][1] = "goto" => b[i][2] \in From(i)
          /\ \A x \in Blocks(b[i]) :
               LegalBlock(x[1], inloop \/ IsLoop(b[i]), x[2], From(i))
Legal(b) == LegalBlock(b, FALSE, FALSE, {})

(***************************************************************************)
(* Evaluation.  w: the world (cells, heap, fns, feed, log, the statements *)
(* left, and st: "run" or how the program ended).  env: the variables in sight, <<name, cell>>,*)
(* the innermost last.  Results are records with the new world.            *)
(***************************************************************************)
Running(w) == w.st = "run"
Stop(w, how) == [w EXCEPT !.st = how]
Lookup(env, name) ==
  LET S == {i \in DOMAIN env : env[i][1] = name}
  IN IF S = {} THEN 0 ELSE env[CHOOSE i \in S : \A j \in S : j <= i][2]
First(vs) == IF vs = << >> THEN MNil ELSE vs[1]
Take(vs, n) == [i \in 1..n |-> IF i <= Len(vs) THEN vs[i] ELSE MNil]
Get(h, k) == IF k \in DOMAIN h THEN h[k] ELSE MNil
SetField(h, k, v) == [x \in DOMAIN h \cup {k} |-> IF x = k THEN v ELSE h[x]]
Length(h) == CHOOSE n \in 0..9 : /\ n = 0 \/ Get(h, <<"int", n>>) # MNil
                                 /\ Get(h, <<"int", n + 1>>) = MNil
Visible(v) == IF v[1] \in {"table", "fn"} THEN v[1] ELSE v
TextOf(v) == IF v[1] = "int" THEN ToString(v[2]) ELSE v[2]
Ints(x, y) == x[1] = "int" /\ y[1] = "int"

\* The value of an operator, None for an error.
Binary(op, x, y) ==
  CASE op = "==" -> MBool(x = y)
    [] op = "~=" -> MBool(x # y)
    [] op = ".." /\ {x[1], y[1]} \subseteq {"str", "int"} -> <<"str", TextOf(x) \o TextOf(y)>>
    [] op = "+" /\ Ints(x, y) -> <<"int", x[2] + y[2]>>
    [] op = "-" /\ Ints(x, y) -> <<"int", x[2] - y[2]>>
    [] op = "<" /\ Ints(x, y) -> MBool(x[2] < y[2])
    [] op = "<=" /\ Ints(x, y) -> MBool(x[2] <= y[2])
    [] op = ">" /\ Ints(x, y) -> MBool(x[2] > y[2])
    [] op = ">=" /\ Ints(x, y) -> MBool(x[2] >= y[2])
    [] OTHER -> None
Unary(w, op, x) ==
  CASE op = "not" -> MBool(MFalse(x))
    [] op = "-" /\ x[1] = "int" -> <<"int", -x[2]>>
    [] op = "#" /\ x[1] = "table" -> <<"int", Length(w.heap[x[2]])>>
    [] OTHER -> None

Is(w, vs) == [w |-> w, vs |-> vs]
Or(w, v) == IF v = None THEN Is(Stop(w, "error"), << >>) ELSE Is(w, <<v>>)
\* Variables with their values, in new cells.
Bind(w, names, vs) == [w EXCEPT !.cells = @ \o Take(vs, Len(names))]
Bound(w, env, names) == env \o [i \in DOMAIN names |-> <<names[i], Len(w.cells) + i>>]
NewFn(w, pars, vararg, body, env) ==
  Is([w EXCEPT !.fns = Append(@, [pars |-> pars, vararg |-> vararg, body |-> body, env |-> env])],
     <<<<"fn", Len(w.fns) + 1>>>>)
Index(w, t, k) == Or(w, IF t[1] = "table" THEN Get(w.heap[t[2]], k) ELSE None)
Store(w, t, k, v) ==
  IF t[1] # "table" \/ k = MNil THEN Stop(w, "error")
  ELSE [w EXCEPT !.heap[t[2]] = SetField(@, k, v)]
Global(w, name) == Get(w.heap[1], <<"str", name>>)

RECURSIVE Eval(_, _, _, _), EvalList(_, _, _, _), Apply(_, _, _), Items(_, _, _, _, _, _),
          Exec(_, _, _, _, _), ExecStat(_, _, _, _), Assign(_, _, _), Places(_, _, _, _),
          While(_, _, _, _), Repeat(_, _, _, _), ForNum(_, _, _, _, _), ForIn(_, _, _, _, _),
          If(_, _, _, _, _)
Eval1(e, env, va, w) == LET r == Eval(e, env, va, w) IN [r EXCEPT !.vs = <<First(@)>>]
Eval(e, env, va, w) ==
  LET a == Eval1(e[2], env, va, w)
      x == First(a.vs)
      k == e[1]
      binop == LET l == Eval1(e[3], env, va, w)
                   r == Eval1(e[4], env, va, l.w)
               IN IF Running(r.w) THEN Or(r.w, Binary(e[2], First(l.vs), First(r.vs))) ELSE r
      logic == LET l == Eval1(e[3], env, va, w)
               IN IF Running(l.w) /\ MFalse(First(l.vs)) = (k = "or")
                    THEN Eval1(e[4], env, va, l.w) ELSE l
      index == LET l == Eval1(e[3], env, va, a.w)
               IN IF Running(l.w) THEN Index(l.w, x, First(l.vs)) ELSE l
      call == LET l == EvalList(e[3], env, va, a.w)
              IN IF Running(l.w) THEN Apply(x, l.vs, l.w) ELSE l
      method == LET m == Index(a.w, x, <<"str", e[3]>>)
                    l == EvalList(e[4], env, va, m.w)
                IN IF ~Running(m.w) THEN m
                   ELSE IF Running(l.w) THEN Apply(First(m.vs), <<x>> \o l.vs, l.w) ELSE l
      new == [w EXCEPT !.heap = Append(@, << >>)]
  IN CASE ~Running(w) -> Is(w, << >>)
       [] k = "nil" -> Is(w, <<MNil>>)
       [] k \in {"true", "false"} -> Is(w, <<MBool(k = "true")>>)
       [] k = "int" -> Is(w, <<e>>)
       [] k = "string" -> Is(w, <<<<"str", e[2]>>>>)
       [] k = "..." -> Is(w, va)
       [] k = "name" -> LET c == Lookup(env, e[2])
                        IN Is(w, <<IF c = 0 THEN Global(w, e[2]) ELSE w.cells[c]>>)
       [] k = "paren" -> a
       [] k = "unop" -> LET l == Eval1(e[3], env, va, w)
                        IN IF Running(l.w) THEN Or(l.w, Unary(l.w, e[2], First(l.vs))) ELSE l
       [] k \in {"and", "or"} -> logic
       [] k = "binop" -> binop
       [] k = "index" -> index
       [] k = "call" -> IF Running(a.w) THEN call ELSE a
       [] k = "method" -> IF Running(a.w) THEN method ELSE a
       [] k = "function" -> NewFn(w, e[2], e[3], e[4], env)
       [] OTHER -> Items(e[2], env, va, new, <<"table", Len(new.heap)>>, 1)
EvalList(es, env, va, w) ==
  LET r == Eval1(es[1], env, va, w)
      rest == EvalList(Tail(es), env, va, r.w)
  IN IF es = << >> THEN Is(w, << >>)
     ELSE IF Len(es) = 1 THEN Eval(es[1], env, va, w)
     ELSE IF Running(r.w) THEN Is(rest.w, r.vs \o rest.vs) ELSE r
\* The fields of a constructor; n is the index of the next item.
Items(fs, env, va, w, t, n) ==
  LET f == fs[1]
      r == Eval(f[2], env, va, w)
      vs == IF Len(fs) = 1 THEN r.vs ELSE <<First(r.vs)>>
      put == [r.w EXCEPT !.heap[t[2]] =
                [k \in DOMAIN @ \cup {<<"int", n + i - 1>> : i \in DOMAIN vs} |->
                   IF \E i \in DOMAIN vs : k = <<"int", n + i - 1>> THEN vs[k[2] - n + 1] ELSE @[k]]]
      key == Eval1(f[2], env, va, w)
      val == Eval1(f[3], env, va, key.w)
  IN IF fs = << >> \/ ~Running(w) THEN Is(w, <<t>>)
     ELSE IF f[1] = "item"
       THEN Items(Tail(fs), env, va, IF Running(r.w) THEN put ELSE r.w, t, n + Len(vs))
       ELSE Items(Tail(fs), env, va,
                  IF Running(val.w) THEN Store(val.w, t, First(key.vs), First(val.vs)) ELSE val.w, t, n)
Apply(fv, args, w) ==
  LET f == w.fns[fv[2]]
      n == Len(f.pars)
      r == Exec(f.body, 1, Bound(w, f.env, f.pars),
                IF f.vararg THEN SubSeq(args, n + 1, Len(args)) ELSE << >>, Bind(w, f.pars, args))
      logged == [w EXCEPT !.log = Append(@, <<fv[2], [i \in DOMAIN args |-> Visible(args[i])]>>)]
  IN CASE fv[1] = "fn" -> Is(r.w, IF r.sig[1] = "return" THEN r.sig[2] ELSE << >>)
       [] fv[1] = "ext" -> IF w.feed = << >> THEN Is(Stop(logged, "halt"), << >>)
                           ELSE Is([logged EXCEPT !.feed = Tail(@)], Head(w.feed))
       [] OTHER -> Is(Stop(w, "error"), << >>)

(***************************************************************************)
(* Statements.  The signal tells how one ends: "normal", "break", "goto"   *)
(* with the label or "return" with the values.                             *)
(***************************************************************************)
Ends(w, env, sig) == [w |-> w, env |-> env, sig |-> sig]
Normal == <<"normal">>
RECURSIVE Declared(_)
Declared(b) == IF b = << >> THEN 0
               ELSE Declared(Tail(b)) + (CASE b[1][1] = "local" -> Len(b[1][2])
                                           [] b[1][1] = "localfunction" -> 1 [] OTHER -> 0)
\* Block b from statement i on.
Exec(b, i, env, va, w) ==
  LET r == ExecStat(b[i], env, va, [w EXCEPT !.left = @ - 1])
      j == IF r.sig[1] = "goto" THEN LabelAt(b, r.sig[2]) ELSE 0
      outer == Len(env) - Declared(SubSeq(b, 1, i - 1))
  IN IF ~Running(w) \/ i > Len(b) THEN Ends(w, env, Normal)
     ELSE IF w.left = 0 THEN Ends(Stop(w, "slow"), env, Normal)
     ELSE IF ~Running(r.w) THEN r
     ELSE IF j > 0
       THEN Exec(b, j + 1,
                 IF j > i THEN env ELSE SubSeq(env, 1, outer + Declared(SubSeq(b, 1, j))), va, r.w)
     ELSE IF r.sig = Normal THEN Exec(b, i + 1, r.env, va, r.w)
     ELSE Ends(r.w, env, r.sig)
Block(b, env, va, w) == [Exec(b, 1, env, va, w) EXCEPT !.env = env]

\* The places to assign to: a cell, or a table and a key.
Places(ts, env, va, w) ==
  LET t == ts[1]
      c == Lookup(env, t[2])
      o == Eval1(t[2], env, va, w)
      k == Eval1(t[3], env, va, o.w)
      rest(w1) == Places(Tail(ts), env, va, w1)
      name == IF c = 0 THEN <<<<"table", 1>>, <<"str", t[2]>>>> ELSE <<c>>
  IN IF ts = << >> \/ ~Running(w) THEN Is(w, << >>)
     ELSE IF t[1] = "name" THEN [rest(w) EXCEPT !.vs = <<name>> \o @]
     ELSE [rest(k.w) EXCEPT !.vs = <<<<First(o.vs), First(k.vs)>>>> \o @]
Assign(w, places, vs) ==
  LET p == places[1]
  IN IF places = << >> \/ ~Running(w) THEN w
     ELSE Assign(IF Len(p) = 1 THEN [w EXCEPT !.cells[p[1]] = vs[1]]
                 ELSE Store(w, p[1], p[2], vs[1]), Tail(places), Tail(vs))

\* A loop goes on when its body ends normally; break ends it.
Goes(r) == Running(r.w) /\ r.sig = Normal
Left(r) == IF r.sig = <<"break">> THEN [r EXCEPT !.sig = Normal] ELSE r
While(s, env, va, w) ==
  LET c == Eval1(s[2], env, va, w)
      r == Block(s[3], env, va, c.w)
  IN IF ~Running(c.w) \/ MFalse(First(c.vs)) THEN Ends(c.w, env, Normal)
     ELSE IF Goes(r) THEN While(s, env, va, r.w) ELSE Left(r)
Repeat(s, env, va, w) ==
  LET r == Exec(s[2], 1, env, va, w)
      c == Eval1(s[3], r.env, va, r.w)
  IN IF ~Goes(r) THEN [Left(r) EXCEPT !.env = env]
     ELSE IF Running(c.w) /\ MFalse(First(c.vs)) THEN Repeat(s, env, va, c.w)
     ELSE Ends(c.w, env, Normal)
ForNum(s, env, va, w, i) ==   \* i: index, limit, step
  LET r == Block(s[6], Bound(w, env, <<s[2]>>), va, Bind(w, <<s[2]>>, <<i[1]>>))
      in == IF i[3][2] > 0 THEN i[1][2] <= i[2][2] ELSE i[1][2] >= i[2][2]
  IN IF ~in THEN Ends(w, env, Normal)
     ELSE IF Goes(r) THEN ForNum(s, env, va, r.w, [i EXCEPT ![1][2] = @ + i[3][2]])
     ELSE [Left(r) EXCEPT !.env = env]
ForIn(s, env, va, w, f) ==    \* f: iterator, state, control
  LET a == Apply(f[1], <<f[2], f[3]>>, w)
      r == Block(s[4], Bound(a.w, env, s[2]), va, Bind(a.w, s[2], a.vs))
  IN IF ~Running(a.w) \/ First(a.vs) = MNil THEN Ends(a.w, env, Normal)
     ELSE IF Goes(r) THEN ForIn(s, env, va, r.w, [f EXCEPT ![3] = First(a.vs)])
     ELSE [Left(r) EXCEPT !.env = env]
If(s, i, env, va, w) ==
  LET c == Eval1(s[2][i], env, va, w)
  IN IF i > Len(s[2])
       THEN IF i > Len(s[3]) THEN Ends(w, env, Normal) ELSE Block(s[3][i], env, va, w)
     ELSE IF ~Running(c.w) THEN Ends(c.w, env, Normal)
     ELSE IF MFalse(First(c.vs)) THEN If(s, i + 1, env, va, c.w)
     ELSE Block(s[3][i], env, va, c.w)

ExecStat(s, env, va, w) ==
  LET k == s[1]
      Values(es) == EvalList(es, env, va, w)
      After(r, e, sig) == Ends(r.w, e, IF Running(r.w) THEN sig ELSE Normal)
      vs == Values(s[3])
      p == Places(s[2], env, va, w)
      pv == EvalList(s[3], env, va, p.w)
      fn == Bound(w, env, <<s[2]>>)
      lf == NewFn(Bind(w, <<s[2]>>, << >>), s[3][2], s[3][3], s[3][4], fn)
      abc == Values(<<s[3], s[4], s[5]>>)
  IN CASE k = "local" -> IF Running(vs.w)
                           THEN Ends(Bind(vs.w, s[2], vs.vs), Bound(vs.w, env, s[2]), Normal)
                           ELSE Ends(vs.w, env, Normal)
       [] k = "localfunction" ->
            Ends([lf.w EXCEPT !.cells[Len(lf.w.cells)] = First(lf.vs)], fn, Normal)
       [] k = "assign" -> Ends(IF Running(pv.w) THEN Assign(pv.w, p.vs, Take(pv.vs, Len(p.vs)))
                               ELSE pv.w, env, Normal)
       [] k = "call" -> Ends(Eval(s[2], env, va, w).w, env, Normal)
       [] k = "do" -> Block(s[2], env, va, w)
       [] k = "while" -> While(s, env, va, w)
       [] k = "repeat" -> Repeat(s, env, va, w)
       [] k = "if" -> If(s, 1, env, va, w)
       [] k = "fornum" -> IF ~Running(abc.w) THEN Ends(abc.w, env, Normal)
                          ELSE IF \A i \in 1..3 : Take(abc.vs, 3)[i][1] = "int"
                            THEN ForNum(s, env, va, abc.w, Take(abc.vs, 3))
                            ELSE Ends(Stop(abc.w, "error"), env, Normal)
       [] k = "forin" -> IF Running(vs.w) THEN ForIn(s, env, va, vs.w, Take(vs.vs, 3))
                         ELSE Ends(vs.w, env, Normal)
       [] k = "return" -> LET r == Values(s[2])
                          IN Ends(r.w, env, IF Running(r.w) THEN <<"return", r.vs>> ELSE Normal)
       [] k = "break" -> Ends(w, env, <<"break">>)
       [] k = "goto" -> Ends(w, env, s)
       [] OTHER -> Ends(w, env, Normal)

Meaning(b, feed) ==
  LET w == [cells |-> << >>, fns |-> << >>, feed |-> feed, log |-> << >>, st |-> "run",
            left |-> MaxStatements, heap |-> <<[k \in {<<"str", "f">>, <<"str", "g">>} |-> <<"ext", k[2]>>]>>]
      r == Exec(b, 1, << >>, << >>, w)
      values == IF r.sig[1] = "return" THEN r.sig[2] ELSE << >>
  IN [log |-> r.w.log, st |-> IF Running(r.w) THEN "done" ELSE r.w.st,
      results |-> IF Running(r.w) THEN [i \in DOMAIN values |-> Visible(values[i])] ELSE << >>]

(***************************************************************************)
(* How a program is written: its tokens.  An operand has parentheses where *)
(* the precedence of the manual (3.4.8) calls for them.                    *)
(***************************************************************************)
Level(e) == CASE e[1] = "or" -> 1 [] e[1] = "and" -> 2
              [] e[1] = "binop" -> (CASE e[2] = ".." -> 4 [] e[2] \in {"+", "-"} -> 5 [] OTHER -> 3)
              [] e[1] = "unop" -> 6 [] OTHER -> 7
RightAssociative(e) == e[1] = "binop" /\ e[2] = ".."
Tok(k) == <<<<k, 0>>>>
RECURSIVE Tokens(_), Written(_), TokenList(_), Fields(_)
Parens(e, need) == IF need THEN Tok("(") \o Written(e) \o Tok(")") ELSE Written(e)
TokenList(es) == IF es = << >> THEN << >>
                 ELSE Written(es[1]) \o (IF Len(es) = 1 THEN << >> ELSE Tok(",") \o TokenList(Tail(es)))
NameList(ns) == TokenList([i \in DOMAIN ns |-> <<"name", ns[i]>>])
Fields(fs) ==
  LET f == fs[1]
      this == IF f[1] = "item" THEN Written(f[2])
              ELSE (IF f[2][1] = "string" THEN <<<<"name", f[2][2]>>>>
                    ELSE Tok("[") \o Written(f[2]) \o Tok("]")) \o Tok("=") \o Written(f[3])
  IN IF fs = << >> THEN << >> ELSE this \o (IF Len(fs) = 1 THEN << >> ELSE Tok(",") \o Fields(Tail(fs)))
Prefix(e) == Parens(e, e[1] \notin {"name", "index", "call", "method", "paren"})
Body(pars, vararg, b) ==
  Tok("(") \o NameList(pars) \o (IF vararg /\ pars # << >> THEN Tok(",") ELSE << >>)
           \o (IF vararg THEN Tok("...") ELSE << >>) \o Tok(")") \o Tokens(b) \o Tok("end")
Written(e) ==
  LET k == e[1]
      op == IF k = "binop" THEN e[2] ELSE k
      l == Parens(e[3], Level(e[3]) < Level(e) \/ (Level(e[3]) = Level(e) /\ RightAssociative(e)))
      r == Parens(e[4], Level(e[4]) < Level(e) \/ (Level(e[4]) = Level(e) /\ ~RightAssociative(e)))
  IN CASE k \in {"nil", "true", "false", "..."} -> Tok(k)
       [] k \in {"int", "string", "name"} -> <<e>>
       [] k = "paren" -> Tok("(") \o Written(e[2]) \o Tok(")")
       [] k = "unop" -> Tok(e[2]) \o Parens(e[3], Level(e[3]) < 6)
       [] k \in {"binop", "and", "or"} -> l \o Tok(op) \o r
       [] k = "index" -> Prefix(e[2]) \o (IF e[3][1] = "string"
                           THEN Tok(".") \o <<<<"name", e[3][2]>>>>
                           ELSE Tok("[") \o Written(e[3]) \o Tok("]"))
       [] k = "call" -> Prefix(e[2]) \o Tok("(") \o TokenList(e[3]) \o Tok(")")
       [] k = "method" -> Prefix(e[2]) \o <<<<":", 0>>, <<"name", e[3]>>>>
                            \o Tok("(") \o TokenList(e[4]) \o Tok(")")
       [] k = "function" -> Tok("function") \o Body(e[2], e[3], e[4])
       [] OTHER -> Tok("{") \o Fields(e[2]) \o Tok("}")
RECURSIVE IfParts(_, _)
IfParts(s, i) ==
  IF i > Len(s[2]) THEN IF i > Len(s[3]) THEN << >> ELSE Tok("else") \o Tokens(s[3][i])
  ELSE Tok(IF i = 1 THEN "if" ELSE "elseif") \o Written(s[2][i]) \o Tok("then")
         \o Tokens(s[3][i]) \o IfParts(s, i + 1)
Line(s) ==
  LET k == s[1] IN
  CASE k = "local" -> Tok("local") \o NameList(s[2])
                        \o (IF s[3] = << >> THEN << >> ELSE Tok("=") \o TokenList(s[3]))
    [] k = "localfunction" -> <<<<"local", 0>>, <<"function", 0>>, <<"name", s[2]>>>>
                                \o Body(s[3][2], s[3][3], s[3][4])
    [] k = "assign" -> TokenList(s[2]) \o Tok("=") \o TokenList(s[3])
    [] k = "call" -> Written(s[2])
    [] k = "do" -> Tok("do") \o Tokens(s[2]) \o Tok("end")
    [] k = "while" -> Tok("while") \o Written(s[2]) \o Tok("do") \o Tokens(s[3]) \o Tok("end")
    [] k = "repeat" -> Tok("repeat") \o Tokens(s[2]) \o Tok("until") \o Written(s[3])
    [] k = "if" -> IfParts(s, 1) \o Tok("end")
    [] k = "fornum" -> <<<<"for", 0>>, <<"name", s[2]>>, <<"=", 0>>>> \o TokenList(<<s[3], s[4], s[5]>>)
                         \o Tok("do") \o Tokens(s[6]) \o Tok("end")
    [] k = "forin" -> Tok("for") \o NameList(s[2]) \o Tok("in") \o TokenList(s[3])
                        \o Tok("do") \o Tokens(s[4]) \o Tok("end")
    [] k = "return" -> Tok("return") \o TokenList(s[2])
    [] k = "goto" -> <<<<"goto", 0>>, <<"name", s[2]>>>>
    [] k = "label" -> <<<<"::", 0>>, <<"name", s[2]>>, <<"::", 0>>>>
    [] OTHER -> Tok(k)
Tokens(b) == IF b = << >> THEN << >> ELSE Line(b[1]) \o Tokens(Tail(b))
Chunk(b) == Tokens(b) \o Tok("eos")
=============================================================================

---------------------------- MODULE MCLuaCompile ----------------------------
(***************************************************************************)
(* Programs are compiled and run with what their external functions return *)
(* (a feed), and compared with what the manual says that they mean.        *)
(***************************************************************************)
EXTENDS LuaParser, LuaVM, FiniteSets
CONSTANT MaxStatements
Ref == INSTANCE LuaMeaning

(***************************************************************************)
(* Families of programs                                                    *)
(***************************************************************************)
NilE == <<"nil">>
FalseE == <<"false">>
VarArg == <<"...">>
I(i) == <<"int", i>>
S(x) == <<"string", x>>
N(x) == <<"name", x>>
Call(f, args) == <<"call", f, args>>
f(args) == Call(N("f"), args)
Fn(pars, b) == <<"function", pars, FALSE, b>>
Dot(t, x) == <<"index", t, S(x)>>
Sub(t, k) == <<"index", t, k>>
Bin(op, a, b) == IF op \in {"and", "or"} THEN <<op, op, a, b>> ELSE <<"binop", op, a, b>>
Not(a) == <<"unop", "not", a>>
Local(x, e) == <<"local", <<x>>, <<e>>>>
Set(t, e) == <<"assign", <<t>>, <<e>>>>
Do(e) == <<"call", e>>
If(c, b) == <<"if", <<c>>, <<b>>>>
Goto(l) == <<"goto", l>>
Label(l) == <<"label", l>>
Break == <<"break">>

\* Conditions and values, in every place that the code generator treats in its own way.
Leaves == {FalseE, I(1), N("a"), f(<<>>)}
Pairs == {Bin(op, l, r) : op \in {"and", "or", "=="}, l \in Leaves, r \in Leaves \ {I(1)}}
         \cup {Bin(op, l, I(2)) : op \in {"<", ">="}, l \in {I(1), N("a")}}
Trees == UNION {{Bin(op, x, l), Bin(op, l, x), Not(Bin(op, x, l)), Bin(op, Not(x), l)} :
                  op \in {"and", "or"}, x \in Pairs, l \in {FalseE, N("a"), f(<<>>)}}
Places == {<< <<"return", <<e>>>> >> : e \in Trees}
          \cup {<< Set(N("a"), e), Do(f(<<N("a")>>)) >> : e \in Trees}
          \cup {<< <<"if", <<e>>, << <<Do(f(<<I(1)>>))>>, <<Do(f(<<I(2)>>))>> >>>> >> : e \in Trees}
          \cup {<< <<"repeat", <<Do(f(<<I(1)>>))>>, e>> >> : e \in Trees}
Expressions == {<< Local("a", f(<<>>)) >> \o p : p \in Places}

\* Jumps, labels and locals that closures outlive, in every kind of block.
Closure == Set(N("c"), Fn(<<>>, << <<"return", <<N("b")>>>> >>))
KeepFirst == If(Not(N("c")), <<Closure>>)
Atoms == {Goto("l"), Label("l"), Local("b", f(<<I(2)>>)), Closure, If(f(<<>>), <<Goto("l")>>)}
Inner == {<<x, y, z>> : x, y, z \in Atoms} \cup {<<w, Local("b", f(<<I(2)>>)), KeepFirst, y, z>> :
            w \in {Label("l"), Local("d", I(0))}, y \in Atoms \cup {If(f(<<>>), <<Break>>)},
            z \in Atoms \cup {Break}}
Wrapped(b) == {b, <<<<"do", b>>>>, <<<<"while", f(<<>>), b>>>>, <<<<"repeat", b, f(<<N("b")>>)>>>>,
               <<<<"do", <<<<"do", b>>, Label("l")>>>>>>, <<<<"fornum", "b", I(1), I(2), I(1), b>>>>}
Around(b) == << Local("a", f(<<>>)) >> \o b
             \o << Local("z", I(7)), If(N("c"), <<Do(f(<<Call(N("c"), <<>>)>>))>>) >>
Blocks == {Around(b) : b \in UNION {Wrapped(i) : i \in Inner}}
          \cup {Around(b \o <<Label("l")>>) : b \in UNION {Wrapped(i) : i \in Inner}}

\* An "if" part that starts with a goto, and goes on after the label of this goto.
ThenLabel == << If(f(<<>>), << Goto("l"), Label("l"), Do(f(<<I(1)>>)) >>) >>

\* Several values: assignments, constructors, arguments, results.
Many == {<<>>, <<I(1)>>, <<f(<<>>)>>, <<I(1), f(<<>>)>>, <<f(<<>>), N("a")>>,
         <<VarArg>>, <<I(1), N("a"), VarArg>>, <<<<"paren", f(<<>>)>>>>,
         <<I(1), I(2), I(3), N("a")>>, <<N("a"), I(2), I(3), I(4), I(5), f(<<>>)>>}
Lefts == {<<N("a")>>, <<N("a"), N("g")>>, <<N("t"), Dot(N("t"), "x")>>,
            <<Sub(N("t"), N("a")), N("a")>>, <<Dot(N("t"), "x"), N("t")>>,
            <<N("a"), Sub(N("t"), N("a")), N("g")>>,
            <<Sub(Dot(N("t"), "x"), I(1)), N("t"), Dot(N("t"), "x")>>}
Item(e) == <<"item", e>>
Rec(k, e) == <<"rec", k, e>>
TableOf(q) == <<"table", [i \in DOMAIN q |-> Item(q[i])]>>
SeveralOf(q) ==
  {<< <<"local", <<"p", "q", "r">>, q>>, Do(f(<<N("p"), N("q"), N("r")>>)) >>,
   << Do(f(q)), Do(Call(N("f"), <<I(9)>> \o q)) >>,
   << Local("u", TableOf(q)), Do(f(<<<<"unop", "#", N("u")>>, Sub(N("u"), I(2)), Sub(N("u"), I(5))>>)) >>,
   << Local("u", <<"table", <<Rec(S("x"), N("a")), Item(I(4)), Rec(Bin("==", N("a"), I(1)), I(3))>> \o TableOf(q)[2]>>),
      Do(f(<<Dot(N("u"), "x"), Sub(N("u"), I(2)), Sub(N("u"), Bin("==", N("a"), I(1)))>>)) >>,
   << Do(f(<<Call(<<"function", <<"x", "y">>, TRUE, << <<"return", <<N("y"), VarArg>>>> >>>>, q)>>)) >>,
   << <<"localfunction", "h", Fn(<<"x">>, << If(Bin("==", N("x"), I(1)), << <<"return", q>> >>),
         <<"return", <<Call(N("h"), <<I(1), N("x")>>)>>>> >>)>>, Do(f(<<Call(N("h"), <<I(0)>>), I(6)>>)) >>}
\* "..." stands in the chunk, or in a function, which it is not a part of.
Several == {<< Local("a", f(<<>>)) >> \o b :
              b \in UNION {SeveralOf(q) : q \in {m \in Many : VarArg \notin {m[i] : i \in DOMAIN m}}}}
           \cup {<< Local("a", f(<<>>)), Do(f(<<Call(<<"function", <<"x">>, TRUE, b>>,
                     <<I(1), f(<<>>)>>)>>)) >> :
                   b \in UNION {{<< <<"return", q>> >>,
                                 << <<"local", <<"p", "q", "r">>, q>>, Do(f(<<N("p"), N("q"), N("r")>>)) >>,
                                 << Do(f(q)), <<"return", <<f(q)>>>> >>,
                                 << Local("u", TableOf(q)), <<"return", <<Sub(N("u"), I(2))>>>> >>} : q \in Many}}
Assignments ==
  {<< <<"local", <<"a", "t">>, <<f(<<>>), <<"table", <<Rec(S("x"), <<"table", <<>>>>)>>>>>>>>, Set(N("o"), N("t")) >>
     \o w \o << Do(f(<<N("a"), N("g"), Sub(N("o"), I(1)), Sub(N("o"), I(2)), Dot(N("o"), "x")>>)) >> :
     w \in UNION {{<< <<"assign", t, q>> >>, << Local("h", Fn(<<>>, << <<"assign", t, q>> >>)), Do(Call(N("h"), <<>>)) >>} :
                    t \in Lefts, q \in {m \in Many \ {<<>>} : VarArg \notin {m[i] : i \in DOMAIN m}}}}

\* Loops and functions.
Bump == Set(N("n"), Bin("+", N("n"), I(1)))
Counter == << Local("n", I(0)), Set(N("c"), Fn(<<>>, <<Bump, <<"return", <<N("n")>>>>>>)),
              Set(N("d"), Fn(<<>>, <<Set(N("n"), Bin("-", N("n"), I(2)))>>)) >>
InLoop == {<< Do(f(<<N("i")>>)) >>, << Set(N("c"), Fn(<<>>, << <<"return", <<N("i")>>>> >>)) >>,
           << If(N("c"), <<Break>>), Set(N("c"), Fn(<<>>, << <<"return", <<N("i")>>>> >>)) >>,
           << <<"local", <<"k">>, <<>>>>, Set(N("k"), Fn(<<>>, << <<"return", <<N("k"), N("i")>>>> >>)),
              Do(f(<<Call(N("k"), <<>>)>>)), Set(N("i"), I(8)), Do(f(<<Call(N("k"), <<>>)>>)) >>}
LoopsOf(b) == {<<"fornum", "i", x, y, z, b>> : x \in {I(1), I(3)}, y \in {I(2), I(1), f(<<>>)},
                                             z \in {I(1), <<"unop", "-", I(1)>>}}
            \cup {<<"forin", <<"i">>, <<N("f"), N("a")>>, b>>, <<"forin", <<"i", "j", "k">>, <<N("f")>>, b>>,
                  <<"forin", <<"i", "j">>, <<f(<<>>)>>, b>>}
Functions ==
  {<< Local("a", I(5)), l >> \o <<If(N("c"), <<Do(f(<<Call(N("c"), <<>>)>>))>>)>> : l \in UNION {LoopsOf(b) : b \in InLoop}}
  \cup {Counter \o << Do(f(<<Call(N("c"), <<>>), Call(N("c"), <<>>)>>)), Do(Call(N("d"), <<>>)), u,
                      Do(f(<<N("n"), Call(N("c"), <<>>)>>)) >> :
          u \in {Bump, Label("l"), <<"do", Counter>>, Set(N("n"), Bin("..", N("n"), Bin("..", S("x"), f(<<>>))))}}
  \cup {<< Local("t", <<"table", <<Rec(S("v"), I(3))>>>>),
           Set(Dot(N("t"), "m"), Fn(<<"self", "x">>, << <<"return", <<Dot(N("self"), "v"), N("x")>>>> >>)),
           Do(f(<<<<"method", e, "m", <<f(<<>>)>>>>>>)) >> : e \in {N("t"), <<"paren", N("t")>>, I(1)}}
Nils == << If(f(<<>>), << <<"local", <<"x">>, <<>>>> >>), <<"local", <<"y", "z">>, <<>>>>,
           Do(f(<<N("y"), N("z")>>)) >>
\* A closure outlives the call that made it.
Escapes == {<< <<"localfunction", "k", Fn(<<"x">>, << <<"return", <<N("x"), N("x")>>>> >>)>>,
               <<"localfunction", "h", Fn(<<"x">>, << Set(N("c"), Fn(<<>>, << <<"return", <<N("x")>>>> >>)), <<"return", e>> >>)>>,
               Do(f(<<Call(N("h"), <<I(3)>>)>>)), Do(f(<<I(4), I(5), I(6)>>)), Do(f(<<Call(N("c"), <<>>)>>)) >> :
              e \in {<<N("x")>>, <<Call(N("k"), <<I(2)>>)>>, <<f(<<>>)>>}}
\* More locals than registers.
Wide == {<< <<"local", [i \in 1..n |-> "v"], <<>>>>, Do(f(<<N("v"), N("v"), N("v")>>)) >> : n \in 1..MAXREGS}

Families == [conditions |-> Expressions, blocks |-> Blocks, values |-> Several, assignments |-> Assignments,
             functions |-> Functions, others |-> Escapes \cup Wide \cup {Nils}]
Feeds == {<< <<Number(1), Number(2)>>, <<>>, <<Bool(FALSE), Number(4)>>, <<Number(3)>> >>,
          << <<Number(1)>>, <<Number(2)>>, <<>>, <<Number(3)>>, <<Bool(TRUE)>>, <<Number(5)>>, <<Number(6)>> >>,
          << <<>>, <<Number(2), Number(3), Number(4)>>, <<Bool(TRUE)>>, <<Number(1)>>, <<>>, <<>> >>}

(***************************************************************************)
(* A step chooses one program of a family, which is compiled and run       *)
(***************************************************************************)
VARIABLE program
Family(n) == program = << <<"family", n>> >>
Init == \E n \in DOMAIN Families : Family(n)
Next == \E n \in DOMAIN Families : Family(n) /\ program' \in Families[n]
Spec == Init /\ [][Next]_program
\* For the shape that the families leave out.
SpecThenLabel == Family("others") /\ [][program' = ThenLabel]_program
Compiled(p) ==
  LET s == mainfunc(Ref!Chunk(p))
  IN [err |-> s.err, failed |-> s.failed, proto |-> Proto(s.fs[1])]

(***************************************************************************)
(* Properties                                                              *)
(***************************************************************************)
\* A compiled program does what it means: it makes the same external calls with the same
\* arguments, and returns or fails in the same way.
CompiledRight == [][\A p \in {program'} : \A compiled \in {Compiled(p)} :
  ~compiled.err => \A feed \in Feeds : luaV_execute(compiled.proto, feed) = Ref!Meaning(p, feed)]_program
\* What the manual forbids is a syntax error; what it allows is compiled, unless it needs more
\* registers than there are.
LegalCompiles == [][\A p \in {program'} : \A compiled \in {Compiled(p)} :
  IF Ref!Legal(p) THEN compiled.err => p \in Wide ELSE compiled.err]_program

\* The code holds together: its registers exist, its jumps stay in it, a test is followed by
\* its jump, and an open list of values by the instruction that takes it.  The assertions of
\* the compiler held.
RECURSIVE WellFormed(_)
WellFormed(p) ==
  /\ \A i \in DOMAIN p.code : LET c == p.code[i]
                                  Next2 == p.code[i + 1] IN
       /\ c.op \in {"JMP", "FORPREP", "FORLOOP", "TFORLOOP"} => i + 1 + c.b \in DOMAIN p.code
       /\ c.op \in TestMode => Next2.op = "JMP"
       /\ c.op \notin {"JMP", "SETTABUP", "EQ", "LT", "LE", "EXTRAARG"} => c.a < p.maxstacksize
       /\ c.op \in {"MOVE", "ADD", "SUB", "EQ", "LT", "LE", "SELF", "GETTABLE", "TESTSET", "NOT"} =>
            ISK(c.b) \/ c.b < p.maxstacksize
       /\ (c.op = "CALL" /\ c.c = 0) \/ (c.op = "VARARG" /\ c.b = 0) =>
            Next2.op \in {"CALL", "TAILCALL", "RETURN", "SETLIST"} /\ Next2.b = 0 /\ Next2.a <= c.a
       /\ c.op = "TFORCALL" => Next2.op = "TFORLOOP"
  /\ p.code[Len(p.code)].op = "RETURN"
  /\ \A i \in DOMAIN p.p : WellFormed(p.p[i])
CodeHolds == [][\A p \in {program'} : \A compiled \in {Compiled(p)} :
  ~compiled.err => compiled.failed = {} /\ WellFormed(compiled.proto)]_program
=============================================================================

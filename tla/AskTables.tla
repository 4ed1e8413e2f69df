----------------------------- MODULE AskTables -----------------------------
(***************************************************************************)
(* Questions to the table library, and about references.                   *)
(***************************************************************************)
EXTENDS Asking, TLC
LOCAL INSTANCE SequencesExt
LOCAL Aux == INSTANCE LuaAux WITH LUAL_BUFFERSIZE <- 2, MAX_SIZET <- 15, MAXSIZE <- 7, Memory <- 15
TabLib == INSTANCE LuaTabLib WITH LUA_MAXINTEGER <- 7, INT_MAX <- 6, StackFree <- 4, RANLIMIT <- 4,
                                  Unbalanced <- 1, Nil <- "nil"
Int64 == TabLib!Int64
Absent == [i \in Int64 |-> "nil"]
ListOf(n) == [i \in Int64 |-> IF i \in 1..n THEN <<i>> ELSE "nil"]
Full == [i \in Int64 |-> <<i>>]
\* Order functions: the orders of three values, where some may be equal, and all relations.
Rel(A) == SUBSET (A \X A)
Orders == {{<<x, y>> \in (1..3) \X (1..3) : f[x] < f[y]} : f \in [1..3 -> 1..3]}


AskInsert == \E n \in 0..7, pos \in Int64, t \in {ListOf(3), Full} :
  \/ question' = <<"insert", t, n, pos>>
  \/ pos = 1 /\ question' = <<"append", t, n>>
  \/ question' = <<"remove", t, n, pos>>
AskMove == \E f, e, t \in Int64, same \in BOOLEAN :
  question' = <<"move", same, f, e, t>>
AskUnpack == \E i, e \in Int64, m \in 0..4 :
  \/ question' = <<"unpack", i, e>>
  \/ question' = <<"concat", ListOf(m), i, e>>
  \/ question' = <<"tpack", m>>
AskSort ==
  \/ \E Lt \in Orders, n \in 0..6 : \E a \in [1..n -> 1..3], Rnd \in {0, 5} :
       question' = <<"sort", Lt, a, Rnd>>
  \/ \E Lt \in Rel(1..2), n \in 0..7 : \E a \in [1..n -> 1..2] :
       question' = <<"disorder", Lt, a, 3>>
  \/ \E Lt \in Rel(1..3), a \in [1..4 -> 1..3] :
       question' = <<"disorder", Lt, a, 0>>

Holding == {<<"ref", v>> : v \in {<<"a">>, <<"b">>, <<"nil">>}} \cup {<<"unref", r>> : r \in -1..3}
AskRefs == \E calls \in Words(Holding, 5) : question' = <<"references", calls>>

TableAfter(answer, f(_)) == answer.err = "" /\ answer.t = [i \in Int64 |-> f(i)]
Values(t, from, to) == [k \in 1..to - from + 1 |-> t[from + k - 1]]
InsertRight(asked, answer) == LET t == asked[2]  n == asked[3]  pos == asked[4] IN
  IF n = 7 \/ pos < 1 \/ pos > n + 1 THEN answer.err # "" /\ answer.t = t
  ELSE TableAfter(answer, LAMBDA i : IF i = pos THEN "new" ELSE IF i \in pos + 1..n + 1 THEN t[i - 1] ELSE t[i])
RemoveRight(asked, answer) == LET t == asked[2]  n == asked[3]  pos == asked[4] IN
  IF pos # n /\ (n = 7 \/ pos < 1 \/ pos > n + 1) THEN answer.err # "" /\ answer.t = t
  ELSE /\ answer.res = <<t[pos]>>
       /\ TableAfter(answer, LAMBDA i : IF i = Most(n, pos) THEN "nil" ELSE IF i \in pos..n - 1 THEN t[i + 1] ELSE t[i])
\* move copies a[f..e] as it was, also when source and destination overlap, and never wraps around.
MoveRight(asked, answer) == LET same == asked[2]  f == asked[3]  e == asked[4]  t == asked[5]  n == e - f + 1
                 old(i) == IF same THEN Full[i] ELSE "nil" IN
  IF n > 0 /\ (n > 7 \/ t + n - 1 > 7) THEN answer.err # ""
  ELSE TableAfter(answer, LAMBDA i : IF i \in t..t + n - 1 THEN Full[f + (i - t)] ELSE old(i))
UnpackRight(asked, answer) == LET i == asked[2]  e == asked[3] IN
  IF e - i + 1 > 4 THEN answer.err # "" ELSE answer.res = Values(Full, i, e)
RECURSIVE Joined(_, _, _)
Joined(t, i, e) == IF i > e THEN << >> ELSE IF i = e THEN <<t[i]>> ELSE <<t[i], "sep">> \o Joined(t, i + 1, e)
ConcatRight(asked, answer) == LET t == asked[2]  i == asked[3]  e == asked[4] IN
  IF \E k \in i..e : t[k] = "nil" THEN answer.err # "" ELSE answer.err = "" /\ answer.res = Joined(t, i, e)
\* insert, remove, move, unpack and concat at and around every integer: shifted by one, errors
\* instead of positions that wrap around, and nothing else changed.
TableRight(asked) ==
  /\ asked[1] = "insert" => InsertRight(asked, TabLib!tinsertAt(asked[2], asked[3], asked[4], "new"))
  /\ asked[1] = "append" => TabLib!tinsert(asked[2], asked[3], "new").t = [asked[2] EXCEPT ![IF asked[3] = 7 THEN -8 ELSE asked[3] + 1] = "new"]
  /\ asked[1] = "remove" => RemoveRight(asked, TabLib!tremove(asked[2], asked[3], asked[4]))
  /\ asked[1] = "move" =>
       MoveRight(asked, TabLib!tmove(Full, IF asked[2] THEN Full ELSE Absent, asked[2], asked[3], asked[4], asked[5]))
  /\ asked[1] = "unpack" => UnpackRight(asked, TabLib!unpack(Full, asked[2], asked[3]))
  /\ asked[1] = "concat" => ConcatRight(asked, TabLib!tconcat(asked[2], <<"sep">>, asked[3], asked[4]))
  /\ asked[1] = "tpack" => TabLib!pack([k \in 1..asked[2] |-> <<k>>]) = ListOf(asked[2])
\* sort orders the list if the function is an order, and does not lose a value or look outside the
\* list whatever the function is.
Times(a, x) == Cardinality({i \in DOMAIN a : a[i] = x})
SortRight(asked) == (asked[1] = "sort" \/ asked[1] = "disorder") =>
  LET Lt == asked[2]  a == asked[3]  answer == TabLib!sort(Lt, a, asked[4]) IN
  /\ DOMAIN answer.a = DOMAIN a /\ \A x \in 1..3 : Times(answer.a, x) = Times(a, x)
  /\ asked[1] = "sort" => answer.err = "" /\ \A i, j \in DOMAIN a : i < j => <<answer.a[j], answer.a[i]>> \notin Lt
\* A reference that the caller holds is its own and keeps its value; the others hold none, and no
\* more are in use than were at the same time.  The caller gives back only what it holds.
Refs0 == [t |-> [i \in 0..6 |-> Aux!Nil], live |-> << >>, most |-> 0, right |-> TRUE]
RefCall(R, c) ==
  LET made == Aux!luaL_ref(R.t, c[2])
      live == IF c[1] = "ref" THEN (made[2] :> c[2]) @@ R.live
              ELSE [r \in DOMAIN R.live \ {c[2]} |-> R.live[r]]
      t == IF c[1] = "ref" THEN made[1] ELSE Aux!luaL_unref(R.t, c[2])
      most == Most(R.most, Cardinality(DOMAIN live \ {Aux!LUA_REFNIL}))
  IN IF c[1] = "unref" /\ c[2] \notin DOMAIN R.live THEN R
     ELSE [t |-> t, live |-> live, most |-> most,
           right |-> /\ R.right
                     /\ c[1] = "ref" => made[2] = Aux!LUA_REFNIL \/ made[2] \notin DOMAIN R.live
                     /\ \A r \in DOMAIN live \ {Aux!LUA_REFNIL} : r \in 1..most /\ t[r] = live[r]
                     /\ \A i \in 0..6 \ DOMAIN live : t[i][1] \in {"nil", "int"}]
RefsRight(calls) == FoldLeft(RefCall, Refs0, calls).right
\* The table library does what the manual says, at every position and with every order, and
\* references are not lost, shared or leaked.
TablesRight == [][\A asked \in {question'} :
  TableRight(asked) /\ SortRight(asked) /\ (asked[1] = "references" => RefsRight(asked[2]))]_question
=============================================================================

---------------------------- MODULE AskNumbers ----------------------------
(***************************************************************************)
(* Questions about comparison, conversion, arithmetic and numeric for      *)
(* loops, with integers of 5 bits, of which bit32 has 4, and floats with   *)
(* a mantissa of 3; and about operations with metamethods that yield or    *)
(* do not.                                                                 *)
(***************************************************************************)
EXTENDS Asking
Num == INSTANCE LuaMathLib WITH NBITS <- 5, NBM <- 3, LUA_NBITS <- 4, RANDOMS <- 64
Ints == Num!LUA_MININTEGER..Num!LUA_MAXINTEGER
Halves == {-72, -66, -64, -62, -50, -6, -4, -2, 0, 1, 2, 4, 6, 10, 32, 36, 48, 56, 62, 64, 72}
Floats == {Num!Round(q) : q \in Halves} \cup {Num!Inf, -Num!Inf, Num!NaN}
I(i) == <<"int", i>>
F(q) == <<"float", q>>
Numbers == {I(i) : i \in Ints} \cup {F(q) : q \in Floats}
Signs == {<< >>, <<"-">>, <<"+">>}
Numerals == {<<"d", sp, sign, ds, fr>> : sp \in BOOLEAN, sign \in Signs, fr \in BOOLEAN,
               ds \in {<<0>>, <<7>>, <<1, 5>>, <<1, 6>>, <<1, 7>>, <<0, 1, 5>>, <<2, 0>>, <<3, 1>>, <<3, 2>>, <<4, 7>>, <<1, 0, 1>>}}
            \cup {<<"x", sp, sign, ds, FALSE>> : sp \in BOOLEAN, sign \in Signs, ds \in {<<0>>, <<10>>, <<1, 15>>, <<2, 0>>, <<15, 15>>}}
Digit(d) == Num!Digits[d + 1]
NumeralText(x) == (IF x[2] THEN <<" ">> ELSE << >>) \o x[3] \o (IF x[1] = "x" THEN <<"0", "x">> ELSE << >>)
              \o [i \in DOMAIN x[4] |-> Digit(x[4][i])] \o (IF x[5] THEN <<".", "5">> ELSE << >>) \o (IF x[2] THEN <<" ">> ELSE << >>)
Odd == {<< >>, <<" ">>, <<"-">>, <<"1", " ", "1">>, <<"0", "x">>, <<"n">>, <<"1", "x">>, <<"-", "-", "1">>}
Str(s) == <<"string", s>>
Limits == Numbers \cup {Str(NumeralText(x)) : x \in {y \in Numerals : ~y[2]}} \cup {Str(<<"n">>)}
Zeros == UNION {[1..n -> {"\\0", "1", "2"}] : n \in 0..3}

AskCompare == \E l, r \in Numbers :
  question' = <<"compare", l, r>>
AskStrings == \E l, r \in Zeros : question' = <<"strings", l, r>>
AskNumeral ==
  \/ \E x \in Numerals : question' = <<"numeral", x>>
  \/ \E s \in Odd : question' = <<"odd", s>>
  \/ \E v \in Numbers, mode \in 0..2 : question' = <<"tointeger", v, mode>>
Operators == {"+", "-", "*", "%", "//", "&", "|", "~", "<<", ">>"}
FloatOps == {"+", "-", "%", "&"}
AskArith ==
  \/ \E op \in Operators, m, n \in Ints : question' = <<"arith", op, m, n>>
  \/ \E op \in FloatOps, l, r \in Numbers : /\ l[1] = "float" \/ r[1] = "float"
       /\ question' = <<"floats", op, l, r>>
AskSize == \E x \in 1..600 : question' = <<"size", x>>
First == 40
AskLoop == \E init, step \in Numbers, limit \in Limits :
  /\ init \in {I(i) : i \in {-16, -15, -1, 0, 3, 14, 15}} \cup {F(-2), F(4), F(56)}
  /\ step \in {I(i) : i \in {-16, -3, -1, 1, 2, 15}} \cup {F(2), F(-4)}
  /\ limit # F(Num!NaN)
  /\ question' = <<"loop", init, limit, step>>
\* bit32: a negation of the first integer is none, and a sum must not wrap around.
Counts == Num!LUA_MININTEGER + 1..Num!LUA_MAXINTEGER
AskBits ==
  \/ \E xs \in {<< >>} \cup {<<x>> : x \in Ints} \cup {<<x, y>> : x, y \in Ints} \cup {<<x, 7, -3>> : x \in Ints} :
       question' = <<"bits", xs>>
  \/ \E x \in Ints, d \in Counts :
       question' = <<"shift", x, d>>
  \/ \E x \in Ints, v \in {-16, -3, 5, 10, 15}, f \in -1..5, w \in -1..5 :
       question' = <<"field", x, v, f, w>>
AskMath ==
  \/ \E v \in Numbers : question' = <<"round", v>>
  \/ \E x, y \in Numbers : question' = <<"fmod", x, y>>
  \/ \E low, up \in Ints, k \in {0, 1, 31, 32, 62, 63} :
       question' = <<"random", low, up, k>>
Letters36 == {" ", "-", "0", "1", "7", "f", "n"}
AskBase == \E s \in UNION {[1..n -> Letters36] : n \in 0..3}, base \in {2, 7, 16, 23, 36} :
  question' = <<"base", s, base>>

\* The exact value, in quarters.
Exact(v) == IF v[1] = "int" THEN v[2] * 4 ELSE v[2]
NotNaN(v) == v # F(Num!NaN)
CompareRight(asked, answer) == LET l == asked[2]  r == asked[3]  comparable == NotNaN(l) /\ NotNaN(r) IN
  answer = <<comparable /\ Exact(l) < Exact(r), comparable /\ Exact(l) <= Exact(r), comparable /\ Exact(l) = Exact(r)>>
Rank(c) == IF c = "\\0" THEN 0 ELSE IF c = "1" THEN 1 ELSE 2
Before(x, y) == \/ Len(x) < Len(y) /\ x = SubSeq(y, 1, Len(x))
                \/ \E i \in DOMAIN x \cap DOMAIN y : Rank(x[i]) < Rank(y[i]) /\ \A j \in 1..i - 1 : x[j] = y[j]
StringsRight(asked, answer) == LET l == asked[2]  r == asked[3] IN
  (answer < 0 <=> Before(l, r)) /\ (answer > 0 <=> Before(r, l))
RECURSIVE ValueOf(_, _)
ValueOf(ds, base) == IF ds = << >> THEN 0 ELSE ValueOf(SubSeq(ds, 1, Len(ds) - 1), base) * base + ds[Len(ds)]
NumeralRight(asked, answer) == LET x == asked[2]  n == ValueOf(x[4], IF x[1] = "x" THEN 16 ELSE 10)
                    value == IF x[3] = <<"-">> THEN -n ELSE n
                    quarters == IF x[3] = <<"-">> THEN -(4 * n + 2) ELSE 4 * n + 2 IN
  answer = <<IF x[1] = "x" THEN I(Num!Wrap(value)) ELSE IF x[5] THEN F(Num!Round(quarters))
             ELSE IF value \in Ints THEN I(value) ELSE F(Num!Round(4 * value))>>
TointegerRight(asked, answer) == LET v == asked[2]  mode == asked[3]
   S == {i \in Ints : IF mode = 0 THEN 4 * i = Exact(v)
                      ELSE IF mode = 1 THEN 4 * i <= Exact(v) /\ Exact(v) < 4 * i + 4
                      ELSE 4 * i >= Exact(v) /\ Exact(v) > 4 * i - 4} IN
  \/ NotNaN(v) /\ S # {} /\ answer = <<CHOOSE i \in S : TRUE>>
  \/ (~NotNaN(v) \/ S = {}) /\ answer = << >>
ConvertRight(asked) ==
  /\ asked[1] = "numeral" => NumeralRight(asked, Num!luaO_str2num(NumeralText(asked[2])))
  /\ asked[1] = "odd" => Num!luaO_str2num(asked[2]) = << >>
  /\ asked[1] = "tointeger" => TointegerRight(asked, Num!luaV_tointeger(asked[2], asked[3]))
Floor(a, b) == IF b > 0 THEN a \div b ELSE (-a) \div (-b)
Shifted(m, n) == IF n >= 5 \/ n <= -5 THEN 0 ELSE IF n >= 0 THEN (m % 32) * 2^n ELSE (m % 32) \div 2^(-n)
RECURSIVE Bitwise(_, _, _, _)
Bitwise(op, m, n, k) == IF k = 0 THEN 0 ELSE
  LET a == m % 2  b == n % 2
      c == CASE op = "&" -> a * b [] op = "|" -> a + b - a * b [] op = "~" -> (a + b) % 2
  IN c + 2 * Bitwise(op, m \div 2, n \div 2, k - 1)
ArithRight(asked, answer) == LET op == asked[2]  m == asked[3]  n == asked[4]
                  Value == CASE op = "+" -> m + n [] op = "-" -> m - n [] op = "*" -> m * n
                             [] op = "//" -> Floor(m, n) [] op = "%" -> m - Floor(m, n) * n
                             [] op = "<<" -> Shifted(m, n) [] op = ">>" -> Shifted(m, -n)
                             [] OTHER -> Bitwise(op, m, n, 5) IN
  IF n = 0 /\ op \in {"//", "%"} THEN answer = <<"error">> ELSE answer[1] = "int" /\ answer[2] \in Ints /\ (answer[2] - Value) % 32 = 0
FloatsRight(asked, answer) == LET op == asked[2]  l == asked[3]  r == asked[4]
                   a == Num!luaV_tonumber_(l)[1]  b == Num!luaV_tonumber_(r)[1]
                   finite == {a, b} \cap {Num!Inf, -Num!Inf, Num!NaN} = {}
                   whole == finite /\ Exact(l) % 4 = 0 /\ Exact(r) % 4 = 0 /\ {Exact(l) \div 4, Exact(r) \div 4} \subseteq Ints IN
  IF op = "&" THEN answer = IF whole THEN I(Num!Wrap(Bitwise("&", Exact(l) \div 4, Exact(r) \div 4, 5))) ELSE <<"event">>
  ELSE finite => answer = F(CASE op = "+" -> Num!Round(a + b) [] op = "-" -> Num!Round(a - b)
                              [] OTHER -> IF b = 0 THEN Num!NaN ELSE Num!Round(a - Floor(a, b) * b))
\* The loop of 3.3.5 of the manual, in the arithmetic of the code.
RECURSIVE Manual(_, _, _, _)
Manual(var0, limit, step, n) ==
  LET var == Num!luaO_arith("+", var0, step)
      stop == (Exact(step) >= 0 /\ Exact(var) > Exact(limit)) \/ (Exact(step) < 0 /\ Exact(var) < Exact(limit))
  IN IF n = 0 \/ stop THEN << >> ELSE <<var>> \o Manual(var, limit, step, n - 1)
LoopRight(asked, answer) == LET init == asked[2]  limit == asked[3]  step == asked[4]
                 lim == IF limit[1] = "string" THEN Num!luaO_str2num(limit[2]) ELSE <<limit>>
                 float == init[1] = "float" \/ step[1] = "float" IN
  IF lim = << >> THEN answer = <<"error">>
  ELSE (float /\ Num!Round(Exact(lim[1])) # Exact(lim[1]))     \* the limit is rounded
       \/ answer = Manual(Num!luaO_arith("-", init, step), lim[1], step, First)
\* A size is rounded up to the next one that a floating point byte can hold.
SizeRight(asked) == LET x == asked[2]  fb == Num!luaO_int2fb(x)  log == Num!luaO_ceillog2(x) IN
  /\ Num!luaO_fb2int(fb) >= x /\ (fb > 0 => Num!luaO_fb2int(fb - 1) < x)
  /\ 2^log >= x /\ (log > 0 => 2^(log - 1) < x)
\* bit32 as sets of bits.
Ones(x) == {k \in 0..3 : ((x % 16) \div 2^k) % 2 = 1}
RECURSIVE OfOnes(_)
OfOnes(B) == IF B = {} THEN 0 ELSE LET k == CHOOSE k \in B : TRUE IN 2^k + OfOnes(B \ {k})
Moved(B, d) == {k + d : k \in B} \cap 0..3
BitsRight(asked, answer) == LET xs == asked[2]  N(k) == Cardinality({i \in DOMAIN xs : k \in Ones(xs[i])}) IN
  answer = <<OfOnes({k \in 0..3 : N(k) = Len(xs)}), OfOnes({k \in 0..3 : N(k) > 0}),
             OfOnes({k \in 0..3 : N(k) % 2 = 1}), \E k \in 0..3 : N(k) = Len(xs)>>
ShiftRight(asked, answer) == LET B == Ones(asked[2])  d == asked[3]
                  sign == IF 3 \in B /\ d > 0 THEN {k \in 0..3 : k + d > 3} ELSE {} IN
  answer = <<OfOnes(Moved(B, d)), OfOnes(Moved(B, -d)), OfOnes(Moved(B, -d) \cup sign),
             OfOnes({(k + d) % 4 : k \in B}), OfOnes({(k - d) % 4 : k \in B}), OfOnes(0..3 \ B)>>
FieldRight(asked, answer) == LET f == asked[4]  w == asked[5]  field == f..f + w - 1  B == Ones(asked[2]) IN
  IF f < 0 \/ w < 1 \/ ~(field \subseteq 0..3) THEN answer = << << >>, << >> >>
  ELSE answer = <<<<OfOnes(Moved(B \cap field, -f))>>,
                  <<OfOnes((B \ field) \cup (Moved(Ones(asked[3]), f) \cap field))>>>>
\* The integer below, above or towards zero, as an integer when it is one.
Number(q) == IF q % 4 = 0 /\ q \div 4 \in Ints THEN I(q \div 4) ELSE F(q)
RoundRight(asked, answer) == LET v == asked[2]  q == Exact(v)  up == -((-q) \div 4) * 4  down == (q \div 4) * 4
                  zero == IF q < 0 THEN up ELSE down IN
  IF v[1] = "float" /\ v[2] \in {Num!Inf, -Num!Inf, Num!NaN}
    THEN /\ answer[1] = v /\ answer[2] = v /\ answer[5] = << >>
         /\ answer[3] = <<v, IF NotNaN(v) THEN F(0) ELSE v>>
         /\ answer[4] = IF v[2] = -Num!Inf THEN F(Num!Inf) ELSE v
  ELSE /\ answer[1] = Number(down) /\ answer[2] = Number(up)
       /\ answer[3] = <<Number(zero), F(q - zero)>>
       /\ answer[4] = IF v[1] = "float" THEN F(IF q < 0 THEN -q ELSE q) ELSE I(Num!Wrap(IF q < 0 THEN -v[2] ELSE v[2]))
       /\ answer[5] = IF Number(q)[1] = "int" THEN <<q \div 4>> ELSE << >>
\* The remainder has the sign of x and is smaller than y; what is left is a multiple of y.
FmodRight(asked, answer) == LET x == asked[2]  y == asked[3]  r == answer[1]
                 all == <<x, y, I(3)>>
                 finite == \A v \in {x, y} : v[1] = "int" \/ v[2] \notin {Num!Inf, -Num!Inf, Num!NaN}
                 exact == \A v \in {x, y} : Num!Round(Exact(v)) = Exact(v) \/ (x[1] = "int" /\ y[1] = "int")
                 a == Exact(x)  b == Exact(y)  Abs(n) == IF n < 0 THEN -n ELSE n IN
  /\ finite /\ exact =>
       IF b = 0 THEN r = (IF x[1] = "int" /\ y[1] = "int" THEN << >> ELSE F(Num!NaN))
       ELSE /\ (r[1] = "int") = (x[1] = "int" /\ y[1] = "int")
            /\ Abs(Exact(r)) < Abs(b) /\ (a - Exact(r)) % Abs(b) = 0
            /\ Exact(r) # 0 => (Exact(r) < 0) = (a < 0)
  /\ NotNaN(x) /\ NotNaN(y) =>
       \A i \in 1..3 : Exact(answer[2]) <= Exact(all[i]) /\ Exact(answer[3]) >= Exact(all[i])
RandomRight(asked, answer) == LET low == asked[2]  up == asked[3] IN
  /\ IF low > up \/ up - low > Num!LUA_MAXINTEGER THEN answer[1] = << >> ELSE answer[1][1] \in low..up
  /\ answer[2] = (IF (low < 0) = (up < 0) THEN low < up ELSE up < 0)
\* A numeral of the base with blanks around it and a minus before it.
BaseRight(asked, answer) == LET s == asked[2]  base == asked[3]
                 inside == {i \in DOMAIN s : s[i] # " "}
                 lo == Least(inside)  hi == CHOOSE i \in inside : \A j \in inside : j <= i
                 first == IF s[lo] = "-" THEN lo + 1 ELSE lo
                 digits == [i \in 1..hi - first + 1 |-> IF s[first + i - 1] = "n" THEN 23 ELSE Num!luaO_hexavalue(s[first + i - 1])]
                 proper == /\ inside # {} /\ first <= hi
                           /\ \A i \in first..hi : s[i] \notin {" ", "-"} /\ digits[i - first + 1] < base
                 value == ValueOf(digits, base) IN
  answer = IF proper THEN <<Num!Wrap(IF first > lo THEN -value ELSE value)>> ELSE << >>
LibraryRight(asked) ==
  LET x == asked[2]  y == asked[3] IN
  /\ asked[1] = "bits" => BitsRight(asked, <<Num!b_and(x), Num!b_or(x), Num!b_xor(x), Num!b_test(x)>>)
  /\ asked[1] = "shift" => ShiftRight(asked, <<Num!b_lshift(x, y), Num!b_rshift(x, y), Num!b_arshift(x, y),
                                       Num!b_lrot(x, y), Num!b_rrot(x, y), Num!b_not(x)>>)
  /\ asked[1] = "field" => FieldRight(asked, <<Num!b_extract(x, asked[4], asked[5]), Num!b_replace(x, y, asked[4], asked[5])>>)
  /\ asked[1] = "round" => RoundRight(asked, <<Num!math_floor(x), Num!math_ceil(x), Num!math_modf(x), Num!math_abs(x), Num!math_toint(x)>>)
  /\ asked[1] = "fmod" => FmodRight(asked, <<Num!math_fmod(x, y), Num!math_min(<<x, y, I(3)>>), Num!math_max(<<x, y, I(3)>>)>>)
  /\ asked[1] = "random" => RandomRight(asked, <<Num!math_random(asked[4], x, y), Num!math_ult(x, y)>>)
  /\ asked[1] = "base" => BaseRight(asked, Num!b_str2int(x, y))
\* Comparisons are exact between integers and floats, conversions take the right integer or none,
\* integer arithmetic is that of the integers modulo 2^NBITS with floor division; math, bit32 and
\* tonumber do what their definitions on exact numbers and sets of bits say.
NumbersRight == [][\A asked \in {question'} : (
  /\ asked[1] = "compare" => CompareRight(asked, <<Num!LTnum(asked[2], asked[3]), Num!LEnum(asked[2], asked[3]), Num!luaV_equalobj(asked[2], asked[3])>>)
  /\ asked[1] = "strings" => StringsRight(asked, Num!l_strcmp(asked[2], asked[3]))
  /\ ConvertRight(asked)
  /\ asked[1] = "arith" => ArithRight(asked, Num!luaO_arith(asked[2], I(asked[3]), I(asked[4])))
  /\ asked[1] = "floats" => FloatsRight(asked, Num!luaO_arith(asked[2], asked[3], asked[4]))
  /\ asked[1] = "size" => SizeRight(asked)
  /\ LibraryRight(asked))]_question
\* A numeric for loop takes the values of the manual's loop, up to and around the last integers.
LoopsAsWritten == [][\A asked \in {question'} : (asked[1] = "loop" => LoopRight(asked, Num!OP_FORPREP(asked[2], asked[3], asked[4], First)))]_question

-----------------------------------------------------------------------------
(* Operations with metamethods *)

\* Objects: p handles everything but __le, q everything, b nothing.
Obj(n) == <<"obj", n>>
Handles == [n \in {"p", "q", "b"} |-> CASE n = "p" -> {"concat", "eq", "lt", "add"}
                                         [] n = "q" -> {"concat", "le", "lt"} [] OTHER -> {}]
\* p concatenates to a text, q to itself; __lt and __le hold if q is the first operand, __eq never.
Handling(event, l, r) ==
  CASE event = "concat" -> IF Obj("q") \in {l, r} THEN Obj("q") ELSE <<"text", <<l, r>>>>
    [] event \in {"lt", "le"} -> IF l = Obj("q") \/ r = Obj("b") THEN <<"true">> ELSE <<"nil">>
    [] event = "eq" -> <<"false">>
    [] OTHER -> <<"sum", l, r>>
Ops == INSTANCE LuaOps WITH mt <- Handles, Handler <- Handling, MAXTAGLOOP <- 4, MAX_SIZE <- 5

Text(s) == <<"text", s>>
Operands == {Text(<< >>), Text(<<"x">>), <<"num", <<"1", "2">>>>, Obj("p"), Obj("q"), <<"nil">>}
Objects == {Obj("p"), Obj("q"), Obj("b")}
Steps == {<<op, l, r, y>> : op \in {"eq", "lt", "le", "add"}, l, r \in Objects, y \in BOOLEAN}
Names == {"p", "q", "b"}
Heaps == [Names -> [table : BOOLEAN, field : {<<"nil">>, <<"value">>}, index : {<<"nil">>, <<"fun">>, Obj("p"), Obj("q")}]]

AskConcat == \E n \in 2..4 : \E operands \in [1..n -> Operands], yields \in [1..2 -> BOOLEAN] :
  question' = <<"concatenate", operands, yields>>
AskSteps == \E s, t \in Steps : question' = <<"steps", <<s, t>>>>
AskAccess == \E heap \in Heaps : question' = <<"access", heap>>

\* Concatenation is right associative: each operand with the result of those after it.
RECURSIVE Joins(_)
Joins(vs) ==
  LET l == vs[1]  r == Joins(Tail(vs))
  IN IF Len(vs) = 1 THEN vs[1]
     ELSE IF r[1] = "error" THEN r
     ELSE IF {l[1], r[1]} \subseteq {"text", "num"} THEN Text(l[2] \o r[2])
     ELSE IF \E o \in {"p", "q"} : Obj(o) \in {l, r} THEN Handling("concat", l, r)
     ELSE <<"error", "concatenate">>
TooLong(vs) == \E v \in {Joins(SubSeq(vs, i, Len(vs))) : i \in DOMAIN vs} : v[1] = "text" /\ Len(v[2]) >= 5
JoinsRight(asked, answer) == answer = Joins(asked[2]) \/ (answer = <<"error", "string length overflow">> /\ TooLong(asked[2]))
\* What 2.4 of the manual says that a comparison or an addition gives.
Handled(l, r, event) == \E v \in {l, r} : event \in Handles[v[2]]
Holds(v) == v \notin {<<"nil">>, <<"false">>}
Means(s) == LET op == s[1]  l == s[2]  r == s[3] IN
  CASE op = "eq" -> l = r \/ (Handled(l, r, "eq") /\ Holds(Handling("eq", l, r)))
    [] op = "add" -> IF Handled(l, r, "add") THEN Handling("add", l, r) ELSE <<"error", "perform arithmetic on">>
    [] Handled(l, r, op) -> Holds(Handling(op, l, r))
    [] op = "le" /\ ~Handled(l, r, "le") /\ Handled(l, r, "lt") -> ~Holds(Handling("lt", r, l))
    [] OTHER -> <<"error", "compare">>
Do(f, x) == Ops!Execute(f, x[1], x[2], x[3], x[4])
StepsRight(asked) == Do(Do([leq |-> FALSE, out |-> << >>], asked[2][1]), asked[2][2]) =
  [leq |-> FALSE, out |-> [i \in 1..2 |-> Means(asked[2][i])]]
\* The functions index and newindex of 2.4, which give up after 4 objects.
RECURSIVE Reads(_, _, _), Writes(_, _, _)
Reads(heap, o, left) == LET x == heap[o[2]] IN
  IF x.table /\ x.field # <<"nil">> THEN x.field
  ELSE IF left = 0 THEN <<"loop">>
  ELSE CASE x.index = <<"nil">> -> IF x.table THEN <<"nil">> ELSE <<"error", "index">>
         [] x.index = <<"fun">> -> <<"call", o>>
         [] OTHER -> Reads(heap, x.index, left - 1)
Writes(heap, o, left) == LET x == heap[o[2]] IN
  IF x.table /\ x.field # <<"nil">> THEN <<"set", o>>
  ELSE IF left = 0 THEN <<"loop">>
  ELSE CASE x.index = <<"nil">> -> IF x.table THEN <<"set", o>> ELSE <<"error", "index">>
         [] x.index = <<"fun">> -> <<"call", o>>
         [] OTHER -> Writes(heap, x.index, left - 1)
AccessRight(asked) == LET heap == asked[2]
                   Loop(v) == IF v[1] = "error" /\ v[2] # "index" THEN <<"loop">> ELSE v IN
  <<Loop(Ops!gettable(heap, Obj("b"))), Loop(Ops!settable(heap, Obj("b")))>> = <<Reads(heap, Obj("b"), 4), Writes(heap, Obj("b"), 4)>>
\* Operations give what the manual says whether a metamethod yields or returns, and leave the
\* frame as it was for the next operation.
OperationsRight == [][\A asked \in {question'} : (
  /\ asked[1] = "concatenate" => JoinsRight(asked, Ops!OP_CONCAT(asked[2], asked[3]))
  /\ asked[1] = "steps" => StepsRight(asked)
  /\ asked[1] = "access" => AccessRight(asked))]_question
=============================================================================

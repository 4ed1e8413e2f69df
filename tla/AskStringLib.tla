--------------------------- MODULE AskStringLib ---------------------------
(***************************************************************************)
(* Questions to the string library: find, gmatch and gsub; packed data,    *)
(* with bytes of 2 bits and integers of 2 bytes; and what is put together  *)
(* piece by piece, with sizes of 4 bits: buffers, rep, sub and tracebacks. *)
(***************************************************************************)
EXTENDS Asking
LOCAL INSTANCE SequencesExt
CONSTANTS LUA_MAXCAPTURES, MAXCCALLS
CharOrder == <<"\\0", "%", "-", "1", "2", "]", "a", "b", "c">>
Match == INSTANCE LuaMatch
Pattern == INSTANCE LuaPattern WITH Characters <- {CharOrder[i] : i \in DOMAIN CharOrder}
Is(c) == <<"is", c>>
One(x, suffix) == <<"one", x, suffix>>
Repetitions == {"", "*", "+", "?", "-"}
NotA == <<"set", <<Is("a")>>, TRUE>>
Classes == {Is("a"), <<"any">>, NotA}
Runs == {One(Is("a"), "*"), One(Is("a"), "-"), One(<<"any">>, "?"), One(<<"any">>, "-"), One(Is("b"), "")}
Open == <<"(">>
Close == <<")">>
Patterns ==
  {<<One(x, f), One(y, g)>> : x, y \in Classes, f, g \in Repetitions}
  \cup UNION {{<<Open, x, y, Close, z>>, <<Open, x, Close, Open, y, Close, z>>, <<Open, x, <<"()">>, y, Close, z>>,
               <<Open, x, Open, y, Close, Close, z>>, <<Open, x, Close, y, <<"%1">>, z>>,
               <<Open, x, Close, Open, y, Close, <<"%2">>>>, <<x, y, z, <<"$">>>>} : x, y, z \in Runs}
  \cup {<<x, w, y>> : x, y \in Runs, w \in {<<"%b">>, <<"%f", NotA>>, <<"%f", <<"set", <<Is("a")>>, FALSE>>>>,
             One(<<"set", <<Is("]"), <<"range", "a">>, <<"%", "d">>>>, FALSE>>, "+"), One(<<"%", "A">>, "*"),
             One(<<"set", <<<<"range", "b">>, Is("-")>>, TRUE>>, "-")}}
Subjects == Words({"a", "b"}, 3)
PatternText(items, anchor) == (IF anchor THEN <<"^">> ELSE << >>) \o Pattern!Written(items)
\* For gsub and gmatch: short patterns, and the captures that a replacement may name.
Few == {<<One(x, f), One(y, g)>> : x, y \in {Is("a"), NotA}, f, g \in Repetitions}
       \cup {<<Open, x, Close, y>> : x, y \in Runs} \cup {<<Open, x, Close, <<"()">>, y>> : x, y \in Runs}
Char(c) == <<"char", c>>
Capture(i) == <<"capture", i>>
News == {<< >>, <<Char("c"), Capture(0)>>, <<Capture(1), Char("%")>>, <<Capture(2), Capture(1)>>}
Fits(news, items) == \A i \in DOMAIN news : news[i][1] = "capture" =>
                       news[i][2] <= IF Pattern!NCaptures(items) = 0 THEN 1 ELSE Pattern!NCaptures(items)
\* Any short text as a pattern, also one that means nothing.
Texts == Words({"a", "%", "(", ")", "[", "]", "^", "1", "b"}, 3) \cup {<<"(", "a", "%", "1">>, <<"[", "^", "]", "a">>,
           <<"a", "*", "a", "*", "a", "*", "a", "*", "(", "a", ")">>, <<"(", "a", ")", "%", "2">>}

AskFind == \E src \in Subjects, items \in Patterns, anchor \in BOOLEAN :
  question' = <<"find", src, items, anchor>>
AskPlain == \E src \in Subjects, p \in Words({"a", "b", "*"}, 2), pos \in -4..5, plain \in BOOLEAN :
  /\ plain \/ Match!nospecials(p)
  /\ question' = <<"plain", src, p, pos, plain>>
AskAny == \E src \in {<< >>, <<"a">>, <<"b", "a", "a">>}, p \in Texts :
  question' = <<"any", src, p>>
AskGmatch == \E src \in Subjects, items \in Few :
  question' = <<"gmatch", src, items>>
AskGsub == \E src \in Subjects, items \in Few, anchor \in BOOLEAN, news \in News, max_s \in {1, 2, 9} :
  /\ Fits(news, items)
  /\ question' = <<"gsub", src, items, anchor, news, max_s>>

\* find answers with the match that 6.4.1 of the manual describes: the first place where the pattern
\* can match, and of the ways from there the one that every repetition prefers, with its captures.
FoundRight(asked, answer) == LET src == asked[2]  items == asked[3]
  S == {i \in 1..(IF asked[4] THEN 1 ELSE Len(src) + 1) : Pattern!Best(src, items, i) # << >>}
  b == Pattern!Best(src, items, Least(S))
  IN answer = IF S = {} THEN Match!Fails
     ELSE [ok |-> TRUE, err |-> "", s |-> Least(S), e |-> b[Len(b)] - 1,
           caps |-> Pattern!Captures(src, items, Least(S), b)]
PlainRight(asked, answer) == LET src == asked[2]  p == asked[3]  pos == asked[4]
  from == IF pos > 0 THEN pos ELSE IF pos = 0 THEN 1 ELSE Most(1, Len(src) + 1 + pos)
  S == {i \in from..Len(src) + 1 : i + Len(p) <= Len(src) + 1 /\ Pattern!Part(src, i, i + Len(p)) = p}
  IN answer = IF S = {} THEN Match!Fails
              ELSE [Match!Fails EXCEPT !.ok = TRUE, !.s = Least(S), !.e = Least(S) + Len(p) - 1]
\* A text that is no pattern is an error, and the depth is back where it was after every attempt.
AnyRight(asked, answer) ==
  /\ answer.err # "assertion"
  /\ answer.ok => answer.s \in 1..Len(asked[2]) + 1 /\ answer.e \in answer.s - 1..Len(asked[2])
FindsRight(asked) ==
  /\ asked[1] = "find" => FoundRight(asked, Match!str_find_aux(asked[2], PatternText(asked[3], asked[4]), 1, FALSE, TRUE))
  /\ asked[1] = "plain" => PlainRight(asked, Match!str_find_aux(asked[2], asked[3], asked[4], asked[5], TRUE))
  /\ asked[1] = "any" => AnyRight(asked, Match!str_find_aux(asked[2], asked[3], 1, FALSE, FALSE))
\* gmatch visits, and gsub replaces, the successive matches, none of them empty where the last one
\* ended; gsub counts them and leaves the rest of the subject as it was.
GmatchRight(asked, answer) == LET all == Pattern!Matches(asked[2], asked[3], 1, 0)
                   Whole(m) == IF m[3] = << >> THEN <<<<"string", Pattern!Part(asked[2], m[1], m[2])>>>> ELSE m[3]
               IN answer = [i \in DOMAIN all |-> [ok |-> TRUE, err |-> "", s |-> all[i][1], e |-> all[i][2] - 1,
                                                  caps |-> Whole(all[i])]]
GsubRight(asked, answer) == LET src == asked[2]
                 all == Pattern!Matches(src, asked[3], 1, 0)
                 ms == IF ~asked[4] THEN all ELSE IF all # << >> /\ all[1][1] = 1 THEN SubSeq(all, 1, 1) ELSE << >>
             IN answer = [text |-> Pattern!Replaced(src, ms, asked[5], 1, asked[6]), err |-> FALSE,
                          n |-> IF Len(ms) < asked[6] THEN Len(ms) ELSE asked[6]]
ReplacesRight(asked) ==
  /\ asked[1] = "gmatch" => GmatchRight(asked, Match!gmatch(asked[2], Pattern!Written(asked[3])))
  /\ asked[1] = "gsub" => GsubRight(asked, Match!str_gsub(asked[2], PatternText(asked[3], asked[4]), Pattern!WrittenNews(asked[5]), asked[6]))
\* Whatever a pattern is, find, match, gmatch and gsub give what it means.
PatternsRight == [][\A asked \in {question'} : FindsRight(asked) /\ ReplacesRight(asked)]_question

(***************************************************************************)
(* Packed data                                                             *)
(***************************************************************************)
LargestPack == 7
PackLib == INSTANCE LuaPack WITH NB <- 2, SZINT <- 2, MAXINTSIZE <- 4, MAXALIGN <- 4, MAXSIZE <- LargestPack,
             SizeOf <- [b |-> 1, B |-> 1, h |-> 2, j |-> 2, J |-> 2, i |-> 2, I |-> 2, f |-> 1, n |-> 4, s |-> 2]

Plain(x) == <<x, -1>>
LuaIntegers == -8..7
Counted(n) == [i \in 1..n |-> i]
Strings == {<< >>, <<2, 0>>, <<3, 1, 2>>, <<3, 3, 3, 3>>}
\* Items: << option, what a value of it may be >>.
Some == {-8, -2, 1, 2, 7}
Items == {<<Plain("b"), Some>>, <<Plain("B"), Some>>, <<Plain("h"), Some>>, <<Plain("J"), Some>>,
          <<<<"i", 3>>, Some>>, <<<<"I", 4>>, Some>>, <<<<"I", 1>>, Some>>, <<<<"i", 5>>, {1}>>,
          <<Plain("f"), {<<2>>}>>, <<Plain("n"), {<<1, 2, 3, 0>>}>>,
          <<Plain("s"), Strings>>, <<<<"s", 1>>, Strings>>, <<<<"c", 3>>, Strings>>, <<Plain("z"), Strings>>,
          <<Plain("c"), {<<1>>}>>}
IntOptions == {"b", "B", "h", "J", "i", "I"}
Endians == {<<Plain("<")>>, <<Plain(">")>>}
Aligns == {<< >>, <<<<"!", 2>>>>, <<Plain("!")>>, <<<<"!", 3>>>>}
Between == {<< >>, <<Plain("x")>>, <<Plain("X"), Plain("h")>>, <<Plain(">")>>, <<Plain("X"), <<"I", 4>>>>, <<Plain("X"), Plain("z")>>}
Ask(order, align, x, between, y) == order \o align \o <<x[1]>> \o between \o <<y[1]>>
AskPacked == \E order \in Endians, align \in Aligns, x, y \in Items, between \in Between :
  \E v \in x[2], w \in y[2] :
    /\ {x[1][1], y[1][1]} \subseteq IntOptions => v \in {-8, -2, 7} \/ w \in {-3, 2}
    /\ between # << >> => Len(align) = 1
    /\ question' = <<"pack", Ask(order, align, x, between, y), <<v, w>>>>
\* The zero that would end a last "z" is there although the data lack it: C strings end in one.
AskCut == \E order \in Endians, x, y \in Items : \E v \in x[2], w \in y[2] :
  /\ y[1][1] # "z"
  /\ question' = <<"cut", Ask(order, << >>, x, << >>, y), <<v, w>>>>
AskInt == \E order \in Endians, opt \in {"i", "I"}, n \in 1..4 : \E data \in [1..n -> 0..3] :
  question' = <<"int", order, opt, data>>
\* A string with any length before it, whatever is there of the string.
AskLength == \E order \in Endians, before \in 0..1, len \in 0..15, there \in 0..4 :
  question' = <<"length", order, before, len, there>>

\* The value that comes back: strings of fixed size are padded.
Padded(x, v) == IF x[1] = "c" THEN [i \in 1..x[2] |-> IF i \in DOMAIN v THEN v[i] ELSE 0] ELSE v
OptionSize(x) == IF x[2] # -1 THEN x[2] ELSE CASE x[1] \in {"b", "B", "f"} -> 1 [] x[1] \in {"h", "J", "s"} -> 2 [] x[1] = "n" -> 4 [] OTHER -> 0
Storable(x, v) ==
  LET n == OptionSize(x) IN
  CASE x[1] \in {"b", "h", "i"} -> n <= 4 /\ (n >= 2 \/ v \in -2..1)
    [] x[1] \in {"B", "J", "I"} -> n >= 2 \/ v \in 0..3
    [] x[1] = "s" -> n >= 2 \/ Len(v) <= 3
    [] x[1] = "c" -> x[2] >= Len(v)
    [] x[1] = "z" -> \A i \in DOMAIN v : v[i] # 0
    [] OTHER -> TRUE
Letters == {"b", "B", "h", "J", "i", "I", "f", "n", "s", "c", "z"}
\* The items of a format: options that take a value and are not an argument of X.
Valued(fmt) == {i \in DOMAIN fmt : fmt[i][1] \in Letters /\ (i = 1 \/ fmt[i - 1][1] # "X")}
PackRight(asked) ==
  LET fmt == asked[2]
      p == PackLib!str_pack(fmt, asked[3])  size == PackLib!str_packsize(fmt)  u == PackLib!str_unpack(fmt, p.out, 1)
      first == Least(Valued(fmt))  last == Len(fmt)
  IN /\ p.err = "" => /\ u.err = "" /\ u.pos = Len(p.out) + 1
                      /\ u.out = <<Padded(fmt[first], asked[3][1]), Padded(fmt[last], asked[3][2])>>
                      /\ Storable(fmt[first], asked[3][1]) /\ Storable(fmt[last], asked[3][2])
                      /\ size.err = "" => size.out = Len(p.out)
                      /\ size.err = "format result too large" => Len(p.out) > LargestPack
     /\ p.err # "" => \/ ~Storable(fmt[first], asked[3][1]) \/ ~Storable(fmt[last], asked[3][2])
                      \/ \E i \in DOMAIN fmt : fmt[i][1] = "X" /\ fmt[i + 1][1] = "z"
                      \/ \E i \in DOMAIN fmt : fmt[i] = <<"!", 3>> \/ fmt[i] = <<"i", 3>>
ShorterRefused(fmt, p) == p.err = "" =>
  \A cut \in 0..Len(p.out) - 1 : PackLib!str_unpack(fmt, SubSeq(p.out, 1, cut), 1).err # ""
RECURSIVE Digits4(_, _)
Digits4(q, n) == IF n = 0 THEN 0 ELSE Digits4(q, n - 1) * 4 + q[n]      \* big-endian
IntRight(asked, answer) ==
  LET data == asked[4]  n == Len(data)
      big == IF asked[2] = <<Plain(">")>> THEN data ELSE [i \in 1..n |-> data[n + 1 - i]]
      u == Digits4(big, n)
      value == IF asked[3] = "i" /\ u >= 4^n \div 2 THEN u - 4^n ELSE u
      J(x) == IF asked[3] = "I" /\ x > 7 THEN x - 16 ELSE x      \* how Lua sees an unsigned number
  IN IF value \in LuaIntegers \/ (asked[3] = "I" /\ value <= 15) THEN answer.err = "" /\ answer.out = <<J(value)>>
     ELSE answer.err = "does not fit into Lua Integer"

LengthRight(asked) ==
  LET before == [i \in 1..asked[3] |-> 1]  there == Counted(asked[5])  len == asked[4]
      digits == <<len % 4, len \div 4>>
      data == before \o (IF asked[2] = <<Plain("<")>> THEN digits ELSE Reverse(digits)) \o there
      u == PackLib!str_unpack(asked[2] \o [i \in 1..asked[3] |-> Plain("B")] \o <<Plain("s")>>, data, 1)
  IN IF len <= asked[5] THEN u.err = "" /\ u.out = Append(before, SubSeq(there, 1, len)) ELSE u.err # ""

(***************************************************************************)
(* Buffers.  A script is a sequence of additions with their lengths; an    *)
(* area may be larger than what is then written into it.                   *)
(***************************************************************************)
Aux(memory) == INSTANCE LuaAux WITH LUAL_BUFFERSIZE <- 2, MAX_SIZET <- 15, MAXSIZE <- 7, Memory <- memory
Lengths == {0, 1, 3, 6, 9}
Additions == {<<how, n, n>> : how \in {"add", "value"}, n \in Lengths} \cup {<<"area", n, m>> : n \in Lengths, m \in 0..3}
Scripts == UNION {[1..k -> {a \in Additions : a[3] <= a[2]}] : k \in 1..3}
AskBuffer == \E script \in Scripts, memory \in {7, 15} : question' = <<"buffer", script, memory>>
AskText ==
  \/ \E l \in {0, 1, 2, 3, 5}, n \in LuaIntegers, lsep \in 0..2 :
       question' = <<"repeat", Counted(l), n, [i \in 1..lsep |-> 9]>>
  \/ \E l \in 0..6, i, j \in LuaIntegers : question' = <<"sub", Counted(l), i, j>>
  \/ \E levels \in 0..50, level \in 0..50 : question' = <<"traceback", levels, level>>

Below == << <<"string", <<0>>>> >>
Added(memory, S, a, k) ==
  LET bytes == [i \in 1..a[3] |-> 10 * k + i]
      p == Aux(memory)!luaL_prepbuffsize(S, a[2])
  IN IF S.err # "" THEN S
     ELSE CASE a[1] = "add" -> Aux(memory)!luaL_addlstring(S, bytes)
            [] a[1] = "value" -> Aux(memory)!luaL_addvalue([S EXCEPT !.stack = Append(@, <<"string", bytes>>)])
            [] OTHER -> IF p.err # "" THEN p ELSE Aux(memory)!luaL_addsize(p, bytes)
BufferRight(asked) ==
  LET script == asked[2]  memory == asked[3]
      S == FoldLeft(LAMBDA b, k : Added(memory, b, script[k], k), Aux(memory)!luaL_buffinit(Below), Counted(Len(script)))
      r == IF S.err = "" THEN Aux(memory)!luaL_pushresult(S) ELSE S
      text == FlattenSeq([k \in DOMAIN script |-> [i \in 1..script[k][3] |-> 10 * k + i]])
      Upto(k) == FoldLeft(LAMBDA n, a : n + a[3], 0, SubSeq(script, 1, k - 1)) + script[k][2]
  IN /\ r.err \in {"", "buffer too large", "not enough memory"}
     /\ r.err = "" => r.stack = Append(Below, <<"string", text>>) /\ \A k \in DOMAIN script : Upto(k) <= memory
     /\ r.err # "" => \E k \in DOMAIN script : 2 * Upto(k) > memory
RepeatRight(asked) ==
  LET s == asked[2]  n == asked[3]  sep == asked[4]
      copies == [k \in 1..n |-> IF k = 1 THEN s ELSE sep \o s]
      r == Aux(15)!str_rep(Below, s, n, sep)
  IN IF r.err = "" THEN r.stack = Append(Below, <<"string", FlattenSeq(copies)>>)
     ELSE r.err = "resulting string too large" /\ n * Len(s \o sep) > 7
SubRight(asked) ==
  LET s == asked[2]
      At(i) == IF i < 0 THEN Len(s) + 1 + i ELSE i
  IN /\ Aux(15)!str_sub(s, asked[3], asked[4]) = SelectSeq(s, LAMBDA k : At(asked[3]) <= k /\ k <= At(asked[4]))
     /\ Aux(15)!str_reverse(Below, s).stack = Append(Below, <<"string", Reverse(s)>>)
\* The first 10 and the last 11 levels, if there are more than 22.
TracebackRight(asked) ==
  LET levels == [k \in 1..asked[2] - asked[3] |-> asked[3] + k - 1]
      n == Len(levels)
  IN Aux(15)!luaL_traceback(asked[2], asked[3]) =
       IF n <= 22 THEN levels ELSE SubSeq(levels, 1, 10) \o <<"...">> \o SubSeq(levels, n - 10, n)

\* What pack writes unpack reads back, wherever alignment puts it, and packsize is its size; a value
\* that cannot be stored is refused and nothing is read behind the data, whatever length stands
\* before a string.  A buffer ends as what was added to it, with the stack as it was, or as an error
\* that its size explains; rep, sub and reverse fill exactly the size that they computed; a
\* traceback shows each level at most once.
PacksRight == [][\A asked \in {question'} : (
  /\ asked[1] = "pack" => PackRight(asked)
  /\ asked[1] = "cut" => ShorterRefused(asked[2], PackLib!str_pack(asked[2], asked[3]))
  /\ asked[1] = "int" => IntRight(asked, PackLib!str_unpack(asked[2] \o <<<<asked[3], Len(asked[4])>>>>, asked[4], 1))
  /\ asked[1] = "length" => LengthRight(asked)
  /\ asked[1] = "buffer" => BufferRight(asked)
  /\ asked[1] = "repeat" => RepeatRight(asked)
  /\ asked[1] = "sub" => SubRight(asked)
  /\ asked[1] = "traceback" => TracebackRight(asked))]_question
=============================================================================

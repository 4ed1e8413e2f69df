----------------------------- MODULE LuaPattern -----------------------------
(***************************************************************************)
(* What a pattern means, by 6.4.1 of the reference manual.  A pattern is a *)
(* sequence of items; a way to match it from a place is the sequence of    *)
(* the places where the items end.  Of all ways the pattern takes the one  *)
(* that is best at the first item where they differ: the longest for the   *)
(* repetitions * + ?, the shortest for -.                                  *)
(***************************************************************************)
EXTENDS Integers, Sequences, FiniteSets

CONSTANT Characters
Letters == {"a", "b", "c"}
Digits == {"1", "2"}

\* Classes: <<"is", c>>, <<"any">>, <<"%", letter>>, <<"set", members, complemented>>.
Members == [kind \in {"a", "d"} |-> IF kind = "a" THEN Letters ELSE Digits]
RECURSIVE Set(_)
Set(x) ==
  CASE x[1] = "is" -> {x[2]}
    [] x[1] = "any" -> Characters
    [] x[1] = "%" -> IF x[2] = "A" THEN Characters \ Letters ELSE Members[x[2]]
    [] x[1] = "range" -> IF x[2] = "a" THEN {"a", "b"} ELSE {"b", "c"}
    [] OTHER -> LET all == UNION {Set(x[2][i]) : i \in DOMAIN x[2]}
                IN IF x[3] THEN Characters \ all ELSE all

Part(q, from, to) == SubSeq(q, from, to - 1)
\* Items: <<"one", class, suffix>>, <<"(">>, <<")">>, <<"()">>, <<"%1">>, <<"%2">>, <<"%b">>, <<"%f", class>>, <<"$">>.
\* The item that opens capture n, and the one that closes the capture opened by item o.
RECURSIVE Opening(_, _, _)
Opening(items, n, i) ==
  IF i > Len(items) THEN 0
  ELSE IF items[i][1] \notin {"(", "()"} THEN Opening(items, n, i + 1)
  ELSE IF n = 1 THEN i ELSE Opening(items, n - 1, i + 1)
Depth(items, o, i) == Cardinality({j \in o..i : items[j][1] = "("}) - Cardinality({j \in o..i : items[j][1] = ")"})
Closing(items, o) == CHOOSE i \in o..Len(items) : Depth(items, o, i) = 0 /\ \A j \in o..i - 1 : Depth(items, o, j) > 0
EndOf(start, ends, i) == IF i = 0 THEN start ELSE ends[i]
Captured(src, items, start, ends, n) ==
  LET o == Opening(items, n, 1)
  IN IF items[o][1] = "()" THEN <<"position", ends[o]>>
     ELSE <<"string", Part(src, ends[o], ends[Closing(items, o)])>>

Count(src, c, from, to) == Cardinality({i \in from..to - 1 : src[i] = c})
\* Item i may reach from `from' to `to', after the ends of the items before it.
Reaches(src, items, start, ends, i, from, to) ==
  LET x == items[i]
      n == to - from
      k == x[1]
      Char(j) == IF j \in DOMAIN src THEN src[j] ELSE "\\0"
      cap == Captured(src, items, start, ends, IF k = "%1" THEN 1 ELSE 2)
  IN CASE k = "one" -> /\ \A j \in from..to - 1 : src[j] \in Set(x[2])
                       /\ CASE x[3] = "" -> n = 1 [] x[3] = "?" -> n <= 1 [] x[3] = "+" -> n >= 1
                            [] OTHER -> TRUE
       [] k \in {"%1", "%2"} -> cap[1] = "string" /\ cap[2] = Part(src, from, to)
       [] k = "%b" -> /\ n >= 2 /\ src[from] = "a" /\ Count(src, "a", from, to) = Count(src, "b", from, to)
                      /\ \A j \in from + 1..to - 1 : Count(src, "a", from, j) > Count(src, "b", from, j)
       [] k = "%f" -> n = 0 /\ Char(from - 1) \notin Set(x[2]) /\ Char(from) \in Set(x[2])
       [] k = "$" -> n = 0 /\ from = Len(src) + 1
       [] OTHER -> n = 0
RECURSIVE Ways(_, _, _, _)
Ways(src, items, start, ends) ==
  LET i == Len(ends) + 1
      from == EndOf(start, ends, Len(ends))
  IN IF i > Len(items) THEN {ends}
     ELSE UNION {Ways(src, items, start, Append(ends, to)) :
                   to \in {t \in from..Len(src) + 1 : Reaches(src, items, start, ends, i, from, t)}}
Better(items, w, v) ==
  \E i \in DOMAIN w : /\ \A j \in 1..i - 1 : w[j] = v[j]
                      /\ IF items[i][1] = "one" /\ items[i][3] = "-" THEN w[i] < v[i] ELSE w[i] > v[i]
Best(src, items, start) ==      \* << >> when there is no match here
  LET W == Ways(src, items, start, << >>)
  IN IF W = {} THEN << >> ELSE CHOOSE w \in W : \A v \in W : w = v \/ Better(items, w, v)
NCaptures(items) == Cardinality({i \in DOMAIN items : items[i][1] \in {"(", "()"}})
Captures(src, items, start, ends) == [n \in 1..NCaptures(items) |-> Captured(src, items, start, ends, n)]

\* The matches from left to right: << start, end after it, captures >>; none ends where the last one does.
RECURSIVE Matches(_, _, _, _)
Matches(src, items, from, last) ==
  LET S == {i \in from..Len(src) + 1 : LET b == Best(src, items, i) IN b # << >> /\ b[Len(b)] # last}
      s == CHOOSE i \in S : \A j \in S : i <= j
      b == Best(src, items, s)
  IN IF S = {} THEN << >>
     ELSE <<<<s, b[Len(b)], Captures(src, items, s, b)>>>> \o Matches(src, items, b[Len(b)], b[Len(b)])
\* The text with the first n matches replaced: every part of news is a character or a capture.
RECURSIVE Replaced(_, _, _, _, _)
Replaced(src, ms, news, from, n) ==
  LET m == ms[1]
      whole == Part(src, m[1], m[2])
      Capture(i) == IF m[3] = << >> /\ i = 1 THEN <<"string", whole>> ELSE m[3][i]
      Value(x) == CASE x = 0 -> whole
                    [] OTHER -> IF Capture(x)[1] = "position" THEN <<"#", Capture(x)[2]>> ELSE Capture(x)[2]
      RECURSIVE Put(_)
      Put(q) == IF q = << >> THEN << >> ELSE (IF q[1][1] = "char" THEN <<q[1][2]>> ELSE Value(q[1][2])) \o Put(Tail(q))
  IN IF ms = << >> \/ n = 0 THEN Part(src, from, Len(src) + 1)
     ELSE Part(src, from, m[1]) \o Put(news) \o Replaced(src, Tail(ms), news, m[2], n - 1)

(***************************************************************************)
(* How patterns and replacements are written                               *)
(***************************************************************************)
RECURSIVE WrittenClass(_), WrittenAll(_)
WrittenAll(q) == IF q = << >> THEN << >> ELSE WrittenClass(q[1]) \o WrittenAll(Tail(q))
WrittenClass(x) ==
  CASE x[1] = "is" -> IF x[2] \in Letters \cup Digits THEN <<x[2]>> ELSE <<"%", x[2]>>
    [] x[1] = "any" -> <<".">>
    [] x[1] = "%" -> <<"%", x[2]>>
    [] x[1] = "range" -> <<x[2], "-", IF x[2] = "a" THEN "b" ELSE "c">>
    [] OTHER -> <<"[">> \o (IF x[3] THEN <<"^">> ELSE << >>) \o WrittenAll(x[2]) \o <<"]">>
WrittenItem(x) ==
  CASE x[1] = "one" -> WrittenClass(x[2]) \o (IF x[3] = "" THEN << >> ELSE <<x[3]>>)
    [] x[1] = "%b" -> <<"%", "b", "a", "b">>
    [] x[1] = "%f" -> <<"%", "f">> \o WrittenClass(x[2])
    [] x[1] = "()" -> <<"(", ")">>
    [] x[1] = "%1" -> <<"%", "1">>
    [] x[1] = "%2" -> <<"%", "2">>
    [] OTHER -> x
RECURSIVE Written(_)
Written(items) == IF items = << >> THEN << >> ELSE WrittenItem(items[1]) \o Written(Tail(items))
RECURSIVE WrittenNews(_)
WrittenNews(news) ==
  LET x == news[1]
  IN IF news = << >> THEN << >>
     ELSE (CASE x[1] = "capture" -> <<"%", <<"0", "1", "2">>[x[2] + 1]>>
             [] x[2] = "%" -> <<"%", "%">> [] OTHER -> <<x[2]>>) \o WrittenNews(Tail(news))
=============================================================================

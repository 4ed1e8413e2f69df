------------------------------ MODULE LuaMatch ------------------------------
(***************************************************************************)
(* Pattern matching (lstrlib.c).  Subject, pattern and replacement are     *)
(* sequences of characters; s and p are positions in the first two, which  *)
(* may be one past the end.  A MatchState is a record ms; match leaves its *)
(* result in ms.res, 0 for NULL.  An error (ms.err) ends everything.       *)
(***************************************************************************)
EXTENDS Integers, Sequences

CONSTANTS LUA_MAXCAPTURES, MAXCCALLS,
          CharOrder        \* the characters in the order of their codes

CAP_UNFINISHED == -1
CAP_POSITION == -2
L_ESC == "%"
Specials == {"^", "$", "*", "+", "?", ".", "(", "[", "%", "-"}
Alpha == {"a", "b", "c"}
Digit == {"1", "2"}
Code(c) == CHOOSE i \in DOMAIN CharOrder : CharOrder[i] = c
NUL == "\\0"               \* what a C string has behind its end
CharAt(q, i) == IF i \in DOMAIN q THEN q[i] ELSE NUL
Slice(q, i, n) == SubSeq(q, i, i + n - 1)

P(ms, p) == CharAt(ms.p, p)
PEnd(ms) == Len(ms.p) + 1
SrcEnd(ms) == Len(ms.src) + 1
Rest(ms, s) == SubSeq(ms.src, s, Len(ms.src))
Error(ms, e) == [ms EXCEPT !.err = e, !.res = 0]
Result(ms, s) == [ms EXCEPT !.res = s]

RECURSIVE bracketend(_, _)
bracketend(ms, p) ==     \* p is after '[' or '[^', or a later position in the class
  LET next == IF P(ms, p) = L_ESC /\ p + 1 < PEnd(ms) THEN p + 2 ELSE p + 1
  IN IF p = PEnd(ms) THEN 0 ELSE IF P(ms, next) = "]" THEN next + 1 ELSE bracketend(ms, next)
\* The end of the single character class at p, 0 for a malformed one.
classend(ms, p) ==
  CASE P(ms, p) = L_ESC -> IF p + 1 = PEnd(ms) THEN 0 ELSE p + 2
    [] P(ms, p) = "[" -> bracketend(ms, IF P(ms, p + 1) = "^" THEN p + 2 ELSE p + 1)
    [] OTHER -> p + 1

match_class(c, cl) ==
  CASE cl = "a" -> c \in Alpha [] cl = "A" -> c \notin Alpha
    [] cl = "d" -> c \in Digit [] cl = "D" -> c \notin Digit
    [] OTHER -> cl = c
\* Is c in the class that begins at p and whose ']' is at ec?
RECURSIVE InBracket(_, _, _, _)
InBracket(ms, c, p, ec) ==
  IF p >= ec THEN FALSE
  ELSE IF P(ms, p) = L_ESC THEN match_class(c, P(ms, p + 1)) \/ InBracket(ms, c, p + 2, ec)
  ELSE IF P(ms, p + 1) = "-" /\ p + 2 < ec
    THEN Code(c) \in Code(P(ms, p))..Code(P(ms, p + 2)) \/ InBracket(ms, c, p + 3, ec)
  ELSE P(ms, p) = c \/ InBracket(ms, c, p + 1, ec)
matchbracketclass(ms, c, p, ec) ==
  LET neg == P(ms, p + 1) = "^" IN InBracket(ms, c, IF neg THEN p + 2 ELSE p + 1, ec) # neg
singlematch(ms, s, p, ep) ==
  /\ s < SrcEnd(ms)
  /\ LET c == ms.src[s] IN
       CASE P(ms, p) = "." -> TRUE
         [] P(ms, p) = L_ESC -> match_class(c, P(ms, p + 1))
         [] P(ms, p) = "[" -> matchbracketclass(ms, c, p, ep - 1)
         [] OTHER -> P(ms, p) = c

RECURSIVE Balance(_, _, _, _, _)
Balance(ms, s, b, e, cont) ==
  IF s >= SrcEnd(ms) THEN 0
  ELSE IF ms.src[s] = e THEN IF cont = 1 THEN s + 1 ELSE Balance(ms, s + 1, b, e, cont - 1)
  ELSE Balance(ms, s + 1, b, e, IF ms.src[s] = b THEN cont + 1 ELSE cont)
matchbalance(ms, s, p) ==
  IF p >= PEnd(ms) - 1 THEN Error(ms, "malformed pattern")
  ELSE Result(ms, IF CharAt(ms.src, s) # P(ms, p) THEN 0
                  ELSE Balance(ms, s + 1, P(ms, p), P(ms, p + 1), 1))

level(ms) == Len(ms.capture)
Unfinished(ms) == {l \in 1..level(ms) : ms.capture[l].len = CAP_UNFINISHED}
capture_to_close(ms) == CHOOSE l \in Unfinished(ms) : \A k \in Unfinished(ms) : k <= l
match_capture(ms, s, l) ==
  LET c == ms.capture[l]
  IN IF l \notin 1..level(ms) \/ l \in Unfinished(ms) THEN Error(ms, "invalid capture index")
     ELSE Result(ms, IF c.len >= 0 /\ SrcEnd(ms) - s >= c.len
                          /\ Slice(ms.src, s, c.len) = Slice(ms.src, c.init, c.len)
                       THEN s + c.len ELSE 0)

Failed(ms) == ms.res = 0 /\ ms.err = ""
RECURSIVE do_match(_, _, _), max_expand(_, _, _, _, _), min_expand(_, _, _, _), MaxCount(_, _, _, _)
match(ms, s, p) ==
  LET r == do_match([ms EXCEPT !.matchdepth = @ - 1], s, p)
  IN IF ms.err # "" THEN ms
     ELSE IF ms.matchdepth = 0 THEN Error(ms, "pattern too complex")
     ELSE [r EXCEPT !.matchdepth = @ + 1]
MaxCount(ms, s, p, ep) == IF singlematch(ms, s, p, ep) THEN 1 + MaxCount(ms, s + 1, p, ep) ELSE 0
max_expand(ms, s, p, ep, i) ==     \* the item i times, then less often
  LET r == match(ms, s + i, ep + 1)
  IN IF Failed(r) /\ i > 0 THEN max_expand(r, s, p, ep, i - 1) ELSE r
min_expand(ms, s, p, ep) ==
  LET r == match(ms, s, ep + 1)
  IN IF Failed(r) /\ singlematch(r, s, p, ep) THEN min_expand(r, s + 1, p, ep) ELSE r
start_capture(ms, s, p, what) ==
  LET r == match([ms EXCEPT !.capture = Append(@, [init |-> s, len |-> what])], s, p)
  IN IF level(ms) >= LUA_MAXCAPTURES THEN Error(ms, "too many captures")
     ELSE IF Failed(r) THEN [r EXCEPT !.capture = SubSeq(@, 1, level(r) - 1)] ELSE r
\* A failure leaves the capture closed.
end_captureKept(ms, s, p) ==
  LET l == capture_to_close(ms)
  IN IF Unfinished(ms) = {} THEN Error(ms, "invalid pattern capture")
     ELSE match([ms EXCEPT !.capture[l].len = s - ms.capture[l].init], s, p)
end_capture(ms, s, p) ==
  LET l == capture_to_close(ms)
      r == match([ms EXCEPT !.capture[l].len = s - ms.capture[l].init], s, p)
  IN IF Unfinished(ms) = {} THEN Error(ms, "invalid pattern capture")
     ELSE IF Failed(r) THEN [r EXCEPT !.capture[l].len = CAP_UNFINISHED] ELSE r

\* A step that succeeds at s goes on at p (the code's "goto init").
Then(r, p) == IF r.res = 0 THEN r ELSE do_match(r, r.res, p)
frontier(ms, s, p) ==
  LET ep == classend(ms, p)
      In(c) == matchbracketclass(ms, c, p, ep - 1)
  IN CASE P(ms, p) # "[" -> Error(ms, "missing '['")
       [] ep = 0 -> Error(ms, "malformed pattern")
       [] OTHER -> Then(Result(ms, IF ~In(CharAt(ms.src, s - 1)) /\ In(CharAt(ms.src, s)) THEN s ELSE 0), ep)
single(ms, s, p) ==
  LET ep == classend(ms, p)
      suffix == P(ms, ep)
      once == match(ms, s + 1, ep + 1)
  IN IF ep = 0 THEN Error(ms, "malformed pattern")
     ELSE IF ~singlematch(ms, s, p, ep)
       THEN IF suffix \in {"*", "?", "-"} THEN do_match(ms, s, ep + 1) ELSE Result(ms, 0)
     ELSE CASE suffix = "?" -> IF Failed(once) THEN do_match(once, s, ep + 1) ELSE once
            [] suffix = "+" -> max_expand(ms, s + 1, p, ep, MaxCount(ms, s + 1, p, ep))
            [] suffix = "*" -> max_expand(ms, s, p, ep, MaxCount(ms, s, p, ep))
            [] suffix = "-" -> min_expand(ms, s, p, ep)
            [] OTHER -> do_match(ms, s + 1, ep)
do_match(ms, s, p) ==
  LET c == P(ms, p)
      d == P(ms, p + 1)
  IN CASE p = PEnd(ms) -> Result(ms, s)
       [] c = "(" /\ d = ")" -> start_capture(ms, s, p + 2, CAP_POSITION)
       [] c = "(" /\ d # ")" -> start_capture(ms, s, p + 1, CAP_UNFINISHED)
       [] c = ")" -> end_capture(ms, s, p + 1)
       [] c = "$" /\ p + 1 = PEnd(ms) -> Result(ms, IF s = SrcEnd(ms) THEN s ELSE 0)
       [] c = L_ESC /\ d = "b" -> Then(matchbalance(ms, s, p + 2), p + 4)
       [] c = L_ESC /\ d = "f" -> frontier(ms, s, p + 2)
       [] c = L_ESC /\ d \in Digit -> Then(match_capture(ms, s, IF d = "1" THEN 1 ELSE 2), p + 2)
       [] OTHER -> single(ms, s, p)

prepstate(src, p) == [src |-> src, p |-> p, capture |-> << >>, matchdepth |-> MAXCCALLS,
                      res |-> 0, err |-> ""]
reprepstate(ms) ==
  [ms EXCEPT !.capture = << >>, !.err = IF ms.matchdepth = MAXCCALLS THEN @ ELSE "assertion"]

(***************************************************************************)
(* Captures                                                                *)
(***************************************************************************)
push_onecapture(ms, i, s, e) ==    \* a value; s..e-1 is the whole match
  LET c == ms.capture[i]
  IN IF i > level(ms) THEN IF i = 1 THEN <<"string", Slice(ms.src, s, e - s)>> ELSE <<"invalid index">>
     ELSE CASE c.len = CAP_UNFINISHED -> <<"unfinished">>
            [] c.len = CAP_POSITION -> <<"position", c.init>>
            [] OTHER -> <<"string", Slice(ms.src, c.init, c.len)>>
IsError(v) == v[1] \in {"unfinished", "invalid index"}
\* The captures, or the whole match when there is none (whole).
push_captures(ms, s, e, whole) ==
  LET n == IF level(ms) = 0 /\ whole THEN 1 ELSE level(ms)
  IN [i \in 1..n |-> push_onecapture(ms, i, s, e)]
HasError(vs) == \E i \in DOMAIN vs : IsError(vs[i])

(***************************************************************************)
(* find and match                                                          *)
(***************************************************************************)
lmemfind(src, p, init) ==     \* the first place where p occurs, 0 for none
  LET S == {i \in init..Len(src) - Len(p) + 1 : Slice(src, i, Len(p)) = p}
  IN IF S = {} THEN 0 ELSE CHOOSE i \in S : \A j \in S : i <= j
posrelat(pos, len) == IF pos >= 0 THEN pos ELSE IF -pos > len THEN 0 ELSE len + pos + 1
nospecials(p) == \A i \in DOMAIN p : p[i] \notin Specials

Fails == [ok |-> FALSE, err |-> "", s |-> 0, e |-> 0, caps |-> << >>]
Answer(ms, s, whole) ==
  LET caps == push_captures(ms, s, ms.res, whole)
      err == IF ms.err # "" THEN ms.err
             ELSE IF HasError(caps) THEN "unfinished capture" ELSE ""
  IN IF err # "" THEN [Fails EXCEPT !.err = err]
     ELSE [ok |-> TRUE, err |-> "", s |-> s, e |-> ms.res - 1, caps |-> caps]
RECURSIVE Search(_, _, _, _, _)
Search(ms, s, p, anchor, whole) ==
  LET r == match(reprepstate(ms), s, p)
  IN IF ~Failed(r) THEN Answer(r, s, whole)
     ELSE IF s < SrcEnd(ms) /\ ~anchor THEN Search(r, s + 1, p, anchor, whole) ELSE Fails
str_find_aux(src, p, pos, plain, find) ==
  LET rel == posrelat(pos, Len(src))
      init == IF rel < 1 THEN 1 ELSE rel
      at == lmemfind(src, p, init)
      anchor == CharAt(p, 1) = "^"
      pat == IF anchor THEN Tail(p) ELSE p
  IN IF init > Len(src) + 1 THEN Fails
     ELSE IF find /\ (plain \/ nospecials(p))
       THEN IF at = 0 THEN Fails ELSE [Fails EXCEPT !.ok = TRUE, !.s = at, !.e = at + Len(p) - 1]
     ELSE Search(prepstate(src, pat), init, 1, anchor, ~find)

(***************************************************************************)
(* gmatch and gsub.  An empty match at the end of the last one is passed   *)
(* over.                                                                   *)
(***************************************************************************)
RECURSIVE gmatch_aux(_, _, _)
\* The end of the last match is not remembered: an empty match follows a match that it touches.
gmatch_auxTouching(ms, src, lastmatch) ==
  LET r == match(reprepstate(ms), src, 1)
      a == Answer(r, src, TRUE)
  IN IF src > SrcEnd(ms) THEN << >>
     ELSE IF r.err # "" THEN <<a>>
     ELSE IF r.res = 0 THEN gmatch_aux(r, src + 1, lastmatch)
     ELSE <<a>> \o (IF a.ok THEN gmatch_aux(r, IF r.res = src THEN src + 1 ELSE r.res, r.res) ELSE << >>)
gmatch_aux(ms, src, lastmatch) ==     \* the answers, one for each step of the iterator
  LET r == match(reprepstate(ms), src, 1)
      a == Answer(r, src, TRUE)
  IN IF src > SrcEnd(ms) THEN << >>
     ELSE IF r.err # "" THEN <<a>>
     ELSE IF r.res # 0 /\ r.res # lastmatch
       THEN <<a>> \o (IF a.ok THEN gmatch_aux(r, r.res, r.res) ELSE << >>)
     ELSE gmatch_aux(r, src + 1, lastmatch)
gmatch(src, p) == gmatch_aux(prepstate(src, p), 1, 0)

Text(v) == IF v[1] = "position" THEN <<"#", v[2]>> ELSE v[2]
RECURSIVE add_s(_, _, _, _, _)
\* The replacement text news for the match at s..e-1, from character i on.
add_s(ms, news, s, e, i) ==
  LET d == CharAt(news, i + 1)
      v == push_onecapture(ms, IF d = "1" THEN 1 ELSE 2, s, e)
      rest == add_s(ms, news, s, e, i + 2)
      Prepend(q, r) == [r EXCEPT !.text = q \o @]
      bad == [text |-> << >>, err |-> TRUE]
  IN CASE i > Len(news) -> [text |-> << >>, err |-> FALSE]
       [] i <= Len(news) /\ news[i] # L_ESC -> Prepend(<<news[i]>>, add_s(ms, news, s, e, i + 1))
       [] OTHER -> CASE d = L_ESC -> Prepend(<<L_ESC>>, rest)
                     [] d = "0" -> Prepend(Slice(ms.src, s, e - s), rest)
                     [] d \in Digit -> IF IsError(v) THEN bad ELSE Prepend(Text(v), rest)
                     [] OTHER -> bad
RECURSIVE Substitute(_, _, _, _, _, _, _)
Substitute(ms, news, src, lastmatch, n, max_s, anchor) ==
  LET r == match(reprepstate(ms), src, 1)
      add == add_s(r, news, src, r.res, 1)
      found == r.res # 0 /\ r.res # lastmatch
      go == IF found THEN Substitute(r, news, r.res, r.res, n + 1, max_s, anchor)
            ELSE Substitute(r, news, src + 1, lastmatch, n, max_s, anchor)
      rest == IF anchor THEN [text |-> Rest(ms, IF found THEN r.res ELSE src + 1),
                              n |-> IF found THEN n + 1 ELSE n, err |-> FALSE]
              ELSE go
      bad == [text |-> << >>, n |-> n, err |-> TRUE]
  IN IF n >= max_s THEN [text |-> Rest(ms, src), n |-> n, err |-> FALSE]
     ELSE IF r.err # "" THEN bad
     ELSE IF found THEN IF add.err THEN bad ELSE [rest EXCEPT !.text = add.text \o @]
     ELSE IF src < SrcEnd(ms) THEN [rest EXCEPT !.text = <<ms.src[src]>> \o @]
     ELSE [text |-> << >>, n |-> n, err |-> FALSE]
str_gsub(src, p, news, max_s) ==
  LET anchor == CharAt(p, 1) = "^"
  IN Substitute(prepstate(src, IF anchor THEN Tail(p) ELSE p), news, 1, 0, 0, max_s, anchor)
=============================================================================

------------------------------- MODULE LuaLex -------------------------------
(***************************************************************************)
(* The lexer (llex.c): from bytes to tokens with one byte of look-ahead,   *)
(* and the one token of look-ahead that the parser may ask for.  A token   *)
(* is <<"name", bytes>>, <<"number", bytes>>, <<"string", bytes>>,         *)
(* <<"op", bytes>>, which reserved words are, too, or TK_EOS.              *)
(***************************************************************************)
EXTENDS Integers, Sequences
LOCAL Utf8 == INSTANCE LuaUtf8

CONSTANTS Reserved,     \* the reserved words
          Numeral(_)    \* what luaO_str2num can convert
EOZ == -1
NL == 10
CR == 13
Equal == 61
Open == 91
Close == 93
Backslash == 92

\* lctype.c
lisdigit(c) == c \in 48..57
lisxdigit(c) == c \in 48..57 \/ c \in 65..70 \/ c \in 97..102
lislalpha(c) == c \in 65..90 \/ c \in 97..122 \/ c = 95
lislalnum(c) == lislalpha(c) \/ lisdigit(c)
lisspace(c) == c \in 9..13 \/ c = 32
luaO_hexavalue(c) == IF lisdigit(c) THEN c - 48 ELSE (c % 32) + 9

(***************************************************************************)
(* A LexState: the source, the place in it, the buffer, the first error,   *)
(* the token that has been read.                                           *)
(***************************************************************************)
TK_EOS == <<"eos">>
luaX_setinput(s) ==
  [z |-> s, pos |-> 1, linenumber |-> 1, lastline |-> 1, buff |-> << >>, err |-> "",
   t |-> << >>, lookahead |-> TK_EOS]
Current(ls) == IF ls.pos <= Len(ls.z) THEN ls.z[ls.pos] ELSE EOZ
next(ls) == [ls EXCEPT !.pos = @ + 1]
save(ls, c) == [ls EXCEPT !.buff = Append(@, c)]
save_and_next(ls) == [ls EXCEPT !.buff = Append(@, Current(ls)), !.pos = @ + 1]
resetbuffer(ls) == [ls EXCEPT !.buff = << >>]
buffremove(ls, n) == [ls EXCEPT !.buff = SubSeq(@, 1, Len(@) - n)]
lexerror(ls, msg) == [ls EXCEPT !.err = msg]
Token(ls, t) == [ls EXCEPT !.t = t]
currIsNewline(ls) == Current(ls) \in {NL, CR}
\* Any of \n, \r, \n\r and \r\n is one line.
inclinenumber(ls) ==
  LET l == next(ls)
      both == currIsNewline(l) /\ Current(l) # Current(ls)
  IN [l EXCEPT !.pos = IF both THEN @ + 1 ELSE @, !.linenumber = @ + 1]

check_next2(ls, set) == IF Current(ls) \in set THEN save_and_next(ls) ELSE ls
\* Digits, dots and exponents with a sign, well formed or not.
RECURSIVE NumeralPart(_, _)
NumeralPart(ls, expo) ==
  LET signed == IF Current(ls) \in expo THEN check_next2(save_and_next(ls), {45, 43}) ELSE ls
  IN IF lisxdigit(Current(signed)) \/ Current(signed) = 46 THEN NumeralPart(save_and_next(signed), expo)
     ELSE signed
read_numeral(ls) ==
  LET first == save_and_next(ls)
      prefix == IF Current(ls) = 48 THEN check_next2(first, {120, 88}) ELSE first
      read == NumeralPart(prefix, IF prefix # first THEN {112, 80} ELSE {101, 69})
  IN IF Numeral(read.buff) THEN Token(read, <<"number", read.buff>>)
     ELSE lexerror(read, "malformed number")

\* A sequence [=*[ or ]=*] but for its last bracket: << state, its number of =, or negative >>.
RECURSIVE SkipEquals(_)
SkipEquals(ls) == IF Current(ls) = Equal THEN SkipEquals(save_and_next(ls)) ELSE ls
skip_sep(ls) ==
  LET l == SkipEquals(save_and_next(ls))
      count == l.pos - ls.pos - 1
  IN <<l, IF Current(l) = Current(ls) THEN count ELSE -count - 1>>

\* Mutant: a closing bracket of another level is skipped with the bracket after it.
RECURSIVE LongStringPartBoth(_, _, _)
LongStringPartBoth(ls, sep, isstring) ==
  LET c == Current(ls)
      s == skip_sep(ls)
  IN IF c = EOZ THEN lexerror(ls, "unfinished long string")
     ELSE IF c = Close
       THEN IF s[2] = sep THEN save_and_next(s[1])
            ELSE LongStringPartBoth(IF s[2] >= 0 THEN save_and_next(s[1]) ELSE s[1], sep, isstring)
     ELSE IF currIsNewline(ls)
       THEN LongStringPartBoth(IF isstring THEN inclinenumber(save(ls, NL)) ELSE resetbuffer(inclinenumber(ls)),
                               sep, isstring)
     ELSE LongStringPartBoth(IF isstring THEN save_and_next(ls) ELSE next(ls), sep, isstring)
\* The loop of read_long_string, up to a closing bracket of the same level.
RECURSIVE LongStringPart(_, _, _)
LongStringPart(ls, sep, isstring) ==
  LET c == Current(ls)
      s == skip_sep(ls)
  IN IF c = EOZ THEN lexerror(ls, "unfinished long string")
     ELSE IF c = Close THEN IF s[2] = sep THEN save_and_next(s[1]) ELSE LongStringPart(s[1], sep, isstring)
     ELSE IF currIsNewline(ls)
       THEN LongStringPart(IF isstring THEN inclinenumber(save(ls, NL)) ELSE resetbuffer(inclinenumber(ls)),
                           sep, isstring)
     ELSE LongStringPart(IF isstring THEN save_and_next(ls) ELSE next(ls), sep, isstring)
read_long_string(ls, sep, isstring) ==
  LET opened == save_and_next(ls)
      l == LongStringPart(IF currIsNewline(opened) THEN inclinenumber(opened) ELSE opened, sep, isstring)
  IN IF l.err # "" \/ ~isstring THEN l
     ELSE Token(l, <<"string", SubSeq(l.buff, 3 + sep, Len(l.buff) - 2 - sep)>>)

(***************************************************************************)
(* Short strings.  An escape leaves its backslash in the buffer until it   *)
(* is complete.                                                            *)
(***************************************************************************)
\* What read_save and only_save do with the byte c.
Escaped(ls, c) == save(buffremove(ls, 1), c)
Letter == [a |-> 97, b |-> 98, f |-> 102, n |-> 110, r |-> 114, t |-> 116, u |-> 117, v |-> 118,
           x |-> 120, z |-> 122]
EscapeValue ==      \* what stands for itself, and what does not
  [c \in {97, 98, 102, 110, 114, 116, 118, 92, 34, 39} |->
     CASE c = Letter.a -> 7 [] c = Letter.b -> 8 [] c = Letter.f -> 12 [] c = Letter.n -> 10
       [] c = Letter.r -> 13 [] c = Letter.t -> 9 [] c = Letter.v -> 11 [] OTHER -> c]
readhexaesc(ls) ==
  LET one == save_and_next(ls)
      two == save_and_next(one)
  IN IF ~lisxdigit(Current(one)) \/ ~lisxdigit(Current(two)) THEN lexerror(ls, "hexadecimal digit expected")
     ELSE Escaped(next(buffremove(two, 2)), luaO_hexavalue(Current(one)) * 16 + luaO_hexavalue(Current(two)))
RECURSIVE Utf8Digits(_, _)
Utf8Digits(ls, r) ==        \* << state, value >>, behind the digits
  LET l == save_and_next(ls)
      r1 == r * 16 + luaO_hexavalue(Current(l))
  IN IF ~lisxdigit(Current(l)) THEN <<l, r>>
     ELSE IF r1 > Utf8!MAXUNICODE THEN <<lexerror(l, "UTF-8 value too large"), r1>>
     ELSE Utf8Digits(l, r1)
SaveAll(ls, cs) == [ls EXCEPT !.buff = @ \o cs]
utf8esc(ls) ==
  LET brace == save_and_next(ls)
      first == save_and_next(brace)
      d == Utf8Digits(first, luaO_hexavalue(Current(first)))
  IN IF Current(brace) # 123 THEN lexerror(ls, "missing '{'")
     ELSE IF ~lisxdigit(Current(first)) THEN lexerror(ls, "hexadecimal digit expected")
     ELSE IF d[1].err # "" THEN d[1]
     ELSE IF Current(d[1]) # 125 THEN lexerror(ls, "missing '}'")
     ELSE SaveAll(next(buffremove(d[1], d[1].pos - ls.pos + 1)), Utf8!luaO_utf8esc(d[2]))
RECURSIVE DecDigits(_, _, _)
DecDigits(ls, i, r) ==
  IF i < 3 /\ lisdigit(Current(ls)) THEN DecDigits(save_and_next(ls), i + 1, 10 * r + Current(ls) - 48)
  ELSE IF r > 255 THEN lexerror(ls, "decimal escape too large") ELSE Escaped(buffremove(ls, i), r)
RECURSIVE Zap(_)
Zap(ls) ==
  IF ~lisspace(Current(ls)) THEN ls
  ELSE Zap(IF currIsNewline(ls) THEN inclinenumber(ls) ELSE next(ls))
Escape(ls) ==               \* behind the backslash
  LET c == Current(ls) IN
  CASE c = Letter.x -> readhexaesc(ls)
    [] c = Letter.u -> utf8esc(ls)
    [] c = Letter.z -> Zap(next(buffremove(ls, 1)))
    [] c \in {NL, CR} -> Escaped(inclinenumber(ls), NL)
    [] c \in DOMAIN EscapeValue -> Escaped(next(ls), EscapeValue[c])
    [] c = EOZ -> ls
    [] lisdigit(c) -> DecDigits(ls, 0, 0)
    [] OTHER -> lexerror(ls, "invalid escape sequence")
RECURSIVE StringPart(_, _)
StringPart(ls, del) ==
  LET c == Current(ls) IN
  IF ls.err # "" \/ c = del THEN ls
  ELSE IF c \in {EOZ, NL, CR} THEN lexerror(ls, "unfinished string")
  ELSE StringPart(IF c = Backslash THEN Escape(save_and_next(ls)) ELSE save_and_next(ls), del)
read_string(ls) ==
  LET l == StringPart(save_and_next(ls), Current(ls))
      end == save_and_next(l)
  IN IF l.err # "" THEN l ELSE Token(end, <<"string", SubSeq(end.buff, 2, Len(end.buff) - 1)>>)

(***************************************************************************)
(* Tokens                                                                  *)
(***************************************************************************)
\* What may follow the first byte of an operator, and after that for "...".
Second == [c \in {61, 60, 62, 47, 126, 58} |->
             CASE c = 60 -> {61, 60} [] c = 62 -> {61, 62} [] c = 47 -> {47} [] c = 58 -> {58} [] OTHER -> {61}]
Single(ls) == Token(next(ls), <<"op", <<Current(ls)>>>>)
Operator(ls) ==
  LET c == Current(ls)  d == Current(next(ls))
  IN IF c \in DOMAIN Second /\ d \in Second[c] THEN Token(next(next(ls)), <<"op", <<c, d>>>>) ELSE Single(ls)
Dots(ls) ==
  LET l1 == save_and_next(ls)  l2 == next(l1)
  IN IF Current(l1) = 46
       THEN IF Current(l2) = 46 THEN Token(next(l2), <<"op", <<46, 46, 46>>>>)
            ELSE Token(l2, <<"op", <<46, 46>>>>)
     ELSE IF lisdigit(Current(l1)) THEN read_numeral(l1) ELSE Single(ls)
LongOrBracket(ls) ==
  LET s == skip_sep(ls)
  IN IF s[2] >= 0 THEN read_long_string(s[1], s[2], TRUE)
     ELSE IF s[2] # -1 THEN lexerror(s[1], "invalid long string delimiter")
     ELSE Token(s[1], <<"op", <<Open>>>>)
RECURSIVE Word(_)
Word(ls) == IF lislalnum(Current(ls)) THEN Word(save_and_next(ls)) ELSE ls
Name(ls) == LET l == Word(ls) IN Token(l, <<IF l.buff \in Reserved THEN "op" ELSE "name", l.buff>>)
RECURSIVE ToEndOfLine(_)
ToEndOfLine(ls) == IF currIsNewline(ls) \/ Current(ls) = EOZ THEN ls ELSE ToEndOfLine(next(ls))
Comment(ls) ==
  LET s == skip_sep(ls)
  IN IF Current(ls) = Open /\ s[2] >= 0 THEN resetbuffer(read_long_string(resetbuffer(s[1]), s[2], FALSE))
     ELSE ToEndOfLine(IF Current(ls) = Open THEN resetbuffer(s[1]) ELSE ls)
RECURSIVE Lex(_)
Lex(ls) ==
  LET c == Current(ls) IN
  IF ls.err # "" THEN ls
  ELSE IF currIsNewline(ls) THEN Lex(inclinenumber(ls))
  ELSE IF lisspace(c) THEN Lex(next(ls))
  ELSE IF c = 45 THEN IF Current(next(ls)) = 45 THEN Lex(Comment(next(next(ls)))) ELSE Single(ls)
  ELSE IF c = Open THEN LongOrBracket(ls)
  ELSE IF c \in {34, 39} THEN read_string(ls)
  ELSE IF c = 46 THEN Dots(ls)
  ELSE IF lisdigit(c) THEN read_numeral(ls)
  ELSE IF c = EOZ THEN Token(ls, TK_EOS)
  ELSE IF lislalpha(c) THEN Name(ls)
  ELSE Operator(ls)
llex(ls) == Lex(resetbuffer(ls))

luaX_next(ls) ==
  LET l == [ls EXCEPT !.lastline = ls.linenumber]
  IN IF ls.lookahead # TK_EOS THEN [l EXCEPT !.t = ls.lookahead, !.lookahead = TK_EOS] ELSE llex(l)
\* The token that has been read is not the current one.
luaX_lookahead(ls) == LET l == llex(ls) IN [l EXCEPT !.lookahead = l.t, !.t = ls.t]

(***************************************************************************)
(* What string.format writes for %q (addquoted)                            *)
(***************************************************************************)
Decimal(c) == <<48 + (c \div 100), 48 + ((c \div 10) % 10), 48 + (c % 10)>>
Quoted(s, i) ==
  LET c == s[i]
      digits == Decimal(c)
  IN IF c \in {34, Backslash, NL} THEN <<Backslash, c>>
     ELSE IF c < 32 \/ c = 127
       THEN <<Backslash>> \o (IF i < Len(s) /\ lisdigit(s[i + 1]) THEN digits
                              ELSE IF c < 10 THEN SubSeq(digits, 3, 3)
                              ELSE IF c < 100 THEN SubSeq(digits, 2, 3) ELSE digits)
     ELSE <<c>>
RECURSIVE QuotedFrom(_, _)
QuotedFrom(s, i) == IF i > Len(s) THEN << >> ELSE Quoted(s, i) \o QuotedFrom(s, i + 1)
addquoted(s) == <<34>> \o QuotedFrom(s, 1) \o <<34>>
=============================================================================

------------------------------- MODULE AskLex -------------------------------
(***************************************************************************)
(* Questions about the lexer and about UTF-8: what section 3.1 of the      *)
(* manual says of lexical elements, against what the lexer reads with one  *)
(* byte of look-ahead, and the codes of bytes against the bytes of codes.  *)
(***************************************************************************)
EXTENDS Asking
LOCAL INSTANCE SequencesExt

\* What a numeral is, once it has been cut out: digits with a dot or an exponent.
DecDigit == 48..57
HexDigit == DecDigit \cup 65..70 \cup 97..102
AllIn(w, S) == \A i \in DOMAIN w : w[i] \in S
Fraction(w, S) ==
  /\ AllIn(w, S \cup {46}) /\ Cardinality({i \in DOMAIN w : w[i] = 46}) <= 1
  /\ \E i \in DOMAIN w : w[i] \in S
Exponent(w) ==
  LET digits == IF w # << >> /\ w[1] \in {43, 45} THEN Tail(w) ELSE w
  IN digits # << >> /\ AllIn(digits, DecDigit)
Scaled(w, S, mark) ==
  \/ Fraction(w, S)
  \/ \E i \in DOMAIN w : w[i] \in mark /\ Fraction(SubSeq(w, 1, i - 1), S) /\ Exponent(SubSeq(w, i + 1, Len(w)))
WellFormed(w) ==
  IF Len(w) > 1 /\ w[1] = 48 /\ w[2] \in {120, 88} THEN Scaled(SubSeq(w, 3, Len(w)), HexDigit, {112, 80})
  ELSE Scaled(w, DecDigit, {101, 69})

Words2 == {<<100, 111>>, <<105, 102>>}      \* do, if
Lexer == INSTANCE LuaLex WITH Reserved <- Words2, Numeral <- WellFormed
Utf == INSTANCE LuaUtf8

(***************************************************************************)
(* Questions.  The tokens are read up to the end or an error; those before *)
(* which the parser has looked ahead are chosen.                           *)
(***************************************************************************)
RECURSIVE Tokens(_, _, _)
Tokens(ls, ts, ahead) ==
  LET peeked == IF Len(ts) + 1 \in ahead THEN Lexer!luaX_lookahead(ls) ELSE ls
      l == Lexer!luaX_next(peeked)
  IN IF l.err # "" THEN [ts |-> Append(ts, <<"error">>), lines |-> l.linenumber]
     ELSE IF l.t = Lexer!TK_EOS THEN [ts |-> ts, lines |-> l.linenumber]
     ELSE Tokens(l, Append(ts, l.t), ahead)

LongBrackets == {<<91, 91>>, <<91, 61, 91>>, <<45, 45, 91, 91>>, <<45, 45, 91, 61>>, <<45, 45>>}
LongTexts == {o \o w \o c : o \in LongBrackets, w \in Words({10, 13, 61, 91, 93, 97}, 3),
                            c \in {<<93, 93>>, <<93, 61, 93, 10, 97>>}}
\* After a backslash: the letters a, n, u, x, z, digits, braces, space, ends of lines, quotes.
Escapes == {97, 110, 117, 120, 122, 49, 57, 123, 125, 32, 10, 13, 34, 92}
ShortTexts == {<<q, 92>> \o w \o <<34>> : q \in {34, 39}, w \in Words(Escapes, 3)}
              \cup {<<34, 92, 117, 123>> \o w \o <<125, 34>> : w \in Words({48, 49, 70}, 4) \cup {<<49, 48, 70, 70, 70, 70>>, <<49, 49, 48, 48, 48, 48>>}}
              \cup {<<34, 92>> \o w \o <<34>> : w \in Words({48, 50, 53, 54}, 4)}
Mixed == Words({46, 48, 120, 101, 45, 61, 60, 58, 126, 47}, 4)
         \cup Words({100, 111, 95, 49, 32, 10, 13}, 4)
AskTokens == \E s \in LongTexts \cup ShortTexts \cup Mixed :
  question' = <<"tokens", s>>
AskAhead == \E s \in Words({46, 49, 61, 45, 97, 34}, 4), ahead \in SUBSET (1..3) :
  /\ ahead # {} /\ question' = <<"ahead", s, ahead>>
AskQuoted == \E s \in Words({34, 92, 10, 13, 0, 49, 97, 127, 200}, 4) :
  question' = <<"quoted", s>>

(***************************************************************************)
(* The manual: white space and comments come between tokens, and a token   *)
(* is as long as it can be.                                                *)
(***************************************************************************)
Symbols == {<<c>> : c \in 1..127} \cup {<<61, 61>>, <<126, 61>>, <<60, 61>>, <<62, 61>>, <<47, 47>>,
       <<60, 60>>, <<62, 62>>, <<58, 58>>, <<46, 46>>, <<46, 46, 46>>}
NameChar == 65..90 \cup 97..122 \cup {95} \cup DecDigit
\* Where the longest piece from i on ends whose bytes are all in S.
Span(s, i, S) == Least({j \in i..Len(s) + 1 : j > Len(s) \/ s[j] \notin S})
\* The level of a long bracket that opens at i, or -1.
Level(s, i) ==
  LET j == Span(s, i + 1, {61}) IN IF j <= Len(s) /\ s[i] = 91 /\ s[j] = 91 THEN j - i - 1 ELSE -1
\* Where the long bracket ends, or 0.
Closes(s, i) ==
  LET n == Level(s, i)
      ends == {j \in i + n + 2..Len(s) - n - 1 : /\ s[j] = 93 /\ s[j + n + 1] = 93
                                                /\ \A k \in j + 1..j + n : s[k] = 61}
  IN IF ends = {} THEN 0 ELSE Least(ends) + n + 2
\* Every end of line, one or two bytes, becomes one newline.
RECURSIVE Lines(_)
Lines(w) ==
  IF w = << >> THEN << >>
  ELSE IF w[1] \notin {10, 13} THEN <<w[1]>> \o Lines(Tail(w))
  ELSE <<10>> \o Lines(IF Len(w) > 1 /\ {w[1], w[2]} = {10, 13} THEN SubSeq(w, 3, Len(w)) ELSE Tail(w))
LongValue(s, i) ==
  LET w == Lines(SubSeq(s, i + Level(s, i) + 2, Closes(s, i) - Level(s, i) - 3))
  IN IF w # << >> /\ w[1] = 10 THEN Tail(w) ELSE w

\* The bytes that a piece of a short string stands for: << >> when it is not one.
Hex(w) == FoldLeft(LAMBDA a, c : a * 16 + (IF c \in DecDigit THEN c - 48 ELSE (c % 32) + 9), 0, w)
Dec(w) == FoldLeft(LAMBDA a, c : a * 10 + c - 48, 0, w)
Simple == [c \in {97, 110, 34, 39, 92} |-> CASE c = 97 -> 7 [] c = 110 -> 10 [] OTHER -> c]
Stands(w) ==          \* a set with its meaning
  LET body == SubSeq(w, 3, Len(w)) IN
  IF w[1] # 92 THEN IF Len(w) = 1 /\ w[1] \notin {10, 13} THEN {<<w[1]>>} ELSE {}
  ELSE IF Len(w) = 1 THEN {}
  ELSE IF Len(w) = 2 /\ w[2] \in DOMAIN Simple THEN {<<Simple[w[2]]>>}
  ELSE IF Tail(w) \in {<<10>>, <<13>>, <<10, 13>>, <<13, 10>>} THEN {<<10>>}
  ELSE IF w[2] = 120 /\ Len(w) = 4 /\ AllIn(body, HexDigit) THEN {<<Hex(body)>>}
  ELSE IF w[2] \in DecDigit /\ Len(w) <= 4 /\ AllIn(Tail(w), DecDigit) /\ Dec(Tail(w)) <= 255 THEN {<<Dec(Tail(w))>>}
  ELSE IF w[2] = 122 /\ AllIn(body, 9..13 \cup {32}) THEN {<< >>}
  ELSE IF w[2] = 117 /\ Len(w) >= 5 /\ w[3] = 123 /\ w[Len(w)] = 125
    THEN LET hex == SubSeq(w, 4, Len(w) - 1)
         IN IF AllIn(hex, HexDigit) /\ Hex(hex) <= Utf!MAXUNICODE THEN {Utf!luaO_utf8esc(Hex(hex))} ELSE {}
  ELSE {}
\* Too many digits are an error, not shorter escapes.
TooLarge(s, i) == /\ Len(s) >= i + 3 /\ s[i] = 92
                  /\ AllIn(SubSeq(s, i + 1, i + 3), DecDigit) /\ Dec(SubSeq(s, i + 1, i + 3)) > 255
\* << where a short string with delimiter q that goes on at i ends, its value >>, or << >>.
RECURSIVE ShortFrom(_, _, _)
ShortFrom(s, i, q) ==
  LET pieces == {j \in i..Len(s) : Stands(SubSeq(s, i, j)) # {}}
      j == CHOOSE j \in pieces : \A k \in pieces : k <= j
      rest == ShortFrom(s, j + 1, q)
  IN IF i > Len(s) THEN << >>
     ELSE IF s[i] = q THEN <<i + 1, << >> >>
     ELSE IF pieces = {} \/ TooLarge(s, i) \/ rest = << >> THEN << >>
     ELSE <<rest[1], (CHOOSE m \in Stands(SubSeq(s, i, j)) : TRUE) \o rest[2]>>

\* A numeral goes on as long as it might, and is then one or an error; .0x begins a hexadecimal one.
NumeralEnd(s, i) ==
  LET d == IF s[i] = 46 THEN i + 1 ELSE i
      hex == Len(s) > d /\ s[d] = 48 /\ s[d + 1] \in {120, 88}
      mark == IF hex THEN {112, 80} ELSE {101, 69}
      Goes(j) == \/ s[j] \in HexDigit \cup mark \cup {46}
                 \/ hex /\ j = d + 1
                 \/ s[j] \in {43, 45} /\ s[j - 1] \in mark
  IN Least({j \in i + 1..Len(s) + 1 : j > Len(s) \/ ~Goes(j)})
\* The token at i: << where it ends, token >>, where "skip" is no token.
Element(s, i) ==
  LET c == s[i]
      At(k) == IF i + k <= Len(s) THEN s[i + k] ELSE 0
      long == IF c = 45 THEN i + 2 ELSE i
      ops == {w \in {SubSeq(s, i, j) : j \in i..(IF i + 2 <= Len(s) THEN i + 2 ELSE Len(s))} : w \in Symbols}
      op == CHOOSE w \in ops : \A v \in ops : Len(v) <= Len(w)
      short == ShortFrom(s, i + 1, c)
      Failed == <<0, <<"error">> >>
  IN IF c \in {9, 10, 11, 12, 13, 32} THEN <<i + 1, <<"skip">> >>
     ELSE IF c = 45 /\ At(1) = 45
       THEN IF i + 2 <= Len(s) /\ Level(s, long) >= 0
              THEN IF Closes(s, long) = 0 THEN Failed ELSE <<Closes(s, long), <<"skip">> >>
            ELSE <<Span(s, i, 1..127 \ {10, 13}), <<"skip">> >>
     ELSE IF Level(s, i) >= 0
       THEN IF Closes(s, i) = 0 THEN Failed ELSE <<Closes(s, i), <<"string", LongValue(s, i)>> >>
     ELSE IF c = 91 /\ At(1) = 61 THEN Failed
     ELSE IF c \in {34, 39} THEN IF short = << >> THEN Failed ELSE <<short[1], <<"string", short[2]>> >>
     ELSE IF c \in DecDigit \/ (c = 46 /\ At(1) \in DecDigit)
       THEN LET w == SubSeq(s, i, NumeralEnd(s, i) - 1)
            IN IF WellFormed(w) THEN <<i + Len(w), <<"number", w>> >> ELSE Failed
     ELSE IF c \in NameChar
       THEN LET w == SubSeq(s, i, Span(s, i, NameChar) - 1)
            IN <<i + Len(w), <<IF w \in Words2 THEN "op" ELSE "name", w>> >>
     ELSE <<i + Len(op), <<"op", op>> >>
RECURSIVE Elements(_, _)
Elements(s, i) ==
  LET e == Element(s, i)
  IN IF i > Len(s) THEN << >>
     ELSE IF e[1] = 0 THEN <<e[2]>>
     ELSE (IF e[2][1] = "skip" THEN << >> ELSE <<e[2]>>) \o Elements(s, e[1])
Ends(s) == Len(SelectSeq(Lines(s), LAMBDA c : c = 10))
TokensRight(asked, answer) ==
  /\ answer.ts = Elements(asked[2], 1)
  /\ (answer.ts = << >> \/ Last(answer.ts) # <<"error">>) => answer.lines = 1 + Ends(asked[2])

(***************************************************************************)
(* UTF-8.  A character is one to four bytes, and the shortest that hold    *)
(* its code; positions are those of bytes.                                 *)
(***************************************************************************)
Cont(x) == 128 + (x % 64)
Encoded(x) ==
  IF x < 128 THEN <<x>>
  ELSE IF x < 2048 THEN <<192 + x \div 64, Cont(x)>>
  ELSE IF x < 65536 THEN <<224 + x \div 4096, Cont(x \div 64), Cont(x)>>
  ELSE <<240 + x \div 262144, Cont(x \div 4096), Cont(x \div 64), Cont(x)>>
\* The code whose bytes start at position p, as a set, and how many bytes it has.
LeadBits == <<128, 32, 16, 8>>
CodesAt(s, p) ==
  {<<x, n>> \in {<<FoldLeft(LAMBDA a, c : a * 64 + (c % 64), s[p] % LeadBits[n], SubSeq(s, p + 1, p + n - 1)), n>> :
                 n \in {n \in 1..4 : p + n - 1 <= Len(s)}} :
     x <= 1114111 /\ Encoded(x) = SubSeq(s, p, p + n - 1)}
\* The characters that start from p to last, up to an invalid one, with code -1.
RECURSIVE Chars(_, _, _)
Chars(s, p, last) ==
  IF p > last THEN << >>
  ELSE IF CodesAt(s, p) = {} THEN <<<<p, -1>>>>
  ELSE LET c == CHOOSE c \in CodesAt(s, p) : TRUE IN <<<<p, c[1]>>>> \o Chars(s, p + c[2], last)
Utf8Bytes == {65, 128, 159, 160, 191, 192, 193, 194, 224, 237, 240, 244, 255}
ByteStrings == Words(Utf8Bytes, 3) \cup {<<c>> \o w : c \in {194, 224, 237, 240, 244, 248}, w \in Words({65, 128, 143, 144, 191}, 4)}
AskUtf == \E s \in ByteStrings :
  LET R == -Len(s) - 1..Len(s) + 1 IN
  \/ question' = <<"utf", s>>
  \/ \E i, j \in R : /\ Len(s) = 3 => i \in {1, 2, -1} /\ j \in {-1, 2}
                     /\ Len(s) > 3 => i \in {1, 2} /\ j \in {-1, 3}
                     /\ question' = <<"range", s, i, j>>
AskOffset == \E s \in UNION {[1..k -> {65, 194 * 1000 + 128, 237 * 1000 + 128, 244 * 1000 + 128}] : k \in 0..3} :
  LET Char(c) == IF c < 1000 THEN <<c>> ELSE [i \in 1..(CASE c \div 1000 = 194 -> 2 [] c \div 1000 = 237 -> 3 [] OTHER -> 4) |->
                                               IF i = 1 THEN c \div 1000 ELSE c % 1000]
      bytes == FlattenSeq([i \in DOMAIN s |-> Char(s[i])])
  IN \E n \in -4..4, i \in -Len(bytes) - 1..Len(bytes) + 2 :
       question' = <<"offset", bytes, n, i>>
AskCode == \E x \in 0..128 \cup UNION {b - 2..b + 2 : b \in {2048, 4096, 55296, 57344, 65536, 262144, 1114111}} :
  question' = <<"code", x>>

Absolute(i, n) == IF i >= 0 THEN i ELSE IF n + i + 1 < 0 THEN 0 ELSE n + i + 1
RangeRight(asked) ==
  LET s == asked[2]
      i == Absolute(asked[3], Len(s))  j == Absolute(asked[4], Len(s))
      chars == Chars(s, i, j)
      valid == \A c \in Range(chars) : c[2] # -1
      counted == Utf!utflen(s, asked[3], asked[4])  listed == Utf!codepoint(s, asked[3], asked[4])
  IN /\ (counted.err = "") = (i \in 1..Len(s) + 1 /\ j <= Len(s))
     /\ counted.err = "" => counted.r = IF valid THEN <<Len(chars)>> ELSE <<"nil", Last(chars)[1]>>
     /\ (listed.err = "") = (i >= 1 /\ j <= Len(s) /\ valid)
     /\ listed.err = "" => listed.r = [k \in DOMAIN chars |-> chars[k][2]]
\* Where characters start, the place behind the last one, too.
OffsetRight(asked, answer) ==
  LET s == asked[2]  n == asked[3]  i == Absolute(asked[4], Len(s))
      starts == {c[1] : c \in Range(Chars(s, 1, Len(s)))} \cup {Len(s) + 1}
      Before(p) == Cardinality({q \in starts : q < p})
      found == {p \in starts : IF n > 0 THEN Before(p) = Before(i) + n - 1
                               ELSE IF n < 0 THEN Before(p) = Before(i) + n
                               ELSE p <= i /\ \A q \in starts : q <= i => q <= p}
  IN /\ (answer.err = "") = (i \in 1..Len(s) + 1 /\ (n = 0 \/ i \in starts))
     /\ answer.err = "" => answer.r = IF found = {} THEN <<"nil">> ELSE <<Least(found)>>
Utf8Right(asked) ==
  /\ asked[1] = "utf" =>
       LET chars == Chars(asked[2], 1, Len(asked[2]))  answer == Utf!codes(asked[2], 0) IN
       IF \A c \in Range(chars) : c[2] # -1 THEN answer.err = "" /\ answer.r = chars ELSE answer.err # ""
  /\ asked[1] = "range" => RangeRight(asked)
  /\ asked[1] = "offset" => OffsetRight(asked, Utf!byteoffset(asked[2], asked[3], asked[4]))
  /\ asked[1] = "code" => LET answer == Utf!utfchar(<<asked[2], 65>>) IN
                         IF asked[2] <= 1114111 THEN answer.err = "" /\ answer.r = Encoded(asked[2]) \o <<65>>
                         ELSE answer.err # ""

\* One byte of look-ahead finds the longest tokens of the manual, with their values and lines; a
\* token that the parser looks ahead for changes none of them; what %q writes reads as the
\* string it was; and UTF-8 is decoded only in its shortest form.
LexRight == [][\A asked \in {question'} : (
  /\ asked[1] = "tokens" => TokensRight(asked, Tokens(Lexer!luaX_setinput(asked[2]), << >>, {}))
  /\ asked[1] = "ahead" => Tokens(Lexer!luaX_setinput(asked[2]), << >>, asked[3]) = Tokens(Lexer!luaX_setinput(asked[2]), << >>, {})
  /\ asked[1] = "quoted" => Tokens(Lexer!luaX_setinput(Lexer!addquoted(asked[2])), << >>, {}).ts = <<<<"string", asked[2]>>>>
  /\ Utf8Right(asked))]_question
=============================================================================

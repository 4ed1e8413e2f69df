------------------------------- MODULE LuaNum -------------------------------
(***************************************************************************)
(* Numbers: comparison, conversion, integer arithmetic and the numeric for *)
(* loop (lvm.c, lobject.c).  A number is <<"int", i>> or <<"float", q>>,   *)
(* where q counts quarters, is Inf, -Inf or NaN; a string is               *)
(* <<"string", characters>>.  Integers have NBITS bits and wrap around,    *)
(* floats have a mantissa of 3 bits.                                       *)
(***************************************************************************)
EXTENDS Integers, Sequences

CONSTANTS NBITS, NBM        \* of integers; 2^NBM is the last integer before floats have gaps
Half == 2^(NBITS - 1)
LUA_MAXINTEGER == Half - 1
LUA_MININTEGER == -Half
Unsigned(i) == i % (2 * Half)
Wrap(i) == ((i + Half) % (2 * Half)) - Half

One == 4
Inf == 10000
NaN == 20000
MaxFloat == 7 * One * 2^NBM
IsNaN(q) == q = NaN
luai_numlt(a, b) == ~IsNaN(a) /\ ~IsNaN(b) /\ a < b
luai_numle(a, b) == ~IsNaN(a) /\ ~IsNaN(b) /\ a <= b
luai_numeq(a, b) == ~IsNaN(a) /\ a = b

\* The float nearest to q quarters, of two the one with an even mantissa.
Unit(a) == CHOOSE u \in {2^e : e \in 0..12} : a < 8 * u /\ (u = 1 \/ a >= 4 * u)
Near(a) ==
  LET u == Unit(a)
      d == a \div u
      r == (IF 2 * (a % u) < u \/ (2 * (a % u) = u /\ d % 2 = 0) THEN d ELSE d + 1) * u
  IN IF r > MaxFloat THEN Inf ELSE r
Round(q) == IF q < 0 THEN -Near(-q) ELSE Near(q)
cast_num(i) == Round(i * One)
Add(a, b) ==
  IF IsNaN(a) \/ IsNaN(b) THEN NaN
  ELSE IF {a, b} = {Inf, -Inf} THEN NaN
  ELSE IF a \in {Inf, -Inf} THEN a ELSE IF b \in {Inf, -Inf} THEN b ELSE Round(a + b)
luai_numunm(a) == IF IsNaN(a) THEN NaN ELSE -a
luai_numsub(a, b) == Add(a, luai_numunm(b))
l_floor(q) == IF q \in {Inf, -Inf, NaN} THEN q ELSE (q \div One) * One
lua_numbertointeger(q) ==     \* << >>, or the integer
  IF luai_numle(LUA_MININTEGER * One, q) /\ luai_numlt(q, -LUA_MININTEGER * One) THEN <<q \div One>> ELSE << >>

(***************************************************************************)
(* Numerals                                                                *)
(***************************************************************************)
Digits == <<"0", "1", "2", "3", "4", "5", "6", "7", "8", "9", "a", "b", "c", "d", "e", "f">>
luaO_hexavalue(c) == (CHOOSE i \in DOMAIN Digits : Digits[i] = c) - 1
IsDigit(c) == \E i \in 1..10 : Digits[i] = c
IsXDigit(c) == \E i \in DOMAIN Digits : Digits[i] = c
At(s, i) == IF i \in DOMAIN s THEN s[i] ELSE "\\0"
RECURSIVE SkipSpace(_, _)
SkipSpace(s, i) == IF At(s, i) = " " THEN SkipSpace(s, i + 1) ELSE i

MAXBY10 == LUA_MAXINTEGER \div 10
MAXLASTD == LUA_MAXINTEGER % 10
RECURSIVE ReadHex(_, _, _), ReadDec(_, _, _, _)
ReadHex(s, i, a) ==           \* << where the digits end, their value >>
  IF IsXDigit(At(s, i)) THEN ReadHex(s, i + 1, Unsigned(a * 16 + luaO_hexavalue(s[i]))) ELSE <<i, a>>
ReadDec(s, i, a, neg) ==      \* the place is 0 when the number does not fit an integer
  LET d == luaO_hexavalue(s[i])
  IN IF ~IsDigit(At(s, i)) THEN <<i, a>>
     ELSE IF a >= MAXBY10 /\ (a > MAXBY10 \/ d > MAXLASTD + neg) THEN <<0, a>>
     ELSE ReadDec(s, i + 1, Unsigned(a * 10 + d), neg)
l_str2int(s) ==               \* << >>, or the integer
  LET i0 == SkipSpace(s, 1)
      neg == IF At(s, i0) = "-" THEN 1 ELSE 0
      i == IF At(s, i0) \in {"-", "+"} THEN i0 + 1 ELSE i0
      hex == At(s, i) = "0" /\ At(s, i + 1) = "x"
      first == IF hex THEN i + 2 ELSE i
      r == IF hex THEN ReadHex(s, first, 0) ELSE ReadDec(s, first, 0, neg)
      value == IF neg = 1 THEN -r[2] ELSE r[2]
  IN IF r[1] = 0 \/ r[1] = first \/ SkipSpace(s, r[1]) # Len(s) + 1 THEN << >> ELSE <<Wrap(value)>>
\* strtod: blanks, a sign, decimal digits with a fraction ".5" or none.
RECURSIVE Decimal(_, _, _)
Decimal(s, i, a) == IF IsDigit(At(s, i)) THEN Decimal(s, i + 1, a * 10 + luaO_hexavalue(s[i])) ELSE <<i, a>>
lua_str2number(s) ==
  LET i0 == SkipSpace(s, 1)
      i == IF At(s, i0) \in {"-", "+"} THEN i0 + 1 ELSE i0
      r == Decimal(s, i, 0)
      frac == At(s, r[1]) = "." /\ At(s, r[1] + 1) = "5"
      q == r[2] * One + (IF frac THEN 2 ELSE 0)
      last == IF frac THEN r[1] + 2 ELSE r[1]
  IN IF last = i \/ SkipSpace(s, last) # Len(s) + 1 THEN << >> ELSE <<Round(IF At(s, i0) = "-" THEN -q ELSE q)>>
HasLetter(s, c) == \E i \in DOMAIN s : s[i] = c
l_str2d(s) == IF HasLetter(s, "n") THEN << >> ELSE lua_str2number(s)    \* no "nan" or "inf"; no hexadecimal float
luaO_str2num(s) ==            \* << >>, or the number
  IF l_str2int(s) # << >> THEN <<<<"int", l_str2int(s)[1]>>>>
  ELSE IF l_str2d(s) # << >> THEN <<<<"float", l_str2d(s)[1]>>>> ELSE << >>

luaV_tonumber_(v) ==          \* << >>, or the float
  CASE v[1] = "float" -> <<v[2]>>
    [] v[1] = "int" -> <<cast_num(v[2])>>
    [] v[1] = "string" -> LET r == luaO_str2num(v[2])
                          IN IF r = << >> THEN << >>
                             ELSE IF r[1][1] = "int" THEN <<cast_num(r[1][2])>> ELSE <<r[1][2]>>
    [] OTHER -> << >>
RECURSIVE luaV_tointeger(_, _)
\* Rounds a float down for mode 1 and up for mode 2, and refuses a fraction for mode 0.
luaV_tointeger(v, mode) ==
  LET f == l_floor(v[2])
  IN CASE v[1] = "int" -> <<v[2]>>
       [] v[1] = "float" -> IF v[2] = f THEN lua_numbertointeger(f)
                            ELSE IF mode = 0 THEN << >>
                            ELSE lua_numbertointeger(IF mode > 1 THEN Add(f, One) ELSE f)
       [] v[1] = "string" -> LET r == luaO_str2num(v[2])
                             IN IF r = << >> THEN << >> ELSE luaV_tointeger(r[1], mode)
       [] OTHER -> << >>

(***************************************************************************)
(* Comparison                                                              *)
(***************************************************************************)
l_intfitsf(i) == -(2^NBM) <= i /\ i <= 2^NBM
\* The integer is converted although it may not fit a float.
LTintfloatCast(i, f) == luai_numlt(cast_num(i), f)
LTintfloat(i, f) ==
  IF l_intfitsf(i) THEN luai_numlt(cast_num(i), f)
  ELSE IF luai_numle(-LUA_MININTEGER * One, f) THEN TRUE
  ELSE luai_numlt(LUA_MININTEGER * One, f) /\ i < (IF f < 0 THEN -(-f \div One) ELSE f \div One)
LEintfloat(i, f) ==
  IF l_intfitsf(i) THEN luai_numle(cast_num(i), f)
  ELSE IF luai_numle(-LUA_MININTEGER * One, f) THEN TRUE
  ELSE luai_numle(LUA_MININTEGER * One, f) /\ i <= (IF f < 0 THEN -(-f \div One) ELSE f \div One)
LTnum(l, r) ==
  CASE l[1] = "int" /\ r[1] = "int" -> l[2] < r[2]
    [] l[1] = "int" /\ r[1] = "float" -> LTintfloat(l[2], r[2])
    [] l[1] = "float" /\ r[1] = "float" -> luai_numlt(l[2], r[2])
    [] OTHER -> ~IsNaN(l[2]) /\ ~LEintfloat(r[2], l[2])
LEnum(l, r) ==
  CASE l[1] = "int" /\ r[1] = "int" -> l[2] <= r[2]
    [] l[1] = "int" /\ r[1] = "float" -> LEintfloat(l[2], r[2])
    [] l[1] = "float" /\ r[1] = "float" -> luai_numle(l[2], r[2])
    [] OTHER -> ~IsNaN(l[2]) /\ ~LTintfloat(r[2], l[2])
luaV_equalobj(l, r) ==
  CASE l[1] # r[1] -> LET i == luaV_tointeger(l, 0)  j == luaV_tointeger(r, 0) IN i # << >> /\ i = j
    [] l[1] = "int" /\ r[1] = "int" -> l[2] = r[2]
    [] OTHER -> luai_numeq(l[2], r[2])

\* Strings with zeros in them are compared chunk by chunk: strcoll sees what is before a zero.
StrLen(s, i) == (CHOOSE n \in 0..Len(s) : At(s, i + n) = "\\0" /\ \A k \in 0..n - 1 : At(s, i + k) # "\\0")
RECURSIVE strcoll(_, _)
strcoll(x, y) ==
  CASE x = << >> -> IF y = << >> THEN 0 ELSE -1
    [] y = << >> /\ x # << >> -> 1
    [] OTHER -> LET a == luaO_hexavalue(x[1])  b == luaO_hexavalue(y[1])
                IN IF a = b THEN strcoll(Tail(x), Tail(y)) ELSE a - b
RECURSIVE l_strcmp(_, _)
l_strcmp(l, r) ==
  LET n == StrLen(l, 1)
      temp == strcoll(SubSeq(l, 1, n), SubSeq(r, 1, StrLen(r, 1)))
  IN IF temp # 0 THEN temp
     ELSE IF n = Len(r) THEN IF n = Len(l) THEN 0 ELSE 1
     ELSE IF n = Len(l) THEN -1
     ELSE l_strcmp(SubSeq(l, n + 2, Len(l)), SubSeq(r, n + 2, Len(r)))

(***************************************************************************)
(* Integer arithmetic; << >> is an error                                   *)
(***************************************************************************)
CDiv(m, n) == LET q == (IF m < 0 THEN -m ELSE m) \div (IF n < 0 THEN -n ELSE n) IN IF (m < 0) = (n < 0) THEN q ELSE -q
CRem(m, n) == m - CDiv(m, n) * n
OtherSign(m, n) == (m < 0) # (n < 0)        \* (m ^ n) < 0
luaV_div(m, n) ==
  IF Unsigned(n + 1) <= 1 THEN IF n = 0 THEN << >> ELSE <<Wrap(-m)>>
  ELSE <<IF OtherSign(m, n) /\ CRem(m, n) # 0 THEN CDiv(m, n) - 1 ELSE CDiv(m, n)>>
\* Truncates, as C does.
luaV_divTruncates(m, n) ==
  IF Unsigned(n + 1) <= 1 THEN IF n = 0 THEN << >> ELSE <<Wrap(-m)>> ELSE <<CDiv(m, n)>>
luaV_mod(m, n) ==
  IF Unsigned(n + 1) <= 1 THEN IF n = 0 THEN << >> ELSE <<0>>
  ELSE <<IF OtherSign(m, n) /\ CRem(m, n) # 0 THEN CRem(m, n) + n ELSE CRem(m, n)>>
luaV_shiftl(x, y) ==
  IF y < 0 THEN IF y <= -NBITS THEN 0 ELSE Wrap(Unsigned(x) \div 2^(-y))
  ELSE IF y >= NBITS THEN 0 ELSE Wrap(Unsigned(x) * 2^y)
Bit(x, k) == (Unsigned(x) \div 2^k) % 2
RECURSIVE FromBits(_, _)
FromBits(b, k) == IF k = NBITS THEN 0 ELSE b[k] * 2^k + FromBits(b, k + 1)
Bits(f) == Wrap(FromBits(f, 0))
intarith(op, m, n) ==
  CASE op = "+" -> <<Wrap(m + n)>>
    [] op = "-" -> <<Wrap(m - n)>>
    [] op = "*" -> <<Wrap(m * n)>>
    [] op = "%" -> luaV_mod(m, n)
    [] op = "//" -> luaV_div(m, n)
    [] op = "&" -> <<Bits([k \in 0..NBITS - 1 |-> Bit(m, k) * Bit(n, k)])>>
    [] op = "|" -> <<Bits([k \in 0..NBITS - 1 |-> IF Bit(m, k) + Bit(n, k) > 0 THEN 1 ELSE 0])>>
    [] op = "~" -> <<Bits([k \in 0..NBITS - 1 |-> (Bit(m, k) + Bit(n, k)) % 2])>>
    [] op = "<<" -> <<luaV_shiftl(m, n)>>
    [] op = ">>" -> <<luaV_shiftl(m, Wrap(-n))>>
\* fmod, corrected to the sign of the divisor.
luai_nummod(a, b) ==
  IF IsNaN(a) \/ IsNaN(b) \/ a \in {Inf, -Inf} \/ b = 0 THEN NaN
  ELSE LET m == IF b \in {Inf, -Inf} THEN a ELSE CRem(a, b) IN IF m # 0 /\ OtherSign(m, b) THEN Add(m, b) ELSE m
numarith(op, a, b) ==
  CASE op = "+" -> Add(a, b) [] op = "-" -> luai_numsub(a, b) [] OTHER -> luai_nummod(a, b)
\* The value, "error" for a division by zero, or "event" when the operands are no numbers.
luaO_arith(op, p1, p2) ==
  LET bitwise == op \in {"&", "|", "~", "<<", ">>"}
      i == luaV_tointeger(p1, 0)  j == luaV_tointeger(p2, 0)
      a == luaV_tonumber_(p1)  b == luaV_tonumber_(p2)
      Whole(r) == IF r = << >> THEN <<"error">> ELSE <<"int", r[1]>>
  IN CASE bitwise -> IF i # << >> /\ j # << >> THEN Whole(intarith(op, i[1], j[1])) ELSE <<"event">>
       [] ~bitwise /\ p1[1] = "int" /\ p2[1] = "int" -> Whole(intarith(op, p1[2], p2[2]))
       [] OTHER -> IF a # << >> /\ b # << >> THEN <<"float", numarith(op, a[1], b[1])>> ELSE <<"event">>

(***************************************************************************)
(* The numeric for loop                                                    *)
(***************************************************************************)
\* stopnow is not used.
forlimitRuns(v, step) ==
  LET i == luaV_tointeger(v, IF step < 0 THEN 2 ELSE 1)
      n == luaV_tonumber_(v)
  IN IF i # << >> THEN <<i[1], FALSE>>
     ELSE IF n = << >> THEN << >>
     ELSE IF luai_numlt(0, n[1]) THEN <<LUA_MAXINTEGER, FALSE>> ELSE <<LUA_MININTEGER, FALSE>>
\* << >>, or << the limit, stopnow >>.
forlimit(v, step) ==
  LET i == luaV_tointeger(v, IF step < 0 THEN 2 ELSE 1)
      n == luaV_tonumber_(v)
  IN IF i # << >> THEN <<i[1], FALSE>>
     ELSE IF n = << >> THEN << >>
     ELSE IF luai_numlt(0, n[1]) THEN <<LUA_MAXINTEGER, step < 0>> ELSE <<LUA_MININTEGER, step >= 0>>
\* The first n values of the loop variable.
RECURSIVE IntLoop(_, _, _, _), FloatLoop(_, _, _, _)
IntLoop(idx0, limit, step, n) ==
  LET idx == Wrap(idx0 + step)
  IN IF n > 0 /\ (IF 0 < step THEN idx <= limit ELSE limit <= idx)
       THEN <<<<"int", idx>>>> \o IntLoop(idx, limit, step, n - 1) ELSE << >>
FloatLoop(idx0, limit, step, n) ==
  LET idx == Add(idx0, step)
  IN IF n > 0 /\ (IF luai_numlt(0, step) THEN luai_numle(idx, limit) ELSE luai_numle(limit, idx))
       THEN <<<<"float", idx>>>> \o FloatLoop(idx, limit, step, n - 1) ELSE << >>
OP_FORPREP(init, limit, step, n) ==
  LET lim == forlimit(limit, step[2])
      Num(v) == luaV_tonumber_(v)
      initv == IF lim[2] THEN 0 ELSE init[2]
  IN IF init[1] = "int" /\ step[1] = "int" /\ lim # << >> THEN IntLoop(Wrap(initv - step[2]), lim[1], step[2], n)
     ELSE IF << >> \in {Num(init), Num(limit), Num(step)} THEN <<"error">>
     ELSE FloatLoop(luai_numsub(Num(init)[1], Num(step)[1]), Num(limit)[1], Num(step)[1], n)

(***************************************************************************)
(* Sizes in instructions: "floating point bytes" eeeeexxx                  *)
(***************************************************************************)
RECURSIVE Reduce(_, _)
Reduce(x, e) == IF x >= 128 THEN Reduce((x + 15) \div 16, e + 4)
                ELSE IF x >= 16 THEN Reduce((x + 1) \div 2, e + 1) ELSE <<e, x>>
luaO_int2fb(x) == IF x < 8 THEN x ELSE LET r == Reduce(x, 0) IN (r[1] + 1) * 8 + r[2] - 8
luaO_fb2int(x) == IF x < 8 THEN x ELSE ((x % 8) + 8) * 2^((x \div 8) - 1)
RECURSIVE Log2(_)
Log2(x) == IF x = 0 THEN 0 ELSE 1 + Log2(x \div 2)      \* what the table log_2 holds
RECURSIVE CeilLog2(_, _)
CeilLog2(x, l) == IF x >= 256 THEN CeilLog2(x \div 256, l + 8) ELSE l + Log2(x)
luaO_ceillog2(x) == CeilLog2(x - 1, 0)
=============================================================================

----------------------------- MODULE LuaMathLib -----------------------------
(***************************************************************************)
(* The functions of the base, math and bit32 libraries that compute with   *)
(* numbers (lbaselib.c, lmathlib.c, lbitlib.c).  << >> is an error.        *)
(***************************************************************************)
EXTENDS LuaNum
LOCAL INSTANCE SequencesExt

CONSTANTS LUA_NBITS,      \* of a number of bit32
          RANDOMS         \* L_RANDMAX + 1

(***************************************************************************)
(* bit32.  Arguments are integers; what is wider than LUA_NBITS is cut off *)
(* at the end, or where it would matter.                                   *)
(***************************************************************************)
ALLONES == 2^LUA_NBITS - 1
trim(x) == Unsigned(x) % 2^LUA_NBITS
Bitop(op, x, y) == Unsigned(intarith(op, Wrap(x), Wrap(y))[1])
pushunsigned(r) == Wrap(r)
andaux(xs) == trim(FoldLeft(LAMBDA r, x : Bitop("&", r, x), Unsigned(-1), xs))
b_and(xs) == pushunsigned(andaux(xs))
b_test(xs) == andaux(xs) # 0
b_or(xs) == pushunsigned(trim(FoldLeft(LAMBDA r, x : Bitop("|", r, x), 0, xs)))
b_xor(xs) == pushunsigned(trim(FoldLeft(LAMBDA r, x : Bitop("~", r, x), 0, xs)))
b_not(x) == pushunsigned(trim(-x - 1))
b_shift(r, i) ==
  IF i < 0 THEN pushunsigned(IF -i >= LUA_NBITS THEN 0 ELSE trim(r) \div 2^(-i))
  ELSE pushunsigned(IF i >= LUA_NBITS THEN 0 ELSE trim(Unsigned(r) * 2^i))
b_lshift(r, i) == b_shift(r, i)
b_rshift(r, i) == b_shift(r, -i)
b_arshift(r, i) ==
  IF i < 0 \/ Bit(r, LUA_NBITS - 1) = 0 THEN b_shift(r, -i)
  ELSE pushunsigned(IF i >= LUA_NBITS THEN ALLONES
                    ELSE trim(Bitop("|", Unsigned(r) \div 2^i, -1 - (trim(-1) \div 2^i))))
b_rot(x, d) ==
  LET i == d % LUA_NBITS
      r == trim(x)
  IN pushunsigned(IF i = 0 THEN r ELSE trim(Bitop("|", r * 2^i, r \div 2^(LUA_NBITS - i))))
b_lrot(x, d) == b_rot(x, d)
b_rrot(x, d) == b_rot(x, -d)
mask(n) == -1 - Unsigned(Unsigned(ALLONES * 2) * 2^(n - 1))
fieldargs(f, w) == 0 <= f /\ 0 < w /\ f + w <= LUA_NBITS
b_extract(x, f, w) ==
  IF fieldargs(f, w) THEN <<pushunsigned(Bitop("&", trim(x) \div 2^f, mask(w)))>> ELSE << >>
b_replace(x, v, f, w) ==
  LET m == mask(w)
      kept == Bitop("&", trim(x), -1 - Unsigned(m) * 2^f)
  IN IF fieldargs(f, w) THEN <<pushunsigned(Bitop("|", kept, Bitop("&", trim(v), m) * 2^f))>> ELSE << >>

(***************************************************************************)
(* math.  The sine and its kind are the C library's.                       *)
(***************************************************************************)
math_abs(v) ==
  IF v[1] = "int" THEN <<"int", IF v[2] < 0 THEN Wrap(-v[2]) ELSE v[2]>>
  ELSE <<"float", IF luai_numlt(v[2], 0) THEN -v[2] ELSE v[2]>>
math_toint(v) == luaV_tointeger(v, 0)         \* << >> for nil
pushnumint(d) ==
  LET n == lua_numbertointeger(d) IN IF n # << >> THEN <<"int", n[1]>> ELSE <<"float", d>>
Ceil(q) == luai_numunm(l_floor(luai_numunm(q)))
math_floor(v) == IF v[1] = "int" THEN v ELSE pushnumint(l_floor(v[2]))
math_ceil(v) == IF v[1] = "int" THEN v ELSE pushnumint(Ceil(v[2]))
fmod(a, b) ==
  IF IsNaN(a) \/ IsNaN(b) \/ a \in {Inf, -Inf} \/ b = 0 THEN NaN
  ELSE IF b \in {Inf, -Inf} THEN a ELSE CRem(a, b)
math_fmod(x, y) ==
  IF x[1] = "int" /\ y[1] = "int"
    THEN IF Unsigned(y[2] + 1) <= 1 THEN IF y[2] = 0 THEN << >> ELSE <<"int", 0>>
         ELSE <<"int", CRem(x[2], y[2])>>
  ELSE <<"float", fmod(luaV_tonumber_(x)[1], luaV_tonumber_(y)[1])>>
math_modf(v) ==
  LET n == v[2]
      ip == IF luai_numlt(n, 0) THEN Ceil(n) ELSE l_floor(n)
  IN IF v[1] = "int" THEN <<v, <<"float", 0>> >>
     ELSE <<pushnumint(ip), <<"float", IF luai_numeq(n, ip) THEN 0 ELSE luai_numsub(n, ip)>> >>
math_ult(a, b) == Unsigned(a) < Unsigned(b)
math_min(vs) == FoldLeft(LAMBDA m, v : IF LTnum(v, m) THEN v ELSE m, vs[1], Tail(vs))
math_max(vs) == FoldLeft(LAMBDA m, v : IF LTnum(m, v) THEN v ELSE m, vs[1], Tail(vs))
\* l_rand gave k.  The product is rounded down, as the cast to an integer does.
math_random(k, low, up) ==
  IF low > up \/ ~(low >= 0 \/ up <= LUA_MAXINTEGER + low) THEN << >>
  ELSE <<((k * (up - low + 1)) \div RANDOMS) + low>>

(***************************************************************************)
(* tonumber with a base: digits and letters of the base, which wrap around *)
(***************************************************************************)
IsAlnum(c) == IsXDigit(c) \/ c = "n"
DigitOf(c) == IF c = "n" THEN 23 ELSE luaO_hexavalue(c)
\* << where the digits end, or 0 for an invalid one, their value >>
RECURSIVE ReadBase(_, _, _, _)
ReadBase(s, i, base, n) ==
  IF ~IsAlnum(At(s, i)) THEN <<i, n>>
  ELSE IF DigitOf(s[i]) >= base THEN <<0, n>>
  ELSE ReadBase(s, i + 1, base, Unsigned(n * base + DigitOf(s[i])))
\* << >> for no number, or the integer.
b_str2int(s, base) ==
  LET i0 == SkipSpace(s, 1)
      neg == At(s, i0) = "-"
      i == IF At(s, i0) \in {"-", "+"} THEN i0 + 1 ELSE i0
      r == ReadBase(s, i, base, 0)
  IN IF ~IsAlnum(At(s, i)) \/ r[1] = 0 \/ SkipSpace(s, r[1]) # Len(s) + 1 THEN << >>
     ELSE <<Wrap(IF neg THEN -r[2] ELSE r[2])>>
=============================================================================

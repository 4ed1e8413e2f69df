------------------------------ MODULE LuaUtf8 ------------------------------
(***************************************************************************)
(* UTF-8: its encoding (luaO_utf8esc) and the utf8 library (lutf8lib.c).   *)
(* A string is a sequence of bytes; behind its end is a zero, as in C.     *)
(* Positions count from 1 as in Lua; those inside functions are offsets.   *)
(***************************************************************************)
EXTENDS Integers, Sequences

MAXUNICODE == 1114111
At(s, offset) == IF offset < Len(s) THEN s[offset + 1] ELSE 0
iscont(c) == c \div 64 = 2
Answer(r) == [err |-> "", r |-> r]
Err(msg) == [err |-> msg, r |-> << >>]

\* Continuation bytes are added in front until the rest fits the first byte, which has one
\* bit less, up to mfb, for each.
RECURSIVE Encode(_, _, _)
Encode(x, mfb, rest) ==
  LET bytes == <<128 + (x % 64)>> \o rest
      x1 == x \div 64  m1 == mfb \div 2
  IN IF x1 > m1 THEN Encode(x1, m1, bytes) ELSE <<(254 - 2 * m1) + x1>> \o bytes
luaO_utf8esc(x) == IF x < 128 THEN <<x>> ELSE Encode(x, 63, << >>)

\* The code at offset o and the offset behind it.  The first byte has a bit for each
\* continuation byte, from 0x40 on.
Limit == <<255, 127, 2047, 65535>>
Continuations(c) ==
  LET Bit(n) == n < 7 /\ (c \div 2^(6 - n)) % 2 = 1
  IN CHOOSE n \in 0..7 : ~Bit(n) /\ \A m \in 0..(n - 1) : Bit(m)
RECURSIVE Payload(_, _, _)
Payload(s, o, n) == IF n = 0 THEN 0 ELSE Payload(s, o, n - 1) * 64 + (At(s, o + n) % 64)
utf8_decode(s, o) ==
  LET c == At(s, o)
      count == Continuations(c)
      res == Payload(s, o, count) + (c % 2^(6 - count)) * 64^count
  IN IF c < 128 THEN [ok |-> TRUE, code |-> c, next |-> o + 1]
     ELSE IF \/ \E n \in 1..count : ~iscont(At(s, o + n))
             \/ count > 3 \/ res > MAXUNICODE \/ res <= Limit[count + 1]
       THEN [ok |-> FALSE, code |-> 0, next |-> o]
     ELSE [ok |-> TRUE, code |-> res, next |-> o + count + 1]

u_posrelat(pos, len) == IF pos >= 0 THEN pos ELSE IF -pos > len THEN 0 ELSE len + pos + 1

RECURSIVE CountFrom(_, _, _, _)
CountFrom(s, posi, posj, n) ==
  LET d == utf8_decode(s, posi)
  IN IF posi > posj THEN Answer(<<n>>)
     ELSE IF ~d.ok THEN Answer(<<"nil", posi + 1>>)
     ELSE CountFrom(s, d.next, posj, n + 1)
utflen(s, i, j) ==
  LET posi == u_posrelat(i, Len(s))
      posj == u_posrelat(j, Len(s))
  IN IF ~(1 <= posi /\ posi - 1 <= Len(s)) THEN Err("initial position out of string")
     ELSE IF ~(posj - 1 < Len(s)) THEN Err("final position out of string")
     ELSE CountFrom(s, posi - 1, posj - 1, 0)

RECURSIVE CodesFrom(_, _, _, _)
CodesFrom(s, o, se, codes) ==
  LET d == utf8_decode(s, o)
  IN IF o >= se THEN Answer(codes)
     ELSE IF ~d.ok THEN Err("invalid UTF-8 code")
     ELSE CodesFrom(s, d.next, se, Append(codes, d.code))
codepoint(s, i, j) ==
  LET posi == u_posrelat(i, Len(s))
      pose == u_posrelat(j, Len(s))
  IN IF posi < 1 \/ pose > Len(s) THEN Err("out of range")
     ELSE IF posi > pose THEN Answer(<< >>)
     ELSE CodesFrom(s, posi - 1, pose, << >>)

pushutfchar(code) == IF 0 <= code /\ code <= MAXUNICODE THEN Answer(luaO_utf8esc(code)) ELSE Err("value out of range")
RECURSIVE utfchar(_)
utfchar(codes) ==
  IF codes = << >> THEN Answer(<< >>)
  ELSE LET first == pushutfchar(Head(codes))
           rest == utfchar(Tail(codes))
       IN IF first.err # "" THEN first ELSE IF rest.err # "" THEN rest ELSE Answer(first.r \o rest.r)

\* One character back, and one forward.
RECURSIVE Back(_, _), Forward(_, _)
Back(s, o) == IF o - 1 > 0 /\ iscont(At(s, o - 1)) THEN Back(s, o - 1) ELSE o - 1
Forward(s, o) == IF iscont(At(s, o + 1)) THEN Forward(s, o + 1) ELSE o + 1
RECURSIVE Moved(_, _, _)
Moved(s, n, posi) ==        \* << characters that are missing, offset >>
  IF n < 0 /\ posi > 0 THEN Moved(s, n + 1, Back(s, posi))
  ELSE IF n > 0 /\ posi < Len(s) THEN Moved(s, n - 1, Forward(s, posi))
  ELSE <<n, posi>>
RECURSIVE Beginning(_, _)
Beginning(s, o) == IF o > 0 /\ iscont(At(s, o)) THEN Beginning(s, o - 1) ELSE o
byteoffset(s, n, i) ==
  LET posi == u_posrelat(i, Len(s)) - 1
      m == Moved(s, IF n > 0 THEN n - 1 ELSE n, posi)
  IN IF ~(0 <= posi /\ posi <= Len(s)) THEN Err("position out of range")
     ELSE IF n = 0 THEN Answer(<<Beginning(s, posi) + 1>>)
     ELSE IF iscont(At(s, posi)) THEN Err("initial position is a continuation byte")
     ELSE Answer(IF m[1] = 0 THEN <<m[2] + 1>> ELSE <<"nil">>)

\* One step of the iterator of utf8.codes from position i; << >> at the end.
RECURSIVE SkipContinuations(_, _)
SkipContinuations(s, o) == IF iscont(At(s, o)) THEN SkipContinuations(s, o + 1) ELSE o
iter_aux(s, i) ==
  LET n == IF i - 1 < 0 THEN 0 ELSE IF i - 1 < Len(s) THEN SkipContinuations(s, i) ELSE i - 1
      d == utf8_decode(s, n)
  IN IF n >= Len(s) THEN Answer(<< >>)
     ELSE IF ~d.ok \/ iscont(At(s, d.next)) THEN Err("invalid UTF-8 code")
     ELSE Answer(<<n + 1, d.code>>)
RECURSIVE codes(_, _)
codes(s, i) ==
  LET step == iter_aux(s, i)
  IN IF step.err # "" \/ step.r = << >> THEN step
     ELSE LET rest == codes(s, step.r[1])
          IN IF rest.err # "" THEN rest ELSE Answer(<<step.r>> \o rest.r)
=============================================================================

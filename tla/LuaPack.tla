------------------------------ MODULE LuaPack ------------------------------
(***************************************************************************)
(* string.pack, packsize and unpack (lstrlib.c).  A byte has NB bits; a    *)
(* format is a sequence of options <<letter, number>>, where the number is *)
(* -1 when none is written.  A float is its bytes in the order of the      *)
(* machine, which is little-endian.                                        *)
(***************************************************************************)
EXTENDS Integers, Sequences

CONSTANTS NB, SZINT, MAXINTSIZE, MAXALIGN,
          MAXSIZE,        \* the largest result packsize gives
          SizeOf          \* the size of a letter's C type
MC == 2^NB - 1
Modulus == 2^(NB * SZINT)
MaxInteger == Modulus \div 2 - 1
ToInteger(u) == IF u > MaxInteger THEN u - Modulus ELSE u

initheader == [little |-> TRUE, maxalign |-> 1, err |-> ""]
Error(h, e) == [h EXCEPT !.err = e]
getnumlimit(x, df) == IF x[2] = -1 THEN df ELSE x[2]
Kinds == [b |-> "int", h |-> "int", j |-> "int", i |-> "int", B |-> "uint", J |-> "uint", I |-> "uint",
          f |-> "float", n |-> "float", s |-> "string", c |-> "char", z |-> "zstr", x |-> "padding", X |-> "paddalign"]
\* The header after option x, with the option's kind and size.
getoption(h, x) ==
  LET limited == x[1] \in {"i", "I", "s", "!"}
      num == getnumlimit(x, IF x[1] = "!" THEN MAXALIGN ELSE SizeOf[x[1]])
  IN IF limited /\ num \notin 1..MAXINTSIZE THEN [h |-> Error(h, "integral size out of limits"), kind |-> "nop", size |-> 0]
     ELSE CASE x[1] = "<" -> [h |-> [h EXCEPT !.little = TRUE], kind |-> "nop", size |-> 0]
            [] x[1] = ">" -> [h |-> [h EXCEPT !.little = FALSE], kind |-> "nop", size |-> 0]
            [] x[1] = "!" -> [h |-> [h EXCEPT !.maxalign = num], kind |-> "nop", size |-> 0]
            [] x[1] = "c" -> IF x[2] = -1 THEN [h |-> Error(h, "missing size"), kind |-> "nop", size |-> 0]
                             ELSE [h |-> h, kind |-> "char", size |-> x[2]]
            [] x[1] \in {"z", "x", "X"} -> [h |-> h, kind |-> Kinds[x[1]], size |-> IF x[1] = "x" THEN 1 ELSE 0]
            [] OTHER -> [h |-> h, kind |-> Kinds[x[1]], size |-> num]
PowerOf2(n) == n \in {2^k : k \in 0..8}
\* The next option of fmt at place totalsize, and how much is left to align it.  X takes the
\* alignment of the option after it, which it uses up.
getdetails(h, totalsize, fmt) ==
  LET o == getoption(h, fmt[1])
      bad == Len(fmt) = 1
      n == getoption(o.h, fmt[2])
      X == o.kind = "paddalign"
      asked == IF X THEN n.size ELSE o.size
      align == IF asked > h.maxalign THEN h.maxalign ELSE asked
      h1 == IF X THEN IF bad THEN Error(o.h, "invalid next option for option 'X'")
                      ELSE IF n.kind = "char" \/ n.size = 0 THEN Error(n.h, "invalid next option for option 'X'")
                      ELSE n.h
            ELSE o.h
      none == o.kind = "char" \/ asked <= 1
  IN [h |-> IF h1.err = "" /\ ~none /\ ~PowerOf2(align) THEN Error(h1, "alignment not power of 2") ELSE h1,
      kind |-> o.kind, size |-> o.size,
      ntoalign |-> IF h1.err # "" \/ none THEN 0 ELSE (align - (totalsize % align)) % align,
      rest |-> IF X /\ ~bad THEN SubSeq(fmt, 3, Len(fmt)) ELSE Tail(fmt)]

Reverse(q) == [i \in 1..Len(q) |-> q[Len(q) + 1 - i]]
copywithendian(q, little) == IF little THEN q ELSE Reverse(q)
\* The bytes above a lua_Integer are zero, also for a negative number.
packintZero(n, little, size, neg) ==
  LET Byte(i) == IF i > SZINT THEN 0 ELSE ((n % Modulus) \div 2^(NB * (i - 1))) % (MC + 1)
  IN copywithendian([i \in 1..size |-> Byte(i)], little)
packint(n, little, size, neg) ==
  LET Byte(i) == IF i > SZINT THEN IF neg THEN MC ELSE 0 ELSE ((n % Modulus) \div 2^(NB * (i - 1))) % (MC + 1)
  IN copywithendian([i \in 1..size |-> Byte(i)], little)
Padding(n) == [i \in 1..n |-> 0]
Limit(size) == 2^(size * NB)
\* << the bytes of value v, an error >>
packed(h, kind, size, v) ==
  CASE kind = "int" -> IF size < SZINT /\ v \notin -(Limit(size) \div 2)..Limit(size) \div 2 - 1
                         THEN <<<< >>, "integer overflow">> ELSE <<packint(v, h.little, size, v < 0), "">>
    [] kind = "uint" -> IF size < SZINT /\ v % Modulus >= Limit(size)
                          THEN <<<< >>, "unsigned overflow">> ELSE <<packint(v, h.little, size, FALSE), "">>
    [] kind = "float" -> <<copywithendian(v, h.little), "">>
    [] kind = "char" -> IF Len(v) > size THEN <<<< >>, "string longer than given size">>
                        ELSE <<v \o Padding(size - Len(v)), "">>
    [] kind = "string" -> IF size < SizeOf["s"] /\ Len(v) >= Limit(size)
                            THEN <<<< >>, "string length does not fit in given size">>
                            ELSE <<packint(Len(v), h.little, size, FALSE) \o v, "">>
    [] kind = "zstr" -> IF \E i \in DOMAIN v : v[i] = 0 THEN <<<< >>, "string contains zeros">> ELSE <<v \o <<0>>, "">>
    [] kind = "padding" -> <<<<0>>, "">>
    [] OTHER -> <<<< >>, "">>
HasValue(kind) == kind \notin {"padding", "paddalign", "nop"}
RECURSIVE Pack(_, _, _, _)
Pack(h, fmt, args, out) ==
  LET d == getdetails(h, Len(out), fmt)
      p == packed(d.h, d.kind, d.size, IF args = << >> THEN << >> ELSE args[1])
  IN IF fmt = << >> THEN [out |-> out, err |-> ""]
     ELSE IF d.h.err # "" THEN [out |-> out, err |-> d.h.err]
     ELSE IF HasValue(d.kind) /\ args = << >> THEN [out |-> out, err |-> "bad argument"]
     ELSE IF p[2] # "" THEN [out |-> out, err |-> p[2]]
     ELSE Pack(d.h, d.rest, IF HasValue(d.kind) THEN Tail(args) ELSE args, out \o Padding(d.ntoalign) \o p[1])
str_pack(fmt, args) == Pack(initheader, fmt, args, << >>)

RECURSIVE PackSize(_, _, _)
PackSize(h, fmt, totalsize) ==
  LET d == getdetails(h, totalsize, fmt)
      size == d.size + d.ntoalign
  IN IF fmt = << >> THEN [out |-> totalsize, err |-> ""]
     ELSE IF d.h.err # "" THEN [out |-> 0, err |-> d.h.err]
     ELSE IF totalsize > MAXSIZE - size THEN [out |-> 0, err |-> "format result too large"]
     ELSE IF d.kind \in {"string", "zstr"} THEN [out |-> 0, err |-> "variable-length format"]
     ELSE PackSize(d.h, d.rest, totalsize + size)
str_packsize(fmt) == PackSize(initheader, fmt, 0)

RECURSIVE FromBytes(_, _)
FromBytes(q, n) == IF n = 0 THEN 0 ELSE q[n] * 2^(NB * (n - 1)) + FromBytes(q, n - 1)
\* << the integer >>, or << >> when the bytes above a lua_Integer are no extension of it.
unpackint(str, little, size, issigned) ==
  LET q == copywithendian(str, little)
      res == FromBytes(q, IF size <= SZINT THEN size ELSE SZINT)
      half == 2^(size * NB - 1)
      mask == IF issigned /\ ToInteger(res) < 0 THEN MC ELSE 0
  IN IF size < SZINT THEN <<IF issigned /\ res >= half THEN res - 2 * half ELSE res>>
     ELSE IF \E i \in SZINT + 1..size : q[i] # mask THEN << >> ELSE <<ToInteger(res)>>
Zero(data, pos) == CHOOSE i \in pos + 1..Len(data) + 1 : (i > Len(data) \/ data[i] = 0) /\ \A j \in pos + 1..i - 1 : data[j] # 0
RECURSIVE Unpack(_, _, _, _, _)
Unpack(h, fmt, data, pos0, out) ==       \* pos0 bytes have been passed
  LET d == getdetails(h, pos0, fmt)
      pos == pos0 + d.ntoalign
      item == SubSeq(data, pos + 1, pos + d.size)
      int == unpackint(item, d.h.little, d.size, d.kind = "int")
      Go(v, n) == Unpack(d.h, d.rest, data, pos + n, Append(out, v))
      Bad(e) == [out |-> out, pos |-> pos0, err |-> e]
  IN CASE fmt = << >> -> [out |-> out, pos |-> pos0 + 1, err |-> ""]
       [] fmt # << >> /\ d.h.err # "" -> Bad(d.h.err)
       [] fmt # << >> /\ d.h.err = "" /\ pos + d.size > Len(data) -> Bad("data string too short")
       [] OTHER ->
          CASE d.kind \in {"int", "uint", "string"} /\ int = << >> -> Bad("does not fit into Lua Integer")
            [] d.kind \in {"int", "uint"} /\ int # << >> -> Go(int[1], d.size)
            [] d.kind = "float" -> Go(copywithendian(item, d.h.little), d.size)
            [] d.kind = "char" -> Go(item, d.size)
            [] d.kind = "string" /\ int # << >> ->
                 \* The length is a size_t, and so is the sum, which may wrap; lua_pushlstring
                 \* then refuses the length.
                 LET len == int[1] % Modulus
                 IN IF (pos + len + d.size) % Modulus > Len(data) THEN Bad("data string too short")
                    ELSE IF len > MaxInteger THEN Bad("block too big")
                    ELSE Go(SubSeq(data, pos + d.size + 1, pos + d.size + len), d.size + len)
            [] d.kind = "zstr" -> LET z == Zero(data, pos) IN Go(SubSeq(data, pos + 1, z - 1), z - pos)
            [] OTHER -> Unpack(d.h, d.rest, data, pos + d.size, out)
str_unpack(fmt, data, init) ==
  LET pos == (IF init >= 0 THEN init ELSE IF -init > Len(data) THEN 0 ELSE Len(data) + init + 1) - 1
  IN IF pos \notin 0..Len(data) THEN [out |-> << >>, pos |-> 0, err |-> "initial position out of string"]
     ELSE Unpack(initheader, fmt, data, pos, << >>)
=============================================================================

------------------------------ MODULE LuaDump ------------------------------
(***************************************************************************)
(* Precompiled chunks: ldump.c writes a function, lundump.c reads it back  *)
(* from a buffered stream (lzio.c).  A byte is a number below Base; an     *)
(* int, a size_t, an Instruction, a lua_Integer and a lua_Number are two   *)
(* bytes each.  A string is a sequence of bytes, or NULL.                  *)
(***************************************************************************)
EXTENDS Integers, Sequences

CONSTANTS Base, LUAI_MAXSHORTLEN
NULL == <<-1>>
Bytes2(x) == <<x % Base, x \div Base>>
LUA_SIGNATURE == <<Base - 2, 1>>       \* the first byte begins no text
Versions == <<5, 0>>                   \* LUAC_VERSION, LUAC_FORMAT
LUAC_DATA == <<9, 3>>
Sizes == <<2, 2, 2, 2, 2>>
LUAC_INT == 19
LUAC_NUM == 37

(***************************************************************************)
(* Dump: the blocks that are given to the writer, one by one.              *)
(***************************************************************************)
DumpBlock(b) == IF b = << >> THEN << >> ELSE <<b>>
DumpByte(y) == DumpBlock(<<y>>)
DumpInt(x) == DumpBlock(Bytes2(x))
RECURSIVE Flat(_)
Flat(q) == IF q = << >> THEN << >> ELSE q[1] \o Flat(Tail(q))
Each(q, F(_)) == Flat([i \in DOMAIN q |-> F(q[i])])
\* The size is written as one byte up to the last one.
DumpStringOneByte(s) ==
  IF s = NULL THEN DumpByte(0)
  ELSE (IF Len(s) + 1 <= Base - 1 THEN DumpByte(Len(s) + 1) ELSE DumpByte(Base - 1) \o DumpInt(Len(s) + 1)) \o DumpBlock(s)
DumpString(s) ==
  IF s = NULL THEN DumpByte(0)
  ELSE (IF Len(s) + 1 < Base - 1 THEN DumpByte(Len(s) + 1) ELSE DumpByte(Base - 1) \o DumpInt(Len(s) + 1)) \o DumpBlock(s)
DumpVector(q) == DumpInt(Len(q)) \o DumpBlock(Flat([i \in DOMAIN q |-> Bytes2(q[i])]))
Tags == <<"nil", "boolean", "float", "int", "string">>
Tag(o) == CHOOSE i \in DOMAIN Tags : Tags[i] = o[1]
DumpConstant(o) ==
  DumpByte(Tag(o)) \o CASE o[1] = "nil" -> << >> [] o[1] = "boolean" -> DumpByte(o[2])
                        [] o[1] = "string" -> DumpString(o[2]) [] OTHER -> DumpInt(o[2])
DumpConstants(f) == DumpInt(Len(f.k)) \o Each(f.k, DumpConstant)
DumpUpvalue(u) == DumpByte(u.instack) \o DumpByte(u.idx)
DumpUpvalues(f) == DumpInt(Len(f.upvalues)) \o Each(f.upvalues, DumpUpvalue)
DumpLocal(v) == DumpString(v.varname) \o DumpInt(v.startpc) \o DumpInt(v.endpc)
DumpName(u) == DumpString(u.name)
DumpDebug(f, strip) ==
  IF strip THEN DumpInt(0) \o DumpInt(0) \o DumpInt(0)
  ELSE DumpVector(f.lineinfo) \o DumpInt(Len(f.locvars)) \o Each(f.locvars, DumpLocal)
       \o DumpInt(Len(f.upvalues)) \o Each(f.upvalues, DumpName)
RECURSIVE DumpFunction(_, _, _)
DumpProtos(f, strip) ==
  DumpInt(Len(f.p)) \o Flat([i \in DOMAIN f.p |-> DumpFunction(f.p[i], f.source, strip)])
DumpFunction(f, psource, strip) ==
  DumpString(IF strip \/ f.source = psource THEN NULL ELSE f.source)
  \o DumpInt(f.linedefined) \o DumpInt(f.lastlinedefined)
  \o DumpByte(f.numparams) \o DumpByte(f.is_vararg) \o DumpByte(f.maxstacksize)
  \o DumpVector(f.code) \o DumpConstants(f) \o DumpUpvalues(f) \o DumpProtos(f, strip) \o DumpDebug(f, strip)
DumpHeader == DumpBlock(LUA_SIGNATURE) \o Each(Versions, DumpByte) \o DumpBlock(LUAC_DATA)
              \o Each(Sizes, DumpByte) \o DumpInt(LUAC_INT) \o DumpInt(LUAC_NUM)
\* The writer fails at block number fails and is not called again.
luaU_dump(f, strip, fails) ==
  LET blocks == DumpHeader \o DumpByte(Len(f.upvalues)) \o DumpFunction(f, NULL, strip)
  IN IF fails \in DOMAIN blocks THEN [status |-> 1, out |-> Flat(SubSeq(blocks, 1, fails - 1))]
     ELSE [status |-> 0, out |-> Flat(blocks)]

(***************************************************************************)
(* Load.  S.pieces is what the reader still gives, S.buf what is left of   *)
(* the last piece, S.v the value just read.  An error stops everything.    *)
(***************************************************************************)
error(S, why) == [S EXCEPT !.err = why]
RECURSIVE luaZ_read(_, _)
luaZ_read(S, n) ==
  LET m == IF n <= Len(S.buf) THEN n ELSE Len(S.buf)
  IN IF n = 0 THEN S
     ELSE IF S.buf = << >>
       THEN IF S.pieces = << >> \/ S.pieces[1] = << >> THEN error(S, "truncated")
            ELSE luaZ_read([S EXCEPT !.buf = S.pieces[1], !.pieces = Tail(@)], n)
     ELSE luaZ_read([S EXCEPT !.v = @ \o SubSeq(S.buf, 1, m), !.buf = SubSeq(@, m + 1, Len(@))], n - m)
LoadBlock(S, n) == IF S.err # "" THEN S ELSE luaZ_read([S EXCEPT !.v = << >>], n)
Take(S, v) == IF S.err # "" THEN S ELSE [S EXCEPT !.v = v]
LoadByte(S) == LET r == LoadBlock(S, 1) IN Take(r, r.v[1])
LoadInt(S) == LET r == LoadBlock(S, 2) IN Take(r, r.v[1] + Base * r.v[2])
LoadString(S) ==
  LET b == LoadByte(S)
      size == IF b.err = "" /\ b.v = Base - 1 THEN LoadInt(b) ELSE b
  IN IF size.err # "" THEN size ELSE IF size.v = 0 THEN Take(size, NULL) ELSE LoadBlock(size, size.v - 1)
RECURSIVE LoadItem(_, _), LoadItems(_, _, _, _)
LoadItems(S, n, kind, q) ==
  LET r == LoadItem(S, kind)
  IN IF S.err # "" THEN S ELSE IF n = 0 THEN Take(S, q) ELSE LoadItems(r, n - 1, kind, Append(q, r.v))
LoadVector(S, kind) == LET n == LoadInt(S) IN LoadItems(n, n.v, kind, << >>)
LoadConstant(S) ==
  LET t == LoadByte(S)
      kind == Tags[t.v]
      r == CASE kind = "nil" -> t [] kind = "boolean" -> LoadByte(t)
             [] kind = "string" -> LoadString(t) [] OTHER -> LoadInt(t)
  IN IF t.err # "" THEN t ELSE Take(r, IF kind = "nil" THEN <<"nil">> ELSE <<kind, r.v>>)
LoadUpvalue(S) ==
  LET a == LoadByte(S)  b == LoadByte(a) IN Take(b, [instack |-> a.v, idx |-> b.v, name |-> NULL])
LoadLocal(S) ==
  LET a == LoadString(S)  b == LoadInt(a)  c == LoadInt(b)
  IN Take(c, [varname |-> a.v, startpc |-> b.v, endpc |-> c.v])
\* kind is <<"function", source of the parent>> or <<kind>>.
RECURSIVE LoadFunction(_, _)
LoadItem(S, kind) ==
  CASE kind[1] = "int" -> LoadInt(S) [] kind[1] = "constant" -> LoadConstant(S)
    [] kind[1] = "upvalue" -> LoadUpvalue(S) [] kind[1] = "local" -> LoadLocal(S)
    [] kind[1] = "name" -> LoadString(S) [] kind[1] = "function" -> LoadFunction(S, kind[2])
LoadFunction(S, psource) ==
  LET src == LoadString(S)
      source == IF src.err = "" /\ src.v = NULL THEN psource ELSE src.v
      first == LoadInt(src)  last == LoadInt(first)
      params == LoadByte(last)  vararg == LoadByte(params)  size == LoadByte(vararg)
      code == LoadVector(size, <<"int">>)
      k == LoadVector(code, <<"constant">>)
      up == LoadVector(k, <<"upvalue">>)
      p == LoadVector(up, <<"function", source>>)
      lines == LoadVector(p, <<"int">>)
      vars == LoadVector(lines, <<"local">>)
      names == LoadVector(vars, <<"name">>)
  IN IF names.err # "" THEN names
     ELSE Take(names, [source |-> source, linedefined |-> first.v, lastlinedefined |-> last.v,
            numparams |-> params.v, is_vararg |-> vararg.v, maxstacksize |-> size.v, code |-> code.v, k |-> k.v,
            upvalues |-> [i \in DOMAIN up.v |-> [up.v[i] EXCEPT !.name = IF i \in DOMAIN names.v THEN names.v[i] ELSE NULL]],
            p |-> p.v, lineinfo |-> lines.v, locvars |-> vars.v])
checkliteral(S, s, why) ==
  LET r == LoadBlock(S, Len(s)) IN IF r.err = "" /\ r.v # s THEN error(r, why) ELSE r
checkHeader(S) ==
  LET sig == checkliteral(S, Tail(LUA_SIGNATURE), "not a")
      version == checkliteral(sig, SubSeq(Versions, 1, 1), "version mismatch in")
      format == checkliteral(version, SubSeq(Versions, 2, 2), "format mismatch in")
      data == checkliteral(format, LUAC_DATA, "corrupted")
      sizes == checkliteral(data, Sizes, "size mismatch in")      \* byte by byte
      int == checkliteral(sizes, Bytes2(LUAC_INT), "endianness mismatch in")
  IN checkliteral(int, Bytes2(LUAC_NUM), "float format mismatch in")
luaU_undump(S) ==
  LET n == LoadByte(checkHeader(S))
      f == LoadFunction(n, NULL)
  IN IF f.err = "" /\ Len(f.v.upvalues) # n.v THEN error(f, "assertion") ELSE f

luaZ_init(pieces) == [pieces |-> pieces, buf |-> << >>, v |-> << >>, err |-> ""]
zgetc(S) == LET r == LoadBlock(S, 1) IN IF r.err # "" THEN [r EXCEPT !.err = "", !.v = <<-1>>] ELSE r
\* The first byte tells a precompiled chunk from a text; mode is the set of what is allowed.
f_parser(pieces, mode) ==
  LET c == zgetc(luaZ_init(pieces))
      kind == IF c.v = SubSeq(LUA_SIGNATURE, 1, 1) THEN "binary" ELSE "text"
  IN IF kind \notin mode THEN error(c, "attempt to load a chunk of another mode")
     ELSE IF kind = "binary" THEN luaU_undump(c) ELSE error(c, "text")
=============================================================================

------------------------------- MODULE LuaAux -------------------------------
(***************************************************************************)
(* The auxiliary and package libraries (lauxlib.c, loadlib.c): a buffer    *)
(* with its box on the stack, references with their free list, require     *)
(* with package.loaded and the search of a path, what of a file is loaded, *)
(* tracebacks; and the string functions that fill a buffer by a size that  *)
(* they compute (lstrlib.c).                                               *)
(***************************************************************************)
EXTENDS Integers, Sequences, TLC
LOCAL INSTANCE SequencesExt

CONSTANTS LUAL_BUFFERSIZE, MAX_SIZET, MAXSIZE,
          Memory          \* the size of the largest block that the allocator gives
SizeT(x) == x % (MAX_SIZET + 1)
Without(s, i) == SubSeq(s, 1, i - 1) \o SubSeq(s, i + 1, Len(s))

(***************************************************************************)
(* luaL_Buffer.  b has its bytes, size what they may grow to.  Once it is  *)
(* on the stack, it lives in a box, which must be the top value whenever   *)
(* it is used.  "fault" is a write or a cast that C would not survive.     *)
(***************************************************************************)
Box(n) == <<"box", n>>
luaL_buffinit(stack) == [stack |-> stack, b |-> << >>, size |-> LUAL_BUFFERSIZE, onstack |-> FALSE, err |-> ""]
Raise(S, msg) == [S EXCEPT !.err = msg]
resizebox(S, idx, newsize) ==
  IF S.stack[idx][1] # "box" THEN Raise(S, "fault")
  ELSE IF newsize > Memory THEN Raise([S EXCEPT !.stack[idx] = Box(0)], "not enough memory")
  ELSE [S EXCEPT !.stack[idx] = Box(newsize)]
newbox(S, newsize) ==
  LET stack == Append(S.stack, Box(0))
  IN resizebox([S EXCEPT !.stack = stack], Len(stack), newsize)
luaL_prepbuffsize(S, sz) ==
  LET n == Len(S.b)
      newsize == IF SizeT(S.size * 2 - n) < sz THEN SizeT(n + sz) ELSE SizeT(S.size * 2)
      r == IF S.onstack THEN resizebox(S, Len(S.stack), newsize) ELSE newbox(S, newsize)
  IN IF S.size - n >= sz THEN S
     ELSE IF newsize < n \/ SizeT(newsize - n) < sz THEN Raise(S, "buffer too large")
     ELSE IF r.err # "" THEN r ELSE [r EXCEPT !.size = newsize, !.onstack = TRUE]
\* The caller writes into the area that it got.
luaL_addsize(S, bytes) ==
  IF Len(S.b) + Len(bytes) > S.size THEN Raise(S, "fault") ELSE [S EXCEPT !.b = @ \o bytes]
luaL_addlstring(S, s) ==
  LET p == luaL_prepbuffsize(S, Len(s))
  IN IF s = << >> THEN S ELSE IF p.err # "" THEN p ELSE luaL_addsize(p, s)
luaL_addvalue(S) ==
  LET top == Len(S.stack)
      v == S.stack[top]
      below == IF S.onstack THEN [S EXCEPT !.stack[top - 1] = v, !.stack[top] = S.stack[top - 1]] ELSE S
      a == luaL_addlstring(below, v[2])
      at == IF a.onstack THEN Len(a.stack) - 1 ELSE Len(a.stack)
  IN IF a.err # "" THEN a ELSE [a EXCEPT !.stack = Without(@, at)]
luaL_pushresult(S) ==
  LET pushed == [S EXCEPT !.stack = Append(@, <<"string", S.b>>)]
      at == Len(S.stack)
      freed == resizebox(pushed, at, 0)
  IN IF ~S.onstack THEN pushed
     ELSE IF freed.err # "" THEN freed ELSE [freed EXCEPT !.stack = Without(@, at)]
luaL_pushresultsize(S, bytes) ==
  LET a == luaL_addsize(S, bytes) IN IF a.err # "" THEN a ELSE luaL_pushresult(a)
luaL_buffinitsize(stack, sz) == luaL_prepbuffsize(luaL_buffinit(stack), sz)

\* What the functions write when they have asked for an area of that size.
Filled(stack, sz, bytes) ==
  LET S == luaL_buffinitsize(stack, sz)
  IN IF S.err # "" THEN S ELSE IF Len(bytes) # sz THEN Raise(S, "fault") ELSE luaL_pushresultsize(S, bytes)
RECURSIVE Copies(_, _, _)
Copies(s, n, sep) == IF n = 1 THEN s ELSE s \o sep \o Copies(s, n - 1, sep)
str_rep(stack, s, n, sep) ==
  LET l == Len(s)  lsep == Len(sep)
      totallen == SizeT(SizeT(n * l) + SizeT((n - 1) * lsep))
  IN IF n <= 0 THEN luaL_buffinit(Append(stack, <<"string", << >> >>))
     ELSE IF SizeT(l + lsep) < l \/ SizeT(l + lsep) > MAXSIZE \div n
       THEN Raise(luaL_buffinit(stack), "resulting string too large")
     ELSE Filled(stack, totallen, Copies(s, n, sep))
str_reverse(stack, s) == Filled(stack, Len(s), [i \in DOMAIN s |-> s[Len(s) - i + 1]])
posrelat(pos, len) == IF pos >= 0 THEN pos ELSE IF -pos > len THEN 0 ELSE len + pos + 1
\* The bytes of sub, and those that byte pushes: the limits of int are out of reach.
str_sub(s, i, j) ==
  LET start == posrelat(i, Len(s))
      end == posrelat(j, Len(s))
  IN SubSeq(s, IF start < 1 THEN 1 ELSE start, IF end > Len(s) THEN Len(s) ELSE end)

(***************************************************************************)
(* Paths and files.  A file is the sequence of its bytes.                  *)
(***************************************************************************)
First(f, c) == SelectInSeq(f, LAMBDA x : x = c)
luaL_gsub(s, p, r) == FlattenSeq([i \in DOMAIN s |-> IF s[i] = p THEN r ELSE <<s[i]>>])
\* The files that searchpath tries, up to one that is readable.
RECURSIVE searchpath(_, _, _)
searchpath(name, path, readable) ==
  LET l == IF First(path, ";") = 0 THEN Len(path) ELSE First(path, ";") - 1
      filename == luaL_gsub(SubSeq(path, 1, l), "?", luaL_gsub(name, ".", <<"/">>))
  IN IF path = << >> THEN << >>
     ELSE IF l = 0 THEN searchpath(name, Tail(path), readable)
     ELSE IF filename \in readable THEN <<filename>>
     ELSE <<filename>> \o searchpath(name, SubSeq(path, l + 1, Len(path)), readable)

BOM == <<"EF", "BB", "BF">>
\* What is kept for the parser, and what is not read yet.
skipBOM(f) ==
  LET k == Len(LongestCommonPrefix({BOM, f}))
  IN [buff |-> IF k = 3 THEN << >> ELSE SubSeq(f, 1, k), rest |-> SubSeq(f, k + 1, Len(f))]
skipcomment(f) ==
  LET b == skipBOM(f)
      eol == First(b.rest, "eol")
  IN IF b.rest # << >> /\ b.rest[1] = "#"
       THEN [b EXCEPT !.rest = IF eol = 0 THEN << >> ELSE SubSeq(@, eol + 1, Len(@))] @@ [comment |-> TRUE]
     ELSE b @@ [comment |-> FALSE]
\* What the parser gets of the file, or of the standard input, which has no name to open it again.
luaL_loadfilex(f, filename) ==
  LET lf == skipcomment(f)
  IN IF lf.rest # << >> /\ lf.rest[1] = "ESC" /\ filename THEN lf.buff \o lf.rest
     ELSE lf.buff \o (IF lf.comment THEN <<"eol">> ELSE << >>) \o lf.rest

(***************************************************************************)
(* The levels that a traceback shows.                                      *)
(***************************************************************************)
LEVELS1 == 10
LEVELS2 == 11
RECURSIVE Bound(_, _), Search(_, _, _)
Bound(levels, le) == IF le < levels THEN Bound(levels, le * 2) ELSE le
Search(levels, li, le) ==
  LET m == (li + le) \div 2
  IN IF li >= le THEN le - 1 ELSE IF m < levels THEN Search(levels, m + 1, le) ELSE Search(levels, li, m)
lastlevel(levels) == LET le == Bound(levels, 1) IN Search(levels, IF le = 1 THEN 1 ELSE le \div 2, le)
RECURSIVE Shown(_, _, _)
Shown(levels, level, n1) ==
  IF level >= levels THEN << >>
  ELSE IF n1 = 0 THEN <<"...">> \o Shown(levels, lastlevel(levels) - LEVELS2 + 1, -1)
  ELSE <<level>> \o Shown(levels, level + 1, n1 - 1)
luaL_traceback(levels, level) ==
  Shown(levels, level, IF lastlevel(levels) - level > LEVELS1 + LEVELS2 THEN LEVELS1 ELSE -1)

(***************************************************************************)
(* References: a table with a list of free ones through the entries, from  *)
(* t[0] on, which is nil before the first is freed.                        *)
(***************************************************************************)
Nil == <<"nil">>
LUA_REFNIL == -1
rawlen(t) == CHOOSE n \in DOMAIN t : /\ n = 0 \/ t[n] # Nil
                                     /\ n + 1 \notin DOMAIN t \/ t[n + 1] = Nil
\* << the table, the reference >>
luaL_ref(t, v) ==
  LET ref == IF t[0] = Nil THEN 0 ELSE t[0][2]
  IN IF v = Nil THEN <<t, LUA_REFNIL>>
     ELSE IF ref # 0 THEN <<[t EXCEPT ![0] = t[ref], ![ref] = v], ref>>
     ELSE <<[t EXCEPT ![rawlen(t) + 1] = v], rawlen(t) + 1>>
luaL_unref(t, ref) == IF ref >= 0 THEN [t EXCEPT ![ref] = t[0], ![0] = <<"int", ref>>] ELSE t

(***************************************************************************)
(* require.  P has package.loaded, the globals, the loaders that have run, *)
(* the value and the error.  searchers[i][name] says what a searcher       *)
(* returns; a loader may set package.loaded, before or after it requires   *)
(* another module, fail, and return a value.                               *)
(***************************************************************************)
False(v) == v \in {"nil", "false"}
findloader(searchers, name) == \E i \in DOMAIN searchers : searchers[i][name] = "loader"
Assign(P, name, v) == IF v = "nil" THEN P ELSE [P EXCEPT !.loaded[name] = v]
RECURSIVE ll_require(_, _, _, _, _)
ll_require(P, name, searchers, loader, calls) ==    \* calls: how many more fit the C stack
  LET me == loader[name]
      begun == [P EXCEPT !.runs = Append(@, name)]
      before == IF me.early THEN Assign(begun, name, me.assigns) ELSE begun
      needed == IF me.needs = "" THEN before ELSE ll_require(before, me.needs, searchers, loader, calls - 1)
      after == IF me.early THEN needed ELSE Assign(needed, name, me.assigns)
      set == Assign(after, name, me.returns)
      final == IF set.loaded[name] = "nil" THEN [set EXCEPT !.loaded[name] = "true"] ELSE set
  IN IF ~False(P.loaded[name]) THEN [P EXCEPT !.v = P.loaded[name]]
     ELSE IF ~findloader(searchers, name) THEN Raise(P, "not found")
     ELSE IF calls = 0 THEN Raise(P, "C stack overflow")
     ELSE IF needed.err # "" THEN needed
     ELSE IF me.fails THEN Raise(after, "failed")
     ELSE [final EXCEPT !.v = final.loaded[name]]
=============================================================================

----------------------------- MODULE AskChunks -----------------------------
(***************************************************************************)
(* Questions about what is loaded: precompiled chunks, in bytes below 16,  *)
(* files and modules.                                                      *)
(***************************************************************************)
EXTENDS Asking
LOCAL INSTANCE SequencesExt
LOCAL Aux == INSTANCE LuaAux WITH LUAL_BUFFERSIZE <- 2, MAX_SIZET <- 15, MAXSIZE <- 7, Memory <- 15
Dump == INSTANCE LuaDump WITH Base <- 16, LUAI_MAXSHORTLEN <- 4

Repeat(c, n) == [i \in 1..n |-> c]
Name(n) == Repeat(7, n)
Leaf == [source |-> Name(1), linedefined |-> 3, lastlinedefined |-> 20, numparams |-> 1, is_vararg |-> 0,
         maxstacksize |-> 2, code |-> <<200>>, k |-> << >>, p |-> << >>, lineinfo |-> <<21>>, locvars |-> << >>,
         upvalues |-> <<[instack |-> 1, idx |-> 2, name |-> Name(2)]>>]
Constants == <<<<"nil">>, <<"boolean", 1>>, <<"float", 100>>, <<"int", 255>>>>
Chunk == [Leaf EXCEPT !.p = <<Leaf, [Leaf EXCEPT !.source = Name(2)]>>, !.k = Constants, !.code = << >>,
            !.locvars = <<[varname |-> Name(0), startpc |-> 0, endpc |-> 17]>>]
Functions == {Leaf, Chunk, [Chunk EXCEPT !.p[1].p = <<Leaf>>, !.upvalues = << >>]}
             \cup {[Leaf EXCEPT !.k = <<<<"string", Name(n)>>>>] : n \in {0, 1, 4, 12, 13, 14, 15, 16, 40}}
Strips == BOOLEAN
RECURSIVE Pieces(_, _)
Pieces(q, n) == IF Len(q) <= n THEN <<q>> ELSE <<SubSeq(q, 1, n)>> \o Pieces(SubSeq(q, n + 1, Len(q)), n)
Bytes(f, strip) == Dump!luaU_dump(f, strip, 0).out
Modes == {{"binary"}, {"text"}, {"binary", "text"}}
AskLoad == \E f \in Functions, strip \in Strips, n \in {1, 2, 3, 7, 1000}, mode \in Modes :
  question' = <<"load", f, strip, mode, n>>
AskTruncated == \E f \in Functions, strip \in Strips : question' = <<"truncated", f, strip>>
AskAltered == \E i \in 1..15, x \in 0..15 : question' = <<"altered", i, x>>
AskDump == \E f \in Functions, strip \in Strips, fails \in 1..40 : question' = <<"dump", f, strip, fails>>

RECURSIVE Stripped(_)
Stripped(f) == [f EXCEPT !.source = Dump!NULL, !.lineinfo = << >>, !.locvars = << >>,
                  !.upvalues = [i \in DOMAIN f.upvalues |-> [f.upvalues[i] EXCEPT !.name = Dump!NULL]],
                  !.p = [i \in DOMAIN f.p |-> Stripped(f.p[i])]]
LoadRight(asked, answer) ==
  LET f == asked[2] IN
  IF "binary" \notin asked[4] THEN answer.err # ""
  ELSE answer.err = "" /\ answer.v = (IF asked[3] THEN Stripped(f) ELSE f) /\ answer.buf = << >>
CutRight(bytes) == \A cut \in 0..Len(bytes) - 1 :
  Dump!f_parser(Pieces(SubSeq(bytes, 1, cut), 5), {"binary", "text"}).err = IF cut = 0 THEN "text" ELSE "truncated"
AlteredRight(asked, bytes) == bytes[asked[2]] # asked[3] =>
  Dump!f_parser(<<[bytes EXCEPT ![asked[2]] = asked[3]]>>, {"binary", "text"}).err # ""
DumpRight(whole, answer) ==
  answer.out = SubSeq(whole, 1, Len(answer.out)) /\ (answer.status = 0 <=> answer.out = whole)

(***************************************************************************)
(* Modules: two, which may require each other, fail, or be there only for  *)
(* the second searcher, or for none; paths; files.                         *)
(***************************************************************************)
Modules == {"m", "n"}
Loaders(other) == [needs : {"", other}, early : BOOLEAN, assigns : {"nil", "set"}, returns : {"nil", "false", "value"}, fails : BOOLEAN]
Found == {<<"loader">>, <<"message", "loader">>, <<"message", "none">>}
AskRequire == \E m \in Loaders("n"), n \in Loaders("m"), found \in {<<x, y>> : x, y \in Found}, calls \in Words(Modules, 3) :
  /\ calls # << >> /\ (m.fails \/ n.fails => Len(calls) = 1) /\ (m.early => m.assigns = "set") /\ (n.early => n.assigns = "set")
  /\ question' = <<"require", [x \in Modules |-> IF x = "m" THEN m ELSE n],
                   [i \in 1..2 |-> [x \in Modules |-> LET f == IF x = "m" THEN found[1] ELSE found[2]
                                                     IN IF i <= Len(f) THEN f[i] ELSE "none"]], calls>>
AskSearch == \E path \in Words({";", "?", "a"}, 5), name \in Words({"m", "."}, 2), k \in 0..3 :
  question' = <<"search", path, name, k>>
AskFile == \E f \in Words({"EF", "BB", "BF", "#", "eol", "ESC", "a"}, 5), named \in BOOLEAN : question' = <<"file", f, named>>

NotLoaded == [loaded |-> [x \in Modules |-> "nil"], runs |-> << >>, v |-> "nil", err |-> ""]
\* require gives what the loader returned, or has set, or true; a loader runs again only when
\* its value was false, or it has none yet and a module that it needs requires it; and only
\* modules that need each other before they have a value never end.
RequireRight(asked) ==
  LET loader == asked[2]  searchers == asked[3]  calls == asked[4]
      Require(P, x) == IF P.err # "" THEN P ELSE Aux!ll_require(P, x, searchers, loader, 3)
      P == FoldLeft(Require, NotLoaded, calls)
      x == Last(calls)
      Gives(y) == IF loader[y].returns # "nil" THEN loader[y].returns
                  ELSE IF loader[y].assigns # "nil" THEN loader[y].assigns ELSE "true"
      mutual == \A y \in Modules : loader[y].needs # ""
      circle == mutual /\ \A y \in Modules : ~loader[y].early
      Runs(y) == Cardinality({i \in DOMAIN P.runs : P.runs[i] = y})
  IN /\ P.err = "" => P.v = Gives(x) /\ P.loaded[x] = Gives(x) /\ ~\E y \in Modules : Runs(y) > 0 /\ loader[y].fails
     /\ \A y \in Modules : Runs(y) > 1 => Gives(y) = "false" \/ (mutual /\ ~loader[y].early)
     /\ P.err = "C stack overflow" => circle
     /\ P.err = "not found" => \E y \in Modules : \A i \in 1..2 : searchers[i][y] # "loader"
Tried(path, name) ==
  LET at == [i \in DOMAIN path |-> i]
      starts == SelectSeq(at, LAMBDA i : path[i] # ";" /\ (i = 1 \/ path[i - 1] = ";"))
      Template(i) == SubSeq(path, i, Least({j \in i..Len(path) : j = Len(path) \/ path[j + 1] = ";"}))
      file == ReplaceAll(name, ".", "/")
  IN [k \in DOMAIN starts |-> FlattenSeq([j \in DOMAIN Template(starts[k]) |->
        IF Template(starts[k])[j] = "?" THEN file ELSE <<Template(starts[k])[j]>>])]
SearchRight(asked) ==
  LET tried == Tried(asked[2], asked[3])
      k == asked[4]
      first == Least({i \in DOMAIN tried : tried[i] = tried[k]})
  IN IF k \in DOMAIN tried THEN Aux!searchpath(asked[3], asked[2], {tried[k]}) = SubSeq(tried, 1, first)
     ELSE Aux!searchpath(asked[3], asked[2], {}) = tried
\* A mark at the start and a first line with # are not read; of the line, its end is kept, so that
\* lines have their numbers, unless a precompiled chunk follows.
FileRight(asked) ==
  LET f == asked[2]
      body == IF Len(f) >= 3 /\ SubSeq(f, 1, 3) = Aux!BOM THEN SubSeq(f, 4, Len(f)) ELSE f
      ends == {i \in DOMAIN body : body[i] = "eol"}
      rest == IF ends = {} THEN << >> ELSE SubSeq(body, Least(ends) + 1, Len(body))
      binary == rest # << >> /\ rest[1] = "ESC" /\ asked[3]
      odd == \E i \in 2..3 : Len(f) >= i /\ f[i] = "#" /\ IsPrefix(SubSeq(f, 1, i - 1), Aux!BOM)     \* a part of a mark
  IN odd \/ Aux!luaL_loadfilex(f, asked[3]) =
              IF body = << >> \/ body[1] # "#" THEN body ELSE IF binary THEN rest ELSE <<"eol">> \o rest
\* A dumped function comes back as it was, without its debug information if that was stripped,
\* however the reader splits the chunk; a chunk that is cut anywhere or has another header is
\* refused; a writer that fails is not called again and its status is returned.  Modules are
\* loaded once, files are found and read as the manual says.
ChunksRight == [][\A asked \in {question'} : (
  /\ asked[1] = "load" => LoadRight(asked, Dump!f_parser(Pieces(Bytes(asked[2], asked[3]), asked[5]), asked[4]))
  /\ asked[1] = "truncated" => CutRight(Bytes(asked[2], asked[3]))
  /\ asked[1] = "altered" => AlteredRight(asked, Bytes(Leaf, FALSE))
  /\ asked[1] = "dump" => DumpRight(Bytes(asked[2], asked[3]), Dump!luaU_dump(asked[2], asked[3], asked[4]))
  /\ asked[1] = "require" => RequireRight(asked)
  /\ asked[1] = "search" => SearchRight(asked)
  /\ asked[1] = "file" => FileRight(asked))]_question
=============================================================================

------------------------------ MODULE LuaCall ------------------------------
(***************************************************************************)
(* Calls, errors and coroutines (ldo.c, and what lapi.c, ldebug.c, lvm.c   *)
(* and the libraries do with them).  A coroutine has its chain of          *)
(* CallInfo; all coroutines share one C stack, of which a yield or an      *)
(* error throws away the upper part.  A step is what runs at the top of    *)
(* the C stack until it enters or leaves a function.                       *)
(***************************************************************************)
EXTENDS Integers, Sequences, FiniteSets

CONSTANTS Thread, mainthread,
          Handler,      \* message handlers
          NoHandler,    \* errfunc = 0
          MAXCCALLS,    \* LUAI_MAXCCALLS
          ERRCCALLS,    \* LUAI_MAXCCALLS plus the part for errors
          MAXSTACK,     \* LUAI_MAXSTACK, in frames
          ERRSTACK,     \* ERRORSTACKSIZE, in frames
          MaxDepth      \* bound of the model: entries of the C stack

CallAssumption ==
  /\ mainthread \in Thread
  /\ {MAXCCALLS, ERRCCALLS, MAXSTACK, ERRSTACK} \subseteq Nat \ {0}
  /\ MAXCCALLS < ERRCCALLS /\ MAXSTACK < ERRSTACK

VARIABLES
  th,   \* lua_State: ci, status, nny, ncc (nCcalls), errfunc, allowhook, big, fun
  cs    \* the C stack
cavars == <<th, cs>>

(***************************************************************************)
(* Frames.  op is the instruction of a Lua frame that a call interrupts;   *)
(* k the continuation of a C frame, which is whatever was there until it   *)
(* is set; yp is CIST_YPCALL, oef and oah what is saved for it, and        *)
(* handler the one given to that call.                                     *)
(***************************************************************************)
LuaFrame(fresh) == [lua |-> TRUE, fresh |-> fresh, op |-> "none", hookyield |-> FALSE,
                    k |-> "none", yp |-> FALSE, oef |-> NoHandler, oah |-> TRUE,
                    handler |-> NoHandler]
CFrame == [LuaFrame(FALSE) EXCEPT !.lua = FALSE, !.k = "junk"]

\* Entries of the C stack: luaV_execute, a C function, luaD_hook, luaD_pcall, lua_resume,
\* unroll, a finished C function, luaG_errormsg and luaD_throw.  ci is the number of the
\* frame with which the entry began, or of the last one when it has none of its own.
Entry(kind, t) == [kind |-> kind, th |-> t, counted |-> FALSE, ny |-> FALSE, yp |-> FALSE,
                   ci |-> 0, nny |-> 0, ncc |-> 0, errfunc |-> NoHandler,
                   allowhook |-> TRUE, handler |-> NoHandler]
Top(s) == s[Len(s)]
Pop(s) == SubSeq(s, 1, Len(s) - 1)
SetTop(s, x) == [s EXCEPT ![Len(s)] = x]

L == Top(cs).th
l == th[L]
ci == Top(l.ci)
At(kind) == cs # << >> /\ Top(cs).kind = kind
\* An entry that works on the frame that runs.
Here(kind) == [Entry(kind, L) EXCEPT !.ci = Len(l.ci)]
Becomes(t, c) == th' = [th EXCEPT ![L] = t] /\ cs' = c

(***************************************************************************)
(* luaD_call or luaD_callnoyield of a function by thread t, with its own   *)
(* luaV_execute when it is a Lua function, and the limits: the C stack may *)
(* be full, the stack may have to grow.  counted is FALSE for a C function *)
(* that OP_CALL or resume calls.                                           *)
(***************************************************************************)
Push(t, frame) == [t EXCEPT !.ci = Append(@, frame)]
Grows(t) == Len(t.ci) >= IF t.big THEN ERRSTACK ELSE MAXSTACK

Enter(t, c, lua, counted, ny, yp) ==
  LET called == [t EXCEPT !.ncc = @ + (IF counted THEN 1 ELSE 0),
                          !.nny = @ + (IF ny THEN 1 ELSE 0)]
      fails(kind, u) == Becomes(u, Append(c, [Here(kind) EXCEPT !.counted = counted, !.ny = ny]))
  IN IF counted /\ called.ncc = MAXCCALLS THEN fails("raise", called)
     ELSE IF counted /\ called.ncc >= ERRCCALLS THEN fails("throw", called)
     ELSE IF Grows(called)
       THEN IF called.big THEN fails("throw", called)
            ELSE fails("raise", [called EXCEPT !.big = TRUE])
     ELSE Becomes(Push(called, IF lua THEN LuaFrame(TRUE) ELSE CFrame),
                  Append(c, [Entry(IF lua THEN "exec" ELSE "cfun", L) EXCEPT
                               !.ci = Len(t.ci) + 1, !.counted = counted, !.ny = ny, !.yp = yp]))

\* The top entry of the C stack returns to the one below: luaD_call and luaD_callnoyield
\* count down, lua_pcallk takes its mark back, an instruction that had called a metamethod
\* is complete.
Back(t, e) ==
  LET u == [t EXCEPT !.ncc = @ - (IF e.counted THEN 1 ELSE 0),
                     !.nny = @ - (IF e.ny THEN 1 ELSE 0)]
      f == Top(u.ci)
  IN IF e.yp THEN [u EXCEPT !.ci = SetTop(@, [f EXCEPT !.yp = FALSE]), !.errfunc = f.oef]
     ELSE IF u.ci # << >> /\ f.lua /\ Len(cs) > 1 /\ cs[Len(cs) - 1].kind = "exec"
            THEN [u EXCEPT !.ci = SetTop(@, [f EXCEPT !.op = "none"])]
     ELSE u

(***************************************************************************)
(* luaV_execute: calls, metamethods, returns                               *)
(***************************************************************************)
Executes == At("exec")
Interrupt(op) == [l EXCEPT !.ci = SetTop(@, [ci EXCEPT !.op = op])]

\* OP_CALL of a Lua function stays in the same luaV_execute.
CallLua ==
  /\ Executes
  /\ IF Grows(l)
       THEN Becomes([Interrupt("call") EXCEPT !.big = TRUE],
                    Append(cs, Here(IF l.big THEN "throw" ELSE "raise")))
       ELSE Becomes(Push(Interrupt("call"), LuaFrame(FALSE)), cs)
CallC == Executes /\ Enter(Interrupt("call"), cs, FALSE, FALSE, FALSE, FALSE)
CallTM(lua) == Executes /\ Enter(Interrupt("metamethod"), cs, lua, TRUE, FALSE, FALSE)

\* OP_RETURN: the frame that luaV_execute was entered with ends it.
LuaReturn ==
  LET rest == [l EXCEPT !.ci = Pop(@)] IN
  /\ Executes
  /\ IF ci.fresh
       THEN Becomes(Back(rest, Top(cs)), Pop(cs))
       ELSE Becomes([rest EXCEPT !.ci = SetTop(@, [Top(@) EXCEPT !.op = "none"])], cs)

\* luaG_traceexec and luaD_hook.
Hook ==
  /\ Executes
  /\ IF ci.hookyield
       THEN Becomes([l EXCEPT !.ci = SetTop(@, [ci EXCEPT !.hookyield = FALSE])], cs)
       ELSE /\ l.allowhook
            /\ Becomes([l EXCEPT !.allowhook = FALSE], Append(cs, Here("hook")))
HookReturn ==
  LET u == [l EXCEPT !.allowhook = TRUE] IN
  /\ At("hook")
  /\ IF l.status = "yield"
       THEN Becomes([u EXCEPT !.ci = SetTop(@, [ci EXCEPT !.hookyield = TRUE])],
                    SetTop(cs, [Top(cs) EXCEPT !.kind = "throw"]))
       ELSE Becomes(u, Pop(cs))

(***************************************************************************)
(* C functions and hooks, which use the API                                *)
(***************************************************************************)
\* At the bottom of the C stack is the host program, which only makes protected calls.
Host == Len(cs) = 1
InC == (At("cfun") \/ At("hook")) /\ l.status = "ok" /\ ~Host
Ks == IF At("hook") THEN {"none"} ELSE {"none", "some"}

\* A call that does not note its continuation.
lua_callkForgets(k, lua) ==
  InC /\ k \in Ks /\ Enter(l, cs, lua, TRUE, ~(k = "some" /\ l.nny = 0), FALSE)

lua_callk(k, lua) ==
  /\ InC /\ k \in Ks
  /\ IF k = "some" /\ l.nny = 0
       THEN Enter([l EXCEPT !.ci = SetTop(@, [ci EXCEPT !.k = k])], cs, lua, TRUE, FALSE, FALSE)
       ELSE Enter(l, cs, lua, TRUE, TRUE, FALSE)

Pcall(h) == [Here("pcall") EXCEPT !.nny = l.nny, !.ncc = l.ncc,
               !.errfunc = l.errfunc, !.allowhook = l.allowhook, !.handler = h]
Ypcall(k, h) == [ci EXCEPT !.k = k, !.yp = TRUE, !.oef = l.errfunc, !.oah = l.allowhook,
                           !.handler = h]
lua_pcallk(k, h, lua) ==
  /\ (InC \/ Host) /\ k \in Ks
  /\ IF k = "none" \/ l.nny > 0
       THEN Enter([l EXCEPT !.errfunc = h], Append(cs, Pcall(h)), lua, TRUE, TRUE, FALSE)
       ELSE Enter([l EXCEPT !.errfunc = h, !.ci = SetTop(@, Ypcall(k, h))],
                  cs, lua, TRUE, FALSE, TRUE)
PcallEnd == At("pcall") /\ Becomes([l EXCEPT !.errfunc = Top(cs).errfunc], Pop(cs))

CReturn == /\ (At("cfun") \/ At("ret")) /\ ~Host
           /\ Becomes(Back([l EXCEPT !.ci = Pop(@)], Top(cs)), Pop(cs))

(***************************************************************************)
(* Errors: luaG_errormsg calls the handler, luaD_throw goes to the last    *)
(* luaD_rawrunprotected of the thread                                      *)
(***************************************************************************)
RunError == (Executes \/ InC) /\ Becomes(l, Append(cs, Here("raise")))
MemoryError == (Executes \/ InC) /\ Becomes(l, Append(cs, Here("throw")))
luaG_errormsg(lua) ==
  LET c == SetTop(cs, [Top(cs) EXCEPT !.kind = "throw"]) IN
  /\ At("raise")
  /\ IF l.errfunc = NoHandler THEN Becomes(l, c) ELSE Enter(l, c, lua, TRUE, TRUE, FALSE)

luaD_shrinkstack(t) == [t EXCEPT !.big = @ /\ Len(t.ci) > MAXSTACK]
\* The first protected call of the thread and not the last one.
errorJmpFirst == CHOOSE i \in DOMAIN cs :
                   /\ cs[i].th = L /\ cs[i].kind \in {"pcall", "resume"}
                   /\ \A j \in 1..i - 1 : cs[j].th = L => cs[j].kind \notin {"pcall", "resume"}
errorJmp == CHOOSE i \in DOMAIN cs :
              /\ cs[i].th = L /\ cs[i].kind \in {"pcall", "resume"}
              /\ \A j \in i + 1..Len(cs) : cs[j].th = L => cs[j].kind \notin {"pcall", "resume"}

\* luaD_pcall that leaves the hooks as the error found them.
CaughtHooked(e) == luaD_shrinkstack([l EXCEPT !.ci = SubSeq(@, 1, e.ci), !.ncc = e.ncc,
                      !.nny = e.nny, !.errfunc = e.errfunc])
Caught(e) == luaD_shrinkstack([l EXCEPT !.ci = SubSeq(@, 1, e.ci), !.ncc = e.ncc,
                !.allowhook = e.allowhook, !.nny = e.nny, !.errfunc = e.errfunc])
Resumed(t, e) == [t EXCEPT !.nny = e.nny, !.ncc = e.ncc - 1]   \* end of lua_resume

\* recover and the continuation that finishCcall calls for it.
findpcall == {i \in DOMAIN l.ci : l.ci[i].yp}
\* A recovery that leaves nny as the error found it.
recoverCounted(e) ==
  LET p == CHOOSE i \in findpcall : \A j \in findpcall : j <= i
      f == l.ci[p]
  IN luaD_shrinkstack([l EXCEPT !.ci = Append(SubSeq(@, 1, p - 1), [f EXCEPT !.yp = FALSE]),
        !.ncc = e.ncc, !.allowhook = f.oah, !.errfunc = f.oef])
recover(e) ==
  LET p == CHOOSE i \in findpcall : \A j \in findpcall : j <= i
      f == l.ci[p]
  IN luaD_shrinkstack([l EXCEPT !.ci = Append(SubSeq(@, 1, p - 1), [f EXCEPT !.yp = FALSE]),
        !.ncc = e.ncc, !.allowhook = f.oah, !.nny = 0, !.errfunc = f.oef])

luaD_throw ==
  LET i == errorJmp
      e == cs[i]
  IN /\ At("throw")
     /\ CASE e.kind = "pcall" -> Becomes(Caught(e), SubSeq(cs, 1, i - 1))
          [] e.kind = "resume" /\ l.status = "yield" ->
               Becomes(Resumed(l, e), SubSeq(cs, 1, i - 1))
          [] e.kind = "resume" /\ l.status = "ok" /\ findpcall # {} ->
               Becomes(recover(e), SubSeq(cs, 1, i) \o <<Entry("unroll", L),
                         [Entry("cfun", L) EXCEPT !.ci = Len(recover(e).ci)]>>)
          [] OTHER ->
               Becomes([Resumed(l, e) EXCEPT !.status = "dead"], SubSeq(cs, 1, i - 1))

(***************************************************************************)
(* Coroutines                                                              *)
(***************************************************************************)
\* lua_yieldk: an error when yields are not allowed, a longjmp to lua_resume otherwise; in a
\* hook it returns, and luaG_traceexec jumps.
lua_yieldk(k) ==
  /\ InC /\ k \in Ks
  /\ IF l.nny > 0 THEN Becomes(l, Append(cs, Here("raise")))
     ELSE IF At("hook") THEN Becomes([l EXCEPT !.status = "yield"], cs)
     ELSE Becomes([l EXCEPT !.status = "yield", !.ci = SetTop(@, [ci EXCEPT !.k = k])],
                  Append(cs, Here("throw")))

\* auxresume and lua_resume: refused for a thread that runs, has ended or is too deep;
\* otherwise its function is called, or what it yielded from goes on.
Refused(t) == \/ th[t].status = "dead"
              \/ th[t].status = "ok" /\ (th[t].ci # << >> \/ ~th[t].fun)
Starts(t, lua) == IF th[t].status = "yield" THEN th[t].ci
                  ELSE <<IF lua THEN LuaFrame(TRUE) ELSE CFrame>>
Fresh(s) == SetTop(s, [Top(s) EXCEPT !.fresh = TRUE])
Goes(t, f) == Entry(IF f.lua THEN "exec" ELSE IF f.k = "none" THEN "ret" ELSE "cfun", t)
lua_resume(t, lua) ==
  LET n == l.ncc + 1
      s == Starts(t, lua)
  IN /\ InC
     /\ lua => th[t].status = "ok"
     /\ ~Refused(t)
     /\ IF n >= MAXCCALLS
          THEN th' = [th EXCEPT ![t].ncc = n] /\ UNCHANGED cs
          ELSE /\ th' = [th EXCEPT ![t] = [@ EXCEPT !.ncc = n, !.nny = 0, !.status = "ok",
                           !.ci = IF Top(s).lua THEN Fresh(s) ELSE s, !.fun = FALSE]]
               /\ cs' = cs \o <<[Entry("resume", t) EXCEPT !.nny = th[t].nny, !.ncc = n]>>
                          \o (IF th[t].status = "yield" THEN <<Entry("unroll", t)>> ELSE << >>)
                          \o <<[Goes(t, Top(s)) EXCEPT !.ci = Len(s)]>>

\* One turn of the loop of unroll: luaV_finishOp and luaV_execute, or finishCcall.
unroll ==
  /\ At("unroll")
  /\ IF l.ci = << >> THEN Becomes(l, Pop(cs))
     ELSE IF ci.lua
       THEN Becomes([l EXCEPT !.ci = Fresh(SetTop(@, [ci EXCEPT !.op = "none"]))],
                    Append(cs, Here("exec")))
       ELSE Becomes([l EXCEPT !.ci = SetTop(@, [ci EXCEPT !.yp = FALSE]),
                              !.errfunc = IF ci.yp THEN ci.oef ELSE @],
                    Append(cs, Here("cfun")))
ResumeEnd == At("resume") /\ Becomes(Resumed(l, Top(cs)), Pop(cs))

(***************************************************************************)
(* lua_newstate, lua_newthread; the ci of the main thread begins with its  *)
(* base_ci, in which the host program runs                                 *)
(***************************************************************************)
NewThread == [ci |-> << >>, status |-> "ok", nny |-> 1, ncc |-> 0, errfunc |-> NoHandler,
              allowhook |-> TRUE, big |-> FALSE, fun |-> TRUE]
Init ==
  /\ th = [t \in Thread |-> IF t # mainthread THEN NewThread
             ELSE [NewThread EXCEPT !.ci = <<CFrame>>, !.fun = FALSE]]
  /\ cs = <<[Entry("cfun", mainthread) EXCEPT !.ci = 1]>>

Next ==
  \/ Len(cs) < MaxDepth /\
       \/ CallLua \/ CallC \/ Hook \/ RunError \/ MemoryError
       \/ \E lua \in BOOLEAN : CallTM(lua)
       \/ \E lua \in BOOLEAN, k \in Ks : lua_callk(k, lua)
       \/ \E lua \in BOOLEAN, k \in Ks, h \in Handler \cup {NoHandler} : lua_pcallk(k, h, lua)
       \/ \E t \in Thread, lua \in BOOLEAN : lua_resume(t, lua)
       \/ \E k \in Ks : lua_yieldk(k)
  \/ \E lua \in BOOLEAN : luaG_errormsg(lua)
  \/ LuaReturn \/ HookReturn \/ PcallEnd \/ CReturn \/ luaD_throw \/ unroll \/ ResumeEnd

Spec == Init /\ [][Next]_cavars

(***************************************************************************)
(* Properties                                                              *)
(***************************************************************************)
OnStack(t) == {i \in DOMAIN cs : cs[i].th = t}
Resumes(t) == {i \in OnStack(t) : cs[i].kind = "resume"}
Last(S) == CHOOSE i \in S : \A j \in S : j <= i

\* nCcalls and nny are counted up and down by calls, restored from copies by errors, and
\* set by lua_resume (ldo.c): in any state they count the C calls of the running threads,
\* and the ones among them across which they cannot yield.
NestingCounted ==
  \A t \in Thread :
    LET counted == Cardinality({i \in OnStack(t) : cs[i].counted})
        ny == Cardinality({i \in OnStack(t) : cs[i].ny})
    IN /\ Cardinality(Resumes(t)) <= 1
       /\ IF Resumes(t) # {}
            THEN LET from == cs[Last(Resumes(t)) - 1].th
                 IN th[t].ncc = th[from].ncc + 1 + counted /\ th[t].nny = ny
            ELSE (t = mainthread => th[t].ncc = counted) /\ th[t].nny = 1 + ny

\* The assertions of finishCcall and of lua_resume: a yield arrives at the lua_resume of its
\* thread, and whatever it has interrupted can be continued: C functions have set a
\* continuation, instructions are completed before the next one runs.
Continuable ==
  /\ At("throw") /\ l.status = "yield" => cs[errorJmp].kind = "resume"
  /\ At("unroll") /\ l.ci # << >> /\ ~ci.lua => ci.k = "some" /\ l.nny = 0
  /\ Executes => ci.lua /\ ci.op = "none"
  /\ At("cfun") => ~ci.lua /\ ~ci.yp

\* The message handler is the one of the innermost protected call; hooks are off only
\* inside a hook; the part of the stack for errors is open only while an error is handled.
\* Errors and yields leave in the middle of all three (luaD_pcall, luaD_hook, recover).
InForce(t) ==
  LET p == {i \in OnStack(t) : cs[i].kind = "pcall"}
      y == {i \in DOMAIN th[t].ci : th[t].ci[i].yp}
  IN IF p # {} THEN cs[Last(p)].handler
     ELSE IF y # {} THEN th[t].ci[Last(y)].handler ELSE NoHandler
ErrorState ==
  \A t \in Thread : th[t].status # "dead" =>
    /\ th[t].errfunc = InForce(t)
    /\ th[t].allowhook <=> \A i \in OnStack(t) : cs[i].kind # "hook"
    /\ th[t].big => \E i \in OnStack(t) : cs[i].kind \in {"raise", "throw"}

\* Whatever is thrown away of the C stack, a program sees the calls, protected calls and
\* coroutines of the abstract specification: an error arrives at the innermost protected
\* call of its coroutine or ends it, a coroutine goes on with the activations it had.
Pcalls(t, i) == {j \in OnStack(t) : cs[j].kind = "pcall" /\ cs[j].ci = i}
Protects(t, i) ==
  LET f == th[t].ci[i] IN
  IF i = Len(th[t].ci) THEN {}
  ELSE (IF f.yp THEN {f.handler} ELSE {}) \cup {cs[j].handler : j \in Pcalls(t, i)}
acts == [t \in Thread |-> [i \in 1..Len(th[t].ci) |-> Protects(t, i)]]
waits == {<<cs[r - 1].th, cs[r].th>> : r \in {j \in 1..Len(cs) : cs[j].kind = "resume"}}
dead == {t \in Thread : th[t].status = "dead"}
Coroutines == INSTANCE LuaCoroutine WITH Handler <- Handler \cup {NoHandler}, running <- L
ImplementsCoroutines == Coroutines!CSpec
=============================================================================

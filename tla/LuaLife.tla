------------------------------ MODULE LuaLife ------------------------------
(***************************************************************************)
(* What the collector promises about the life of an object with a          *)
(* finalizer (lgc.c, manual 2.5): once it is marked for finalization it    *)
(* is freed only after its finalizer has been called, or by lua_close when *)
(* all finalizers that are due have been called.                           *)
(***************************************************************************)
CONSTANT Object
VARIABLES life,   \* "free", "plain", "finalizable" (marked) or "pending" (to be called)
          closed  \* has lua_close ended
vars == <<life, closed>>

In(state) == {o \in Object : life[o] = state}
Move(S, state) == life' = [o \in Object |-> IF o \in S THEN state ELSE life[o]]

Create(o) == o \in In("free") /\ Move({o}, "plain") /\ UNCHANGED closed
MarkForFinalization(o) == o \in In("plain") /\ Move({o}, "finalizable") /\ UNCHANGED closed
\* Unreachable objects become due; at lua_close every object does.
Separate(S) == S \subseteq In("finalizable") /\ Move(S, "pending") /\ UNCHANGED closed
CallFinalizer(o) == o \in In("pending") /\ Move({o}, "plain") /\ UNCHANGED closed
Free(S) == S \subseteq In("plain") /\ Move(S, "free") /\ UNCHANGED closed
Close == In("pending") = {} /\ Move(Object, "free") /\ closed' = TRUE

Init == life = [o \in Object |-> "free"] /\ closed = FALSE
Next ==
  /\ ~closed
  /\ \/ \E o \in Object : Create(o) \/ MarkForFinalization(o) \/ CallFinalizer(o)
     \/ \E S \in SUBSET Object : Separate(S) \/ Free(S)
     \/ Close
Spec == Init /\ [][Next]_vars
=============================================================================

--------------------------- MODULE LuaCoroutine ---------------------------
(***************************************************************************)
(* What calls, protected calls and coroutines promise a program.  Each     *)
(* coroutine is a stack of activations.  An activation that makes a        *)
(* protected call has the message handler of that call; a coroutine that   *)
(* resumes another waits for it.  How often the C stack is entered, what   *)
(* a yield leaves of it, and which functions continue another does not     *)
(* show here.                                                              *)
(***************************************************************************)
EXTENDS Integers, Sequences

CONSTANTS Thread, mainthread, Handler

VARIABLES acts,    \* thread -> sequence of the handlers {h} of the protected calls that its
                   \* activations make, { } for one that makes none
          running, \* the thread that runs
          waits,   \* the pairs <<x, t>> such that x has resumed t and waits for it
          dead     \* the threads that an error has ended
cvars == <<acts, running, waits, dead>>

CInit == /\ acts = [t \in Thread |-> IF t = mainthread THEN <<{}>> ELSE << >>]
         /\ running = mainthread /\ waits = {} /\ dead = {}

mine == acts[running]
Mine(s) == acts' = [acts EXCEPT ![running] = s] /\ UNCHANGED <<running, waits, dead>>

\* A call, protected or not; a call of the first activation of a thread has no caller.
Call == Mine(Append(mine, {}))
Protect(h) == mine # << >> /\ Mine(Append([mine EXCEPT ![Len(mine)] = {h}], {}))
Return ==
  LET n == Len(mine) - 1
  IN mine # << >> /\ Mine([i \in 1..n |-> IF i = n THEN {} ELSE mine[i]])

\* A coroutine gives up control with all its activations, or when none is left.
Leave == \E x \in Thread : <<x, running>> \in waits /\ running' = x /\ waits' = waits \ {<<x, running>>}
Yield == Leave /\ UNCHANGED <<acts, dead>>

\* An error goes back to the innermost protected call of its coroutine, and ends the
\* coroutine when there is none.
Guarded == {i \in 1..Len(mine) : mine[i] # {}}
Caught == \E n \in Guarded : /\ \A i \in Guarded : i <= n
                             /\ Mine([i \in 1..n |-> IF i = n THEN {} ELSE mine[i]])
Uncaught == Guarded = {} /\ Leave /\ dead' = dead \cup {running} /\ UNCHANGED acts

\* A coroutine that neither runs nor waits can be resumed; it starts with one activation
\* or goes on with those it had.
Resume(t) ==
  /\ t \notin dead /\ t # mainthread /\ \A x \in Thread : <<x, t>> \notin waits
  /\ running' = t /\ waits' = waits \cup {<<running, t>>}
  /\ acts' = [acts EXCEPT ![t] = IF @ = << >> THEN <<{}>> ELSE @]
  /\ UNCHANGED dead

CNext == \/ Call \/ Return \/ Yield \/ Caught \/ Uncaught
         \/ \E h \in Handler : Protect(h)
         \/ \E t \in Thread : Resume(t)

CSpec == CInit /\ [][CNext]_cvars
=============================================================================

---------------------------- MODULE LuaVariable ----------------------------
(***************************************************************************)
(* Local variables as a Lua program sees them (manual 2.6 and 3.5): a      *)
(* variable is reached from its scope and from the closures that use it,   *)
(* and lives as long as one of them does.  A reference is a place that     *)
(* names a variable; references that share a variable share its value.     *)
(*                                                                         *)
(* The actions are relations of the state before, old and from, to the     *)
(* state after, new and to.                                                *)
(***************************************************************************)
CONSTANTS Ref, Value, Undefined
VARIABLES same,  \* the references that share the variable of this one
          value
vars == <<same, value>>

New(old, from, new, to) ==
  \E r \in Ref :
    /\ old[r] = {} /\ to[r] \in Value
    /\ new = [old EXCEPT ![r] = {r}]
    /\ to = [from EXCEPT ![r] = to[r]]
Assign(old, from, new, to) ==
  /\ new = old
  /\ \E r \in Ref :
       /\ old[r] # {} /\ to[r] \in Value
       /\ to = [s \in Ref |-> IF s \in old[r] THEN to[r] ELSE from[s]]
\* r, whatever it named, takes part in the variable of s.
Share(old, from, new, to) ==
  \E r, s \in Ref :
    LET class == old[s] \cup {r} IN
    /\ old[s] # {} /\ new[r] = class
    /\ new = [t \in Ref |-> IF t \in class THEN class ELSE old[t] \ {r}]
    /\ to = [from EXCEPT ![r] = from[s]]
\* Some references name nothing any more.
Forget(old, from, new, to) ==
  LET gone == {r \in Ref : old[r] # {} /\ new[r] = {}} IN
  /\ new = [r \in Ref |-> IF r \in gone THEN {} ELSE old[r] \ gone]
  /\ to = [r \in Ref |-> IF r \in gone THEN Undefined ELSE from[r]]

Init == same = [r \in Ref |-> {}] /\ value = [r \in Ref |-> Undefined]
Next ==
  \E old \in {same}, from \in {value}, new \in {same'}, to \in {value'} :
  \/ Forget(old, from, new, to) \/ Assign(old, from, new, to)
  \/ New(old, from, new, to) \/ Share(old, from, new, to)
Spec == Init /\ [][Next]_vars
=============================================================================

------------------------------- MODULE Asking -------------------------------
(***************************************************************************)
(* Every step asks a function of the library one question.  What the code  *)
(* answers, and that it is right, is a property of the step.               *)
(***************************************************************************)
EXTENDS Integers, Sequences, FiniteSets
VARIABLE question

Words(A, n) == UNION {[1..k -> A] : k \in 0..n}
Least(S) == CHOOSE i \in S : \A j \in S : i <= j
Most(a, b) == IF a > b THEN a ELSE b
=============================================================================

------------------------------ MODULE MCBinding ------------------------------
(* Binding with the values TLC checks it under, beside Matching, whose      *)
(* assumptions TLC evaluates at the start.  Users and customers are         *)
(* interchangeable; the symmetry is used for safety only.                   *)
EXTENDS Binding, Matching, TLC
Symmetry == Permutations(Users) \cup Permutations(Customers)
=============================================================================

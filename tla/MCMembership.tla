----------------------------- MODULE MCMembership -----------------------------
(* Membership with the values TLC checks it under, beside StatusEngines,    *)
(* whose assumptions TLC evaluates at the start.                            *)
EXTENDS Membership, StatusEngines, TLC
Symmetry == Permutations(Members)
=============================================================================

---------------------------- MODULE MCEndpoints ----------------------------
(* Small instances of Endpoints. *)
EXTENDS Endpoints, TLC

CONSTANTS e1, e2, s1, s2

TwoEndpoints == {e1, e2}
TwoSlots == {s1, s2}
Symmetry == Permutations(TwoEndpoints) \cup Permutations(TwoSlots)
=============================================================================

------------------------------- MODULE MCMfa -------------------------------
(* Small instances of Mfa. *)
EXTENDS Mfa, TLC

CONSTANTS b1, b2, s1, s2

TwoBrowsers == {b1, b2}
TwoSlots == {s1, s2}
Symmetry == Permutations(TwoBrowsers) \cup Permutations(TwoSlots)
=============================================================================

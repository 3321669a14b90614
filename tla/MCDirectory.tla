----------------------------- MODULE MCDirectory -----------------------------
(* Small instances of Directory. *)
EXTENDS Directory, TLC

CONSTANTS m1, m2, m3, p1, p2, s1, s2

\* The second row of the phone is invalid.
MCUploads == {<<p1, p1>>, <<p2, p2>>}

Symmetry == Permutations(Members) \cup Permutations(Phones) \cup Permutations(Slots)
=============================================================================

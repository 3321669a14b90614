----------------------------- MODULE MCAccounts -----------------------------
(* Small instances of Accounts. *)
EXTENDS Accounts, TLC

CONSTANTS ann, ben, cleo, i1, i2, q1, q2

\* The people are told apart by their being founders, invitations and slots by
\* nothing.
Symmetry == Permutations(Invites) \cup Permutations(Requests) \cup Permutations({ann, ben})
=============================================================================

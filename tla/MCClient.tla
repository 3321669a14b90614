------------------------------ MODULE MCClient ------------------------------
(* Small instances of Client. *)
EXTENDS Client

CONSTANTS t1, t2

SmallTab == [c \in 1 .. 2 |-> t1]
TwoTabs == [c \in 1 .. 3 |-> IF c = 3 THEN t2 ELSE t1]
=============================================================================

---------------------------- MODULE MCWorkspace ----------------------------
(* A small instance of Workspace: enough loads of the directory to leaf    *)
(* through it forwards and back, and two of every other resource.          *)
EXTENDS Workspace

RunsOf == [l \in Loads |-> IF l = "members" THEN 3 ELSE 2]
=============================================================================

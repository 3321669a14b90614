----------------------------- MODULE UserCalls -----------------------------
(***************************************************************************)
(* What the browser's client promises of a request, however often it has   *)
(* to be sent: the server does what was asked at most once, "done" is said *)
(* of what was done, "turned away" of what was not, and in doubt the user  *)
(* is told so.  Client implements this.                                    *)
(***************************************************************************)
EXTENDS Naturals

CONSTANTS Calls

VARIABLES
  open,       \* the calls that are under way
  performed,  \* how often the server did what such a call asks
  told        \* what the user was told last, and of which calls

Verdicts == {"done", "refused", "badToken", "turnedAway", "unknown"}
Silence == [of |-> {}, verdict |-> "nothing"]

Init ==
  /\ open = {}
  /\ performed = [c \in Calls |-> 0]
  /\ told = Silence

Ask(c) ==
  /\ c \notin open
  /\ open' = open \cup {c}
  /\ told' = Silence
  /\ UNCHANGED performed

Perform(c) ==
  /\ c \in open /\ performed[c] = 0
  /\ performed' = [performed EXCEPT ![c] = 1]
  /\ UNCHANGED <<open, told>>

\* Calls that wait for the same answer are told together.
Tell(C, verdict) ==
  /\ C # {} /\ C \subseteq open
  /\ verdict \in {"done", "refused"} => \A c \in C : performed[c] = 1
  /\ verdict \in {"badToken", "turnedAway"} => \A c \in C : performed[c] = 0
  /\ open' = open \ C
  /\ told' = [of |-> C, verdict |-> verdict]
  /\ performed' = [c \in Calls |-> IF c \in C THEN 0 ELSE performed[c]]

Next ==
  \/ \E c \in Calls : Ask(c) \/ Perform(c)
  \/ \E C \in SUBSET Calls, verdict \in Verdicts : Tell(C, verdict)

Spec == Init /\ [][Next]_<<open, performed, told>>
=============================================================================

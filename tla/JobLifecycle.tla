---------------------------- MODULE JobLifecycle ----------------------------
(***************************************************************************)
(* What the outbox promises of a job, whoever works on it: it is queued    *)
(* once, every claim is one attempt of at most MaxJobAttempts, only the    *)
(* attempt that is counted can finish it, and a finished job stays so.     *)
(* Delivery implements this as long as no worker outlives its claim.       *)
(***************************************************************************)
EXTENDS Naturals

CONSTANTS Jobs, MaxJobAttempts

VARIABLES status, attempts

Init ==
  /\ status \in [Jobs -> {"absent", "pending"}]
  /\ attempts = [j \in Jobs |-> 0]

Queue(j) ==
  /\ status[j] = "absent"
  /\ status' = [status EXCEPT ![j] = "pending"]
  /\ UNCHANGED attempts

Claim(S) ==
  /\ \A j \in S : status[j] \in {"pending", "failed", "processing"} /\ attempts[j] < MaxJobAttempts
  /\ status' = [j \in Jobs |-> IF j \in S THEN "processing" ELSE status[j]]
  /\ attempts' = [j \in Jobs |-> IF j \in S THEN attempts[j] + 1 ELSE attempts[j]]

Complete(j) ==
  /\ status[j] = "processing"
  /\ status' = [status EXCEPT ![j] = "completed"]
  /\ UNCHANGED attempts

\* Retried while attempts are left, parked when they are used up.
Fail(j) ==
  /\ status[j] = "processing"
  /\ status' = [status EXCEPT ![j] =
                  IF attempts[j] = MaxJobAttempts THEN "dead_letter" ELSE "failed"]
  /\ UNCHANGED attempts

Next ==
  \/ \E j \in Jobs : Queue(j) \/ Complete(j) \/ Fail(j)
  \/ \E S \in SUBSET Jobs : Claim(S)

Spec == Init /\ [][Next]_<<status, attempts>>
=============================================================================

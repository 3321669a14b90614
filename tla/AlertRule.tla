----------------------------- MODULE AlertRule -----------------------------
(***************************************************************************)
(* The rule of the birthday alerts: the one row of notification_rules,     *)
(* which ticks and runs read and owners update (updateNotificationRule in  *)
(* server/notification-pg.ts).  Digest and Schedule share it.              *)
(***************************************************************************)
EXTENDS Naturals

CONSTANTS
  Rules,     \* values of the rule; every module has the fields it reads
  MaxChanges \* bound: changes of the rule, or of an endpoint

ASSUME RulesAssumption ==
  /\ Rules # {}
  /\ \A r \in Rules : r.enabled \in BOOLEAN /\ r.lead \in 0..14 \* ruleSchema
ASSUME ChangesAssumption == MaxChanges \in Nat

VARIABLES rule, changes

\* A form is saved as a whole.
updateNotificationRule(r) ==
  /\ r # rule /\ changes < MaxChanges
  /\ rule' = r
  /\ changes' = changes + 1
=============================================================================

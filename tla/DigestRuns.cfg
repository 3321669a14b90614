\* Racing, repeated and dying runs; the rule or an endpoint changes once.
SPECIFICATION DigestFairSpec
CONSTANTS
  r1 = r1  r2 = r2  u = u  v = v
  Runners = {r1, r2}
  Users = {u, v}
  Days = {1}
  Rules <- ManyRules
  Celebrants <- MCCelebrants
  MaxRuns = 2
  MaxChanges = 1
  MaxFaults = 1
INVARIANTS DigestTypeOK OneJobPerNotification RunCovers
PROPERTIES QueuedUnlessKilled
CHECK_DEADLOCK FALSE

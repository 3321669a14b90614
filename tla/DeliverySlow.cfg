\* A worker may outlive its claim, so two work on one job; everything ends all the same.
SPECIFICATION FairSpec
CONSTANTS
  w1 = w1  w2 = w2  d = d  f1 = f1
  Workers = {w1, w2}
  Handlers = {h1}
  Notifs = {d}
  WhatsAppDigests = {}
  TextDigests = {d}
  Rules <- OneRule
  FallbackKey <- MCFallbackKey
  MaxJobAttempts = 3
  BatchLimit = 2
  SlowBatches = TRUE
  Unsteady = {d}
  MaxFaults = 1
  Reports = {"delivered", "failed"}
  MaxEvents = 1
INVARIANTS SendsWithinBudget
PROPERTIES JobsSettle
CHECK_DEADLOCK FALSE

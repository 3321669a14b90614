\* Workers keep within their ten minutes; crashes, failing statements, callbacks.
SPECIFICATION FairSpec
CONSTANTS
  w1 = w1  w2 = w2  d = d  f1 = f1
  Workers = {w1, w2}
  Handlers = {h1}
  Notifs = {d, f1}
  WhatsAppDigests = {d}
  TextDigests = {}
  Rules <- RuleSwitchedOff
  FallbackKey <- MCFallbackKey
  MaxJobAttempts = 2
  BatchLimit = 2
  SlowBatches = FALSE
  Unsteady = {d}
  MaxFaults = 1
  Reports = {"delivered", "failed"}
  MaxEvents = 1
INVARIANTS TypeOK Exclusive CompletedIsHonest
PROPERTIES ResendNeedsReport ImplementsLifecycle FallbackFollows
CHECK_DEADLOCK FALSE

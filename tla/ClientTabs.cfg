SPECIFICATION FairSpec
CONSTANTS
  t1 = t1
  t2 = t2
  Tabs = {t1, t2}
  Calls = {1, 2, 3}
  TabOf <- TwoTabs
  MaxAsks = 2
  MaxFaults = 2
INVARIANTS TypeOK WorkspaceIsLive RetryIsEnough
PROPERTIES PromiseKept CallsEnd
CHECK_DEADLOCK FALSE

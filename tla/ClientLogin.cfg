\* One tab, two calls at a time.
SPECIFICATION Spec
CONSTANTS
  t1 = t1
  t2 = t2
  Tabs = {t1}
  Calls = {1, 2}
  TabOf <- SmallTab
  MaxAsks = 3
  MaxFaults = 0
INVARIANT LoginMeansSignedOut
CHECK_DEADLOCK FALSE

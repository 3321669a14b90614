\* A web service and a worker; restarts, failing ticks, a change of the rule.
SPECIFICATION Spec
CONSTANTS
  Processes = {web, worker}
  Workers = {worker}
  MinutesPerDay = 2
  FirstDays <- EndsOfFebruaryAndYear
  Horizon = 3
  Members <- LeapMembers
  Rules <- BothPolicies
  MaxDelays = 1
  MaxNaps = 1
  MaxFailures = 1
  MaxChanges = 1
INVARIANTS TypeOK CelebratedOnce NobodyForgotten DigestIsExact
CHECK_DEADLOCK FALSE

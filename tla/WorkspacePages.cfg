SPECIFICATION FairSpec
CONSTANTS
  Directory = 2
  MaxTurns = 1
  MaxRuns <- RunsOf
  MaxChanges = 1
INVARIANTS TypeOK ShownAnswersAsked ReadYourWrites NavNeverRefused
PROPERTY LoadsSettle
CHECK_DEADLOCK FALSE

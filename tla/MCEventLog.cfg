CONSTANTS
  c1 = c1
  c2 = c2
  Calls = {c1, c2}
  Documents <- MCDocuments
  Writers <- MCWriters
  EventId <- MCEventId
  Filters <- MCFilters
  PageLimit = 1
  TimelineLimit = 3
  MaxTime = 1
  MaxFaults = 2
SPECIFICATION Spec
CONSTRAINTS UntilAnswered FaultsMeet
INVARIANTS TypeOK PagesComplete TimelineTellsTheTruth
CHECK_DEADLOCK FALSE

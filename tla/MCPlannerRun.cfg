CONSTANTS
  r1 = r1
  r2 = r2
  a = a
  b = b
  c = c
  Runs = {r1, r2}
  Refs = {a, b, c}
  Rounds <- MCRounds
  MaxTasks = 3
  MaxDepth = 2
SPECIFICATION Spec
SYMMETRY Symmetry
INVARIANTS TypeOK PublishedIsRunnable VerdictIsBacked PlanIsHandedOn
CHECK_DEADLOCK FALSE

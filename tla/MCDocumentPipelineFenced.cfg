CONSTANTS
  p1 = p1
  p2 = p2
  k1 = k1
  i1 = i1
  i2 = i2
  c1 = c1
  c2 = c2
  NoOne = NoOne
  Processes = {p1, p2}
  Chunkings = {k1}
  Indexings = {i1, i2}
  Compensators = {c1, c2}
  Batches = 2
  MaxCompensations = 2
  MaxLost = 1
  MaxOpen = 2
  MaxEarly = 1
  MaxFaults = 2
CONSTRAINT TwoDisturbances
SYMMETRY Symmetry
SPECIFICATION Spec
INVARIANTS EffectsHaveOwner PublishedIsThere OwnerIsPursued
CHECK_DEADLOCK FALSE

CONSTANTS
  p1 = p1
  p2 = p2
  k1 = k1
  i1 = i1
  i2 = i2
  c1 = c1
  c2 = c2
  NoOne = NoOne
  Processes = {p1}
  Chunkings = {k1}
  Indexings = {i1}
  Compensators = {c1, c2}
  Batches = 1
  MaxCompensations = 2
  MaxLost = 1
  MaxOpen = 1
  MaxEarly = 1
  MaxFaults = 1
SPECIFICATION LiveSpec
PROPERTIES AttemptsEnd
CHECK_DEADLOCK FALSE

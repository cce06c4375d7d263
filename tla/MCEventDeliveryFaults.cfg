CONSTANTS
  w1 = w1
  w2 = w2
  Gone = Gone
  Workers = {w1, w2}
  Events = {1, 2}
  Separate = {2}
  MaxAttempts = 1
  ReadCount = 2
  MaxFaults = 1
  MaxEntries = 3
SYMMETRY Symmetry
SPECIFICATION Spec
INVARIANTS TypeOK NothingLost EffectOnce

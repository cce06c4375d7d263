CONSTANTS
  w1 = w1
  w2 = w2
  Gone = Gone
  Workers = {w1, w2}
  Events = {1}
  Separate = {}
  MaxAttempts = 2
  ReadCount = 2
  MaxEntries = 4
  MaxFaults = 2
SPECIFICATION LiveSpec
PROPERTIES DeliversReliably

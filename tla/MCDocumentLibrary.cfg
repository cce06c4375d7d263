CONSTANTS
  a = a
  b = b
  k1 = k1
  k2 = k2
  c1 = c1
  c2 = c2
  Nobody = Nobody
  Docs = {1, 2}
  Kbs = {k1, k2}
  Contents = {a, b}
  Windows <- MCWindows
  Requests <- MCRequests
  Changes = {c1, c2}
  MaxNow = 1
  MaxFaults = 1
SYMMETRY Symmetry
SPECIFICATION Spec
INVARIANTS TypeOK ReplacementsLead FilesAndRows

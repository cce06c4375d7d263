------------------------- MODULE MCDocumentLibrary -------------------------
\* A small instance of DocumentLibrary for TLC: two uploads and
\* two calls, the requests in both directions at once.
EXTENDS DocumentLibraryInv, TLC
CONSTANTS a, b, k1, k2, c1, c2
MCWindows == {<<1, Never>>, <<0, 1>>}
MCRequests == {<<1, "replaced", 2>>, <<2, "replaced", 1>>, <<1, "expired", Nobody>>}
Symmetry == Permutations(Changes) \cup Permutations(Contents) \cup Permutations(Kbs)
=============================================================================

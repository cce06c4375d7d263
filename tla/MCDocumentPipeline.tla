------------------------ MODULE MCDocumentPipeline ------------------------
\* Small instances of DocumentPipeline for TLC.
EXTENDS DocumentPipeline, TLC
CONSTANTS p1, p2, k1, i1, i2, c1, c2
\* The bound on all that goes wrong together.
TwoDisturbances == lost + early + faults <= 2
Symmetry == Permutations(Processes) \cup Permutations(Indexings) \cup Permutations(Compensators)
=============================================================================

-------------------------- MODULE MCEventDelivery --------------------------
\* Small instances of EventDelivery for TLC.
EXTENDS EventDeliveryInv, TLC
CONSTANTS w1, w2
Symmetry == Permutations(Workers)
=============================================================================

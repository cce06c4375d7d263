--------------------------- MODULE MCResourceQueue ---------------------------
(* Instances of ResourceQueue for model checking. *)
EXTENDS ResourceQueueInv, TLC

CONSTANTS p1, p2

ProcSet == {p1, p2}
ProcSymmetry == Permutations(ProcSet)

\* With three keys and room for two: a Turn that uses two keys and removes the
\* third, and one that uses the third again and drives another out.
UpdateSet ==
    {[refreshed |-> <<2, 1>>, removed |-> {3}],
     [refreshed |-> <<3>>, removed |-> {}]}
=============================================================================

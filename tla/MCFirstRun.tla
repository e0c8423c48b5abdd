----------------------------- MODULE MCFirstRun -----------------------------
(* Which thread serves which request makes no difference to the setup.       *)
EXTENDS FirstRun, TLC

Symmetry == Permutations(Workers)

=============================================================================

--------------------------- MODULE MCCachedStores ---------------------------
(* Which thread serves which request makes no difference to the stores.      *)
EXTENDS CachedStores, TLC

Symmetry == Permutations(Workers)

=============================================================================

----------------------------- MODULE MCAccounts -----------------------------
(* Threads, sessions and tokens are alike.                                   *)
EXTENDS Accounts, TLC

CONSTANTS alice, bob, p1, p2

\* The other password is the one that alice changes hers to, or a wrong one.
Typed == {<<alice, p1>>, <<alice, p2>>, <<bob, p1>>}

Symmetry == Permutations(Threads) \cup Permutations(Sessions) \cup Permutations(Tokens)

=============================================================================

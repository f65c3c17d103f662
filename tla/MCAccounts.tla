----------------------------- MODULE MCAccounts -----------------------------
(* Small instances of Accounts.                                            *)
EXTENDS Accounts, TLC

CONSTANTS e1, e2, g1

\* The subject has two addresses.
Identities == {<<g1, e1>>, <<g1, e2>>}

Symmetry == Permutations(Browser) \cup Permutations(Process)
=============================================================================

----------------------------- MODULE MCAccounts -----------------------------
EXTENDS Accounts, TLC

Symmetry == Permutations(Emails) \cup Permutations(Creds) \cup Permutations(Threads)
=============================================================================

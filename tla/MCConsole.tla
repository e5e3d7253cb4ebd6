------------------------------ MODULE MCConsole ------------------------------
EXTENDS Console, TLC

Interchangeable == Permutations(Tabs) \cup Permutations(Ops)
=============================================================================

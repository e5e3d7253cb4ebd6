--------------------------- MODULE MCSaveProtocol ---------------------------
EXTENDS SaveProtocol, TLC

Symmetry == Permutations(Names) \cup Permutations(Terminals)
=============================================================================

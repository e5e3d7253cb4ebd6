---------------------------- MODULE MCDeviceFlow ----------------------------
EXTENDS DeviceFlow, TLC

Symmetry == Permutations(Machines) \cup Permutations(Consoles) \cup Permutations(Codes)
=============================================================================

-------------------------- MODULE MCSessionHistory --------------------------
EXTENDS SessionHistory, TLC

Symm == Permutations(Sockets) \cup Permutations(Commands)
=============================================================================

---------------------------- MODULE MCChatAgents ----------------------------
EXTENDS ChatAgents, TLC

Symmetry == Permutations(Messages)
=============================================================================

------------------------------ MODULE MCHosts ------------------------------
EXTENDS VmPool, TLC

(* Three starts, or two and a trouble among them.                          *)
MCNext == Next /\ spent'.starts + spent'.troubles <= MaxStarts
MCSpec == Init /\ [][MCNext]_vars

Symmetry == Permutations(Runs) \cup Permutations(Envs)
=============================================================================

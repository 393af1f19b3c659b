------------------------------- MODULE MCNodes -------------------------------
(* The fleet and the calls to one of its nodes, explored one at a time: of *)
(* the fleet, either the conversations that share nodes, or the one that   *)
(* moves while the others are idle; of the calls, one with two faults or   *)
(* two with one.                                                           *)
EXTENDS Fleet, NodeRelay, TLC

VARIABLE focus

MCInit == /\ FleetInit /\ RelayInit
          /\ focus \in {<<"calls">>} \cup {<<k, r>> : k \in {"sharing", "moving"}, r \in Runs}
          /\ focus[1] # "sharing" => grants = Nodes

Within ==
  IF focus[1] = "sharing" THEN Len(att') <= 2
  ELSE \A r \in Runs \ {focus[2]} : run'[r].pc = "idle"

Calls == /\ focus[1] = "calls" /\ RelayNext /\ UNCHANGED fleetVars
         /\ Cardinality({c \in Ids : reader'[c].pc # "none"}) + faults' <= 3
Fleets == focus[1] # "calls" /\ FleetNext /\ Within /\ UNCHANGED relayVars
MCNext == (Calls \/ Fleets) /\ UNCHANGED focus

MCSpec == MCInit /\ [][MCNext]_<<fleetVars, relayVars, focus>>

Symmetry == Permutations(Nodes) \cup Permutations(Runs)
=============================================================================

--------------------------- MODULE MCInstallation ---------------------------
(* What an installation and the beacon owe each other across lost answers: *)
(* its identity, and its notifications.  They are explored one at a time;  *)
(* of the notifications, either one event for devices that change, or      *)
(* several events that compete for their turn.                             *)
EXTENDS InstallationIdentity, Notifications

VARIABLE focus

MCInit ==
    /\ IdentityInit /\ NotifyInit
    /\ reg[CHOOSE d \in Devices : TRUE].account = "owner"
    /\ focus \in {"identity", "devices", "turns"}
    /\ focus # "devices" => \A d \in Devices : reg[d].account = "owner"

Within == IF focus = "devices" THEN \A e \in Events \ {1} : outbox'[e] = "new"
          ELSE steps' = 0 /\ open' = Events /\ link'.up

MCNext ==
    /\ \/ focus = "identity" /\ IdentityNext /\ UNCHANGED notifyVars
       \/ focus # "identity" /\ NotifyNext /\ Within /\ UNCHANGED identityVars
    /\ UNCHANGED focus

MCSpec == /\ MCInit /\ [][MCNext]_<<identityVars, notifyVars, focus>>
          /\ IdentityFairness /\ NotifyFairness

(* An owned installation can prove who it is, and a detached one unless a  *)
(* rotation was cut; a phone rings once for an event, a shared phone is    *)
(* reached, and on the connection of the present credential an event is    *)
(* done when the beacon answered (relay.rs, notifications.rs).             *)
LinksHonest ==
  /\ AlwaysProven
  /\ RingsOnce
  /\ PushesReach
  /\ DoneMeansAnswered

(* An interrupted rotation completes, and an event that fails does not     *)
(* starve the later ones.                                                  *)
LinksProgress ==
  /\ RotationCompletes
  /\ EveryEventGetsTurn
=============================================================================

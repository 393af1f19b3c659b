------------------------------- MODULE Fleet -------------------------------
(***************************************************************************)
(* The nodes an installation executes on: enrolment, budgets and           *)
(* heartbeats (nodes.rs, nodes/connector.rs), the choice of a node and the *)
(* capacity held on it (nodes/placement.rs), maintenance                   *)
(* (nodes/maintenance.rs) and the disks left behind.  Every store          *)
(* transaction is one step.  The stages of a launch and of a move are      *)
(* those of worker/launch.rs and nodes/moves.rs as far as they touch       *)
(* capacity.                                                               *)
(*                                                                         *)
(* What a node reports of itself (KVM, FUSE, runtimes, tags, pressure,     *)
(* free disk, freshness) may exclude it from any choice, so a choice is    *)
(* any node the manager's own records allow.  Disk is counted in journals. *)
(***************************************************************************)
EXTENDS Naturals, FiniteSets, Sequences, FiniteSetsExt

CONSTANTS Nodes, Runs,
          MaxSlots,     \* slots an owner may configure
          MaxAttempts,  \* attempts in all
          MaxOwner,     \* acts of the owner
          MaxDrains     \* maintenance windows

ASSUME FleetConstants ==
  /\ IsFiniteSet(Nodes) /\ IsFiniteSet(Runs)
  /\ {MaxSlots, MaxAttempts, MaxOwner, MaxDrains} \subseteq Nat /\ MaxSlots >= 1

NoNode == "none"

VARIABLES
  node,     \* the "nodes" collection
  budget,   \* the slots each node's controller applies
  grants,   \* the nodes the agent may use
  att,      \* the "node-attempts" collection, by age
  vol,      \* the "node-volumes" collection
  run,      \* the run document and its checkpoint, and what a launch and a
            \* move in progress hold in memory: launch, hold
  vms,      \* attempts whose VM runs on its node
  drains,   \* node_maintenance_tasks and their tasks
  stale,    \* disks that a request found stale and has not discarded yet
  crossed,  \* history: attempts whose disk was deleted under them, or
            \* under the reservation they claimed
  acts, windows

fleetVars == <<node, budget, grants, att, vol, run, vms, drains, stale, crossed, acts, windows>>

NoVolume == [kept |-> FALSE, disk |-> 0, materialized |-> FALSE]

(* Any set of nodes may be in service already.                             *)
FleetInit ==
  /\ \E serving \in SUBSET Nodes :
       /\ node = [n \in Nodes |->
                    [state |-> IF n \in serving THEN "enrolled" ELSE "invited",
                     accepting |-> n \in serving, slots |-> 1,
                     pool |-> IF n \in serving THEN 1 ELSE 0, ready |-> n \in serving,
                     maintenance |-> "none", error |-> FALSE, generation |-> 0]]
       /\ grants = serving
  /\ budget = [n \in Nodes |-> 1]
  /\ att = <<>>
  /\ vol = [r \in Runs |-> [n \in Nodes |-> NoVolume]]
  /\ run = [r \in Runs |-> [pc |-> "idle", at |-> NoNode, runner |-> 0, request |-> 0,
                            reservation |-> 0, launch |-> 0, hold |-> {}]]
  /\ vms = {} /\ drains = {} /\ stale = {} /\ crossed = {} /\ acts = 0 /\ windows = 0

Act == acts < MaxOwner /\ acts' = acts + 1

---------------------------------------------------------------------------
(* The owner and the nodes.                                                *)
Enroll(n) ==
  /\ node[n].state = "invited"
  /\ node' = [node EXCEPT ![n].state = "enrolled"]
  /\ UNCHANGED <<budget, grants, att, vol, run, vms, drains, stale, crossed, acts, windows>>

ConfigureNode(n, slots, accepting) ==
  /\ node[n].state = "enrolled" /\ Act
  /\ node' = [node EXCEPT ![n].slots = slots, ![n].accepting = accepting,
                          ![n].ready = @ /\ node[n].slots = slots]
  /\ UNCHANGED <<budget, grants, att, vol, run, vms, drains, stale, crossed, windows>>

GrantAgents(n) ==
  /\ node[n].state = "enrolled" /\ Act
  /\ grants' = IF n \in grants THEN grants \ {n} ELSE grants \cup {n}
  /\ UNCHANGED <<node, budget, att, vol, run, vms, drains, stale, crossed, windows>>

Revoke(n) ==
  /\ node[n].state = "enrolled" /\ Act
  /\ node' = [node EXCEPT ![n].state = "revoked", ![n].accepting = FALSE]
  /\ grants' = grants \ {n}
  /\ UNCHANGED <<budget, att, vol, run, vms, drains, stale, crossed, windows>>

(* A heartbeat, or the health of the manager's own runner, reports the     *)
(* budget the controller applies; the controller then takes or refuses the *)
(* budget wanted.                                                          *)
Reported(n) == [node[n] EXCEPT !.pool = budget[n], !.ready = (budget[n] = node[n].slots)]
BudgetApplied(n, applied) == IF applied THEN node[n].slots ELSE budget[n]
Heartbeat(n, applied) ==
  /\ node[n].state = "enrolled"
  /\ node' = [node EXCEPT ![n] = Reported(n)]
  /\ budget' = [budget EXCEPT ![n] = BudgetApplied(n, applied)]
  /\ UNCHANGED <<grants, att, vol, run, vms, drains, stale, crossed, acts, windows>>

---------------------------------------------------------------------------
(* placement.rs: capacity.                                                 *)
AttemptIds    == 1 .. Len(att)
ActiveIds     == {a \in AttemptIds : ~att[a].released}
ActiveOn(n)   == {a \in ActiveIds : att[a].node = n}
AttemptsOf(r, n) == {a \in ActiveOn(n) : att[a].run = r}
Capacity(n)   == Min({node[n].slots, node[n].pool})
Used(r, n, moving) ==
  Cardinality({a \in ActiveOn(n) : ~(moving /\ att[a].run = r)})

Eligible(r, n, moving) ==
  /\ node[n].state = "enrolled" /\ node[n].accepting /\ node[n].ready
  /\ node[n].maintenance = "none"
  /\ n \in grants
  /\ moving \/ run[r].at \in {NoNode, n}

(* A choice that counts everyone's attempts but tests for room too late.   *)
FitsOneMore(r, n, moving) == Used(r, n, moving) <= Capacity(n)
Fits(r, n, moving)        == Used(r, n, moving) < Capacity(n)

(* An admission that relies on the caller to have released everything.     *)
NeverOwned(r, moving) == FALSE

StillOwned(r, moving) ==
  \E a \in ActiveIds : att[a].run = r /\ (moving => att[a].role = "destination")

DiskTotal(v, replacing) == Max({v.disk, 1}) + IF replacing THEN 1 ELSE 0

(* admit: the attempt, and the volume it may need.                         *)
Admit(r, n, moving) ==
  LET v    == vol[r][n]
      disk == DiskTotal(v, moving /\ run[r].at # n)
  IN
  /\ Eligible(r, n, moving) /\ Fits(r, n, moving) /\ ~StillOwned(r, moving)
  /\ Len(att) < MaxAttempts
  /\ att' = Append(att, [run |-> r, node |-> n, released |-> FALSE,
                         role |-> IF moving THEN "destination" ELSE "execution",
                         extra |-> disk - v.disk, materialized |-> FALSE])
  /\ vol' = [vol EXCEPT ![r][n] = [v EXCEPT !.kept = TRUE, !.disk = disk]]

(* release_in gives back what the attempt added, unless a disk was made.   *)
Unused(r, n, except) == AttemptsOf(r, n) \subseteq {except}
VolumeAfter(a) ==
  LET r == att[a].run
      n == att[a].node
      v == vol[r][n]
      w == IF att[a].materialized THEN v
           ELSE [v EXCEPT !.disk = IF @ > att[a].extra THEN @ - att[a].extra ELSE 0]
  IN IF ~v.kept \/ (~v.materialized /\ Unused(r, n, a)) THEN NoVolume ELSE w
Released(a) ==
  IF a = 0 \/ a \notin ActiveIds THEN UNCHANGED <<att, vol>>
  ELSE /\ att' = [att EXCEPT ![a].released = TRUE]
       /\ vol' = [vol EXCEPT ![att[a].run][att[a].node] = VolumeAfter(a)]

(* materialize; on a volume that an earlier discard removed it fails.      *)
Materialized(a) ==
  /\ ~att[a].released /\ vol[att[a].run][att[a].node].kept
  /\ att' = [att EXCEPT ![a].materialized = TRUE]
  /\ vol' = [vol EXCEPT ![att[a].run][att[a].node].materialized = TRUE]

---------------------------------------------------------------------------
(* A launch: reserve, materialize, the checkpoint, the VM; and its end.    *)
Reserve(r, n) ==
  /\ run[r].pc = "idle" /\ run[r].reservation = 0 /\ run[r].request = 0
  /\ Admit(r, n, FALSE)
  /\ run' = [run EXCEPT ![r].pc = "reserved", ![r].launch = Len(att) + 1]
  /\ UNCHANGED <<node, budget, grants, vms, drains, stale, crossed, acts, windows>>

(* claim_reservation: the held capacity becomes the execution's.           *)
Claim(r) ==
  LET a == run[r].reservation IN
  /\ run[r].pc = "idle" /\ a # 0 /\ Len(att) < MaxAttempts
  /\ node[att[a].node].maintenance = "none"
  /\ ~att[a].released /\ att[a].node \in grants /\ node[att[a].node].state = "enrolled"
  /\ att' = Append([att EXCEPT ![a].released = TRUE], [att[a] EXCEPT !.role = "execution"])
  /\ run' = [run EXCEPT ![r].pc = "reserved", ![r].reservation = 0,
                        ![r].launch = Len(att) + 1]
  /\ crossed' = IF a \in crossed THEN crossed \cup {Len(att) + 1} ELSE crossed
  /\ UNCHANGED <<node, budget, grants, vol, vms, drains, stale, acts, windows>>

Materialize(r) ==
  /\ run[r].pc = "reserved" /\ Materialized(run[r].launch)
  /\ run' = [run EXCEPT ![r].pc = "materialized"]
  /\ UNCHANGED <<node, budget, grants, vms, drains, stale, crossed, acts, windows>>
Checkpoint(r) ==
  /\ run[r].pc = "materialized"
  /\ run' = [run EXCEPT ![r].pc = "placed", ![r].runner = run[r].launch,
                        ![r].at = att[run[r].launch].node]
  /\ UNCHANGED <<node, budget, grants, att, vol, vms, drains, stale, crossed, acts, windows>>

(* The plan, the first lease and the start are refused to an attempt that  *)
(* was released, and to a node that lost its grant.                        *)
Start(r) ==
  /\ run[r].pc = "placed" /\ run[r].runner \in ActiveIds /\ run[r].at \in grants
  /\ vms' = vms \cup {run[r].runner}
  /\ run' = [run EXCEPT ![r].pc = "running"]
  /\ UNCHANGED <<node, budget, grants, att, vol, drains, stale, crossed, acts, windows>>

(* The turn ends or fails, or recovery fences what a lost manager left:    *)
(* the VM is stopped, then the attempt that the checkpoint, or the launch  *)
(* in progress, names is released.                                         *)
Stop(r) ==
  /\ run[r].pc # "idle"
  /\ \A a \in vms : att[a].run # r
  /\ Released(IF run[r].launch # 0 THEN run[r].launch ELSE run[r].runner)
  /\ run' = [run EXCEPT ![r].pc = "idle", ![r].runner = 0, ![r].launch = 0]
  /\ UNCHANGED <<node, budget, grants, vms, drains, stale, crossed, acts, windows>>
VmStops(a) ==
  /\ vms' = vms \ {a}
  /\ UNCHANGED <<node, budget, grants, att, vol, run, drains, stale, crossed, acts, windows>>

---------------------------------------------------------------------------
(* A move: hold the destination, record the request (or give it back),     *)
(* fence the source, restore the disk on the destination.                  *)
HoldDestination(r, n) ==
  /\ run[r].pc \in {"idle", "running"} /\ run[r].at \notin {NoNode, n}
  /\ run[r].request = 0 /\ run[r].reservation = 0
  /\ Admit(r, n, TRUE)
  /\ run' = [run EXCEPT ![r].hold = @ \cup {Len(att) + 1}]
  /\ UNCHANGED <<node, budget, grants, vms, drains, stale, crossed, acts, windows>>
RecordRequest(r, a) ==
  /\ a \in run[r].hold /\ run[r].pc \in {"idle", "running"} /\ run[r].request = 0
  /\ run' = [run EXCEPT ![r].request = a, ![r].hold = @ \ {a}]
  /\ UNCHANGED <<node, budget, grants, att, vol, vms, drains, stale, crossed, acts, windows>>
RequestRefused(r, a) ==
  /\ a \in run[r].hold /\ Released(a)
  /\ run' = [run EXCEPT ![r].hold = @ \ {a}]
  /\ UNCHANGED <<node, budget, grants, vms, drains, stale, crossed, acts, windows>>
Advance(r) ==
  LET a == run[r].request IN
  /\ run[r].pc = "idle" /\ a # 0 /\ Materialized(a)
  /\ run' = [run EXCEPT ![r].at = att[a].node, ![r].request = 0, ![r].reservation = a]
  /\ UNCHANGED <<node, budget, grants, vms, drains, stale, crossed, acts, windows>>

(* A move that fails or is cancelled, or a conversation that moved without *)
(* resuming: release_destination.                                          *)
GiveBack(r) ==
  /\ run[r].request # 0 \/ run[r].reservation # 0
  /\ Released(IF run[r].request # 0 THEN run[r].request ELSE run[r].reservation)
  /\ run' = [run EXCEPT ![r].request = 0, ![r].reservation = 0]
  /\ UNCHANGED <<node, budget, grants, vms, drains, stale, crossed, acts, windows>>

---------------------------------------------------------------------------
(* Maintenance, asked for by the node's host.                              *)
StartDrain(n) ==
  /\ node[n].state = "enrolled" /\ windows < MaxDrains
  /\ \A d \in drains : d.node # n
  /\ windows' = windows + 1
  /\ node' = [node EXCEPT ![n].maintenance = "draining", ![n].generation = windows + 1]
  /\ drains' = drains \cup {[node |-> n, generation |-> windows + 1, listed |-> FALSE,
                             left |-> {}, failed |-> FALSE]}
  /\ UNCHANGED <<budget, grants, att, vol, run, vms, stale, crossed, acts>>

DrainLists(d) ==
  /\ ~d.listed
  /\ drains' = (drains \ {d}) \cup
       {[d EXCEPT !.listed = TRUE,
                  !.left = {a \in ActiveOn(d.node) : att[a].role = "execution"}]}
  /\ UNCHANGED <<node, budget, grants, att, vol, run, vms, stale, crossed, acts, windows>>

(* One conversation: skipped unless its checkpoint names this attempt,     *)
(* else stopped and released.                                              *)
DrainOne(d, a, confirmed) ==
  LET r == att[a].run
      rest == [d EXCEPT !.left = @ \ {a}]
      named == run[r].at = d.node /\ run[r].runner = a
  IN
  /\ d.listed /\ a \in d.left
  /\ IF ~named THEN drains' = (drains \ {d}) \cup {rest} /\ UNCHANGED <<att, vol, vms>>
     ELSE IF ~confirmed
     THEN drains' = (drains \ {d}) \cup {[rest EXCEPT !.failed = TRUE]}
          /\ UNCHANGED <<att, vol, vms>>
     ELSE drains' = (drains \ {d}) \cup {rest} /\ vms' = vms \ {a} /\ Released(a)
  /\ UNCHANGED <<node, budget, grants, run, stale, crossed, acts, windows>>

(* A report that forgets which drain it is about.                          *)
FinishAnyDrain(d) ==
  /\ d.listed
  /\ drains' = drains \ {d}
  /\ node' = [node EXCEPT ![d.node].maintenance = "ready"]
  /\ UNCHANGED <<budget, grants, att, vol, run, vms, stale, crossed, acts, windows>>

(* finish_drain, at the end or at the deadline.                            *)
FinishDrain(d) ==
  /\ d.listed
  /\ drains' = drains \ {d}
  /\ node' = IF node[d.node].generation = d.generation
             THEN [node EXCEPT ![d.node].maintenance = "ready",
                               ![d.node].error = d.failed \/ d.left # {}] ELSE node
  /\ UNCHANGED <<budget, grants, att, vol, run, vms, stale, crossed, acts, windows>>

(* The host updated the node, or gave up: it need not have waited.         *)
Complete(n) ==
  /\ node[n].maintenance # "none" /\ node[n].state = "enrolled"
  /\ vms' = {a \in vms : att[a].node # n}
  /\ node' = [node EXCEPT ![n].maintenance = "none", ![n].generation = 0]
  /\ UNCHANGED <<budget, grants, att, vol, run, drains, stale, crossed, acts, windows>>

(* The manager restarts: its maintenance tasks are gone, and so are the    *)
(* attempts that a launch or a move held and had not recorded.             *)
ManagerRestarts ==
  /\ Act /\ drains' = {} /\ stale' = {}
  /\ run' = [r \in Runs |-> [run[r] EXCEPT !.launch = 0, !.hold = {},
                              !.pc = IF @ = "idle" THEN @ ELSE "recovering"]]
  /\ UNCHANGED <<node, budget, grants, att, vol, vms, crossed, windows>>

---------------------------------------------------------------------------
(* delete_stale_disks: what is stale is computed first, then discarded     *)
(* one by one, each with a request to the node.                            *)
IsStale(r, n) ==
  /\ vol[r][n].materialized
  /\ AttemptsOf(r, n) = {}
  /\ run[r].request = 0 /\ run[r].reservation = 0
  /\ run[r].at \notin {NoNode, n}
FindStale(n) ==
  /\ Act
  /\ stale' = stale \cup {<<r, n>> : r \in {s \in Runs : IsStale(s, n)}}
  /\ UNCHANGED <<node, budget, grants, att, vol, run, vms, drains, crossed, windows>>
Discard(r, n) ==
  /\ <<r, n>> \in stale
  /\ stale' = stale \ {<<r, n>>}
  /\ IF \E a \in vms : att[a].run = r /\ att[a].node = n THEN UNCHANGED <<vol, crossed>>
     ELSE /\ vol' = [vol EXCEPT ![r][n] = NoVolume]
          /\ crossed' = crossed \cup AttemptsOf(r, n)
  /\ UNCHANGED <<node, budget, grants, att, run, vms, drains, acts, windows>>

FleetNext ==
  \/ \E n \in Nodes :
       \/ Enroll(n) \/ GrantAgents(n) \/ Revoke(n) \/ StartDrain(n) \/ Complete(n)
       \/ FindStale(n)
       \/ \E s \in 1 .. MaxSlots, b \in BOOLEAN : ConfigureNode(n, s, b)
       \/ \E b \in BOOLEAN : Heartbeat(n, b)
  \/ \E r \in Runs :
       \/ Claim(r) \/ Materialize(r) \/ Checkpoint(r) \/ Start(r) \/ Stop(r)
       \/ Advance(r) \/ GiveBack(r)
       \/ \E a \in run[r].hold : RecordRequest(r, a) \/ RequestRefused(r, a)
       \/ \E n \in Nodes : Reserve(r, n) \/ HoldDestination(r, n) \/ Discard(r, n)
  \/ \E a \in vms : VmStops(a)
  \/ \E d \in drains : \/ DrainLists(d) \/ FinishDrain(d)
                       \/ \E a \in d.left, b \in BOOLEAN : DrainOne(d, a, b)
  \/ ManagerRestarts

---------------------------------------------------------------------------
(* A conversation runs on one node at a time and holds one destination at  *)
(* most, though requests to move it overlap and a manager that restarts    *)
(* forgets the attempts it had not recorded.                               *)
OneOwner ==
  \A r \in Runs :
    /\ Cardinality({a \in vms : att[a].run = r}) <= 1
    /\ Cardinality({a \in ActiveIds : att[a].run = r /\ att[a].role = "destination"}) <= 1

(* Capacity is never promised twice: when a node is given one conversation *)
(* more, it has a slot for each that it was given.                         *)
SlotsHonoured ==
  [][\A n \in Nodes :
       LET held(s) == {s[a].run : a \in {b \in DOMAIN s : ~s[b].released /\ s[b].node = n}}
       IN ~(held(att') \subseteq held(att)) => Cardinality(held(att')) <= Capacity(n)]_fleetVars

(* What a volume holds is what its attempts added: nothing is given back   *)
(* twice, nothing is kept for an attempt that made no disk.  A disk deleted *)
(* under an attempt of its conversation takes along what that attempt had  *)
(* added, and nothing of it is taken from the disk made next.              *)
Added(s, S) == MapThenSumSet(LAMBDA a : s[a].extra, S)
VolumesAccounted ==
  \A r \in Runs, n \in Nodes :
    LET v == vol[r][n]
    IN /\ v.materialized => v.disk >= 1
       /\ v.kept => v.materialized \/ AttemptsOf(r, n) # {}
       /\ v.kept /\ ~v.materialized => v.disk = Added(att, AttemptsOf(r, n) \ crossed)

(* A node in service leaves it only for a new maintenance.                 *)
BackInService ==
  [][\A n \in Nodes :
       node[n].maintenance = "none" /\ node'[n].maintenance # "none"
         => windows' = windows + 1]_fleetVars

(* The disk a conversation resumes from is not discarded.                  *)
CurrentDiskKept ==
  \A r \in Runs :
    run[r].at # NoNode /\ run[r].pc \in {"idle", "running"} =>
      vol[r][run[r].at].materialized

(* A node that reads ready to update, with nothing to report, is quiet.    *)
ReadyMeansQuiet ==
  \A n \in Nodes :
    node[n].maintenance = "ready" /\ ~node[n].error =>
      \A a \in vms : att[a].node # n

(* Concurrent placements agree: a conversation has one owner, and the      *)
(* volumes of a node are those its conversations keep there                *)
(* (nodes/placement.rs).                                                   *)
PlacementsAgree ==
  /\ OneOwner
  /\ VolumesAccounted

(* A reservation stays within the slots of its node, and a drain that ends *)
(* after its maintenance was completed, by its host or at the deadline,    *)
(* does not take the node out of service again (placement.rs,              *)
(* maintenance.rs, finish_drain).                                          *)
NodeLimitsHold ==
  /\ SlotsHonoured
  /\ BackInService
=============================================================================

------------------------------- MODULE VmPool -------------------------------
(***************************************************************************)
(* The VM controller of a node: attempts (runner.rs, runner/broker.rs,     *)
(* runner/routes.rs), admission, prepared and retained VMs                 *)
(* (microvm/pool.rs, pool/ready.rs, pool/retained.rs, budget.rs) and the   *)
(* lifecycle of a VM (microvm/vm.rs, host.rs, guest.rs).                   *)
(*                                                                         *)
(* One admission lock serializes reservations, budget changes, evictions,  *)
(* the insertion of a retained VM and the start of a retained capture; its *)
(* holder is the variable adm, and it may wait, lock in hand, for the      *)
(* teardown of a VM it evicts or of a preparation it cancels.  The teardown *)
(* of a reservation waits for a capture of its paused disk.                *)
(*                                                                         *)
(* Memory pressure and sizes, the expiry of a retained VM and whether a    *)
(* plan is compatible with it or eligible for a spare are chosen at every  *)
(* reading.  The content of the guest is left out.                         *)
(***************************************************************************)
EXTENDS DiskOwnership, SequencesExt

CONSTANTS MaxAttempts,   \* attempts of a conversation
          MaxRes,        \* reservations that exist at once
          Budgets,       \* the budgets of the node, as slots
          MaxRetained, WarmCapacity,
          MaxStarts,     \* requests to start an attempt
          MaxTroubles    \* budget changes, evictions, stops, lost leases, dead
                         \* VMs, failed boots, shutdowns and restarts

ASSUME PoolConstants ==
  /\ Nil \notin Runs \cup Envs
  /\ MaxAttempts \in Nat \ {0} /\ MaxRes \in Nat \ {0}
  /\ Budgets \subseteq 1 .. MaxRes /\ Budgets # {}
  /\ MaxRetained \in Nat /\ WarmCapacity \in Nat
  /\ MaxStarts \in Nat /\ MaxTroubles \in Nat

Res      == 1 .. MaxRes
Slots    == 1 .. MaxRes
Attempts == Runs \X (1 .. MaxAttempts)
RunOf(a) == a[1]
CaptureHolder == MaxRes + 1

VARIABLES
  budget,     \* budget and capacity of the pool
  occupied,   \* Slots::occupied
  res,        \* the reservations
  retained,   \* Slots::retained, oldest first
  ready,      \* Slots::ready
  preparing,  \* Slots::preparing
  adm,        \* the holder of the admission lock
  att,        \* the attempts, and the reservation of each
  stopped,    \* <attempt>.stopped
  exit,       \* the attempts whose exit is recorded
  dirty,      \* conversations with unpublished writes
  cap,        \* the capture of a conversation's disk
  halt,       \* the stop token of the controller
  spent       \* starts and troubles so far

poolVars == <<budget, occupied, res, retained, ready, preparing>>
vars == <<diskVars, poolVars, adm, att, stopped, exit, dirty, cap, halt, spent>>

NoRes == [st |-> "free", slot |-> Nil, run |-> Nil, env |-> Nil, vm |-> "none",
          budget |-> Nil, resumed |-> FALSE, prepared |-> FALSE, doomed |-> FALSE]
NoAdm == [op |-> "none", who |-> Nil, pc |-> "none", victim |-> Nil]
NoCap == [st |-> "none", by |-> Nil, clean |-> FALSE]
NewAttempt == [st |-> "new", res |-> Nil, cancelled |-> FALSE]

Init ==
  /\ DisksInit
  /\ budget \in Budgets
  /\ occupied = {} /\ res = [i \in Res |-> NoRes]
  /\ retained = <<>> /\ ready = <<>> /\ preparing = Nil
  /\ adm = NoAdm
  /\ att = [a \in Attempts |-> NewAttempt]
  /\ stopped = {} /\ exit = {}
  /\ dirty = {} /\ cap = [r \in Runs |-> NoCap]
  /\ halt = FALSE
  /\ spent = [starts |-> 0, troubles |-> 0]

Active(a)    == att[a].st \notin {"new", "reserving", "granted", "exited"}
RunActive(r) == \E a \in Attempts : RunOf(a) = r /\ Active(a)
Available    == Cardinality(occupied) < budget
Trouble      == spent.troubles < MaxTroubles /\ spent' = [spent EXCEPT !.troubles = @ + 1]
Without(s, i) == RemoveFirst(s, i)

(* publication_pending: the accounting of the disk's journal.              *)
Pending(i)  == res[i].run \in dirty
AllRetained == DOMAIN retained
Unpending   == {n \in DOMAIN retained : ~Pending(retained[n])}
Oldest(N)   == retained[Min(N)]
RetainedOf(r) == {i \in Res : res[i].st = "retained" /\ res[i].run = r}

---------------------------------------------------------------------------
(* What a reading may find: memory or disk pressure on the node, a plan    *)
(* that a retained VM or a spare can serve.                                *)
Pressure   == BOOLEAN
Compatible == BOOLEAN
Eligible   == BOOLEAN

(* The end of a reservation: finish, and the same in its Drop.             *)
Closing(i) == [res EXCEPT ![i].st = "closing", ![i].doomed = TRUE]

(* Nothing touches the VM while a capture of its paused disk is sealing.   *)
Uncaptured(i) == \A r \in Runs : ~(cap[r].st = "sealing" /\ cap[r].by = i)

(* The VM is gone, then the owner lease is dropped unless a capture still  *)
(* holds a clone of it, an unassigned directory is removed, and the slot   *)
(* is free.                                                                *)
Released(i) ==
  LET e == res[i].env IN
  /\ owner' = [r \in Runs |->
       IF owner[r] # i THEN owner[r]
       ELSE IF cap[r].by = i THEN CaptureHolder ELSE Nil]
  /\ made' = IF e \in made /\ res[i].run = Nil THEN made \ {e} ELSE made
  /\ occupied' = occupied \ {res[i].slot}
  /\ res' = [res EXCEPT ![i] = NoRes]
  /\ preparing' = IF preparing = i THEN Nil ELSE preparing
  /\ att' = [a \in Attempts |-> IF att[a].res = i THEN [att[a] EXCEPT !.res = Nil]
                                ELSE att[a]]
  /\ UNCHANGED <<pointer, label, plain, budget, retained, ready, adm, stopped,
                 exit, dirty, cap, halt, spent>>

Teardown(i) == res[i].st = "closing" /\ Uncaptured(i) /\ Released(i)

---------------------------------------------------------------------------
(* broker.start: the checks before the reservation, which may wait.        *)
Start(a) ==
  /\ att[a].st = "new" /\ a \notin exit /\ a \notin stopped /\ ~halt
  /\ ~RunActive(RunOf(a))
  /\ \A b \in Attempts : RunOf(b) = RunOf(a) /\ b[2] < a[2] => att[b].st # "new" \/ b \in stopped
  /\ spent.starts < MaxStarts /\ spent' = [spent EXCEPT !.starts = @ + 1]
  /\ att' = [att EXCEPT ![a].st = "reserving"]
  /\ UNCHANGED <<diskVars, poolVars, adm, stopped, exit, dirty, cap, halt>>

(* A refusal is answered, and the manager may ask again.                   *)
Refuse(a) == /\ att' = [att EXCEPT ![a] = NewAttempt]
             /\ adm' = NoAdm
Grant(a, i) == /\ att' = [att EXCEPT ![a].st = "granted", ![a].res = i]
               /\ adm' = NoAdm
Go(pc)        == adm' = [adm EXCEPT !.pc = pc, !.victim = Nil] /\ UNCHANGED att
Await(i, pc)  == adm' = [adm EXCEPT !.pc = pc, !.victim = i] /\ UNCHANGED att

(* The holder of the lock goes on when the VM it evicts, or the            *)
(* preparation it preempts, is gone.                                       *)
Gone(i) == i # Nil => res[i].st = "free"
Working(op, pc) ==
  /\ adm.op = op /\ adm.pc = pc /\ Gone(adm.victim)
  /\ op \in {"reserve", "configure", "cool"} => preparing = Nil

(* cancel_preparing: a live request preempts the preparation.              *)
Preempted == IF preparing = Nil THEN res ELSE [res EXCEPT ![preparing].doomed = TRUE]

Admit(a) ==
  /\ adm.op = "none" /\ att[a].st = "reserving"
  /\ IF halt THEN Refuse(a) /\ UNCHANGED res
     ELSE /\ adm' = [NoAdm EXCEPT !.op = "reserve", !.who = a, !.pc = "room"]
          /\ res' = Preempted
          /\ UNCHANGED att
  /\ UNCHANGED <<diskVars, budget, occupied, retained, ready, preparing, stopped,
                 exit, dirty, cap, halt, spent>>

(* make_room: the oldest retained VM whose disk is published, then a spare. *)
Retire(i, pc) ==
  /\ res' = Closing(i)
  /\ retained' = Without(retained, i)
  /\ ready' = Without(ready, i)
  /\ Await(i, pc)
MakeRoom(pressure) ==
  LET next == IF adm.pc = "room" THEN "own" ELSE "slot" IN
  /\ Working("reserve", "room") \/ Working("reserve", "room2")
  /\ IF ~pressure /\ (adm.pc = "room" \/ Available)
     THEN Go(next) /\ UNCHANGED <<res, retained, ready>>
     ELSE IF Unpending # {} THEN Retire(Oldest(Unpending), adm.pc)
     ELSE IF ready # <<>> THEN Retire(Head(ready), adm.pc)
     ELSE Go(next) /\ UNCHANGED <<res, retained, ready>>
  /\ UNCHANGED <<diskVars, budget, occupied, preparing, stopped, exit, dirty, cap,
                 halt, spent>>

(* The conversation's own retained VM leaves the queue first; then it is    *)
(* resumed when it fits, put back with a refusal while its disk is         *)
(* unpublished, or replaced.  A reading of the node that fails, or a       *)
(* request that is dropped, in between (cut) ends it, pending or not.      *)
TakeOwn(fits, cut) ==
  LET a == adm.who IN
  /\ Working("reserve", "own")
  /\ IF RetainedOf(RunOf(a)) = {} THEN Go("spare") /\ UNCHANGED <<res, retained, ready>>
     ELSE LET i == CHOOSE j \in RetainedOf(RunOf(a)) : TRUE IN
          IF cut
          THEN /\ res' = Closing(i)
               /\ retained' = Without(retained, i)
               /\ Refuse(a) /\ UNCHANGED ready
          ELSE IF fits /\ res[i].budget = budget
          THEN /\ res' = [res EXCEPT ![i].st = "granted", ![i].resumed = TRUE]
               /\ retained' = Without(retained, i)
               /\ Grant(a, i) /\ UNCHANGED ready
          ELSE IF Pending(i)
          THEN /\ retained' = Append(Without(retained, i), i)
               /\ Refuse(a) /\ UNCHANGED <<res, ready>>
          ELSE Retire(i, "spare")
  /\ UNCHANGED <<diskVars, budget, occupied, preparing, stopped, exit, dirty, cap,
                 halt, spent>>

(* A spare for a new disk; cut as above.                                   *)
TakeSpare(eligible, pressure, cut) ==
  LET a == adm.who IN
  /\ Working("reserve", "spare")
  /\ IF ready # <<>> /\ eligible /\ FreshDisk(RunOf(a))
     THEN LET i == Head(ready) IN
          IF cut THEN /\ res' = Closing(i)
                      /\ ready' = Tail(ready)
                      /\ Refuse(a) /\ UNCHANGED retained
          ELSE IF pressure THEN Retire(i, "room2")
          ELSE /\ ready' = Tail(ready)
               /\ res' = [res EXCEPT ![i].st = "granted"]
               /\ Grant(a, i) /\ UNCHANGED retained
     ELSE Go("room2") /\ UNCHANGED <<res, retained, ready>>
  /\ UNCHANGED <<diskVars, budget, occupied, preparing, stopped, exit, dirty, cap,
                 halt, spent>>

(* Slots::reserve.                                                         *)
FreeRes  == CHOOSE i \in Res : res[i].st = "free"
FreeSlot == CHOOSE k \in Slots \ occupied : \A j \in Slots \ occupied : k <= j
HasFree  == \E i \in Res : res[i].st = "free"
ReserveSlot(pressure) ==
  LET a == adm.who IN
  /\ Working("reserve", "slot")
  /\ IF pressure \/ ~Available THEN Refuse(a) /\ UNCHANGED <<res, occupied>>
     ELSE /\ occupied' = occupied \cup {FreeSlot}
          /\ res' = [res EXCEPT ![FreeRes] = [NoRes EXCEPT !.st = "granted",
                                                           !.slot = FreeSlot]]
          /\ Grant(a, FreeRes)
  /\ UNCHANGED <<diskVars, budget, retained, ready, preparing, stopped, exit, dirty,
                 cap, halt, spent>>

(* A registration that trusts the checks made before the reservation.      *)
RegisterUnchecked(a) ==
  /\ att[a].st = "granted"
  /\ att' = [att EXCEPT ![a].st = "starting"]
  /\ UNCHANGED <<diskVars, poolVars, adm, stopped, exit, dirty, cap, halt, spent>>

(* The checks are repeated under the lock of the active attempts; a        *)
(* reservation that is not used is dropped.                                *)
Register(a) ==
  /\ att[a].st = "granted"
  /\ IF halt \/ a \in stopped \/ RunActive(RunOf(a))
     THEN /\ att' = [att EXCEPT ![a] = NewAttempt]
          /\ res' = Closing(att[a].res)
     ELSE /\ att' = [att EXCEPT ![a].st = "starting"]
          /\ UNCHANGED res
  /\ UNCHANGED <<diskVars, budget, occupied, retained, ready, preparing, adm,
                 stopped, exit, dirty, cap, halt, spent>>

(* A request that is dropped, or an error, wherever it waits: the lock and  *)
(* the reservation go with it, and the teardown goes on without it.        *)
StartDropped(a) ==
  /\ att[a].st \in {"reserving", "granted"}
  /\ att' = [att EXCEPT ![a] = NewAttempt]
  /\ adm' = IF adm.op = "reserve" /\ adm.who = a THEN NoAdm ELSE adm
  /\ res' = IF att[a].st = "granted" THEN Closing(att[a].res) ELSE res
  /\ UNCHANGED <<diskVars, budget, occupied, retained, ready, preparing, stopped,
                 exit, dirty, cap, halt, spent>>

---------------------------------------------------------------------------
(* Reservation::execute.                                                   *)
End(a) == /\ att' = [att EXCEPT ![a].st = "closing"]
          /\ res' = Closing(att[a].res)

ExecuteStopped(a) ==
  /\ att[a].st \in {"starting", "booting", "running"} /\ att[a].cancelled
  /\ End(a)
  /\ UNCHANGED <<diskVars, budget, occupied, retained, ready, preparing, adm,
                 stopped, exit, dirty, cap, halt, spent>>

(* A retained VM is resumed once no capture holds it; after a change of    *)
(* the budget it is replaced in its slot.                                  *)
ResumeIdle(a) ==
  LET i == att[a].res IN
  /\ att[a].st = "starting" /\ res[i].resumed /\ Uncaptured(i)
  /\ IF res[i].budget # budget
     THEN /\ res' = [res EXCEPT ![i] = [NoRes EXCEPT !.st = "granted", !.slot = res[i].slot]]
          /\ owner' = [owner EXCEPT ![RunOf(a)] =
                         IF cap[RunOf(a)].by = i THEN CaptureHolder ELSE Nil]
          /\ UNCHANGED att
     ELSE /\ IF res[i].vm = "paused"
             THEN /\ res' = [res EXCEPT ![i].st = "used", ![i].vm = "running"]
                  /\ att' = [att EXCEPT ![a].st = "running"]
             ELSE End(a)
          /\ UNCHANGED owner
  /\ UNCHANGED <<pointer, label, made, plain, budget, occupied, retained, ready,
                 preparing, adm, stopped, exit, dirty, cap, halt, spent>>

(* assign: the spare becomes the conversation's disk for good.             *)
ClaimSpare(a) ==
  LET i == att[a].res
      r == RunOf(a) IN
  /\ att[a].st = "starting" /\ res[i].prepared
  /\ res[i].budget = budget /\ FreshDisk(r) /\ owner[r] = Nil
  /\ owner' = [owner EXCEPT ![r] = i]
  /\ ReservePointer(r, res[i].env)
  /\ res' = [res EXCEPT ![i].run = r, ![i].prepared = FALSE]
  /\ att' = [att EXCEPT ![a].st = "assigning"]
  /\ UNCHANGED <<label, made, plain, budget, occupied, retained, ready, preparing,
                 adm, stopped, exit, dirty, cap, halt, spent>>
RecordClaim(a) ==
  LET i == att[a].res IN
  /\ att[a].st = "assigning"
  /\ RecordOwner(RunOf(a), res[i].env)
  /\ res' = [res EXCEPT ![i].st = "used"]
  /\ att' = [att EXCEPT ![a].st = "running"]
  /\ UNCHANGED <<pointer, made, plain, owner, budget, occupied, retained, ready,
                 preparing, adm, stopped, exit, dirty, cap, halt, spent>>

(* A spare whose teardown also frees the slot that is used cold.           *)
DropSpareAndSlot(a) ==
  LET i == att[a].res IN
  /\ att[a].st = "starting" /\ res[i].prepared
  /\ made' = made \ {res[i].env}
  /\ occupied' = occupied \ {res[i].slot}
  /\ res' = [res EXCEPT ![i] = [NoRes EXCEPT !.st = "granted", !.slot = res[i].slot]]
  /\ UNCHANGED <<pointer, label, plain, owner, budget, retained, ready, preparing,
                 adm, att, stopped, exit, dirty, cap, halt, spent>>

(* A spare that no longer fits is torn down and its slot used cold.        *)
DropSpare(a) ==
  LET i == att[a].res IN
  /\ att[a].st = "starting" /\ res[i].prepared
  /\ made' = made \ {res[i].env}
  /\ res' = [res EXCEPT ![i] = [NoRes EXCEPT !.st = "granted", !.slot = res[i].slot]]
  /\ UNCHANGED <<pointer, label, plain, owner, budget, occupied, retained, ready,
                 preparing, adm, att, stopped, exit, dirty, cap, halt, spent>>

(* A start that opens the disk without its lock.                           *)
TakeUnlocked(a) ==
  LET i == att[a].res
      r == RunOf(a) IN
  /\ att[a].st = "starting" /\ ~res[i].resumed /\ ~res[i].prepared /\ Resolves(r)
  /\ owner' = [owner EXCEPT ![r] = i]
  /\ plain' = IF pointer[r] = Nil THEN plain \cup {r} ELSE plain
  /\ res' = [res EXCEPT ![i].run = r, ![i].env = pointer[r], ![i].budget = budget]
  /\ att' = [att EXCEPT ![a].st = "booting"]
  /\ UNCHANGED <<pointer, label, made, budget, occupied, retained, ready, preparing,
                 adm, stopped, exit, dirty, cap, halt, spent>>

(* ownership_after_release: the lock of the disk, or an error after a      *)
(* minute.                                                                 *)
TakeOwnership(a) ==
  LET i == att[a].res
      r == RunOf(a) IN
  /\ att[a].st = "starting" /\ ~res[i].resumed /\ ~res[i].prepared
  /\ owner[r] = Nil /\ Resolves(r)
  /\ owner' = [owner EXCEPT ![r] = i]
  /\ plain' = IF pointer[r] = Nil THEN plain \cup {r} ELSE plain
  /\ res' = [res EXCEPT ![i].run = r, ![i].env = pointer[r], ![i].budget = budget]
  /\ att' = [att EXCEPT ![a].st = "booting"]
  /\ UNCHANGED <<pointer, label, made, budget, occupied, retained, ready, preparing,
                 adm, stopped, exit, dirty, cap, halt, spent>>
DiskInUse(a) ==
  /\ att[a].st = "starting" /\ ~res[att[a].res].resumed
  /\ owner[RunOf(a)] # Nil \/ ~Resolves(RunOf(a))
  /\ End(a)
  /\ UNCHANGED <<diskVars, budget, occupied, retained, ready, preparing, adm,
                 stopped, exit, dirty, cap, halt, spent>>

Boot(a) ==
  /\ att[a].st = "booting"
  /\ res' = [res EXCEPT ![att[a].res].st = "used", ![att[a].res].vm = "running"]
  /\ att' = [att EXCEPT ![a].st = "running"]
  /\ UNCHANGED <<diskVars, budget, occupied, retained, ready, preparing, adm,
                 stopped, exit, dirty, cap, halt, spent>>
BootFails(a) ==
  /\ att[a].st = "booting" /\ Trouble
  /\ End(a)
  /\ UNCHANGED <<diskVars, budget, occupied, retained, ready, preparing, adm,
                 stopped, exit, dirty, cap, halt>>

(* vm.execute: the guest writes, reports its exit, or is lost.             *)
Write(a) ==
  /\ att[a].st = "running" /\ res[att[a].res].vm = "running"
  /\ dirty' = dirty \cup {RunOf(a)}
  /\ cap' = [cap EXCEPT ![RunOf(a)].clean = FALSE]
  /\ UNCHANGED <<diskVars, poolVars, adm, att, stopped, exit, halt, spent>>
GuestExits(a, success) ==
  /\ att[a].st = "running"
  /\ IF success
     THEN att' = [att EXCEPT ![a].st = "done"] /\ UNCHANGED res
     ELSE End(a)
  /\ UNCHANGED <<diskVars, budget, occupied, retained, ready, preparing, adm,
                 stopped, exit, dirty, cap, halt, spent>>
GuestLost(a) ==
  /\ att[a].st = "running" /\ Trouble
  /\ End(a)
  /\ UNCHANGED <<diskVars, budget, occupied, retained, ready, preparing, adm,
                 stopped, exit, dirty, cap, halt>>

---------------------------------------------------------------------------
(* Retention after success: only an acknowledged pause survives the end of *)
(* the attempt, and only under the budget the attempt ran with.            *)
Suspend(a) ==
  LET i == att[a].res IN
  /\ att[a].st = "done" /\ ~att[a].cancelled /\ ~halt /\ res[i].budget = budget
  /\ res' = [res EXCEPT ![i].vm = "paused"]
  /\ att' = [att EXCEPT ![a].st = "suspended"]
  /\ UNCHANGED <<diskVars, budget, occupied, retained, ready, preparing, adm,
                 stopped, exit, dirty, cap, halt, spent>>
NotRetained(a) ==
  /\ att[a].st \in {"done", "suspended"}
  /\ End(a)
  /\ UNCHANGED <<diskVars, budget, occupied, retained, ready, preparing, adm,
                 stopped, exit, dirty, cap, halt, spent>>
RetainAdmit(a) ==
  LET i == att[a].res IN
  /\ att[a].st = "suspended" /\ adm.op = "none"
  /\ ~att[a].cancelled /\ ~halt /\ res[i].budget = budget
  /\ att' = [att EXCEPT ![a].st = "retaining"]
  /\ adm' = [NoAdm EXCEPT !.op = "retain", !.who = a, !.pc = "fit"]
  /\ UNCHANGED <<diskVars, poolVars, stopped, exit, dirty, cap, halt, spent>>

(* A retention limit that admits one VM more.                              *)
FitsOneMore == Len(retained) <= MaxRetained
Fits == Len(retained) < MaxRetained
RetainEvict ==
  /\ Working("retain", "fit") /\ ~Fits /\ Unpending # {}
  /\ Retire(Oldest(Unpending), "fit")
  /\ UNCHANGED <<diskVars, budget, occupied, preparing, stopped, exit, dirty, cap,
                 halt, spent>>
RetainInsert ==
  LET a == adm.who
      i == att[a].res IN
  /\ Working("retain", "fit") /\ (Fits \/ Unpending = {})
  /\ IF Fits
     THEN /\ retained' = Append(retained, i)
          /\ res' = [res EXCEPT ![i].st = "retained", ![i].resumed = FALSE,
                                ![i].prepared = FALSE]
          /\ att' = [att EXCEPT ![a] = [NewAttempt EXCEPT !.st = "exited"]]
          /\ exit' = exit \cup {a}
     ELSE End(a) /\ UNCHANGED <<retained, exit>>
  /\ adm' = NoAdm
  /\ UNCHANGED <<diskVars, budget, occupied, ready, preparing, stopped, dirty, cap,
                 halt, spent>>

(* Execution::run after execute: the exit is durable before the attempt is *)
(* released.                                                               *)
RecordExit(a) ==
  /\ att[a].st = "closing" /\ att[a].res = Nil
  /\ exit' = exit \cup {a}
  /\ att' = [att EXCEPT ![a] = [NewAttempt EXCEPT !.st = "exited"]]
  /\ UNCHANGED <<diskVars, poolVars, adm, stopped, dirty, cap, halt, spent>>

(* The disk cannot be opened or sealed after a success: the reservation is  *)
(* dropped, and the exit recorded while its teardown goes on.              *)
Unsealed(a) ==
  /\ att[a].st \in {"done", "suspended"} /\ Trouble
  /\ res' = Closing(att[a].res)
  /\ exit' = exit \cup {a}
  /\ att' = [att EXCEPT ![a] = [NewAttempt EXCEPT !.st = "exited"]]
  /\ UNCHANGED <<diskVars, budget, occupied, retained, ready, preparing, adm,
                 stopped, dirty, cap, halt>>

(* broker.stop, and enforce_limits on a lease that lapsed.                 *)
Stop(a) ==
  /\ a \notin stopped /\ a \notin exit /\ Trouble
  /\ stopped' = stopped \cup {a}
  /\ att' = IF Active(a) THEN [att EXCEPT ![a].cancelled = TRUE] ELSE att
  /\ UNCHANGED <<diskVars, poolVars, adm, exit, dirty, cap, halt>>
LeaseLost(a) ==
  /\ Active(a) /\ ~att[a].cancelled /\ att[a].st # "closing" /\ Trouble
  /\ att' = [att EXCEPT ![a].cancelled = TRUE]
  /\ UNCHANGED <<diskVars, poolVars, adm, stopped, exit, dirty, cap, halt>>

---------------------------------------------------------------------------
(* The monitor: maintain_retained evicts a VM that exited, whatever its    *)
(* disk holds, else one whose disk is published.                           *)
Exited == {n \in DOMAIN retained : res[retained[n]].vm = "dead"}
MaintainRetained ==
  LET some == IF Exited # {} THEN Exited ELSE Unpending IN
  /\ adm.op = "none" /\ some # {}
  /\ adm' = [NoAdm EXCEPT !.op = "monitor", !.pc = "end", !.victim = Oldest(some)]
  /\ res' = Closing(Oldest(some))
  /\ retained' = Without(retained, Oldest(some))
  /\ UNCHANGED <<diskVars, budget, occupied, ready, preparing, att, stopped, exit,
                 dirty, cap, halt, spent>>
VmExits(i) ==
  /\ res[i].st = "retained" /\ res[i].vm = "paused" /\ Trouble
  /\ res' = [res EXCEPT ![i].vm = "dead"]
  /\ UNCHANGED <<diskVars, budget, occupied, retained, ready, preparing, adm, att,
                 stopped, exit, dirty, cap, halt>>

(* maintain_ready: a spare is prepared in a slot of its own, in the        *)
(* background.                                                             *)
MaintainReady(e) ==
  /\ adm.op = "none" /\ ~halt /\ preparing = Nil /\ HasFree /\ Available
  /\ Len(ready) < WarmCapacity /\ e \notin made /\ label[e] = Nil
  /\ \A r \in Runs : pointer[r] # e
  /\ occupied' = occupied \cup {FreeSlot}
  /\ res' = [res EXCEPT ![FreeRes] = [NoRes EXCEPT !.st = "preparing", !.slot = FreeSlot,
                                        !.env = e, !.budget = budget]]
  /\ preparing' = FreeRes
  /\ made' = made \cup {e}
  /\ UNCHANGED <<pointer, label, plain, owner, budget, retained, ready, adm, att,
                 stopped, exit, dirty, cap, halt, spent>>
Prepare(i, good) ==
  /\ res[i].st = "preparing"
  /\ IF good /\ ~res[i].doomed /\ ~halt
     THEN /\ res' = [res EXCEPT ![i].st = "ready", ![i].vm = "running", ![i].prepared = TRUE]
          /\ ready' = Append(ready, i)
          /\ preparing' = Nil
     ELSE res' = Closing(i) /\ UNCHANGED <<ready, preparing>>
  /\ UNCHANGED <<diskVars, budget, occupied, retained, adm, att, stopped, exit,
                 dirty, cap, halt, spent>>

(* configure, and maintain_ready under pressure: retire_idle first.        *)
RetireIdle(op, who) ==
  /\ adm.op = "none"
  /\ op = "configure" => Trouble /\ who \in Budgets \ {budget}
  /\ op = "cool" => ready # <<>> /\ ~halt /\ UNCHANGED spent
  /\ adm' = [NoAdm EXCEPT !.op = op, !.who = who, !.pc = "retire"]
  /\ res' = Preempted
  /\ UNCHANGED <<diskVars, budget, occupied, retained, ready, preparing, att, stopped,
                 exit, dirty, cap, halt>>
RetireNext ==
  /\ Working("configure", "retire") \/ Working("cool", "retire")
  /\ IF Unpending # {} THEN Retire(Oldest(Unpending), "retire") /\ UNCHANGED budget
     ELSE IF ready # <<>> THEN Retire(Head(ready), "retire") /\ UNCHANGED budget
     ELSE /\ budget' = IF adm.op = "configure" THEN adm.who ELSE budget
          /\ adm' = NoAdm
          /\ UNCHANGED <<res, retained, ready, att>>
  /\ UNCHANGED <<diskVars, occupied, preparing, stopped, exit, dirty, cap, halt, spent>>

(* evict_conversation of a deletion or a prune: refused while the disk is  *)
(* unpublished; then the disk is deleted if nobody holds it.               *)
Evict(r) ==
  /\ adm.op = "none" /\ Trouble
  /\ RetainedOf(r) # {} /\ \A i \in RetainedOf(r) : ~Pending(i)
  /\ LET i == CHOOSE j \in RetainedOf(r) : TRUE IN
     /\ adm' = [NoAdm EXCEPT !.op = "evict", !.pc = "end", !.victim = i]
     /\ res' = Closing(i)
     /\ retained' = Without(retained, i)
  /\ UNCHANGED <<diskVars, budget, occupied, ready, preparing, att, stopped, exit,
                 dirty, cap, halt>>
DeleteDisk(r) ==
  /\ r \in plain /\ ~RunActive(r) /\ RetainedOf(r) = {} /\ owner[r] = Nil
  /\ cap[r].st = "none" /\ Trouble
  /\ plain' = plain \ {r}
  /\ dirty' = dirty \ {r}
  /\ stopped' = stopped \cup {a \in Attempts : RunOf(a) = r /\ att[a].st # "new"}
  /\ UNCHANGED <<pointer, label, made, owner, poolVars, adm, att, exit, cap, halt>>
EndMaintenance ==
  /\ adm.op \in {"monitor", "evict"} /\ Gone(adm.victim)
  /\ adm' = NoAdm
  /\ UNCHANGED <<diskVars, poolVars, att, stopped, exit, dirty, cap, halt, spent>>

---------------------------------------------------------------------------
(* Captures of an idle disk: a retained one is sealed while its VM stays   *)
(* paused, a stopped one under the ownership lock.                         *)
CaptureRetained(r) ==
  /\ adm.op = "none" /\ cap[r].st = "none" /\ r \in dirty /\ ~RunActive(r)
  /\ \E i \in RetainedOf(r) : cap' = [cap EXCEPT ![r] = [NoCap EXCEPT !.st = "sealing", !.by = i]]
  /\ UNCHANGED <<diskVars, poolVars, adm, att, stopped, exit, dirty, halt, spent>>
CaptureStopped(r) ==
  /\ cap[r].st = "none" /\ r \in dirty /\ ~RunActive(r) /\ RetainedOf(r) = {}
  /\ owner[r] = Nil /\ Resolves(r)
  /\ owner' = [owner EXCEPT ![r] = CaptureHolder]
  /\ cap' = [cap EXCEPT ![r] = [NoCap EXCEPT !.st = "sealing"]]
  /\ UNCHANGED <<pointer, label, made, plain, poolVars, adm, att, stopped, exit,
                 dirty, halt, spent>>
Seal(r) ==
  /\ cap[r].st = "sealing"
  /\ cap' = [cap EXCEPT ![r].st = "hashing", ![r].clean = TRUE]
  /\ UNCHANGED <<diskVars, poolVars, adm, att, stopped, exit, dirty, halt, spent>>

(* The snapshot is served and its receipt applied: nothing is pending when *)
(* nothing was written after the seal.                                     *)
Published(r) ==
  /\ cap[r].st = "hashing"
  /\ dirty' = IF cap[r].clean THEN dirty \ {r} ELSE dirty
  /\ cap' = [cap EXCEPT ![r] = NoCap]
  /\ owner' = IF owner[r] = CaptureHolder THEN [owner EXCEPT ![r] = Nil] ELSE owner
  /\ UNCHANGED <<pointer, label, made, plain, poolVars, adm, att, stopped, exit,
                 halt, spent>>

---------------------------------------------------------------------------
(* Shutdown of the controller: attempts are cancelled and every idle VM is *)
(* retired without the admission lock; and its sudden death, after which   *)
(* the restart fences the attempts and completes the claims.               *)
Halt ==
  /\ ~halt /\ Trouble
  /\ halt' = TRUE
  /\ att' = [a \in Attempts |-> IF Active(a) THEN [att[a] EXCEPT !.cancelled = TRUE]
                                ELSE att[a]]
  /\ res' = Preempted
  /\ UNCHANGED <<diskVars, budget, occupied, retained, ready, preparing, adm, stopped,
                 exit, dirty, cap>>
Drain ==
  /\ halt /\ retained \o ready # <<>>
  /\ LET i == Head(retained \o ready) IN
     /\ res' = Closing(i)
     /\ retained' = Without(retained, i)
     /\ ready' = Without(ready, i)
  /\ UNCHANGED <<diskVars, budget, occupied, preparing, adm, att, stopped, exit,
                 dirty, cap, halt, spent>>
Restart ==
  /\ Trouble
  /\ Recover
  /\ occupied' = {} /\ res' = [i \in Res |-> NoRes]
  /\ retained' = <<>> /\ ready' = <<>> /\ preparing' = Nil /\ adm' = NoAdm
  /\ exit' = exit \cup {a \in Attempts : Active(a)}
  /\ att' = [a \in Attempts |-> IF Active(a) THEN [NewAttempt EXCEPT !.st = "exited"]
                                ELSE IF att[a].st \in {"reserving", "granted"}
                                THEN NewAttempt ELSE att[a]]
  /\ cap' = [r \in Runs |-> NoCap]
  /\ halt' = FALSE
  /\ UNCHANGED <<budget, stopped, dirty>>

---------------------------------------------------------------------------
Admission ==
  \/ RetireNext \/ EndMaintenance \/ RetainEvict \/ RetainInsert
  \/ \E p \in Pressure : MakeRoom(p) \/ ReserveSlot(p)
  \/ \E e \in Eligible, p \in Pressure, cut \in BOOLEAN : TakeSpare(e, p, cut)
  \/ \E c \in Compatible, cut \in BOOLEAN : TakeOwn(c, cut)

Execution(a) ==
  \/ Register(a) \/ ExecuteStopped(a) \/ ResumeIdle(a) \/ ClaimSpare(a) \/ RecordClaim(a)
  \/ DropSpare(a) \/ TakeOwnership(a) \/ DiskInUse(a) \/ Boot(a)
  \/ Suspend(a) \/ NotRetained(a) \/ RetainAdmit(a) \/ RecordExit(a)
  \/ StartDropped(a)

Guest(a) == Write(a) \/ BootFails(a) \/ GuestLost(a) \/ Unsealed(a) \/ \E c \in BOOLEAN : GuestExits(a, c)

Maintenance ==
  \/ MaintainRetained \/ Drain
  \/ \E e \in Envs : MaintainReady(e)
  \/ \E i \in Res, good \in BOOLEAN : Prepare(i, good)
  \/ RetireIdle("cool", Nil)

Capture(r) == CaptureRetained(r) \/ CaptureStopped(r) \/ Seal(r) \/ Published(r)

Outside ==
  \/ \E a \in Attempts : Start(a) \/ Stop(a) \/ LeaseLost(a)
  \/ \E b \in Budgets : RetireIdle("configure", b)
  \/ \E r \in Runs : Evict(r) \/ DeleteDisk(r)
  \/ \E i \in Res : VmExits(i)
  \/ Halt \/ Restart

Next ==
  \/ Admission \/ Maintenance \/ Outside
  \/ \E i \in Res : Teardown(i)
  \/ \E a \in Attempts : Admit(a) \/ Execution(a) \/ Guest(a)
  \/ \E r \in Runs : Capture(r)

Spec == Init /\ [][Next]_vars

---------------------------------------------------------------------------
Live(i) == res[i].st # "free"

(* Every record has its type, and the queues hold what their names say.    *)
PoolTypeOK ==
  /\ budget \in Budgets /\ occupied \subseteq Slots /\ preparing \in Res \cup {Nil}
  /\ \A i \in Res :
       /\ res[i].st \in {"free", "preparing", "ready", "granted", "used", "retained",
                         "closing"}
       /\ res[i].vm \in {"none", "running", "paused", "dead"}
       /\ Live(i) => res[i].slot \in Slots
  /\ \A n \in 1 .. Len(retained) : res[retained[n]].st = "retained"
  /\ \A n \in 1 .. Len(ready) : res[ready[n]].st = "ready"
  /\ preparing # Nil => Live(preparing)
  /\ Len(retained) <= MaxRetained

(* The slots marked occupied are exactly those of the reservations that    *)
(* still exist, one each: none is lost by a failed, cancelled or preempted *)
(* start, and none is reused before its VM is down.                        *)
SlotsAccounted ==
  /\ occupied = {res[i].slot : i \in {j \in Res : Live(j)}}
  /\ \A i, j \in Res : i # j /\ Live(i) /\ Live(j) => res[i].slot # res[j].slot

(* A conversation's disk is in one VM at a time: whoever runs or keeps a   *)
(* VM on it holds its ownership lock.                                      *)
DiskHasOneVm ==
  \A i \in Res : res[i].run # Nil /\ res[i].vm # "none" => owner[res[i].run] = i

(* While a capture seals an idle disk its VM is neither running nor gone.  *)
CapturesStillDisk ==
  \A r \in Runs : cap[r].st = "sealing" /\ cap[r].by # Nil =>
     res[cap[r].by].run = r /\ res[cap[r].by].vm \in {"paused", "dead"}

(* The start of its own conversation is at the retained VM i.               *)
OwnStart(i) == adm.op = "reserve" /\ adm.pc = "own" /\ RunOf(adm.who) = res[i].run

(* A VM whose disk holds unpublished writes leaves retention only for a    *)
(* start of its own conversation, when its process exited, at shutdown or  *)
(* with the controller: neither the demand of another conversation nor a   *)
(* smaller budget ends it.  That start returns with it, or is cut while it *)
(* holds it; it never retires the VM to take a new one (pool.rs, make_room, *)
(* reserve, retire_idle; pool/retained.rs).                                *)
UnpublishedKept ==
  [][\A i \in Res :
       res[i].st = "retained" /\ Pending(i) /\ res'[i].st # "retained" =>
         \/ OwnStart(i) /\ adm' = NoAdm
         \/ res[i].vm = "dead" \/ halt
         \/ res' = [j \in Res |-> NoRes]]_vars

(* vm.rs: "Only a confirmed process exit permits retiring an unpublished   *)
(* idle VM."  A start that is cut after it took the VM ends it all the same. *)
OnlyExitedRetired ==
  [][\A i \in Res :
       res[i].st = "retained" /\ Pending(i) /\ res'[i].st = "closing" =>
         res[i].vm = "dead" \/ halt]_vars

(* An attempt that was told to stop while its start was still waiting for  *)
(* a slot never runs unaware of it, and two attempts are never active in   *)
(* one workspace.                                                          *)
StoppedNeverStarts ==
  \A a \in Attempts : Active(a) =>
    /\ a \in stopped => att[a].cancelled
    /\ \A b \in Attempts \ {a} : RunOf(b) = RunOf(a) => ~Active(b)

(* A claimed directory is never removed nor given to another conversation, *)
(* wherever the claim was interrupted.                                     *)
ClaimsPermanent ==
  /\ \A r \in Runs : pointer[r] # Nil => pointer[r] \in made
  /\ \A r, q \in Runs : r # q /\ pointer[r] # Nil => pointer[q] # pointer[r]
  /\ \A r \in Runs : pointer[r] # Nil /\ ~RunActive(r) => Resolves(r)

(* A disk has one VM, and a capture reads it only while that VM stands     *)
(* still (pool.rs, environment.rs).                                        *)
DiskExclusive ==
  /\ DiskHasOneVm
  /\ CapturesStillDisk

(* A stop and a claim are final: a stopped attempt starts no VM            *)
(* (broker.rs), and a claimed directory keeps its conversation             *)
(* (environment.rs).                                                       *)
StopsAndClaimsHold ==
  /\ StoppedNeverStarts
  /\ ClaimsPermanent
=============================================================================

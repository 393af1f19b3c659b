---------------------------- MODULE GuestControl ----------------------------
(***************************************************************************)
(* Who stops and starts a running VM: the capture of a recovery point      *)
(* (storage/checkpoint.rs) and the monitor that applies the disk's limits   *)
(* (runner/broker.rs enforce_limits, storage/runtime.rs) share the         *)
(* attempt's control lock; the guest freezes and thaws its file systems     *)
(* (microvm/guest.rs), and a write that finds no space waits on the host.   *)
(*                                                                         *)
(* A pause or resume that the host stopped waiting for is still in the     *)
(* VMM's queue and is served later, in order.  Times are choices; the one  *)
(* order of times that is assumed is that a capture settles its pause       *)
(* before the guest's own thaw timer (300 s) fires.                        *)
(***************************************************************************)
EXTENDS Naturals, Sequences

CONSTANTS MaxMishaps,   \* lost answers, storage outages, failed reads, lost leases
          MaxThaws      \* detached thaws told apart

ASSUME ControlConstants ==
  MaxMishaps \in Nat /\ MaxThaws \in Nat \ {0}

VARIABLES
  cpu,       \* the state of the VM's CPUs
  api,       \* state changes the VMM has not served: <<state, who waits>>
  flag,      \* Volume::paused, the confirmed state
  pending,   \* Volume::transition, an unknown state
  control,   \* the holder of the attempt's control lock
  mon,       \* the monitor: idle, or waiting for the state it asked
  capt,      \* the capture
  thaws,     \* thaw_later tasks
  fs,        \* the guest's file systems
  fsop,      \* a freeze in the guest, and whether its caller still waits
  timer,     \* the guest's thaw timer of the last freeze is running
  disk,      \* space, flags, dirtiness and age of the node's journal
  writer,    \* a guest write waiting for space
  lease,     \* "held", or lost: found by the monitor, then fenced
  stop,      \* the attempt's stop token
  point,     \* the last sealed point
  left       \* mishaps left

vmVars   == <<cpu, api, flag, pending>>
hostVars == <<control, mon, capt, thaws>>
fsVars   == <<fs, fsop, timer>>
controlVars == <<vmVars, hostVars, fsVars, disk, writer, lease, stop, point, left>>

NoCapture == [pc |-> "idle", flush |-> FALSE, emergency |-> FALSE, frozen |-> FALSE,
              overtaken |-> FALSE]
NoPoint   == [label |-> "none", quiet |-> TRUE, frozen |-> TRUE,
              overtaken |-> FALSE]

ControlInit ==
  /\ cpu = "running" /\ api = <<>> /\ flag = FALSE /\ pending = FALSE
  /\ control = "free" /\ mon = "idle" /\ capt = NoCapture /\ thaws = 0
  /\ fs = "thawed" /\ fsop = "none" /\ timer = FALSE
  /\ disk = [low |-> FALSE, pressure |-> FALSE, dirty |-> FALSE, more |-> FALSE,
             late |-> FALSE, since |-> "zero", waiting |-> FALSE, fault |-> FALSE]
  /\ writer = FALSE /\ lease = "held" /\ stop = FALSE /\ point = NoPoint
  /\ left = MaxMishaps

Mishap == left > 0 /\ left' = left - 1

---------------------------------------------------------------------------
(* set_vm_state: the request is queued in the VMM; the answer may be lost. *)
Ask(state, who) == api' = Append(api, <<state, who>>)
Asked(who)      == \E n \in 1 .. Len(api) : api[n][2] = who
Abandon(who)    == api' = [n \in 1 .. Len(api) |->
                             IF api[n][2] = who THEN <<api[n][1], "nobody">> ELSE api[n]]

(* What a capture asks of the VMM, and where a confirmation leads.         *)
Wanted == [wake |-> "running", pause |-> "paused", resume |-> "running"]
After  == [wake |-> "woken", pause |-> "quiet", resume |-> "resumed"]

(* The VMM serves the requests in order, whoever still waits.              *)
Settled(who) ==
  /\ mon' = IF who = "monitor" THEN "confirmed" ELSE mon
  /\ capt' = IF who = "capture" THEN [capt EXCEPT !.pc = After[capt.pc]] ELSE capt
ServeApi ==
  /\ api # <<>>
  /\ cpu' = Head(api)[1]
  /\ api' = Tail(api)
  /\ IF Head(api)[2] = "nobody" THEN UNCHANGED <<mon, capt>> ELSE Settled(Head(api)[2])
  /\ UNCHANGED <<flag, pending, control, thaws, fsVars, disk, writer, lease, stop,
                 point, left>>

---------------------------------------------------------------------------
(* Volume::control_reason and health.                                      *)
LagPauses  == disk.late /\ disk.since # "elapsed"
Blocked    == disk.fault \/ disk.pressure \/ disk.waiting \/ LagPauses
WaitingFor == disk.fault \/ disk.pressure \/ disk.low \/ LagPauses

(* The monitor skips its tick when a capture holds the control lock.       *)
Monitor ==
  /\ mon = "idle" /\ control = "free" /\ ~stop /\ lease = "held"
  /\ disk' = [disk EXCEPT !.since = IF ~disk.late THEN "zero"
                                    ELSE IF @ = "zero" THEN "counting" ELSE @]
  /\ IF Blocked # flag \/ pending
     THEN /\ control' = "monitor"
          /\ mon' = IF Blocked THEN "pausing" ELSE "resuming"
          /\ Ask(IF Blocked THEN "paused" ELSE "running", "monitor")
     ELSE UNCHANGED <<control, mon, api>>
  /\ UNCHANGED <<cpu, flag, pending, capt, thaws, fsVars, writer, lease, stop, point,
                 left>>
(* The wanted state is the one that was asked, and the flag records it     *)
(* only after an explicit confirmation.                                    *)
MonitorConfirmed ==
  /\ mon = "confirmed"
  /\ flag' = (cpu = "paused")
  /\ pending' = FALSE
  /\ mon' = "idle" /\ control' = "free"
  /\ UNCHANGED <<cpu, api, capt, thaws, fsVars, disk, writer, lease, stop, point, left>>
(* A lost answer is retried at the next tick; when it lasts, or the VMM    *)
(* refuses, the attempt is stopped.                                        *)
MonitorLost(gives_up) ==
  /\ mon \in {"pausing", "resuming"} /\ Asked("monitor") /\ Mishap
  /\ gives_up => pending
  /\ Abandon("monitor")
  /\ pending' = TRUE
  /\ stop' = (stop \/ gives_up)
  /\ mon' = "idle" /\ control' = "free"
  /\ UNCHANGED <<cpu, flag, capt, thaws, fsVars, disk, writer, lease, point>>

(* The lease lapses: the token is cancelled first, then the CPUs are       *)
(* paused with or without the control lock.                                *)
LeaseLost ==
  /\ mon = "idle" /\ lease = "held" /\ ~stop /\ Mishap
  /\ lease' = "lost" /\ stop' = TRUE
  /\ UNCHANGED <<vmVars, hostVars, fsVars, disk, writer, point>>
PauseLost ==
  /\ lease = "lost" /\ lease' = "fenced"
  /\ Ask("paused", "nobody")
  /\ UNCHANGED <<cpu, flag, pending, hostVars, fsVars, disk, writer, stop, point, left>>

---------------------------------------------------------------------------
(* seal_target.                                                            *)
At(pc) == capt.pc = pc
Goto(pc) == capt' = [capt EXCEPT !.pc = pc]

(* Only a flushed capture stops the guest; a crash-consistent one seals    *)
(* the journal's prefix under the same lock.  A guest left paused by an     *)
(* earlier protection is resumed first: paused CPUs cannot answer.         *)
CaptureStart(flush) ==
  /\ At("idle") /\ control = "free" /\ ~stop /\ ~disk.waiting
  /\ control' = "capture"
  /\ capt' = [NoCapture EXCEPT
       !.flush = flush, !.emergency = WaitingFor,
       !.pc = IF ~flush THEN "seal"
              ELSE IF WaitingFor THEN "pause"
              ELSE IF flag \/ pending THEN "wake" ELSE "freeze"]
  /\ UNCHANGED <<vmVars, mon, thaws, fsVars, disk, writer, lease, stop, point, left>>

(* settle_attempt: the state is asked again until it is confirmed, or the  *)
(* attempt stops.                                                          *)
Settle ==
  /\ capt.pc \in DOMAIN Wanted /\ ~Asked("capture") /\ ~stop
  /\ Ask(Wanted[capt.pc], "capture")
  /\ flag' = (flag \/ At("pause"))
  /\ UNCHANGED <<cpu, pending, hostVars, fsVars, disk, writer, lease, stop, point, left>>
(* A settlement that takes a lost answer for a confirmation.               *)
SettleLostAsDone ==
  /\ capt.pc \in DOMAIN Wanted /\ Asked("capture") /\ Mishap
  /\ Abandon("capture")
  /\ Goto(After[capt.pc])
  /\ UNCHANGED <<cpu, flag, pending, control, mon, thaws, fsVars, disk, writer, lease,
                 stop, point>>

SettleLost ==
  /\ capt.pc \in DOMAIN Wanted /\ Asked("capture") /\ Mishap
  /\ Abandon("capture")
  /\ UNCHANGED <<cpu, flag, pending, hostVars, fsVars, disk, writer, lease, stop, point>>
(* A pause that the VMM refuses is undone while the guest may run.         *)
PauseRefused ==
  /\ At("pause") /\ ~capt.emergency /\ ~stop /\ Mishap
  /\ Abandon("capture")
  /\ Goto("resume") /\ point' = NoPoint
  /\ UNCHANGED <<cpu, flag, pending, control, mon, thaws, fsVars, disk, writer, lease,
                 stop>>
(* Any other settlement that fails leaves the CPUs in an unknown state:    *)
(* the attempt is stopped and the lock released.                           *)
SettleFails ==
  /\ capt.pc \in DOMAIN Wanted
  /\ At("pause") => capt.emergency \/ stop
  /\ stop \/ Mishap
  /\ stop => UNCHANGED left
  /\ Abandon("capture")
  /\ stop' = TRUE /\ control' = "free"
  /\ capt' = NoCapture
  /\ thaws' = IF capt.frozen /\ thaws < MaxThaws THEN thaws + 1 ELSE thaws
  /\ point' = NoPoint
  /\ UNCHANGED <<cpu, flag, pending, mon, fsVars, disk, writer, lease>>
Woken ==
  /\ At("woken")
  /\ flag' = FALSE /\ Goto("freeze")
  /\ UNCHANGED <<cpu, api, pending, control, mon, thaws, fsVars, disk, writer, lease,
                 stop, point, left>>

(* A freeze may wait for a write that waits for space; without its answer  *)
(* the capture goes on as crash-consistent.                                *)
FreezeSent ==
  /\ At("freeze") /\ fsop = "none"
  /\ fsop' = "asked" /\ Goto("freezing")
  /\ UNCHANGED <<vmVars, control, mon, thaws, fs, timer, disk, writer, lease, stop,
                 point, left>>
FreezeUnanswered ==
  /\ capt.pc \in {"freeze", "freezing"}
  /\ \/ (writer \/ stop) /\ UNCHANGED left
     \/ Mishap
  /\ fsop' = IF fsop = "asked" THEN "orphan" ELSE fsop
  /\ capt' = [capt EXCEPT !.pc = "pause", !.frozen = TRUE, !.emergency = TRUE]
  /\ UNCHANGED <<vmVars, control, mon, thaws, fs, timer, disk, writer, lease, stop,
                 point>>

(* The journal is sealed while the lock is held, and the VM resumed unless *)
(* the disk's protection still wants it paused.                            *)
Seal ==
  /\ capt.pc \in {"seal", "quiet"}
  /\ point' = IF capt.flush /\ ~capt.emergency
              THEN [label |-> "filesystem", quiet |-> cpu = "paused",
                    frozen |-> fs = "frozen", overtaken |-> capt.overtaken]
              ELSE [NoPoint EXCEPT !.label = "crash"]
  /\ disk' = [disk EXCEPT !.more = FALSE]
  /\ Goto(IF capt.flush /\ ~stop /\ ~capt.emergency THEN "resume" ELSE "unlock")
  /\ UNCHANGED <<vmVars, control, mon, thaws, fsVars, writer, lease, stop, left>>
Resumed ==
  /\ At("resumed")
  /\ flag' = FALSE /\ Goto("unlock")
  /\ UNCHANGED <<cpu, api, pending, control, mon, thaws, fsVars, disk, writer, lease,
                 stop, point, left>>
UnlockOnly ==
  /\ At("unlock")
  /\ control' = "free" /\ capt' = NoCapture
  /\ UNCHANGED <<vmVars, mon, thaws, fsVars, disk, writer, lease, stop, point, left>>
Unlock ==
  /\ At("unlock")
  /\ control' = "free"
  /\ IF capt.frozen /\ ~capt.emergency THEN Goto("thaw") /\ UNCHANGED thaws
     ELSE /\ capt' = NoCapture
          /\ thaws' = IF capt.frozen /\ thaws < MaxThaws THEN thaws + 1 ELSE thaws
  /\ UNCHANGED <<vmVars, mon, fsVars, disk, writer, lease, stop, point, left>>

---------------------------------------------------------------------------
(* The guest: its operations on the file systems are one at a time.        *)
(* A second freeze of a frozen file system fails and thaws every view.     *)
FreezeDone ==
  /\ fsop # "none" /\ cpu = "running" /\ ~writer
  /\ fsop' = "none"
  /\ fs' = IF fs = "thawed" THEN "frozen" ELSE "thawed"
  /\ timer' = (fs = "thawed")
  /\ capt' = IF fsop = "asked"
             THEN [capt EXCEPT !.pc = "pause", !.frozen = TRUE, !.emergency = fs = "frozen",
                               !.overtaken = FALSE]
             ELSE capt
  /\ UNCHANGED <<vmVars, control, mon, thaws, disk, writer, lease, stop, point, left>>
Thawed == /\ cpu = "running" /\ fsop = "none"
          /\ fs' = "thawed" /\ timer' = FALSE

(* thaw asks until the guest answers; a detached one may do so late.       *)
Thaw(answered) ==
  /\ At("thaw") /\ Thawed
  /\ IF answered THEN capt' = NoCapture /\ UNCHANGED left ELSE Mishap /\ UNCHANGED capt
  /\ UNCHANGED <<vmVars, control, mon, thaws, fsop, disk, writer, lease, stop, point>>
ThawLater(answered) ==
  /\ thaws > 0 /\ Thawed
  /\ IF answered THEN thaws' = thaws - 1 /\ UNCHANGED left ELSE Mishap /\ UNCHANGED thaws
  /\ capt' = [capt EXCEPT !.overtaken = @ \/ capt.frozen]
  /\ UNCHANGED <<vmVars, control, mon, fsop, disk, writer, lease, stop, point>>
ThawStopped ==
  /\ stop /\ (At("thaw") \/ thaws > 0)
  /\ capt' = IF At("thaw") THEN NoCapture ELSE capt
  /\ thaws' = 0
  /\ UNCHANGED <<vmVars, control, mon, fsVars, disk, writer, lease, stop, point, left>>

(* The manager stops waiting for the point; the node still thaws.          *)
CallerGone ==
  /\ At("thaw") /\ capt' = NoCapture /\ point' = NoPoint
  /\ thaws' = IF thaws < MaxThaws THEN thaws + 1 ELSE thaws
  /\ UNCHANGED <<vmVars, control, mon, fsVars, disk, writer, lease, stop, left>>

(* The guest thaws itself when nobody did; a newer freeze or thaw ends the *)
(* timer of an older freeze.                                               *)
Timer ==
  /\ timer /\ ~(capt.pc \in {"pause", "quiet"}) /\ Thawed
  /\ UNCHANGED <<vmVars, hostVars, fsop, disk, writer, lease, stop, point, left>>

---------------------------------------------------------------------------
(* Volume::admit_write: a write without space waits, and its success       *)
(* clears the pressure it set.                                             *)
Write(fills) ==
  /\ cpu = "running" /\ fs = "thawed" /\ ~writer /\ ~stop
  /\ IF disk.low
     THEN writer' = TRUE /\ disk' = [disk EXCEPT !.pressure = TRUE]
     ELSE /\ disk' = [disk EXCEPT !.dirty = TRUE, !.more = TRUE, !.pressure = FALSE,
                                  !.low = fills]
          /\ UNCHANGED writer
  /\ UNCHANGED <<vmVars, hostVars, fsVars, lease, stop, point, left>>
WriteAdmitted ==
  /\ writer /\ (~disk.low \/ stop)
  /\ writer' = FALSE
  /\ disk' = [disk EXCEPT !.pressure = FALSE, !.dirty = TRUE, !.more = TRUE]
  /\ UNCHANGED <<vmVars, hostVars, fsVars, lease, stop, point, left>>
Ages ==
  /\ ~stop /\ disk.dirty /\ ~disk.late
  /\ disk' = [disk EXCEPT !.late = TRUE]
  /\ UNCHANGED <<vmVars, hostVars, fsVars, writer, lease, stop, point, left>>
LagElapses ==
  /\ ~stop /\ disk.since = "counting"
  /\ disk' = [disk EXCEPT !.since = "elapsed"]
  /\ UNCHANGED <<vmVars, hostVars, fsVars, writer, lease, stop, point, left>>
Waits ==
  /\ ~stop /\ ~disk.waiting /\ Mishap
  /\ disk' = [disk EXCEPT !.waiting = TRUE]
  /\ UNCHANGED <<vmVars, hostVars, fsVars, writer, lease, stop, point>>
Answers ==
  /\ ~stop /\ disk.waiting
  /\ disk' = [disk EXCEPT !.waiting = FALSE]
  /\ UNCHANGED <<vmVars, hostVars, fsVars, writer, lease, stop, point, left>>
(* A read of the journal or of the base that fails marks the disk.         *)
ReadFails ==
  /\ ~stop /\ ~disk.fault /\ Mishap
  /\ disk' = [disk EXCEPT !.fault = TRUE]
  /\ UNCHANGED <<vmVars, hostVars, fsVars, writer, lease, stop, point>>

(* The publication of the point frees the journal up to the seal, and the  *)
(* next status of the disk sees it.                                        *)
PublishPoint ==
  /\ ~stop /\ At("idle") /\ point.label # "none" /\ ~disk.waiting
  /\ point' = NoPoint
  /\ disk' = [disk EXCEPT !.low = FALSE, !.late = FALSE, !.dirty = disk.more, !.more = FALSE]
  /\ UNCHANGED <<vmVars, hostVars, fsVars, writer, lease, stop, left>>

---------------------------------------------------------------------------
MonitorStep == Monitor \/ MonitorConfirmed \/ PauseLost
CaptureStep == \/ Settle \/ Woken \/ FreezeSent \/ Seal \/ Resumed \/ Unlock
               \/ Thaw(TRUE) \/ ThawLater(TRUE) \/ ThawStopped
GiveUp      == SettleFails \/ FreezeUnanswered \/ CallerGone
Trouble     == \/ \E g \in BOOLEAN : MonitorLost(g)
               \/ SettleLost \/ PauseRefused \/ Thaw(FALSE) \/ ThawLater(FALSE) \/ LeaseLost
               \/ Waits \/ ReadFails \/ Ages

ControlNext ==
  \/ ServeApi \/ MonitorStep \/ CaptureStep \/ GiveUp \/ Trouble
  \/ \E f \in BOOLEAN : CaptureStart(f) \/ Write(f)
  \/ FreezeDone \/ Timer \/ WriteAdmitted \/ LagElapses \/ Answers \/ PublishPoint

(* Tasks of the host and of the guest are scheduled; a lost request is      *)
(* asked again; the object storage answers again; the scheduler of          *)
(* publications keeps asking for points (the control lock is FIFO).        *)
Capturing == Settle \/ Woken \/ FreezeSent \/ Seal \/ Resumed \/ Unlock

Fairness ==
  /\ WF_controlVars(ServeApi) /\ SF_controlVars(Monitor) /\ WF_controlVars(MonitorConfirmed)
  /\ WF_controlVars(Capturing)
  /\ WF_controlVars(SettleFails /\ stop) /\ WF_controlVars(FreezeUnanswered /\ UNCHANGED left)
  /\ SF_controlVars(Thaw(TRUE)) /\ SF_controlVars(ThawLater(TRUE))
  /\ WF_controlVars(ThawStopped) /\ WF_controlVars(CallerGone)
  /\ SF_controlVars(FreezeDone) /\ WF_controlVars(WriteAdmitted) /\ WF_controlVars(LagElapses)
  /\ WF_controlVars(Answers) /\ SF_controlVars(CaptureStart(FALSE)) /\ SF_controlVars(PublishPoint)

ControlSpec == ControlInit /\ [][ControlNext]_controlVars /\ Fairness

---------------------------------------------------------------------------
(* A point published as consistent for its file systems was sealed with    *)
(* the CPUs paused and the file systems frozen, whatever answers were lost *)
(* and whichever timer ran, unless a detached thaw of an earlier capture  *)
(* reached the guest in between.                                           *)
SealedQuiet == point.quiet /\ (point.frozen \/ point.overtaken)

(* The same without the exception: what a point not marked as              *)
(* crash-consistent promises.                                              *)
FilesystemMeansFrozen == point.frozen

(* Once the CPUs of a VM without a lease are asked to pause, nothing       *)
(* resumes them: a request queued before is served before.                 *)
FencedStaysPaused ==
  lease = "fenced" => (api # <<>> => api[Len(api)][1] = "paused")
                      /\ (api = <<>> => cpu = "paused")

(* The guest does not stay frozen, even if its own timer never fires: a    *)
(* capture or its detached thaw ends every freeze, one whose answer was    *)
(* lost included.                                                          *)
GuestThaws == fs = "frozen" ~> fs = "thawed" \/ stop \/ disk.fault

(* A VM is not left paused by a capture, a lost answer or a late backup:    *)
(* it runs again, unless the disk is faulty, full or without its storage.  *)
RunsAgain ==
  cpu = "paused" ~> cpu = "running" \/ stop \/ disk.fault \/ disk.low \/ disk.waiting

(* Everyone waits for everyone when the node's disk is full: the write for *)
(* space, the guest's freeze for the write, the capture for the freeze and *)
(* space for a capture.  The write is admitted in the end.                 *)
WriteEnds == writer ~> ~writer

(* A point is sealed on a quiet VM, and a VM without a lease stays paused  *)
(* (checkpoint.rs, broker.rs).                                             *)
QuietAndFenced ==
  /\ SealedQuiet
  /\ FencedStaysPaused

(* No VM stands still for ever: a frozen guest thaws, a paused one runs    *)
(* again, and a write that waits for space is admitted.                    *)
GuestGoesOn ==
  /\ GuestThaws
  /\ RunsAgain
  /\ WriteEnds
=============================================================================

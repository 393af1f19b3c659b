-------------------------- MODULE RunWorkerProofs --------------------------
(***************************************************************************)
(* Proofs about RunWorker, for every set of runs, executions and attempts  *)
(* and every bound.                                                        *)
(***************************************************************************)
EXTENDS RunWorker, TLAPS

(* The constant values the variables start from and return to are typed.   *)
LEMMA ValueTypes ==
    /\ NoCkpt \in Ckpt
    /\ Fresh \in Ckpt
    /\ IdleExec \in ExecState
    /\ IdleTick \in TickState
    /\ QueuedRun \in RunDoc
    /\ 0 \in 0 .. MaxRetries
<1>1. NoCkpt \in Ckpt
  BY ConstantsAssumption DEF NoCkpt, Ckpt, Statuses
<1>2. Fresh \in Ckpt
  BY <1>1, Zenon DEF Fresh, Ckpt
<1>3. IdleExec \in ExecState
  BY <1>1 DEF IdleExec, ExecState, ExecPcs, Exits, Errors, Statuses
<1>4. IdleTick \in TickState
  BY <1>1 DEF IdleTick, TickState, TickPcs
<1>5. QueuedRun \in RunDoc /\ 0 \in 0 .. MaxRetries
  BY ConstantsAssumption DEF QueuedRun, RunDoc, Statuses
<1>6. QED
  BY <1>1, <1>2, <1>3, <1>4, <1>5

LEMMA InitTypes == Init => TypeOK
<1> SUFFICES ASSUME Init PROVE TypeOK
  OBVIOUS
<1>1. exec \in [Execs -> ExecState] /\ tick \in TickState
      /\ run \in [Runs -> RunDoc] /\ ckpt \in [Runs -> Ckpt]
  BY ValueTypes DEF Init
<1>2. \A e \in Execs : exec[e].pc = "free"
  BY DEF Init, IdleExec
<1>3. tick.pc = "idle"
  BY DEF Init, IdleTick
<1>4. used \in [launch: 0 .. MaxLaunches, stop: 0 .. MaxStops,
        cancel: 0 .. MaxCancels, resume: 0 .. MaxResumes, io: 0 .. MaxIoErrors]
  BY ConstantsAssumption DEF Init
<1>5. QED
  BY <1>1, <1>2, <1>3, <1>4 DEF Init, TypeOK, Attempting

(* The program counters and exits the executions move through.             *)
LEMMA Labels ==
    /\ {"fail", "release", "afence", "switch", "efence"} \subseteq ExecPcs
    /\ {"fail", "release", "afence", "switch", "efence"} \cap Attempting = {}
    /\ "none" \in Exits
    /\ "unavailable" \in Errors
  BY DEF ExecPcs, Exits, Errors, Attempting

(* Patches of a run document keep its shape.                               *)
LEMMA PatchTypes ==
  ASSUME NEW doc \in RunDoc, NEW status \in Statuses
  PROVE  /\ Requeued(doc) \in RunDoc
         /\ SettledRun(doc, status) \in RunDoc
<1>1. Requeued(doc) \in RunDoc
  BY Zenon DEF Requeued, RunDoc, Statuses
<1>2. SettledRun(doc, status) \in RunDoc
  BY ValueTypes, Zenon DEF SettledRun, RunDoc
<1>3. QED
  BY <1>1, <1>2
----------------------------------------
(* The part of the type invariant about executions, and about one of them. *)
ExecOK(x) ==
    /\ x \in ExecState
    /\ x.pc # "free" => x.run \in Runs
    /\ x.pc \in Attempting => x.attempt \in Attempts

ExecsOK ==
    /\ exec \in [Execs -> ExecState]
    /\ \A f \in Execs :
         /\ exec[f].pc # "free" => exec[f].run \in Runs
         /\ exec[f].pc \in Attempting => exec[f].attempt \in Attempts

(* What an action of a spawned execution may rely on.                      *)
LEMMA ExecFacts ==
  ASSUME TypeOK, NEW e \in Execs, exec[e].pc # "free"
  PROVE  /\ exec[e] \in ExecState
         /\ exec[e].run \in Runs
         /\ exec[e].ck \in Ckpt
         /\ exec[e].seen \in Ckpt
         /\ run[exec[e].run] \in RunDoc
         /\ ckpt[exec[e].run] \in Ckpt
<1>1. exec[e] \in ExecState /\ exec[e].run \in Runs
  BY Zenon DEF TypeOK
<1>2. exec[e].ck \in Ckpt /\ exec[e].seen \in Ckpt
  BY <1>1, Zenon DEF ExecState
<1>3. QED
  BY <1>1, <1>2, Zenon DEF TypeOK

LEMMA ExecFrame ==
  ASSUME TypeOK, NEW e \in Execs, NEW x, ExecOK(x), SetExec(e, x)
  PROVE  ExecsOK'
  BY Zenon DEF TypeOK, ExecOK, ExecsOK, SetExec

LEMMA GotoTypes ==
  ASSUME TypeOK, NEW e \in Execs, exec[e].pc # "free", NEW pc \in ExecPcs,
         pc \in Attempting => exec[e].attempt \in Attempts, Goto(e, pc)
  PROVE  ExecsOK'
<1>1. exec[e] \in ExecState /\ exec[e].run \in Runs
  BY ExecFacts
<1>2. ExecOK([exec[e] EXCEPT !.pc = pc])
  BY <1>1, Zenon DEF ExecState, ExecOK
<1>3. QED
  BY <1>2, ExecFrame, Zenon DEF Goto

LEMMA UpdateTypes ==
  ASSUME TypeOK, NEW e \in Execs, exec[e].pc # "free", NEW c \in Ckpt,
         NEW pc \in ExecPcs,
         pc \in Attempting => exec[e].attempt \in Attempts, Update(e, c, pc)
  PROVE  ExecsOK' /\ ckpt' \in [Runs -> Ckpt]
<1>1. exec[e] \in ExecState /\ exec[e].run \in Runs
  BY ExecFacts
<1>2. ExecOK([exec[e] EXCEPT !.ck = c, !.pc = pc])
  BY <1>1, Zenon DEF ExecState, ExecOK
<1>3. ckpt' \in [Runs -> Ckpt]
  BY <1>1, Zenon DEF Update, Store, TypeOK
<1>4. QED
  BY <1>2, <1>3, ExecFrame, Zenon DEF Update

LEMMA RaiseTypes ==
  ASSUME TypeOK, NEW e \in Execs, exec[e].pc # "free", NEW err \in Errors,
         Raise(e, err)
  PROVE  ExecsOK' /\ prep' \in Execs \cup {NoExec, Pass}
<1>1. exec[e] \in ExecState /\ exec[e].run \in Runs
  BY ExecFacts
<1> DEFINE x == [exec[e] EXCEPT !.pc = "fail", !.err = err, !.exit = "none",
                                !.attempt = NoAttempt, !.prev = FALSE]
<1>2. ExecOK(x)
  <2>1. "fail" \in ExecPcs /\ "none" \in Exits /\ "fail" \notin Attempting
    BY Labels
  <2>2. x \in ExecState
    BY <1>1, <2>1, Zenon DEF ExecState
  <2>3. x.run = exec[e].run /\ x.pc = "fail"
    BY <1>1, Zenon DEF ExecState
  <2>4. QED
    BY <1>1, <2>1, <2>2, <2>3, Zenon DEF ExecOK
<1>3. prep' \in Execs \cup {NoExec, Pass}
  BY Zenon DEF Raise, DropPreparation, TypeOK
<1>4. QED
  BY <1>2, <1>3, ExecFrame, Zenon DEF Raise

LEMMA FenceTypes ==
  ASSUME TypeOK, NEW r \in Runs, NEW c \in Ckpt, FenceConfirmed(r, c)
  PROVE  /\ client' \in SUBSET Attempts
         /\ held' \in SUBSET Attempts
         /\ vm' \in [Attempts -> {"none", "live", "gone"}]
         /\ ckpt' \in [Runs -> Ckpt]
<1>1. [c EXCEPT !.proc = NoAttempt] \in Ckpt
  BY Zenon DEF Ckpt
<1>2. ckpt' \in [Runs -> Ckpt]
  BY <1>1, Zenon DEF FenceConfirmed, TypeOK
<1>3. QED
  BY <1>2 DEF FenceConfirmed, TypeOK
----------------------------------------
(* Every action of the scheduling pass keeps the types.                    *)
LEMMA TickFacts ==
  ASSUME TypeOK, tick.pc \notin {"idle", "next"}
  PROVE  /\ tick.run \in Runs
         /\ run[tick.run] \in RunDoc
         /\ ckpt[tick.run] \in Ckpt
         /\ tick.seen \in Ckpt
<1>1. tick.run \in Runs
  BY Zenon DEF TypeOK
<1>2. tick.seen \in Ckpt
  BY Zenon DEF TypeOK, TickState
<1>3. QED
  BY <1>1, <1>2, Zenon DEF TypeOK

LEMMA IdlePc == IdleTick.pc = "idle" /\ IdleExec.pc = "free"
  BY DEF IdleTick, IdleExec

LEMMA NextRunTypes ==
  ASSUME TypeOK
  PROVE  NextRun \in TickState /\ NextRun.pc \in {"idle", "next"}
<1>2. [tick EXCEPT !.pc = "next", !.run = NoRun, !.fencing = FALSE,
                   !.seen = NoCkpt] \in TickState
  BY ValueTypes, Zenon DEF TypeOK, TickState, TickPcs
<1>3. [tick EXCEPT !.pc = "next", !.run = NoRun, !.fencing = FALSE,
                   !.seen = NoCkpt].pc = "next"
  BY Zenon DEF TypeOK, TickState
<1>4. QED
  BY <1>2, <1>3, ValueTypes, IdlePc, Zenon DEF NextRun

(* A pass that stays with its run.                                         *)
LEMMA TickGotoTypes ==
  ASSUME TypeOK, tick.pc \notin {"idle", "next"}, NEW pc \in TickPcs, TickGoto(pc)
  PROVE  tick' \in TickState /\ tick'.run \in Runs
<1>1. tick \in TickState /\ tick.run \in Runs
  BY TickFacts, Zenon DEF TypeOK
<1>2. QED
  BY <1>1, Zenon DEF TickGoto, TickState

LEMMA TickTypes ==
  ASSUME TypeOK, TickStep \/ TickError
  PROVE  TypeOK'
<1>0. tick \in TickState
  BY Zenon DEF TypeOK
<1>1. CASE TickBegin
  <2> DEFINE listed == {r \in Runs : run[r].status \in ActiveStatuses}
             t == [tick EXCEPT !.pc = "next", !.todo = listed,
                       !.queued = {r \in listed : run[r].status = "queued"},
                       !.recovering = {r \in listed : run[r].recovering},
                       !.beside = {r \in listed : Executions(r) # {}}]
  <2>1. t \in TickState /\ t.pc = "next"
    BY <1>0, Zenon DEF TickState, TickPcs
  <2>2. tick' = IdleTick \/ tick' = t
    BY <1>1, Zenon DEF TickBegin
  <2> HIDE DEF t
  <2>3. tick' \in TickState /\ tick'.pc \in {"idle", "next"}
    BY <2>1, <2>2, ValueTypes, IdlePc, Zenon
  <2>4. QED
    BY <1>1, <2>3 DEF TypeOK, TickBegin, storeVars, runnerVars
<1>2. CASE TickPick
  <2>1. PICK r \in tick.todo :
          tick' = IF Handled(r)
                  THEN [tick EXCEPT !.todo = tick.todo \ {r}, !.run = r,
                          !.pc = IF r \in tick.recovering THEN "recover"
                                                          ELSE "admit"]
                  ELSE IF tick.todo \ {r} = {} THEN IdleTick
                  ELSE [tick EXCEPT !.todo = tick.todo \ {r}]
    BY <1>2, Zenon DEF TickPick
  <2>2. r \in Runs /\ tick.todo \ {r} \in SUBSET Runs
    BY <1>0, Zenon DEF TickState
  <2>3. CASE Handled(r)
    <3>1. tick' \in TickState /\ tick'.run = r
      BY <2>1, <2>2, <2>3, <1>0, Zenon DEF TickState, TickPcs
    <3>2. QED
      BY <1>2, <2>2, <3>1 DEF TypeOK, TickPick, storeVars, runnerVars
  <2>4. CASE ~Handled(r)
    <3>1. [tick EXCEPT !.todo = tick.todo \ {r}] \in TickState
          /\ [tick EXCEPT !.todo = tick.todo \ {r}].pc = "next"
      BY <2>2, <1>0, <1>2, Zenon DEF TickState, TickPick
    <3>2. tick' \in TickState /\ tick'.pc \in {"idle", "next"}
      BY <2>1, <2>4, <3>1, ValueTypes, IdlePc, Zenon
    <3>3. QED
      BY <1>2, <3>2 DEF TypeOK, TickPick, storeVars, runnerVars
  <2>5. QED
    BY <2>3, <2>4
<1>3. CASE TickFenceBegin
  <2>1. tick.run \in Runs /\ ckpt[tick.run] \in Ckpt
    BY <1>3, TickFacts DEF TickFenceBegin
  <2>2. tick' \in TickState /\ tick'.run \in Runs
    BY <1>0, <1>3, <2>1, Zenon DEF TickFenceBegin, TickState
  <2>3. QED
    BY <1>3, <2>1, <2>2
       DEF TypeOK, TickFenceBegin, NoteOverlap, storeVars, runnerVars
<1>4. CASE TickFenced
  <2>1. tick.run \in Runs /\ tick.seen \in Ckpt
    BY <1>4, TickFacts DEF TickFenced
  <2>2. tick' \in TickState /\ tick'.run \in Runs
    BY <1>0, <1>4, <2>1, ValueTypes, Zenon DEF TickFenced, TickState, TickPcs
  <2>3. FenceConfirmed(tick.run, tick.seen)
    BY <1>4, Zenon DEF TickFenced
  <2>4. /\ client' \in SUBSET Attempts /\ held' \in SUBSET Attempts
        /\ vm' \in [Attempts -> {"none", "live", "gone"}]
        /\ ckpt' \in [Runs -> Ckpt]
    BY <2>1, <2>3, FenceTypes
  <2>5. QED
    BY <1>4, <2>2, <2>4 DEF TypeOK, TickFenced
<1>5. CASE TickFenceFailed
  BY <1>5, NextRunTypes DEF TypeOK, TickFenceFailed, storeVars, runnerVars
<1>6. CASE TickSettle
  <2> DEFINE r == tick.run
             doc == [run[r] EXCEPT !.resumable =
                       @ /\ (run[r].cancel \/ ckpt[r].settled # "none")]
  <2>1. r \in Runs /\ run[r] \in RunDoc /\ ckpt[r] \in Ckpt
    BY <1>6, TickFacts DEF TickSettle
  <2>2. doc \in RunDoc
    BY <2>1, Zenon DEF RunDoc
  <2>3. RecoverOutcome(r) \in Statuses \cup {"none"}
    BY <2>1, Zenon DEF RecoverOutcome, Ckpt, Statuses
  <2>4. CASE RecoverOutcome(r) = "none"
    <3>1. TickGoto("clear") /\ UNCHANGED run
      BY <1>6, <2>4, Zenon DEF TickSettle
    <3>2. tick' \in TickState /\ tick'.run \in Runs
      BY <1>6, <3>1, TickGotoTypes DEF TickSettle, TickPcs
    <3>3. QED
      BY <1>6, <3>1, <3>2 DEF TypeOK, TickSettle, runnerVars
  <2>5. CASE RecoverOutcome(r) # "none"
    <3>1. PatchRun(r, SettledRun(doc, RecoverOutcome(r))) /\ tick' = NextRun
      BY <1>6, <2>5, Zenon DEF TickSettle
    <3>2. SettledRun(doc, RecoverOutcome(r)) \in RunDoc
      BY <2>2, <2>3, <2>5, PatchTypes
    <3> HIDE DEF doc
    <3>3. run' \in [Runs -> RunDoc]
      BY <2>1, <3>1, <3>2, Zenon DEF PatchRun, TypeOK
    <3>4. QED
      BY <1>6, <3>1, <3>3, NextRunTypes DEF TypeOK, TickSettle, runnerVars
  <2>6. QED
    BY <2>4, <2>5
<1>7. CASE TickClear
  <2> DEFINE r == tick.run
  <2>1. r \in Runs /\ run[r] \in RunDoc
    BY <1>7, TickFacts DEF TickClear
  <2>2. CancelledRun(run[r]) \in RunDoc
    BY <2>1, PatchTypes DEF CancelledRun, Statuses
  <2>3. [run[r] EXCEPT !.recovering = FALSE] \in RunDoc
    BY <2>1, Zenon DEF RunDoc
  <2>4. run' \in [Runs -> RunDoc]
    BY <1>7, <2>1, <2>2, <2>3, Zenon DEF TickClear, PatchRun, TypeOK
  <2>5. \/ tick' = NextRun
        \/ TickGoto("admit")
    BY <1>7, Zenon DEF TickClear
  <2>6. CASE tick' = NextRun
    BY <1>7, <2>4, <2>6, NextRunTypes DEF TypeOK, TickClear, runnerVars
  <2>7. CASE TickGoto("admit")
    <3>1. tick' \in TickState /\ tick'.run \in Runs
      BY <1>7, <2>7, TickGotoTypes DEF TickClear, TickPcs
    <3>2. QED
      BY <1>7, <2>4, <3>1 DEF TypeOK, TickClear, runnerVars
  <2>8. QED
    BY <2>5, <2>6, <2>7
<1>8. CASE TickAdmit
  <2>1. CASE tick' = NextRun /\ UNCHANGED prep
    BY <1>8, <2>1, NextRunTypes DEF TypeOK, TickAdmit, storeVars, runnerVars
  <2>2. CASE TickGoto("acquire") /\ prep' = Pass
    <3>1. tick' \in TickState /\ tick'.run \in Runs
      BY <1>8, <2>2, TickGotoTypes DEF TickAdmit, TickPcs
    <3>2. QED
      BY <1>8, <2>2, <3>1 DEF TypeOK, TickAdmit, storeVars, runnerVars
  <2>3. QED
    BY <1>8, <2>1, <2>2, Zenon DEF TickAdmit
<1>9. CASE TickAcquire
  <2>1. CASE tick' = NextRun /\ prep' = NoExec /\ UNCHANGED leases
    BY <1>9, <2>1, NextRunTypes DEF TypeOK, TickAcquire, storeVars, runnerVars
  <2>2. CASE TickGoto("insert") /\ leases' = leases \cup {tick.run} /\ UNCHANGED prep
    <3>1. tick' \in TickState /\ tick'.run \in Runs /\ tick.run \in Runs
      BY <1>9, <2>2, TickGotoTypes, TickFacts DEF TickAcquire, TickPcs
    <3>2. QED
      BY <1>9, <2>2, <3>1 DEF TypeOK, TickAcquire, storeVars, runnerVars
  <2>3. QED
    BY <1>9, <2>1, <2>2, Zenon DEF TickAcquire
<1>10. CASE TickInsert
  <2> DEFINE r == tick.run
             x == [IdleExec EXCEPT !.pc = "load", !.run = r, !.account = TRUE]
  <2>1. r \in Runs
    BY <1>10, TickFacts DEF TickInsert
  <2>2. ExecOK(x)
    BY <2>1, ValueTypes, Zenon DEF ExecOK, ExecState, ExecPcs, Attempting
  <2>3. PICK e \in Execs : SetExec(e, x) /\ active' = [active EXCEPT ![r] = e]
                           /\ prep' = e
    BY <1>10, Zenon DEF TickInsert
  <2>4. ExecsOK'
    BY <2>2, <2>3, ExecFrame
  <2>5. used' \in [launch: 0 .. MaxLaunches, stop: 0 .. MaxStops,
        cancel: 0 .. MaxCancels, resume: 0 .. MaxResumes, io: 0 .. MaxIoErrors]
    BY <1>10, ConstantsAssumption DEF TickInsert, TypeOK
  <2> HIDE DEF x
  <2>6. QED
    BY <1>10, <2>1, <2>3, <2>4, <2>5, NextRunTypes
       DEF TypeOK, ExecsOK, TickInsert, NoteOverlap, storeVars, runnerVars
<1>11. CASE TickError
  <2>1. used' \in [launch: 0 .. MaxLaunches, stop: 0 .. MaxStops,
        cancel: 0 .. MaxCancels, resume: 0 .. MaxResumes, io: 0 .. MaxIoErrors]
    BY <1>11, ConstantsAssumption DEF TickError, TypeOK
  <2>2. leases' \in SUBSET Runs
    BY <1>11 DEF TickError, TypeOK, LeasesAfterError
  <2>3. QED
    BY <1>11, <2>1, <2>2, ValueTypes, IdlePc
       DEF TypeOK, TickError, storeVars, runnerVars
<1>12. QED
  BY <1>1, <1>2, <1>3, <1>4, <1>5, <1>6, <1>7, <1>8, <1>9, <1>10, <1>11
     DEF TickStep
----------------------------------------
(* Every action of an execution keeps the types.                           *)
UsedOK == used \in [launch: 0 .. MaxLaunches, stop: 0 .. MaxStops,
                    cancel: 0 .. MaxCancels, resume: 0 .. MaxResumes,
                    io: 0 .. MaxIoErrors]

LEMMA FenceDoneTypes ==
  ASSUME TypeOK, NEW e \in Execs, ExecFenced(e)
  PROVE  TypeOK'
<1> DEFINE next == IF exec[e].pc = "afence" THEN "judge" ELSE "release"
           last == exec[e].pc = "efence"
           x == [exec[e] EXCEPT !.fencing = FALSE, !.seen = NoCkpt,
                                !.fenced = last, !.pc = next]
<1>1. exec[e] \in ExecState /\ exec[e].run \in Runs /\ exec[e].seen \in Ckpt
  BY ExecFacts DEF ExecFenced
<1>2. last \in BOOLEAN /\ next \in {"judge", "release"} /\ next \in ExecPcs
  BY DEF ExecPcs
<1>3. SetExec(e, x) /\ FenceConfirmed(exec[e].run, exec[e].seen)
  BY Zenon DEF ExecFenced
<1> HIDE DEF next, last
<1>4. x \in ExecState /\ x.run = exec[e].run /\ x.pc = next
  BY <1>1, <1>2, ValueTypes, Zenon DEF ExecState
<1>5. ExecOK(x)
  BY <1>1, <1>2, <1>4, Zenon DEF ExecOK, Attempting
<1> HIDE DEF x
<1>7. ExecsOK'
  BY <1>3, <1>5, ExecFrame
<1>8. /\ client' \in SUBSET Attempts /\ held' \in SUBSET Attempts
      /\ vm' \in [Attempts -> {"none", "live", "gone"}]
      /\ ckpt' \in [Runs -> Ckpt]
  BY <1>1, <1>3, FenceTypes
<1>9. QED
  BY <1>7, <1>8 DEF TypeOK, ExecsOK, ExecFenced

LEMMA FenceFailedTypes ==
  ASSUME TypeOK, NEW e \in Execs, ExecFenceFailed(e)
  PROVE  TypeOK'
<1> DEFINE r == exec[e].run
           done == [exec[e] EXCEPT !.fencing = FALSE, !.seen = NoCkpt]
           c == [exec[e].ck EXCEPT !.settled =
                   IF run[r].status = "queued" THEN @ ELSE run[r].status]
           x == [done EXCEPT !.pc = "fail", !.err = "unavailable", !.exit = "none"]
           y == [done EXCEPT !.pc = "release", !.ck = c]
<1>1. /\ exec[e] \in ExecState /\ r \in Runs /\ exec[e].ck \in Ckpt
      /\ run[r] \in RunDoc
  BY ExecFacts DEF ExecFenceFailed
<1>a. /\ {"fail", "release"} \subseteq ExecPcs /\ "none" \in Exits
      /\ "unavailable" \in Errors
      /\ "fail" \notin Attempting /\ "release" \notin Attempting
  BY Labels
<1>2. c \in Ckpt
  <2> DEFINE s == IF run[r].status = "queued" THEN exec[e].ck.settled
                  ELSE run[r].status
  <2>1. s \in {"none"} \cup Statuses
    BY <1>1, Zenon DEF Ckpt, RunDoc
  <2> HIDE DEF s
  <2>2. [exec[e].ck EXCEPT !.settled = s] \in Ckpt
    BY <1>1, <2>1, Zenon DEF Ckpt
  <2>3. QED
    BY <2>2, Zenon DEF s
<1>3. done \in ExecState /\ done.run = r
  BY <1>1, ValueTypes, Zenon DEF ExecState
<1> HIDE DEF c, done
<1>4. ExecOK(x)
  <2>1. x \in ExecState
    BY <1>3, <1>a, Zenon DEF ExecState
  <2>2. x.run = r /\ x.pc = "fail"
    BY <1>3, Zenon DEF ExecState
  <2>3. QED
    BY <1>1, <1>a, <2>1, <2>2, Zenon DEF ExecOK
<1>5. ExecOK(y)
  <2>1. y \in ExecState
    BY <1>2, <1>3, <1>a, Zenon DEF ExecState
  <2>2. y.run = r /\ y.pc = "release"
    BY <1>3, Zenon DEF ExecState
  <2>3. QED
    BY <1>1, <1>a, <2>1, <2>2, Zenon DEF ExecOK
<1>6. Requeued(run[r]) \in RunDoc
  BY <1>1, PatchTypes DEF Statuses
<1>7. /\ SetExec(e, x) \/ SetExec(e, y)
      /\ UNCHANGED run \/ PatchRun(r, Requeued(run[r]))
      /\ UNCHANGED ckpt \/ Store(r, c)
  BY Zenon DEF ExecFenceFailed, c, done
<1> HIDE DEF x, y
<1>8. ExecsOK'
  BY <1>4, <1>5, <1>7, ExecFrame
<1>9. run' \in [Runs -> RunDoc]
  BY <1>1, <1>6, <1>7 DEF PatchRun, TypeOK
<1>10. ckpt' \in [Runs -> Ckpt]
  BY <1>1, <1>2, <1>7 DEF Store, TypeOK
<1>11. QED
  BY <1>8, <1>9, <1>10 DEF TypeOK, ExecsOK, ExecFenceFailed, runnerVars

LEMMA LaunchTypes ==
  ASSUME TypeOK, NEW e \in Execs,
         \/ ExecLoad(e) \/ ExecMarkRunning(e) \/ ExecPrepare(e)
         \/ ExecReserve(e) \/ ExecPlaced(e) \/ ExecSpawn(e) \/ ExecStart(e)
  PROVE  TypeOK'
<1> DEFINE r == exec[e].run
<1>1. exec[e].pc # "free"
  BY DEF ExecLoad, ExecMarkRunning, ExecPrepare, ExecReserve, ExecPlaced,
         ExecSpawn, ExecStart
<1>2. /\ exec[e] \in ExecState /\ r \in Runs /\ exec[e].ck \in Ckpt
      /\ run[r] \in RunDoc /\ ckpt[r] \in Ckpt
  BY <1>1, ExecFacts
<1>3. CASE ExecLoad(e)
  <2>1. ExecsOK' /\ ckpt' \in [Runs -> Ckpt]
    BY <1>1, <1>2, <1>3, UpdateTypes, ValueTypes
       DEF ExecLoad, ExecPcs, Attempting
  <2>2. QED
    BY <1>3, <2>1 DEF TypeOK, ExecsOK, ExecLoad, runnerVars
<1>4. CASE ExecMarkRunning(e)
  <2>1. [run[r] EXCEPT !.status = "running", !.started = TRUE, !.waiting = FALSE]
          \in RunDoc
    BY <1>2, Zenon DEF RunDoc, Statuses
  <2>2. run' \in [Runs -> RunDoc]
    BY <1>2, <1>4, <2>1, Zenon DEF ExecMarkRunning, PatchRun, TypeOK
  <2>3. ExecsOK'
    BY <1>1, <1>4, GotoTypes DEF ExecMarkRunning, ExecPcs, Attempting
  <2>4. QED
    BY <1>4, <2>2, <2>3 DEF TypeOK, ExecsOK, ExecMarkRunning, runnerVars
<1>5. CASE ExecPrepare(e)
  <2> DEFINE c == [exec[e].ck EXCEPT !.prepared = TRUE]
             doc == [run[r] EXCEPT !.resumable = @ \/ exec[e].ck.launched]
  <2>1. c \in Ckpt /\ doc \in RunDoc
    BY <1>2, Zenon DEF Ckpt, RunDoc
  <2>2. \/ Raise(e, "conflict") /\ UNCHANGED <<run, ckpt>>
        \/ Update(e, c, "reserve") /\ PatchRun(r, doc) /\ UNCHANGED prep
    BY <1>5, Zenon DEF ExecPrepare
  <2> HIDE DEF c, doc
  <2>3. CASE Raise(e, "conflict") /\ UNCHANGED <<run, ckpt>>
    <3>1. ExecsOK' /\ prep' \in Execs \cup {NoExec, Pass}
      BY <1>1, <2>3, RaiseTypes DEF Errors
    <3>2. QED
      BY <1>5, <2>3, <3>1 DEF TypeOK, ExecsOK, ExecPrepare, runnerVars
  <2>4. CASE Update(e, c, "reserve") /\ PatchRun(r, doc) /\ UNCHANGED prep
    <3>1. ExecsOK' /\ ckpt' \in [Runs -> Ckpt]
      BY <1>1, <2>1, <2>4, UpdateTypes DEF ExecPcs, Attempting
    <3>2. run' \in [Runs -> RunDoc]
      BY <1>2, <2>1, <2>4, Zenon DEF PatchRun, TypeOK
    <3>3. QED
      BY <1>5, <2>4, <3>1, <3>2 DEF TypeOK, ExecsOK, ExecPrepare, runnerVars
  <2>5. QED
    BY <2>2, <2>3, <2>4
<1>6. CASE ExecReserve(e)
  <2>1. CASE /\ Raise(e, "conflict") \/ Raise(e, "nocapacity")
             /\ UNCHANGED <<owner, held>>
    <3>1. ExecsOK' /\ prep' \in Execs \cup {NoExec, Pass}
      BY <1>1, <2>1, RaiseTypes DEF Errors
    <3>2. QED
      BY <1>6, <2>1, <3>1 DEF TypeOK, ExecsOK, ExecReserve, runnerVars
  <2>2. CASE /\ UNCHANGED prep
             /\ \E a \in Attempts :
                  /\ owner' = [owner EXCEPT ![a] = r]
                  /\ held' = held \cup {a}
                  /\ SetExec(e, [exec[e] EXCEPT !.pc = "placed", !.attempt = a])
    <3>1. PICK a \in Attempts :
            /\ owner' = [owner EXCEPT ![a] = r]
            /\ held' = held \cup {a}
            /\ SetExec(e, [exec[e] EXCEPT !.pc = "placed", !.attempt = a])
      BY <2>2
    <3>2. ExecOK([exec[e] EXCEPT !.pc = "placed", !.attempt = a])
      BY <1>2, Zenon DEF ExecOK, ExecState, ExecPcs
    <3>3. ExecsOK'
      BY <3>1, <3>2, ExecFrame
    <3>4. owner' \in [Attempts -> Runs \cup {NoRun}] /\ held' \in SUBSET Attempts
      BY <1>2, <3>1 DEF TypeOK
    <3>5. QED
      BY <1>6, <2>2, <3>3, <3>4 DEF TypeOK, ExecsOK, ExecReserve, runnerVars
  <2>3. QED
    BY <1>6, <2>1, <2>2, Zenon DEF ExecReserve
<1>7. CASE ExecPlaced(e)
  <2> DEFINE c == [exec[e].ck EXCEPT !.runner = exec[e].attempt]
  <2>1. exec[e].attempt \in Attempts
    BY <1>7, Zenon DEF ExecPlaced, Attempting, TypeOK
  <2>2. c \in Ckpt
    BY <1>2, <2>1, Zenon DEF Ckpt
  <2> HIDE DEF c
  <2>3. Update(e, c, "spawn") /\ prep' \in Execs \cup {NoExec, Pass}
    BY <1>7, Zenon DEF ExecPlaced, DropPreparation, TypeOK, c
  <2>4. ExecsOK' /\ ckpt' \in [Runs -> Ckpt]
    BY <1>1, <2>1, <2>2, <2>3, UpdateTypes DEF ExecPcs
  <2>5. QED
    BY <1>7, <2>3, <2>4 DEF TypeOK, ExecsOK, ExecPlaced, runnerVars
<1>8. CASE ExecSpawn(e)
  <2> DEFINE c == [exec[e].ck EXCEPT !.launched = TRUE, !.completed = FALSE,
                     !.cause = "none", !.proc = exec[e].attempt]
             x == [exec[e] EXCEPT !.pc = "start", !.ck = c,
                     !.prev = exec[e].ck.launched, !.exit = "none"]
  <2>1. exec[e].attempt \in Attempts
    BY <1>8, Zenon DEF ExecSpawn, Attempting, TypeOK
  <2>2. c \in Ckpt /\ exec[e].ck.launched \in BOOLEAN
    BY <1>2, <2>1, Zenon DEF Ckpt
  <2>3. \/ Raise(e, "unavailable") /\ UNCHANGED ckpt
        \/ SetExec(e, x) /\ Store(r, c) /\ UNCHANGED prep
    BY <1>8, Zenon DEF ExecSpawn
  <2> HIDE DEF c
  <2>4. ExecOK(x)
    BY <1>2, <2>1, <2>2, Zenon DEF ExecOK, ExecState, ExecPcs, Exits
  <2> HIDE DEF x
  <2>5. CASE Raise(e, "unavailable") /\ UNCHANGED ckpt
    <3>1. ExecsOK' /\ prep' \in Execs \cup {NoExec, Pass}
      BY <1>1, <2>5, RaiseTypes DEF Errors
    <3>2. QED
      BY <1>8, <2>5, <3>1 DEF TypeOK, ExecsOK, ExecSpawn, runnerVars
  <2>6. CASE SetExec(e, x) /\ Store(r, c) /\ UNCHANGED prep
    <3>1. ExecsOK'
      BY <2>4, <2>6, ExecFrame
    <3>2. QED
      BY <1>2, <1>8, <2>2, <2>6, <3>1
         DEF TypeOK, ExecsOK, ExecSpawn, Store, runnerVars
  <2>7. QED
    BY <2>3, <2>5, <2>6
<1>9. CASE ExecStart(e)
  <2>1. exec[e].attempt \in Attempts
    BY <1>9, Zenon DEF ExecStart, Attempting, TypeOK
  <2>2. CASE Raise(e, "conflict") /\ UNCHANGED client
    <3>1. ExecsOK' /\ prep' \in Execs \cup {NoExec, Pass}
      BY <1>1, <2>2, RaiseTypes DEF Errors
    <3>2. QED
      BY <1>9, <2>2, <3>1 DEF TypeOK, ExecsOK, ExecStart, storeVars
  <2>3. CASE /\ client' = client \cup {exec[e].attempt}
             /\ Goto(e, "wait") /\ UNCHANGED prep
    <3>1. ExecsOK'
      BY <1>1, <2>1, <2>3, GotoTypes DEF ExecPcs
    <3>2. QED
      BY <1>9, <2>1, <2>3, <3>1 DEF TypeOK, ExecsOK, ExecStart, storeVars
  <2>4. QED
    BY <1>9, <2>2, <2>3, Zenon DEF ExecStart
<1>10. QED
  BY <1>3, <1>4, <1>5, <1>6, <1>7, <1>8, <1>9
----------------------------------------
LEMMA ReportTypes ==
  ASSUME TypeOK, NEW e \in Execs,
         \/ ExecThreadStarted(e) \/ ExecTurnCompleted(e) \/ ExecTurnFailed(e)
         \/ Heartbeat(e) \/ ExecIoError(e)
  PROVE  TypeOK'
<1> DEFINE r == exec[e].run
<1>1. exec[e].pc # "free"
  BY DEF ExecThreadStarted, ExecTurnCompleted, ExecTurnFailed, Heartbeat,
         ExecIoError, Reporting
<1>2. /\ exec[e] \in ExecState /\ r \in Runs /\ exec[e].ck \in Ckpt
      /\ run[r] \in RunDoc /\ ckpt[r] \in Ckpt
  BY <1>1, ExecFacts
<1>3. CASE ExecThreadStarted(e)
  <2>1. [run[r] EXCEPT !.session = TRUE, !.resumable = TRUE] \in RunDoc
    BY <1>2, Zenon DEF RunDoc
  <2>2. run' \in [Runs -> RunDoc]
    BY <1>2, <1>3, <2>1, Zenon DEF ExecThreadStarted, PatchRun, TypeOK
  <2>3. QED
    BY <1>3, <2>2 DEF TypeOK, ExecThreadStarted, runnerVars, workerVars
<1>4. CASE ExecTurnCompleted(e)
  <2>1. [exec[e].ck EXCEPT !.completed = TRUE] \in Ckpt
    BY <1>2, Zenon DEF Ckpt
  <2>2. exec[e].attempt \in Attempts
    BY <1>4, Zenon DEF ExecTurnCompleted, Reporting, Attempting, TypeOK
  <2>3. ExecsOK' /\ ckpt' \in [Runs -> Ckpt]
    BY <1>1, <1>4, <2>1, <2>2, UpdateTypes DEF ExecTurnCompleted, ExecPcs
  <2>4. QED
    BY <1>4, <2>3 DEF TypeOK, ExecsOK, ExecTurnCompleted, runnerVars
<1>5. CASE ExecTurnFailed(e)
  <2>1. PICK cause \in {"terminal", "retriable"} :
          Update(e, [exec[e].ck EXCEPT !.cause = cause, !.completed = FALSE], "wait")
    BY <1>5, Zenon DEF ExecTurnFailed
  <2>2. [exec[e].ck EXCEPT !.cause = cause, !.completed = FALSE] \in Ckpt
    BY <1>2, Zenon DEF Ckpt
  <2>3. exec[e].attempt \in Attempts
    BY <1>5, Zenon DEF ExecTurnFailed, Reporting, Attempting, TypeOK
  <2>4. ExecsOK' /\ ckpt' \in [Runs -> Ckpt]
    BY <1>1, <2>1, <2>2, <2>3, UpdateTypes DEF ExecPcs
  <2>5. QED
    BY <1>5, <2>4 DEF TypeOK, ExecsOK, ExecTurnFailed, runnerVars
<1>6. CASE Heartbeat(e)
  BY <1>2, <1>6 DEF TypeOK, Heartbeat, Store, runnerVars, workerVars
<1>7. CASE ExecIoError(e)
  <2>1. UsedOK'
    BY <1>7, ConstantsAssumption DEF ExecIoError, TypeOK, UsedOK
  <2>2. leases' \in SUBSET Runs
    BY <1>1, <1>7 DEF ExecIoError, TypeOK, LeasesAfterError
  <2>3. CASE Goto(e, "requeue") /\ DropPreparation(e)
    <3>1. ExecsOK'
      BY <1>1, <2>3, GotoTypes DEF ExecPcs, Attempting
    <3>2. QED
      BY <1>7, <2>1, <2>2, <2>3, <3>1 DEF TypeOK, UsedOK, ExecsOK, ExecIoError,
         DropPreparation, storeVars, runnerVars
  <2>4. CASE Raise(e, "conflict")
    <3>1. ExecsOK' /\ prep' \in Execs \cup {NoExec, Pass}
      BY <1>1, <2>4, RaiseTypes DEF Errors
    <3>2. QED
      BY <1>7, <2>1, <2>2, <3>1 DEF TypeOK, UsedOK, ExecsOK, ExecIoError,
         storeVars, runnerVars
  <2>5. QED
    BY <1>7, <2>3, <2>4, Zenon DEF ExecIoError
<1>8. QED
  BY <1>3, <1>4, <1>5, <1>6, <1>7

LEMMA ExitTypes ==
  ASSUME TypeOK, NEW e \in Execs, ExecExit(e)
  PROVE  TypeOK'
<1> DEFINE r == exec[e].run
           first(exit) == exit = "rejected" /\ ~exec[e].prev /\ ~run[r].session
           c(exit) == [exec[e].ck EXCEPT !.proc = NoAttempt,
                        !.cause = IF exit = "rejected" THEN "terminal" ELSE @,
                        !.launched = @ /\ ~first(exit)]
           x(exit) == [exec[e] EXCEPT !.pc = "afence", !.exit = exit,
                         !.ck = c(exit), !.attempt = NoAttempt, !.prev = FALSE]
<1>1. PICK exit \in ExitsNow(e) : Store(r, c(exit)) /\ SetExec(e, x(exit))
  BY Zenon DEF ExecExit
<1>2. exec[e] \in ExecState /\ r \in Runs /\ exec[e].ck \in Ckpt
  BY ExecFacts DEF ExecExit
<1>3. c(exit) \in Ckpt
  <2> DEFINE cause == IF exit = "rejected" THEN "terminal" ELSE exec[e].ck.cause
             l == exec[e].ck.launched /\ ~first(exit)
  <2>1. cause \in {"none", "terminal", "retriable"} /\ l \in BOOLEAN
    BY <1>2, Zenon DEF Ckpt
  <2> HIDE DEF cause, l
  <2>2. [exec[e].ck EXCEPT !.proc = NoAttempt, !.cause = cause, !.launched = l]
          \in Ckpt
    BY <1>2, <2>1, Zenon DEF Ckpt
  <2>3. QED
    BY <2>2, Zenon DEF cause, l
<1>4. exit \in Exits
  BY Zenon DEF ExitsNow, Exits
<1> HIDE DEF c
<1>5. ExecOK(x(exit))
  <2>1. x(exit) \in ExecState
    BY <1>2, <1>3, <1>4, Zenon DEF ExecState, ExecPcs
  <2>2. x(exit).run = r /\ x(exit).pc = "afence"
    BY <1>2, Zenon DEF ExecState
  <2>3. QED
    BY <1>2, <2>1, <2>2, Zenon DEF ExecOK, Attempting
<1> HIDE DEF x
<1>6. ExecsOK'
  BY <1>1, <1>5, ExecFrame
<1>7. ckpt' \in [Runs -> Ckpt]
  BY <1>1, <1>2, <1>3 DEF Store, TypeOK
<1>8. QED
  BY <1>6, <1>7 DEF TypeOK, ExecsOK, ExecExit
----------------------------------------
LEMMA JudgeTypes ==
  ASSUME TypeOK, NEW e \in Execs, ExecJudge(e) \/ ExecSwitch(e)
  PROVE  TypeOK'
<1> DEFINE r == exec[e].run
<1>1. exec[e].pc # "free"
  BY DEF ExecJudge, ExecSwitch
<1>2. exec[e] \in ExecState /\ r \in Runs /\ run[r] \in RunDoc
  BY <1>1, ExecFacts
<1>3. CASE ExecJudge(e)
  <2> DEFINE x == [exec[e] EXCEPT !.pc = "switch", !.account = FALSE,
                                  !.exit = "none"]
             y == [exec[e] EXCEPT !.pc = "efence", !.exit = "none"]
             doc == [run[r] EXCEPT
                       !.status = Verdict(e), !.resumable = run[r].session,
                       !.retry = IF Verdict(e) = "succeeded" THEN 0 ELSE @]
  <2>1. \/ /\ Raise(e, "conflict") \/ Raise(e, "unavailable")
                \/ Raise(e, "retriable")
           /\ UNCHANGED <<run, leases>>
        \/ /\ leases' = leases \ {r} /\ SetExec(e, x)
           /\ UNCHANGED <<run, prep>>
        \/ /\ PatchRun(r, doc) /\ SetExec(e, y)
           /\ UNCHANGED <<leases, prep>>
    BY <1>3, Zenon DEF ExecJudge
  <2>2. CASE /\ Raise(e, "conflict") \/ Raise(e, "unavailable")
                \/ Raise(e, "retriable")
             /\ UNCHANGED <<run, leases>>
    <3>1. ExecsOK' /\ prep' \in Execs \cup {NoExec, Pass}
      BY <1>1, <2>2, RaiseTypes DEF Errors
    <3>2. QED
      BY <1>3, <2>2, <3>1 DEF TypeOK, ExecsOK, ExecJudge, runnerVars
  <2>3. CASE /\ leases' = leases \ {r} /\ SetExec(e, x)
             /\ UNCHANGED <<run, prep>>
    <3>1. ExecOK(x)
      <4>1. /\ "switch" \in ExecPcs /\ "none" \in Exits
            /\ "switch" \notin Attempting
        BY Labels
      <4>2. x \in ExecState
        BY <1>2, <4>1, Zenon DEF ExecState
      <4>3. x.run = r /\ x.pc = "switch"
        BY <1>2, Zenon DEF ExecState
      <4>4. QED
        BY <1>2, <4>1, <4>2, <4>3, Zenon DEF ExecOK
    <3> HIDE DEF x
    <3>2. ExecsOK'
      BY <2>3, <3>1, ExecFrame
    <3>3. QED
      BY <1>3, <2>3, <3>2 DEF TypeOK, ExecsOK, ExecJudge, runnerVars
  <2>4. CASE /\ PatchRun(r, doc) /\ SetExec(e, y)
             /\ UNCHANGED <<leases, prep>>
    <3>1. ExecOK(y)
      BY <1>2, Zenon DEF ExecOK, ExecState, ExecPcs, Exits, Attempting
    <3>2. Verdict(e) \in Statuses
      BY Zenon DEF Verdict, Statuses
    <3>3. doc \in RunDoc
      BY <1>2, <3>2, ValueTypes, Zenon DEF RunDoc
    <3> HIDE DEF y, doc
    <3>4. ExecsOK'
      BY <2>4, <3>1, ExecFrame
    <3>5. run' \in [Runs -> RunDoc]
      BY <1>2, <2>4, <3>3 DEF PatchRun, TypeOK
    <3>6. QED
      BY <1>3, <2>4, <3>4, <3>5 DEF TypeOK, ExecsOK, ExecJudge, runnerVars
  <2>5. QED
    BY <2>1, <2>2, <2>3, <2>4
<1>4. CASE ExecSwitch(e)
  <2>1. CASE Raise(e, "conflict") /\ UNCHANGED leases
    <3>1. ExecsOK' /\ prep' \in Execs \cup {NoExec, Pass}
      BY <1>1, <2>1, RaiseTypes DEF Errors
    <3>2. QED
      BY <1>4, <2>1, <3>1 DEF TypeOK, ExecsOK, ExecSwitch, storeVars, runnerVars
  <2>2. CASE /\ leases' = leases \cup {r}
             /\ SetExec(e, [exec[e] EXCEPT !.pc = "reserve", !.account = TRUE])
             /\ UNCHANGED prep
    <3>1. ExecOK([exec[e] EXCEPT !.pc = "reserve", !.account = TRUE])
      BY <1>2, Zenon DEF ExecOK, ExecState, ExecPcs, Attempting
    <3>2. ExecsOK'
      BY <2>2, <3>1, ExecFrame
    <3>3. QED
      BY <1>2, <1>4, <2>2, <3>2
         DEF TypeOK, ExecsOK, ExecSwitch, storeVars, runnerVars
  <2>3. QED
    BY <1>4, <2>1, <2>2, Zenon DEF ExecSwitch
<1>5. QED
  BY <1>3, <1>4

LEMMA FailTypes ==
  ASSUME TypeOK, NEW e \in Execs, ExecFail(e)
  PROVE  TypeOK'
<1>0. PICK away \in BOOLEAN : FailAs(e, away)
  BY Zenon DEF ExecFail
<1> DEFINE r == exec[e].run
           status == FailureStatus(e, away)
           retried == [Requeued(run[r]) EXCEPT
                         !.retry = @ + 1, !.waiting = TRUE, !.resumable = TRUE]
           c == [exec[e].ck EXCEPT
                  !.recoveries = IF RecoversController(e, away) THEN Counted(@) ELSE @,
                  !.settled = IF NeedsFence(e) /\ status # "queued"
                              THEN status ELSE @]
           x == [exec[e] EXCEPT !.pc = "efence", !.err = "none"]
           y == [exec[e] EXCEPT !.pc = "failpatch", !.ck = c,
                                !.outcome = status, !.err = "none"]
<1>1. exec[e] \in ExecState /\ r \in Runs /\ exec[e].ck \in Ckpt /\ run[r] \in RunDoc
  BY ExecFacts DEF ExecFail
<1>2. \/ /\ MayRetry(e) /\ PatchRun(r, retried) /\ SetExec(e, x)
         /\ UNCHANGED ckpt
      \/ /\ PatchRun(r, Requeued(run[r])) /\ SetExec(e, x)
         /\ UNCHANGED ckpt
      \/ /\ SetExec(e, y) /\ UNCHANGED run
         /\ UNCHANGED ckpt \/ Store(r, c)
  BY <1>0, Zenon DEF FailAs
<1>3. ExecOK(x)
  BY <1>1, Zenon DEF ExecOK, ExecState, ExecPcs, Errors, Attempting
<1>4. Requeued(run[r]) \in RunDoc
  BY <1>1, PatchTypes DEF Statuses
<1>5. status \in Statuses
  BY Zenon DEF FailureStatus, Statuses
<1>6. c \in Ckpt
  <2>1. exec[e].ck.recoveries \in 0 .. MaxRecoveries
    BY <1>1, Zenon DEF Ckpt
  <2>2. Counted(exec[e].ck.recoveries) \in 0 .. MaxRecoveries
    BY <2>1, ConstantsAssumption DEF Counted
  <2>3. QED
    BY <1>1, <1>5, <2>1, <2>2, Zenon DEF Ckpt
<1> HIDE DEF c, status
<1>7. ExecOK(y)
  <2>1. y \in ExecState
    BY <1>1, <1>5, <1>6, Zenon DEF ExecState, ExecPcs, Errors
  <2>2. y.run = r /\ y.pc = "failpatch"
    BY <1>1, Zenon DEF ExecState
  <2>3. QED
    BY <1>1, <2>1, <2>2, Zenon DEF ExecOK, Attempting
<1>8. MayRetry(e) => retried \in RunDoc
  <2>1. Requeued(run[r]).retry = run[r].retry /\ run[r].retry \in 0 .. MaxRetries
    BY <1>1, Zenon DEF Requeued, RunDoc
  <2>2. MayRetry(e) => run[r].retry + 1 \in 0 .. MaxRetries
    BY <2>1, ConstantsAssumption DEF MayRetry
  <2>3. QED
    BY <1>4, <2>1, <2>2, Zenon DEF RunDoc
<1> HIDE DEF x, y, retried
<1>9. ExecsOK'
  BY <1>2, <1>3, <1>7, ExecFrame
<1>10. run' \in [Runs -> RunDoc]
  BY <1>1, <1>2, <1>4, <1>8 DEF PatchRun, TypeOK
<1>11. ckpt' \in [Runs -> Ckpt]
  BY <1>1, <1>2, <1>6 DEF Store, TypeOK
<1>12. QED
  BY <1>9, <1>10, <1>11 DEF TypeOK, ExecsOK, ExecFail, runnerVars

LEMMA EpilogueTypes ==
  ASSUME TypeOK, NEW e \in Execs,
         \/ ExecFenceBegin(e) \/ ExecFailPatch(e) \/ ExecRelease(e)
         \/ ExecRemove(e) \/ ExecRequeue(e)
  PROVE  TypeOK'
<1> DEFINE r == exec[e].run
<1>1. exec[e].pc # "free"
  BY DEF ExecFenceBegin, ExecFailPatch, ExecRelease, ExecRemove, ExecRequeue
<1>2. /\ exec[e] \in ExecState /\ r \in Runs /\ exec[e].ck \in Ckpt
      /\ run[r] \in RunDoc /\ ckpt[r] \in Ckpt
  BY <1>1, ExecFacts
<1>3. CASE ExecFenceBegin(e)
  <2> DEFINE x == [exec[e] EXCEPT !.pc = "release", !.fenced = TRUE]
             y == [exec[e] EXCEPT !.fencing = TRUE, !.seen = ckpt[r]]
  <2>1. SetExec(e, x) \/ SetExec(e, y)
    BY <1>3, Zenon DEF ExecFenceBegin
  <2>2. ExecOK(x)
    BY <1>2, Zenon DEF ExecOK, ExecState, ExecPcs, Attempting
  <2>3. ExecOK(y)
    <3>1. y \in ExecState /\ y.run = r /\ y.pc = exec[e].pc
      BY <1>2, Zenon DEF ExecState
    <3>2. QED
      BY <1>2, <1>3, <3>1, Zenon DEF ExecOK, Attempting, ExecFenceBegin
  <2> HIDE DEF x, y
  <2>4. ExecsOK'
    BY <2>1, <2>2, <2>3, ExecFrame
  <2>5. QED
    BY <1>3, <2>4 DEF TypeOK, ExecsOK, ExecFenceBegin, storeVars, runnerVars
<1>4. CASE ExecFailPatch(e)
  <2> DEFINE doc == [run[r] EXCEPT
               !.status = IF NeedsFence(e) THEN "queued" ELSE exec[e].outcome,
               !.recovering = NeedsFence(e) \/ exec[e].outcome = "queued"]
             x == [exec[e] EXCEPT !.pc = "efence", !.outcome = "queued"]
  <2>1. SetExec(e, x) /\ PatchRun(r, doc)
    BY <1>4, Zenon DEF ExecFailPatch
  <2>2. ExecOK(x)
    BY <1>2, Zenon DEF ExecOK, ExecState, ExecPcs, Statuses, Attempting
  <2>3. exec[e].outcome \in Statuses
        /\ (NeedsFence(e) \/ exec[e].outcome = "queued") \in BOOLEAN
    BY <1>2, Zenon DEF ExecState
  <2>4. doc \in RunDoc
    BY <1>2, <2>3, Zenon DEF RunDoc, Statuses
  <2> HIDE DEF x, doc
  <2>5. ExecsOK' /\ run' \in [Runs -> RunDoc]
    BY <1>2, <2>1, <2>2, <2>4, ExecFrame DEF PatchRun, TypeOK
  <2>6. QED
    BY <1>4, <2>5 DEF TypeOK, ExecsOK, ExecFailPatch, runnerVars
<1>5. CASE ExecRelease(e)
  <2>1. ExecsOK' /\ ckpt' \in [Runs -> Ckpt]
    BY <1>1, <1>2, <1>5, UpdateTypes DEF ExecRelease, ExecPcs, Attempting
  <2>2. exec[e].ck.settled # "none" => exec[e].ck.settled \in Statuses
    BY <1>2, Zenon DEF Ckpt
  <2>3. exec[e].ck.settled # "none" =>
          SettledRun(run[r], exec[e].ck.settled) \in RunDoc
    BY <1>2, <2>2, PatchTypes
  <2>4. run' \in [Runs -> RunDoc]
    BY <1>2, <1>5, <2>3 DEF ExecRelease, PatchRun, TypeOK
  <2>5. QED
    BY <1>5, <2>1, <2>4 DEF TypeOK, ExecsOK, ExecRelease, Released, runnerVars
<1>6. CASE ExecRemove(e)
  <2>1. ExecOK(IdleExec)
    BY ValueTypes, IdlePc, Zenon DEF ExecOK, Attempting
  <2>2. ExecsOK'
    BY <1>6, <2>1, ExecFrame DEF ExecRemove
  <2>3. QED
    BY <1>2, <1>6, <2>2 DEF TypeOK, ExecsOK, ExecRemove, storeVars, runnerVars
<1>7. CASE ExecRequeue(e)
  <2> DEFINE c == IF ckpt[r].exists THEN ckpt[r] ELSE Fresh
             d == [c EXCEPT !.settled =
                     IF run[r].status \in ActiveStatuses THEN @ ELSE run[r].status]
  <2>1. c \in Ckpt
    BY <1>2, ValueTypes
  <2>2. Store(r, d) /\ PatchRun(r, Requeued(run[r])) /\ Goto(e, "remove")
    BY <1>7, Zenon DEF ExecRequeue
  <2> HIDE DEF c
  <2>3. d \in Ckpt
    BY <1>2, <2>1, Zenon DEF Ckpt, RunDoc
  <2>4. Requeued(run[r]) \in RunDoc
    BY <1>2, PatchTypes DEF Statuses
  <2> HIDE DEF d
  <2>5. ExecsOK'
    BY <1>1, <2>2, GotoTypes DEF ExecPcs, Attempting
  <2>6. run' \in [Runs -> RunDoc] /\ ckpt' \in [Runs -> Ckpt]
    BY <1>2, <2>2, <2>3, <2>4 DEF PatchRun, Store, TypeOK
  <2>7. QED
    BY <1>7, <2>5, <2>6 DEF TypeOK, ExecsOK, ExecRequeue, runnerVars
<1>8. QED
  BY <1>3, <1>4, <1>5, <1>6, <1>7
----------------------------------------
(* The owner, the runner, time and the manager process.                    *)
LEMMA OwnerTypes ==
  ASSUME TypeOK, NEW r \in Runs, OwnerStep(r) \/ RetryDue(r)
  PROVE  TypeOK'
<1>1. run[r] \in RunDoc /\ ckpt[r] \in Ckpt
  BY Zenon DEF TypeOK
<1>2. CASE Cancel(r)
  <2> DEFINE asked == [run[r] EXCEPT !.cancel = TRUE]
             f == active[r]
             x == [exec[f] EXCEPT !.token = TRUE]
  <2>1. asked \in RunDoc
    BY <1>1, Zenon DEF RunDoc
  <2>2. CancelledRun(asked) \in RunDoc
    BY <2>1, PatchTypes DEF CancelledRun, Statuses
  <2>3. run' \in [Runs -> RunDoc]
    BY <1>2, <2>1, <2>2, Zenon DEF Cancel, PatchRun, TypeOK
  <2>4. UsedOK'
    BY <1>2, ConstantsAssumption DEF Cancel, TypeOK, UsedOK
  <2>5. CASE f = NoExec
    BY <1>2, <2>3, <2>4, <2>5 DEF TypeOK, UsedOK, Cancel, runnerVars
  <2>6. CASE f # NoExec
    <3>1. f \in Execs /\ exec[f] \in ExecState
      BY <2>6, Zenon DEF TypeOK
    <3>2. /\ x \in ExecState /\ x.pc = exec[f].pc /\ x.run = exec[f].run
          /\ x.attempt = exec[f].attempt
      BY <3>1, Zenon DEF ExecState
    <3>3. ExecOK(x)
      BY <3>1, <3>2, Zenon DEF ExecOK, TypeOK
    <3>4. SetExec(f, x)
      BY <1>2, <2>6, Zenon DEF Cancel, SetExec
    <3> HIDE DEF f, x
    <3>5. ExecsOK'
      BY <3>1, <3>3, <3>4, ExecFrame
    <3>6. QED
      BY <1>2, <2>3, <2>4, <3>5 DEF TypeOK, ExecsOK, UsedOK, Cancel, runnerVars
  <2>7. QED
    BY <2>5, <2>6
<1>3. CASE Resume(r)
  <2> DEFINE before == run[r].status \in {"failed", "cancelled"}
                         /\ ~ckpt[r].launched
             c == [ckpt[r] EXCEPT !.settled = "none", !.cause = "none",
                                  !.completed = @ /\ before]
             doc == [Requeued(run[r]) EXCEPT !.cancel = FALSE, !.retry = 0,
                                             !.waiting = FALSE]
  <2>1. PatchRun(r, doc) /\ (UNCHANGED ckpt \/ Store(r, c))
    BY <1>3, Zenon DEF Resume
  <2>2. c \in Ckpt
    BY <1>1, Zenon DEF Ckpt
  <2>3. Requeued(run[r]) \in RunDoc
    BY <1>1, PatchTypes DEF Statuses
  <2>4. doc \in RunDoc
    BY <2>3, ValueTypes, Zenon DEF RunDoc
  <2> HIDE DEF c, doc
  <2>5. run' \in [Runs -> RunDoc] /\ ckpt' \in [Runs -> Ckpt]
    BY <2>1, <2>2, <2>4 DEF PatchRun, Store, TypeOK
  <2>6. UsedOK'
    BY <1>3, ConstantsAssumption DEF Resume, TypeOK, UsedOK
  <2>7. QED
    BY <1>3, <2>5, <2>6 DEF TypeOK, UsedOK, Resume, runnerVars, workerVars
<1>4. CASE RetryDue(r)
  <2>1. [run[r] EXCEPT !.waiting = FALSE] \in RunDoc
    BY <1>1, Zenon DEF RunDoc
  <2>2. run' \in [Runs -> RunDoc]
    BY <1>4, <2>1, Zenon DEF RetryDue, PatchRun, TypeOK
  <2>3. QED
    BY <1>4, <2>2 DEF TypeOK, RetryDue, runnerVars, workerVars
<1>5. QED
  BY <1>2, <1>3, <1>4 DEF OwnerStep

LEMMA GoneTypes ==
  ASSUME TypeOK, Gone, UsedOK'
  PROVE  TypeOK'
<1>1. exec' \in [Execs -> ExecState] /\ \A e \in Execs : exec'[e].pc = "free"
  BY ValueTypes, IdlePc, Zenon DEF Gone
<1>2. tick' \in TickState /\ tick'.pc = "idle"
  BY ValueTypes, IdlePc, Zenon DEF Gone
<1>3. QED
  BY <1>1, <1>2 DEF TypeOK, Gone, UsedOK, Attempting, storeVars, runnerVars

LEMMA ManagerTypes ==
  ASSUME TypeOK, Shutdown \/ Closed \/ Crash \/ Restart
  PROVE  TypeOK'
<1>1. CASE Shutdown
  <2>1. UsedOK'
    BY <1>1, ConstantsAssumption DEF Shutdown, TypeOK, UsedOK
  <2>2. QED
    BY <1>1, <2>1 DEF TypeOK, UsedOK, Shutdown, storeVars, runnerVars, workerVars
<1>2. CASE Closed
  BY <1>2, GoneTypes DEF Closed, UsedOK, TypeOK
<1>3. CASE Crash
  <2>1. UsedOK'
    BY <1>3, ConstantsAssumption DEF Crash, TypeOK, UsedOK
  <2>2. QED
    BY <1>3, <2>1, GoneTypes DEF Crash
<1>4. CASE Restart
  <2>1. ASSUME NEW r \in Runs PROVE Restored(r) \in RunDoc
    <3>1. run[r] \in RunDoc
      BY Zenon DEF TypeOK
    <3>2. Requeued(run[r]) \in RunDoc
      BY <3>1, PatchTypes DEF Statuses
    <3>3. [run[r] EXCEPT !.status = "interrupted"] \in RunDoc
          /\ [run[r] EXCEPT !.recovering = TRUE] \in RunDoc
      BY <3>1, Zenon DEF RunDoc, Statuses
    <3>4. QED
      BY <3>1, <3>2, <3>3, Zenon DEF Restored
  <2>2. run' \in [Runs -> RunDoc]
    BY <1>4, <2>1, Zenon DEF Restart
  <2>3. QED
    BY <1>4, <2>2 DEF TypeOK, Restart, runnerVars, workerVars
<1>5. QED
  BY <1>1, <1>2, <1>3, <1>4

LEMMA RunnerTypes ==
  ASSUME TypeOK, NEW a \in Attempts, RunnerStep(a)
  PROVE  TypeOK'
<1>1. CASE ClientStartsVm(a)
  BY <1>1 DEF TypeOK, ClientStartsVm, storeVars, workerVars
<1>2. CASE ClientOrphaned(a)
  BY <1>2 DEF TypeOK, ClientOrphaned, storeVars, workerVars
<1>3. QED
  BY <1>1, <1>2 DEF RunnerStep

LEMMA ExecTypes ==
  ASSUME TypeOK, NEW e \in Execs, ExecStep(e) \/ ExecReport(e)
  PROVE  TypeOK'
<1>1. QED
  BY FenceDoneTypes, FenceFailedTypes, LaunchTypes, ReportTypes, ExitTypes,
     JudgeTypes, FailTypes, EpilogueTypes, Zenon DEF ExecStep, ExecReport

LEMMA NextTypes == TypeOK /\ [Next]_vars => TypeOK'
<1> SUFFICES ASSUME TypeOK, [Next]_vars PROVE TypeOK'
  OBVIOUS
<1>1. CASE UNCHANGED vars
  BY <1>1 DEF TypeOK, vars
<1>2. CASE Next
  BY <1>2, TickTypes, ExecTypes, RunnerTypes, OwnerTypes, ManagerTypes, Zenon
     DEF Next
<1>3. QED
  BY <1>1, <1>2

(* Type correctness of the worker, for every instance.                     *)
THEOREM TypeCorrect == Spec => []TypeOK
  BY InitTypes, NextTypes, PTL DEF Spec
----------------------------------------
(* Attempt ownership. AttemptOwnership is inductive together with TypeOK;  *)
(* SingleVm alone is not: a client may start its VM long after its attempt *)
(* was reserved, so what must be kept is that the attempt still blocks its *)
(* run at that moment.                                                     *)
LEMMA OwnershipGivesSingleVm ==
  ASSUME TypeOK, AttemptOwnership
  PROVE  SingleVm
<1> SUFFICES ASSUME NEW a \in Attempts, NEW b \in Attempts,
                    vm[a] = "live", vm[b] = "live", owner[a] = owner[b]
             PROVE  a = b
  BY DEF SingleVm
<1>1. owner[a] # NoRun /\ owner[b] # NoRun
  BY DEF AttemptOwnership, UnownedUntouched
<1>2. a \in held /\ b \in held
  BY <1>1 DEF AttemptOwnership, HeldUntilGone
<1>3. QED
  BY <1>2 DEF AttemptOwnership, OneHeldPerRun

LEMMA NotNoRun == NoRun \notin Runs
  BY ConstantsAssumption

Placement == HeldUntilGone /\ UnownedUntouched /\ OneHeldPerRun

LEMMA PlacementFrame ==
  ASSUME Placement, UNCHANGED <<owner, held, client, vm>>
  PROVE  Placement'
  BY DEF Placement, HeldUntilGone, UnownedUntouched, OneHeldPerRun

(* An execution step that hands no attempt out keeps every name.           *)
LEMMA NamesKept ==
  ASSUME TypeOK, NamesOwnRunner, UNCHANGED <<owner, tick>>,
         NEW e \in Execs, exec[e].pc # "free", NEW x, SetExec(e, x),
         x.run = exec[e].run,
         x.ck.runner = exec[e].ck.runner,
         x.seen.runner \in {NoAttempt, exec[e].seen.runner,
                            ckpt[exec[e].run].runner},
         x.pc \in Attempting => exec[e].pc \in Attempting
                                  /\ x.attempt = exec[e].attempt,
         NEW c, UNCHANGED ckpt \/ Store(exec[e].run, c),
         c.runner \in {NoAttempt, exec[e].ck.runner, exec[e].seen.runner,
                       ckpt[exec[e].run].runner}
  PROVE  NamesOwnRunner'
<1> DEFINE r == exec[e].run
<1>1. r \in Runs
  BY ExecFacts
<1>2. Names(ckpt[r], r) /\ Names(exec[e].ck, r) /\ Names(exec[e].seen, r)
  BY <1>1, Zenon DEF NamesOwnRunner
<1>3. \A q \in Runs : Names(ckpt[q], q)'
  <2> SUFFICES ASSUME NEW q \in Runs PROVE Names(ckpt[q], q)'
    OBVIOUS
  <2>1. CASE ckpt'[q] = ckpt[q]
    BY <2>1, Zenon DEF NamesOwnRunner, Names
  <2>2. CASE q = r /\ ckpt'[q] = c
    BY <1>2, <2>2, Zenon DEF Names
  <2>3. QED
    BY <2>1, <2>2, Zenon DEF Store, TypeOK
<1>4. ASSUME NEW f \in Execs
      PROVE  /\ Names(exec[f].ck, exec[f].run)' /\ Names(exec[f].seen, exec[f].run)'
             /\ (exec[f].pc \in Attempting => owner[exec[f].attempt] = exec[f].run)'
  <2>1. CASE f = e
    <3>1. exec'[f] = x
      BY <2>1, Zenon DEF SetExec, TypeOK
    <3>2. Names(x.ck, r) /\ Names(x.seen, r)
      BY <1>2, Zenon DEF Names
    <3>3. x.pc \in Attempting => owner[x.attempt] = r
      BY Zenon DEF NamesOwnRunner
    <3>4. QED
      BY <3>1, <3>2, <3>3, Zenon DEF Names
  <2>2. CASE f # e
    <3>1. exec'[f] = exec[f]
      BY <2>2, Zenon DEF SetExec, TypeOK
    <3>2. QED
      BY <3>1, Zenon DEF Names, NamesOwnRunner
  <2>3. QED
    BY <2>1, <2>2
<1>5. SeenByPass'
  BY Zenon DEF NamesOwnRunner, SeenByPass
<1>6. QED
  BY <1>3, <1>4, <1>5, Zenon DEF NamesOwnRunner

LEMMA FenceKeeps ==
  ASSUME TypeOK, AttemptOwnership, NEW r \in Runs, NEW c \in Ckpt, Names(c, r),
         FenceConfirmed(r, c), UNCHANGED owner
  PROVE  Placement' /\ \A q \in Runs : Names(ckpt[q], q)'
<1> DEFINE a == FenceTarget(c)
<1>1. a \in Attempts => owner[a] \in Runs
  BY ConstantsAssumption, Zenon DEF FenceTarget, Names
<1>2. /\ client' = client \ {c.proc}
      /\ \A b \in Attempts : vm'[b] = IF b = a THEN "gone" ELSE vm[b]
      /\ held' = held \ {a}
  BY DEF FenceConfirmed
<1>3. held \subseteq Attempts
  BY DEF TypeOK
<1> HIDE DEF a
<1>4. HeldUntilGone'
  BY <1>2 DEF AttemptOwnership, HeldUntilGone
<1>5. UnownedUntouched'
  BY <1>1, <1>2, NotNoRun DEF AttemptOwnership, UnownedUntouched
<1>6. OneHeldPerRun'
  BY <1>2 DEF AttemptOwnership, OneHeldPerRun
<1>7. ASSUME NEW q \in Runs PROVE Names(ckpt[q], q)'
  <2>1. [c EXCEPT !.proc = NoAttempt].runner = c.runner
    BY Zenon DEF Ckpt
  <2>2. ckpt'[q] = ckpt[q] \/ (q = r /\ ckpt'[q] = [c EXCEPT !.proc = NoAttempt])
    BY Zenon DEF FenceConfirmed, TypeOK
  <2>3. QED
    BY <2>1, <2>2, Zenon DEF Names, AttemptOwnership, NamesOwnRunner
<1>8. QED
  BY <1>4, <1>5, <1>6, <1>7 DEF Placement
----------------------------------------
(* The scheduling pass: only a confirmed fence touches an attempt.         *)
LEMMA TickNames ==
  ASSUME TypeOK, NamesOwnRunner, UNCHANGED <<owner, exec>>,
         \A q \in Runs : Names(ckpt[q], q)',
         SeenByPass'
  PROVE  NamesOwnRunner'
<1>1. ASSUME NEW f \in Execs
      PROVE  /\ Names(exec[f].ck, exec[f].run)' /\ Names(exec[f].seen, exec[f].run)'
             /\ (exec[f].pc \in Attempting => owner[exec[f].attempt] = exec[f].run)'
  BY Zenon DEF NamesOwnRunner, Names
<1>2. QED
  BY <1>1, Zenon DEF NamesOwnRunner

LEMMA NoCkptNames == NoCkpt.runner = NoAttempt /\ Fresh.runner = NoAttempt
<1>1. NoCkpt.runner = NoAttempt
  BY DEF NoCkpt
<1>2. Fresh.runner = NoCkpt.runner
  BY ValueTypes, Zenon DEF Fresh, Ckpt
<1>3. QED
  BY <1>1, <1>2

LEMMA NextRunNames ==
  ASSUME TypeOK, tick' = NextRun
  PROVE  SeenByPass'
<1>1. IdleTick.seen = NoCkpt
  BY DEF IdleTick
<1>2. tick \in TickState
  BY Zenon DEF TypeOK
<1>3. [tick EXCEPT !.pc = "next", !.run = NoRun, !.fencing = FALSE,
                   !.seen = NoCkpt].seen = NoCkpt
  BY <1>2, Zenon DEF TickState
<1>4. tick'.seen = NoCkpt
  BY <1>1, <1>3, Zenon DEF NextRun
<1>5. QED
  BY <1>4, NoCkptNames, Zenon DEF SeenByPass

(* tick.seen is the checkpoint of the run the pass works on, or none.      *)
LEMMA TickOwnership ==
  ASSUME TypeOK, AttemptOwnership, TickStep \/ TickError
  PROVE  AttemptOwnership'
<1>0. NamesOwnRunner /\ Placement /\ tick \in TickState
      /\ \A q \in Runs : Names(ckpt[q], q)
  BY DEF AttemptOwnership, Placement, NamesOwnRunner, TypeOK
<1> DEFINE Quiet == UNCHANGED <<owner, held, client, vm, ckpt, exec>>
<1>1. ASSUME Quiet, SeenByPass' PROVE AttemptOwnership'
  <2>1. Placement'
    BY <1>0, <1>1, PlacementFrame
  <2>2. \A q \in Runs : Names(ckpt[q], q)'
    BY <1>0, <1>1, Zenon DEF Names
  <2>3. NamesOwnRunner'
    BY <1>0, <1>1, <2>2, TickNames
  <2>4. QED
    BY <2>1, <2>3 DEF AttemptOwnership, Placement
<1>2. ASSUME Quiet, tick.pc # "recover", tick'.seen = tick.seen
      PROVE AttemptOwnership'
  <2>1. SeenByPass'
    BY <1>0, <1>2, Zenon DEF NamesOwnRunner, SeenByPass
  <2>2. QED
    BY <1>1, <1>2, <2>1
<1>3. ASSUME Quiet, tick' = NextRun PROVE AttemptOwnership'
  BY <1>1, <1>3, NextRunNames
<1>4. IdleTick.seen = NoCkpt
  BY DEF IdleTick
<1>5. ASSUME Quiet, tick'.seen = NoCkpt PROVE AttemptOwnership'
  <2>1. SeenByPass'
    BY <1>5, NoCkptNames, Zenon DEF SeenByPass
  <2>2. QED
    BY <1>1, <1>5, <2>1
<1>6. CASE TickBegin
  <2>1. Quiet
    BY <1>6 DEF TickBegin, storeVars, runnerVars
  <2>2. tick' = IdleTick \/ tick'.seen = tick.seen
    BY <1>0, <1>6, Zenon DEF TickBegin, TickState
  <2>3. tick.pc # "recover"
    BY <1>6 DEF TickBegin
  <2>4. QED
    BY <1>2, <1>4, <1>5, <2>1, <2>2, <2>3
<1>7. CASE TickPick
  <2>1. Quiet
    BY <1>7 DEF TickPick, storeVars, runnerVars
  <2>2. tick' = IdleTick \/ tick'.seen = tick.seen
    BY <1>0, <1>7, Zenon DEF TickPick, TickState
  <2>3. tick.pc # "recover"
    BY <1>7 DEF TickPick
  <2>4. QED
    BY <1>2, <1>4, <1>5, <2>1, <2>2, <2>3
<1>8. CASE TickFenceBegin
  <2>1. Quiet
    BY <1>8 DEF TickFenceBegin, storeVars, runnerVars
  <2>2. tick.run \in Runs
    BY <1>8, TickFacts DEF TickFenceBegin
  <2>3. /\ tick'.seen = ckpt[tick.run] /\ tick'.run = tick.run
        /\ tick'.pc = "recover"
    BY <1>0, <1>8, Zenon DEF TickFenceBegin, TickState
  <2>4. SeenByPass'
    BY <1>0, <2>1, <2>2, <2>3, Zenon DEF Names, SeenByPass
  <2>5. QED
    BY <1>1, <2>1, <2>4
<1>9. CASE TickFenced
  <2>1. tick.run \in Runs /\ tick.seen \in Ckpt /\ Names(tick.seen, tick.run)
    BY <1>0, <1>9, TickFacts, NotNoRun DEF TickFenced, NamesOwnRunner, SeenByPass, Names
  <2>2. Placement' /\ \A q \in Runs : Names(ckpt[q], q)'
    BY <1>9, <2>1, FenceKeeps DEF TickFenced
  <2>3. tick'.seen = NoCkpt
    BY <1>0, <1>9, Zenon DEF TickFenced, TickState
  <2>4. SeenByPass'
    BY <2>3, NoCkptNames, Zenon DEF SeenByPass
  <2>5. NamesOwnRunner'
    BY <1>0, <1>9, <2>2, <2>4, TickNames DEF TickFenced
  <2>6. QED
    BY <2>2, <2>5 DEF AttemptOwnership, Placement
<1>10. CASE TickFenceFailed
  BY <1>3, <1>10 DEF TickFenceFailed, storeVars, runnerVars
<1>11. CASE TickSettle \/ TickClear \/ TickAdmit \/ TickAcquire
  <2>1. Quiet
    BY <1>11 DEF TickSettle, TickClear, TickAdmit, TickAcquire, storeVars, runnerVars
  <2>2. tick' = NextRun \/ \E pc \in TickPcs : TickGoto(pc)
    BY <1>11, Zenon DEF TickSettle, TickClear, TickAdmit, TickAcquire, TickPcs
  <2>3. tick' = NextRun \/ tick'.seen = tick.seen
    BY <1>0, <2>2, Zenon DEF TickGoto, TickState
  <2>4. tick.pc # "recover"
    BY <1>11 DEF TickSettle, TickClear, TickAdmit, TickAcquire
  <2>5. QED
    BY <1>2, <1>3, <2>1, <2>3, <2>4
<1>12. CASE TickInsert
  <2> DEFINE x == [IdleExec EXCEPT !.pc = "load", !.run = tick.run,
                                   !.account = TRUE]
  <2>1. PICK e \in Execs : SetExec(e, x)
    BY <1>12, Zenon DEF TickInsert
  <2>2. x.ck = IdleExec.ck /\ x.seen = IdleExec.seen /\ x.pc = "load"
    BY ValueTypes, Zenon DEF ExecState
  <2>3. x.ck.runner = NoAttempt /\ x.seen.runner = NoAttempt
    BY <2>2, NoCkptNames DEF IdleExec
  <2> HIDE DEF x
  <2>4. UNCHANGED <<owner, held, client, vm, ckpt>>
    BY <1>12 DEF TickInsert, storeVars, runnerVars
  <2>5. ASSUME NEW f \in Execs
        PROVE  /\ Names(exec[f].ck, exec[f].run)' /\ Names(exec[f].seen, exec[f].run)'
               /\ (exec[f].pc \in Attempting => owner[exec[f].attempt] = exec[f].run)'
    <3>1. exec'[f] = IF f = e THEN x ELSE exec[f]
      BY <2>1, Zenon DEF SetExec, TypeOK
    <3>2. CASE f = e
      BY <2>2, <2>3, <3>1, <3>2, Zenon DEF Names, Attempting
    <3>3. CASE f # e
      BY <1>0, <2>4, <3>1, <3>3, Zenon DEF Names, NamesOwnRunner
    <3>4. QED
      BY <3>2, <3>3
  <2>6. SeenByPass'
    BY <1>12, NextRunNames DEF TickInsert
  <2>7. \A q \in Runs : Names(ckpt[q], q)'
    BY <1>0, <2>4, Zenon DEF Names
  <2>8. NamesOwnRunner'
    BY <2>5, <2>6, <2>7, Zenon DEF NamesOwnRunner
  <2>9. Placement'
    BY <1>0, <2>4, PlacementFrame
  <2>10. QED
    BY <2>8, <2>9 DEF AttemptOwnership, Placement
<1>13. CASE TickError
  <2>1. Quiet /\ tick' = IdleTick
    BY <1>13 DEF TickError, storeVars, runnerVars
  <2>2. QED
    BY <1>4, <1>5, <2>1
<1>14. QED
  BY <1>6, <1>7, <1>8, <1>9, <1>10, <1>11, <1>12, <1>13 DEF TickStep
----------------------------------------
(* Steps of an execution.                                                  *)
LEMMA RaiseNames ==
  ASSUME TypeOK, NamesOwnRunner, NEW e \in Execs, exec[e].pc # "free", NEW err,
         Raise(e, err), UNCHANGED <<owner, tick, ckpt>>
  PROVE  NamesOwnRunner'
<1> DEFINE x == [exec[e] EXCEPT !.pc = "fail", !.err = err, !.exit = "none",
                                !.attempt = NoAttempt, !.prev = FALSE]
<1>1. exec[e] \in ExecState
  BY ExecFacts
<1>2. x.run = exec[e].run /\ x.ck = exec[e].ck /\ x.seen = exec[e].seen
      /\ x.pc = "fail"
  BY <1>1, Zenon DEF ExecState
<1>3. SetExec(e, x)
  BY Zenon DEF Raise
<1>4. x.pc \notin Attempting
  BY <1>2, Zenon DEF Attempting
<1> HIDE DEF x
<1>5. QED
  BY <1>2, <1>3, <1>4, NamesKept

(* Steps that neither hand out nor stop an attempt nor start a client.     *)
LEMMA QuietExecNames ==
  ASSUME TypeOK, NamesOwnRunner, NEW e \in Execs, exec[e].pc # "free",
         UNCHANGED <<owner, tick>>,
         \/ ExecLoad(e) \/ ExecMarkRunning(e) \/ ExecPrepare(e) \/ ExecSpawn(e)
         \/ ExecStart(e) \/ ExecThreadStarted(e) \/ ExecTurnCompleted(e)
         \/ ExecTurnFailed(e) \/ ExecExit(e) \/ ExecFenceBegin(e)
         \/ ExecFenceFailed(e) \/ ExecJudge(e) \/ ExecSwitch(e) \/ ExecFail(e)
         \/ ExecFailPatch(e) \/ ExecRelease(e) \/ ExecRequeue(e)
         \/ Heartbeat(e) \/ ExecIoError(e)
  PROVE  NamesOwnRunner'
<1> DEFINE r == exec[e].run
           ck == exec[e].ck
<1>1. /\ exec[e] \in ExecState /\ r \in Runs /\ ck \in Ckpt
      /\ ckpt[r] \in Ckpt /\ run[r] \in RunDoc
  BY ExecFacts
<1>2. ASSUME NEW pc \in ExecPcs \ Attempting, Goto(e, pc), UNCHANGED ckpt
      PROVE  NamesOwnRunner'
  <2> DEFINE x == [exec[e] EXCEPT !.pc = pc]
  <2>1. x.run = r /\ x.ck = ck /\ x.seen = exec[e].seen /\ x.pc = pc
    BY <1>1, Zenon DEF ExecState
  <2>2. SetExec(e, x)
    BY <1>2, Zenon DEF Goto
  <2> HIDE DEF x
  <2>3. QED
    BY <1>2, <2>1, <2>2, NamesKept
<1>3. ASSUME NEW pc, NEW c, Update(e, c, pc),
             c.runner \in {NoAttempt, ck.runner, ckpt[r].runner},
             c.runner = ck.runner,
             pc \in Attempting => exec[e].pc \in Attempting
      PROVE  NamesOwnRunner'
  <2> DEFINE x == [exec[e] EXCEPT !.ck = c, !.pc = pc]
  <2>1. /\ x.run = r /\ x.ck = c /\ x.seen = exec[e].seen /\ x.pc = pc
        /\ x.attempt = exec[e].attempt
    BY <1>1, Zenon DEF ExecState
  <2>2. SetExec(e, x) /\ Store(r, c)
    BY <1>3, Zenon DEF Update
  <2> HIDE DEF x
  <2>3. QED
    BY <1>3, <2>1, <2>2, NamesKept
<1>4. CASE ExecLoad(e)
  <2> DEFINE c == IF ckpt[r].exists THEN ckpt[r] ELSE Fresh
             x == [exec[e] EXCEPT !.ck = c, !.pc = "mark"]
  <2>1. SetExec(e, x) /\ Store(r, c)
    BY <1>4, Zenon DEF ExecLoad, Update
  <2>2. c.runner \in {NoAttempt, ckpt[r].runner}
    BY NoCkptNames, Zenon
  <2>3. x.run = r /\ x.ck = c /\ x.seen = exec[e].seen /\ x.pc = "mark"
    BY <1>1, Zenon DEF ExecState
  <2> HIDE DEF c, x
  <2>4. Names(c, r)
    BY <1>1, <2>2, Zenon DEF Names, NamesOwnRunner
  <2>5. \A q \in Runs : Names(ckpt[q], q)'
    BY <1>1, <2>1, <2>4, Zenon DEF Names, NamesOwnRunner, Store, TypeOK
  <2>6. ASSUME NEW f \in Execs
        PROVE  /\ Names(exec[f].ck, exec[f].run)' /\ Names(exec[f].seen, exec[f].run)'
               /\ (exec[f].pc \in Attempting => owner[exec[f].attempt] = exec[f].run)'
    <3>1. exec'[f] = IF f = e THEN x ELSE exec[f]
      BY <2>1, Zenon DEF SetExec, TypeOK
    <3>2. CASE f = e
      <4>1. Names(exec[e].seen, r)
        BY Zenon DEF NamesOwnRunner
      <4>2. QED
        BY <2>3, <2>4, <3>1, <3>2, <4>1, Zenon DEF Names, Attempting
    <3>3. CASE f # e
      BY <3>1, <3>3, Zenon DEF Names, NamesOwnRunner
    <3>4. QED
      BY <3>2, <3>3
  <2>7. SeenByPass'
    BY Zenon DEF NamesOwnRunner, SeenByPass
  <2>8. QED
    BY <2>5, <2>6, <2>7, Zenon DEF NamesOwnRunner
<1>5. CASE ExecMarkRunning(e)
  BY <1>2, <1>5 DEF ExecMarkRunning, ExecPcs, Attempting
<1>6. CASE ExecPrepare(e)
  <2> DEFINE c == [ck EXCEPT !.prepared = TRUE]
  <2>1. c.runner = ck.runner
    BY <1>1, Zenon DEF Ckpt
  <2>2. \/ Raise(e, "conflict") /\ UNCHANGED ckpt
        \/ Update(e, c, "reserve")
    BY <1>6, Zenon DEF ExecPrepare
  <2> HIDE DEF c
  <2>3. QED
    BY <1>3, <2>1, <2>2, RaiseNames DEF Attempting
<1>7. CASE ExecSpawn(e)
  <2> DEFINE c == [ck EXCEPT !.launched = TRUE, !.completed = FALSE,
                     !.cause = "none", !.proc = exec[e].attempt]
             x == [exec[e] EXCEPT !.pc = "start", !.ck = c,
                     !.prev = ck.launched, !.exit = "none"]
  <2>1. c.runner = ck.runner
    BY <1>1, Zenon DEF Ckpt
  <2>2. \/ Raise(e, "unavailable") /\ UNCHANGED ckpt
        \/ SetExec(e, x) /\ Store(r, c)
    BY <1>7, Zenon DEF ExecSpawn
  <2>3. /\ x.run = r /\ x.ck = c /\ x.seen = exec[e].seen
        /\ x.attempt = exec[e].attempt
    BY <1>1, Zenon DEF ExecState
  <2>4. exec[e].pc \in Attempting
    BY <1>7, Zenon DEF ExecSpawn, Attempting
  <2> HIDE DEF c, x
  <2>5. QED
    BY <2>1, <2>2, <2>3, <2>4, NamesKept, RaiseNames
<1>8. CASE ExecStart(e)
  <2> DEFINE x == [exec[e] EXCEPT !.pc = "wait"]
  <2>1. (Raise(e, "conflict") \/ SetExec(e, x)) /\ UNCHANGED ckpt
    BY <1>8, Zenon DEF ExecStart, Goto, storeVars
  <2>2. /\ x.run = r /\ x.ck = ck /\ x.seen = exec[e].seen
        /\ x.attempt = exec[e].attempt
    BY <1>1, Zenon DEF ExecState
  <2>3. exec[e].pc \in Attempting
    BY <1>8, Zenon DEF ExecStart, Attempting
  <2> HIDE DEF x
  <2>4. QED
    BY <2>1, <2>2, <2>3, NamesKept, RaiseNames
<1>9. CASE ExecThreadStarted(e)
  BY <1>9, Zenon DEF ExecThreadStarted, NamesOwnRunner, Names, SeenByPass, workerVars
<1>10. CASE ExecTurnCompleted(e)
  <2>1. [ck EXCEPT !.completed = TRUE].runner = ck.runner
    BY <1>1, Zenon DEF Ckpt
  <2>2. exec[e].pc \in Attempting
    BY <1>10, Zenon DEF ExecTurnCompleted, Reporting, Attempting
  <2>3. QED
    BY <1>3, <1>10, <2>1, <2>2 DEF ExecTurnCompleted
<1>11. CASE ExecTurnFailed(e)
  <2>1. PICK cause \in {"terminal", "retriable"} :
          Update(e, [ck EXCEPT !.cause = cause, !.completed = FALSE], "wait")
    BY <1>11, Zenon DEF ExecTurnFailed
  <2>2. [ck EXCEPT !.cause = cause, !.completed = FALSE].runner = ck.runner
    BY <1>1, Zenon DEF Ckpt
  <2>3. exec[e].pc \in Attempting
    BY <1>11, Zenon DEF ExecTurnFailed, Reporting, Attempting
  <2>4. QED
    BY <1>3, <2>1, <2>2, <2>3
<1>12. CASE ExecExit(e)
  <2> DEFINE first(exit) == exit = "rejected" /\ ~exec[e].prev /\ ~run[r].session
             c(exit) == [ck EXCEPT !.proc = NoAttempt,
                          !.cause = IF exit = "rejected" THEN "terminal" ELSE @,
                          !.launched = @ /\ ~first(exit)]
             x(exit) == [exec[e] EXCEPT !.pc = "afence", !.exit = exit,
                           !.ck = c(exit), !.attempt = NoAttempt, !.prev = FALSE]
  <2>1. PICK exit \in ExitsNow(e) : Store(r, c(exit)) /\ SetExec(e, x(exit))
    BY <1>12, Zenon DEF ExecExit
  <2>2. c(exit).runner = ck.runner
    BY <1>1, Zenon DEF Ckpt
  <2> HIDE DEF c
  <2>3. /\ x(exit).run = r /\ x(exit).ck = c(exit)
        /\ x(exit).seen = exec[e].seen /\ x(exit).pc = "afence"
    BY <1>1, Zenon DEF ExecState
  <2>4. x(exit).pc \notin Attempting
    BY <2>3, Zenon DEF Attempting
  <2> HIDE DEF x
  <2>5. QED
    BY <2>1, <2>2, <2>3, <2>4, NamesKept
<1>13. CASE ExecFenceBegin(e)
  <2> DEFINE x == [exec[e] EXCEPT !.pc = "release", !.fenced = TRUE]
             y == [exec[e] EXCEPT !.fencing = TRUE, !.seen = ckpt[r]]
  <2>1. (SetExec(e, x) \/ SetExec(e, y)) /\ UNCHANGED ckpt
    BY <1>13, Zenon DEF ExecFenceBegin, storeVars
  <2>2. x.run = r /\ x.ck = ck /\ x.seen = exec[e].seen /\ x.pc = "release"
    BY <1>1, Zenon DEF ExecState
  <2>3. y.run = r /\ y.ck = ck /\ y.seen = ckpt[r] /\ y.pc = exec[e].pc
    BY <1>1, Zenon DEF ExecState
  <2>4. x.pc \notin Attempting /\ y.pc \notin Attempting
    BY <1>13, <2>2, <2>3, Zenon DEF Attempting, ExecFenceBegin
  <2> HIDE DEF x, y
  <2>5. QED
    BY <2>1, <2>2, <2>3, <2>4, NamesKept
<1>14. CASE ExecFenceFailed(e)
  <2> DEFINE done == [exec[e] EXCEPT !.fencing = FALSE, !.seen = NoCkpt]
             c == [ck EXCEPT !.settled =
                     IF run[r].status = "queued" THEN @ ELSE run[r].status]
             x == [done EXCEPT !.pc = "fail", !.err = "unavailable", !.exit = "none"]
             y == [done EXCEPT !.pc = "release", !.ck = c]
  <2>1. \/ SetExec(e, x) /\ UNCHANGED ckpt
        \/ SetExec(e, y) /\ (UNCHANGED ckpt \/ Store(r, c))
    BY <1>14, Zenon DEF ExecFenceFailed
  <2>2. c.runner = ck.runner
    BY <1>1, Zenon DEF Ckpt
  <2>3. done \in ExecState /\ done.run = r /\ done.ck = ck /\ done.seen = NoCkpt
    BY <1>1, ValueTypes, Zenon DEF ExecState
  <2> HIDE DEF c, done
  <2>4. x.run = r /\ x.ck = ck /\ x.seen = NoCkpt /\ x.pc = "fail"
    BY <2>3, Zenon DEF ExecState
  <2>5. y.run = r /\ y.ck = c /\ y.seen = NoCkpt /\ y.pc = "release"
    BY <2>3, Zenon DEF ExecState
  <2>6. x.pc \notin Attempting /\ y.pc \notin Attempting
    BY <2>4, <2>5, Zenon DEF Attempting
  <2> HIDE DEF x, y
  <2>7. QED
    BY <2>1, <2>2, <2>4, <2>5, <2>6, NoCkptNames, NamesKept
<1>15. CASE ExecJudge(e)
  <2> DEFINE x == [exec[e] EXCEPT !.pc = "switch", !.account = FALSE,
                                  !.exit = "none"]
             y == [exec[e] EXCEPT !.pc = "efence", !.exit = "none"]
  <2>1. /\ \/ Raise(e, "conflict") \/ Raise(e, "unavailable")
           \/ Raise(e, "retriable") \/ SetExec(e, x) \/ SetExec(e, y)
        /\ UNCHANGED ckpt
    BY <1>15, Zenon DEF ExecJudge
  <2>2. x.run = r /\ x.ck = ck /\ x.seen = exec[e].seen /\ x.pc = "switch"
    BY <1>1, Zenon DEF ExecState
  <2>3. y.run = r /\ y.ck = ck /\ y.seen = exec[e].seen /\ y.pc = "efence"
    BY <1>1, Zenon DEF ExecState
  <2>4. x.pc \notin Attempting /\ y.pc \notin Attempting
    BY <2>2, <2>3, Zenon DEF Attempting
  <2> HIDE DEF x, y
  <2>5. QED
    BY <2>1, <2>2, <2>3, <2>4, NamesKept, RaiseNames
<1>16. CASE ExecSwitch(e)
  <2> DEFINE x == [exec[e] EXCEPT !.pc = "reserve", !.account = TRUE]
  <2>1. (Raise(e, "conflict") \/ SetExec(e, x)) /\ UNCHANGED ckpt
    BY <1>16, Zenon DEF ExecSwitch, storeVars
  <2>2. x.run = r /\ x.ck = ck /\ x.seen = exec[e].seen /\ x.pc = "reserve"
    BY <1>1, Zenon DEF ExecState
  <2>3. x.pc \notin Attempting
    BY <2>2, Zenon DEF Attempting
  <2> HIDE DEF x
  <2>4. QED
    BY <2>1, <2>2, <2>3, NamesKept, RaiseNames
<1>17. CASE ExecFail(e)
  <2>0. PICK away \in BOOLEAN : FailAs(e, away)
    BY <1>17, Zenon DEF ExecFail
  <2> DEFINE status == FailureStatus(e, away)
             c == [ck EXCEPT
                    !.recoveries = IF RecoversController(e, away) THEN Counted(@) ELSE @,
                    !.settled = IF NeedsFence(e) /\ status # "queued"
                                THEN status ELSE @]
             x == [exec[e] EXCEPT !.pc = "efence", !.err = "none"]
             y == [exec[e] EXCEPT !.pc = "failpatch", !.ck = c,
                                  !.outcome = status, !.err = "none"]
  <2>1. \/ SetExec(e, x) /\ UNCHANGED ckpt
        \/ SetExec(e, y) /\ (UNCHANGED ckpt \/ Store(r, c))
    BY <2>0, Zenon DEF FailAs
  <2>2. c.runner = ck.runner
    BY <1>1, Zenon DEF Ckpt
  <2> HIDE DEF c, status
  <2>3. x.run = r /\ x.ck = ck /\ x.seen = exec[e].seen /\ x.pc = "efence"
    BY <1>1, Zenon DEF ExecState
  <2>4. y.run = r /\ y.ck = c /\ y.seen = exec[e].seen /\ y.pc = "failpatch"
    BY <1>1, Zenon DEF ExecState
  <2>5. x.pc \notin Attempting /\ y.pc \notin Attempting
    BY <2>3, <2>4, Zenon DEF Attempting
  <2> HIDE DEF x, y
  <2>6. QED
    BY <2>1, <2>2, <2>3, <2>4, <2>5, NamesKept
<1>18. CASE ExecFailPatch(e)
  <2> DEFINE x == [exec[e] EXCEPT !.pc = "efence", !.outcome = "queued"]
  <2>1. SetExec(e, x) /\ UNCHANGED ckpt
    BY <1>18, Zenon DEF ExecFailPatch
  <2>2. x.run = r /\ x.ck = ck /\ x.seen = exec[e].seen /\ x.pc = "efence"
    BY <1>1, Zenon DEF ExecState
  <2>3. x.pc \notin Attempting
    BY <2>2, Zenon DEF Attempting
  <2> HIDE DEF x
  <2>4. QED
    BY <2>1, <2>2, <2>3, NamesKept
<1>19. CASE ExecRelease(e)
  BY <1>3, <1>19 DEF ExecRelease, Attempting
<1>20. CASE ExecRequeue(e)
  <2> DEFINE c == IF ckpt[r].exists THEN ckpt[r] ELSE Fresh
             d == [c EXCEPT !.settled =
                     IF run[r].status \in ActiveStatuses THEN @ ELSE run[r].status]
             x == [exec[e] EXCEPT !.pc = "remove"]
  <2>1. SetExec(e, x) /\ Store(r, d)
    BY <1>20, Zenon DEF ExecRequeue, Goto
  <2>2. c \in Ckpt /\ c.runner \in {NoAttempt, ckpt[r].runner}
    BY <1>1, ValueTypes, NoCkptNames, Zenon
  <2> HIDE DEF c
  <2>3. d.runner = c.runner
    BY <2>2, Zenon DEF Ckpt
  <2>4. x.run = r /\ x.ck = ck /\ x.seen = exec[e].seen /\ x.pc = "remove"
    BY <1>1, Zenon DEF ExecState
  <2>5. x.pc \notin Attempting
    BY <2>4, Zenon DEF Attempting
  <2> HIDE DEF d, x
  <2>6. QED
    BY <2>1, <2>2, <2>3, <2>4, <2>5, NamesKept
<1>21. CASE Heartbeat(e)
  <2>1. SetExec(e, exec[e]) /\ Store(r, ck)
    BY <1>21 DEF Heartbeat, SetExec, workerVars, TypeOK
  <2>2. QED
    BY <2>1, NamesKept
<1>22. CASE ExecIoError(e)
  <2>1. (Raise(e, "conflict") \/ Goto(e, "requeue")) /\ UNCHANGED ckpt
    BY <1>22, Zenon DEF ExecIoError, storeVars
  <2>2. QED
    BY <1>2, <2>1, RaiseNames DEF ExecPcs, Attempting
<1>23. QED
  BY <1>4, <1>5, <1>6, <1>7, <1>8, <1>9, <1>10, <1>11, <1>12, <1>13, <1>14,
     <1>15, <1>16, <1>17, <1>18, <1>19, <1>20, <1>21, <1>22
----------------------------------------
(* A new attempt is handed out only to a run that owns none.               *)
LEMMA ReserveOwnership ==
  ASSUME TypeOK, AttemptOwnership, NEW e \in Execs, ExecReserve(e)
  PROVE  AttemptOwnership'
<1> DEFINE r == exec[e].run
<1>1. exec[e].pc # "free" /\ exec[e] \in ExecState /\ r \in Runs
  BY ExecFacts DEF ExecReserve
<1>2. NamesOwnRunner /\ Placement
  BY DEF AttemptOwnership, Placement
<1>3. CASE /\ Raise(e, "conflict") \/ Raise(e, "nocapacity")
           /\ UNCHANGED <<owner, held>>
  <2>1. UNCHANGED <<owner, held, client, vm, tick, ckpt>>
    BY <1>3 DEF ExecReserve, runnerVars
  <2>2. NamesOwnRunner'
    BY <1>1, <1>2, <1>3, <2>1, RaiseNames
  <2>3. QED
    BY <1>2, <2>1, <2>2, PlacementFrame DEF AttemptOwnership, Placement
<1>4. CASE /\ ~StillOwned(r)
           /\ \E a \in Attempts :
                /\ owner[a] = NoRun
                /\ owner' = [owner EXCEPT ![a] = r]
                /\ held' = held \cup {a}
                /\ SetExec(e, [exec[e] EXCEPT !.pc = "placed", !.attempt = a])
  <2>1. PICK a \in Attempts :
          /\ owner[a] = NoRun
          /\ owner' = [owner EXCEPT ![a] = r]
          /\ held' = held \cup {a}
          /\ SetExec(e, [exec[e] EXCEPT !.pc = "placed", !.attempt = a])
    BY <1>4
  <2> DEFINE x == [exec[e] EXCEPT !.pc = "placed", !.attempt = a]
  <2>2. UNCHANGED <<client, vm, ckpt, tick>>
    BY DEF ExecReserve, runnerVars
  <2>3. \A b \in Attempts : owner'[b] = IF b = a THEN r ELSE owner[b]
    BY <2>1 DEF TypeOK
  <2>4. held \subseteq Attempts
    BY DEF TypeOK
  <2>5. HeldUntilGone'
    BY <2>1, <2>2, <2>3 DEF AttemptOwnership, HeldUntilGone
  <2>6. UnownedUntouched'
    BY <1>1, <2>1, <2>2, <2>3, NotNoRun DEF AttemptOwnership, UnownedUntouched
  <2>7. OneHeldPerRun'
    BY <1>4, <2>1, <2>3, <2>4 DEF AttemptOwnership, OneHeldPerRun, StillOwned
  <2>8. ASSUME NEW c \in Ckpt, NEW q, Names(c, q)
        PROVE  c.runner # NoAttempt => q # NoRun /\ owner'[c.runner] = q
    <3>1. c.runner \in Attempts \cup {NoAttempt}
      BY Zenon DEF Ckpt
    <3>2. QED
      BY <2>1, <2>3, <2>8, <3>1 DEF Names
  <2>9. \A q \in Runs : Names(ckpt[q], q)'
    <3> SUFFICES ASSUME NEW q \in Runs PROVE Names(ckpt[q], q)'
      OBVIOUS
    <3>1. ckpt[q] \in Ckpt /\ Names(ckpt[q], q)
      BY <1>2, Zenon DEF TypeOK, NamesOwnRunner
    <3>2. QED
      BY <2>2, <2>8, <3>1 DEF Names
  <2>10. ASSUME NEW f \in Execs
         PROVE  /\ Names(exec[f].ck, exec[f].run)' /\ Names(exec[f].seen, exec[f].run)'
                /\ (exec[f].pc \in Attempting => owner[exec[f].attempt] = exec[f].run)'
    <3>1. /\ x.run = r /\ x.ck = exec[e].ck /\ x.seen = exec[e].seen
          /\ x.attempt = a
      BY <1>1, Zenon DEF ExecState
    <3>2. exec'[f] = IF f = e THEN x ELSE exec[f]
      BY <2>1, Zenon DEF SetExec, TypeOK
    <3> HIDE DEF x
    <3>3. exec[f] \in ExecState
      BY Zenon DEF TypeOK
    <3>4. exec[f].ck \in Ckpt /\ exec[f].seen \in Ckpt
      BY <3>3, Zenon DEF ExecState
    <3>5. Names(exec[f].ck, exec[f].run) /\ Names(exec[f].seen, exec[f].run)
      BY <1>2, Zenon DEF NamesOwnRunner
    <3>6. exec'[f].ck = exec[f].ck /\ exec'[f].seen = exec[f].seen
          /\ exec'[f].run = exec[f].run
      BY <3>1, <3>2
    <3>7. Names(exec[f].ck, exec[f].run)' /\ Names(exec[f].seen, exec[f].run)'
      BY <2>8, <3>4, <3>5, <3>6 DEF Names
    <3>8. (exec[f].pc \in Attempting => owner[exec[f].attempt] = exec[f].run)'
      <4>1. CASE f = e
        BY <2>3, <3>1, <3>2, <4>1
      <4>2. CASE f # e
        <5>1. SUFFICES ASSUME exec[f].pc \in Attempting
                       PROVE  owner'[exec[f].attempt] = exec[f].run
          BY <3>2, <4>2
        <5>2. /\ exec[f].attempt \in Attempts /\ exec[f].run \in Runs
              /\ owner[exec[f].attempt] = exec[f].run
          BY <1>2, <5>1 DEF TypeOK, NamesOwnRunner, Attempting
        <5>3. QED
          BY <2>1, <2>3, <5>2, NotNoRun
      <4>3. QED
        BY <4>1, <4>2
    <3>9. QED
      BY <3>7, <3>8
  <2>11. SeenByPass'
    <3>1. tick.seen \in Ckpt
      BY Zenon DEF TypeOK, TickState
    <3>2. tick.seen.runner # NoAttempt => Names(tick.seen, tick.run)
      BY <1>2, NotNoRun DEF NamesOwnRunner, SeenByPass, Names, TypeOK
    <3>3. QED
      BY <1>2, <2>2, <2>8, <3>1, <3>2 DEF SeenByPass, NamesOwnRunner
  <2>12. NamesOwnRunner'
    BY <2>9, <2>10, <2>11, Zenon DEF NamesOwnRunner
  <2>13. QED
    BY <2>5, <2>6, <2>7, <2>12 DEF AttemptOwnership
<1>5. QED
  BY <1>3, <1>4, Zenon DEF ExecReserve

LEMMA PlacedOwnership ==
  ASSUME TypeOK, AttemptOwnership, NEW e \in Execs, ExecPlaced(e)
  PROVE  AttemptOwnership'
<1> DEFINE r == exec[e].run
           c == [exec[e].ck EXCEPT !.runner = exec[e].attempt]
           x == [exec[e] EXCEPT !.ck = c, !.pc = "spawn"]
<1>1. exec[e] \in ExecState /\ r \in Runs /\ exec[e].ck \in Ckpt
  BY ExecFacts DEF ExecPlaced
<1>2. NamesOwnRunner /\ Placement
  BY DEF AttemptOwnership, Placement
<1>3. owner[exec[e].attempt] = r
  BY <1>2, Zenon DEF ExecPlaced, Attempting, NamesOwnRunner
<1>4. c.runner = exec[e].attempt
  BY <1>1, Zenon DEF Ckpt
<1>5. SetExec(e, x) /\ Store(r, c)
  BY Zenon DEF ExecPlaced, Update
<1> HIDE DEF c
<1>6. /\ x.run = r /\ x.ck = c /\ x.seen = exec[e].seen
      /\ x.attempt = exec[e].attempt
  BY <1>1, Zenon DEF ExecState
<1> HIDE DEF x
<1>7. UNCHANGED <<owner, held, client, vm, tick>>
  BY DEF ExecPlaced, runnerVars
<1>8. Names(c, r)
  BY <1>1, <1>3, <1>4, NotNoRun DEF Names
<1>9. \A q \in Runs : Names(ckpt[q], q)'
  <2> SUFFICES ASSUME NEW q \in Runs PROVE Names(ckpt[q], q)'
    OBVIOUS
  <2>1. ckpt'[q] = IF q = r THEN c ELSE ckpt[q]
    BY <1>5, Zenon DEF Store, TypeOK
  <2>2. QED
    BY <1>2, <1>7, <1>8, <2>1 DEF Names, NamesOwnRunner
<1>10. ASSUME NEW f \in Execs
       PROVE  /\ Names(exec[f].ck, exec[f].run)' /\ Names(exec[f].seen, exec[f].run)'
              /\ (exec[f].pc \in Attempting => owner[exec[f].attempt] = exec[f].run)'
  <2>1. exec'[f] = IF f = e THEN x ELSE exec[f]
    BY <1>5, Zenon DEF SetExec, TypeOK
  <2>2. CASE f = e
    <3>1. Names(exec[e].seen, r)
      BY <1>2, Zenon DEF NamesOwnRunner
    <3>2. QED
      BY <1>3, <1>6, <1>7, <1>8, <2>1, <2>2, <3>1 DEF Names
  <2>3. CASE f # e
    BY <1>2, <1>7, <2>1, <2>3, Zenon DEF Names, NamesOwnRunner
  <2>4. QED
    BY <2>2, <2>3
<1>11. SeenByPass'
  BY <1>2, <1>7, Zenon DEF NamesOwnRunner, SeenByPass
<1>12. NamesOwnRunner'
  BY <1>9, <1>10, <1>11, Zenon DEF NamesOwnRunner
<1>13. QED
  BY <1>2, <1>7, <1>12, PlacementFrame DEF AttemptOwnership, Placement

LEMMA ExecFencedOwnership ==
  ASSUME TypeOK, AttemptOwnership, NEW e \in Execs, ExecFenced(e)
  PROVE  AttemptOwnership'
<1> DEFINE r == exec[e].run
           x == [exec[e] EXCEPT !.fencing = FALSE, !.seen = NoCkpt,
                   !.fenced = exec[e].pc = "efence",
                   !.pc = IF @ = "afence" THEN "judge" ELSE "release"]
<1>1. exec[e] \in ExecState /\ r \in Runs /\ exec[e].seen \in Ckpt
  BY ExecFacts DEF ExecFenced
<1>2. NamesOwnRunner /\ Placement
  BY DEF AttemptOwnership, Placement
<1>3. Names(exec[e].seen, r) /\ Names(exec[e].ck, r)
  BY <1>2, Zenon DEF NamesOwnRunner
<1>4. SetExec(e, x) /\ FenceConfirmed(r, exec[e].seen) /\ UNCHANGED <<owner, tick>>
  BY Zenon DEF ExecFenced
<1>5. Placement' /\ \A q \in Runs : Names(ckpt[q], q)'
  BY <1>1, <1>3, <1>4, FenceKeeps
<1>6. /\ x.run = r /\ x.ck = exec[e].ck /\ x.seen = NoCkpt
      /\ x.pc \in {"judge", "release"}
  BY <1>1, Zenon DEF ExecState
<1> HIDE DEF x
<1>7. ASSUME NEW f \in Execs
      PROVE  /\ Names(exec[f].ck, exec[f].run)' /\ Names(exec[f].seen, exec[f].run)'
             /\ (exec[f].pc \in Attempting => owner[exec[f].attempt] = exec[f].run)'
  <2>1. exec'[f] = IF f = e THEN x ELSE exec[f]
    BY <1>4, Zenon DEF SetExec, TypeOK
  <2>2. CASE f = e
    BY <1>3, <1>4, <1>6, <2>1, <2>2, NoCkptNames DEF Names, Attempting
  <2>3. CASE f # e
    BY <1>2, <1>4, <2>1, <2>3, Zenon DEF Names, NamesOwnRunner
  <2>4. QED
    BY <2>2, <2>3
<1>8. SeenByPass'
  BY <1>2, <1>4, Zenon DEF NamesOwnRunner, SeenByPass
<1>9. NamesOwnRunner'
  BY <1>5, <1>7, <1>8, Zenon DEF NamesOwnRunner
<1>10. QED
  BY <1>5, <1>9 DEF AttemptOwnership, Placement
----------------------------------------
LEMMA ExecOwnership ==
  ASSUME TypeOK, AttemptOwnership, NEW e \in Execs, ExecStep(e) \/ ExecReport(e)
  PROVE  AttemptOwnership'
<1>0. NamesOwnRunner /\ Placement
  BY DEF AttemptOwnership, Placement
<1>1. CASE ExecReserve(e) \/ ExecPlaced(e) \/ ExecFenced(e)
  BY <1>1, ReserveOwnership, PlacedOwnership, ExecFencedOwnership
<1>2. CASE ExecRemove(e)
  <2>1. SetExec(e, IdleExec) /\ UNCHANGED <<owner, held, client, vm, ckpt, tick>>
    BY <1>2 DEF ExecRemove, storeVars, runnerVars
  <2>2. /\ IdleExec.ck = NoCkpt /\ IdleExec.seen = NoCkpt
        /\ IdleExec.pc \notin Attempting
    BY DEF IdleExec, Attempting
  <2>3. ASSUME NEW f \in Execs
        PROVE  /\ Names(exec[f].ck, exec[f].run)' /\ Names(exec[f].seen, exec[f].run)'
               /\ (exec[f].pc \in Attempting => owner[exec[f].attempt] = exec[f].run)'
    <3>1. exec'[f] = IF f = e THEN IdleExec ELSE exec[f]
      BY <2>1, Zenon DEF SetExec, TypeOK
    <3>2. CASE f = e
      BY <2>2, <3>1, <3>2, NoCkptNames DEF Names
    <3>3. CASE f # e
      BY <1>0, <2>1, <3>1, <3>3, Zenon DEF Names, NamesOwnRunner
    <3>4. QED
      BY <3>2, <3>3
  <2>4. SeenByPass' /\ \A q \in Runs : Names(ckpt[q], q)'
    BY <1>0, <2>1, Zenon DEF NamesOwnRunner, SeenByPass, Names
  <2>5. NamesOwnRunner'
    BY <2>3, <2>4, Zenon DEF NamesOwnRunner
  <2>6. QED
    BY <1>0, <2>1, <2>5, PlacementFrame DEF AttemptOwnership, Placement
<1>3. CASE ExecStart(e)
  <2>1. exec[e].pc # "free" /\ exec[e].pc \in Attempting /\ exec[e].run \in Runs
    BY <1>3, ExecFacts DEF ExecStart, Attempting
  <2>2. exec[e].attempt \in Attempts /\ owner[exec[e].attempt] \in Runs
    BY <1>0, <2>1 DEF NamesOwnRunner, TypeOK
  <2>3. /\ UNCHANGED <<owner, held, vm, tick>>
        /\ client' \subseteq client \cup {exec[e].attempt}
    BY <1>3 DEF ExecStart, storeVars
  <2>4. NamesOwnRunner'
    BY <1>0, <1>3, <2>1, <2>3, QuietExecNames
  <2>5. Placement'
    BY <1>0, <2>2, <2>3, NotNoRun
       DEF Placement, HeldUntilGone, UnownedUntouched, OneHeldPerRun
  <2>6. QED
    BY <2>4, <2>5 DEF AttemptOwnership, Placement
<1>4. CASE ExecExit(e)
  <2>1. exec[e].pc # "free"
    BY <1>4 DEF ExecExit
  <2>2. UNCHANGED <<owner, held, vm, tick>> /\ client' \subseteq client
    BY <1>4 DEF ExecExit
  <2>3. NamesOwnRunner'
    BY <1>0, <1>4, <2>1, <2>2, QuietExecNames
  <2>4. Placement'
    BY <1>0, <2>2 DEF Placement, HeldUntilGone, UnownedUntouched, OneHeldPerRun
  <2>5. QED
    BY <2>3, <2>4 DEF AttemptOwnership, Placement
<1>5. CASE \/ ExecLoad(e) \/ ExecMarkRunning(e) \/ ExecPrepare(e) \/ ExecSpawn(e)
           \/ ExecFenceBegin(e) \/ ExecFenceFailed(e) \/ ExecJudge(e)
           \/ ExecSwitch(e) \/ ExecFail(e) \/ ExecFailPatch(e) \/ ExecRelease(e)
           \/ ExecRequeue(e) \/ ExecReport(e)
  <2>1. exec[e].pc # "free"
    BY <1>5 DEF ExecLoad, ExecMarkRunning, ExecPrepare, ExecSpawn, ExecFenceBegin,
       ExecFenceFailed, ExecJudge, ExecSwitch, ExecFail, ExecFailPatch,
       ExecRelease, ExecRequeue, ExecReport, ExecThreadStarted,
       ExecTurnCompleted, ExecTurnFailed, Heartbeat, ExecIoError, Reporting
  <2>2. UNCHANGED <<owner, held, client, vm, tick>>
    BY <1>5, Zenon DEF ExecLoad, ExecMarkRunning, ExecPrepare, ExecSpawn,
       ExecFenceBegin, ExecFenceFailed, ExecJudge, ExecSwitch, ExecFail,
       ExecFailPatch, ExecRelease, ExecRequeue, ExecReport, ExecThreadStarted,
       ExecTurnCompleted, ExecTurnFailed, Heartbeat, ExecIoError,
       storeVars, runnerVars, workerVars
  <2>3. NamesOwnRunner'
    BY <1>0, <1>5, <2>1, <2>2, QuietExecNames DEF ExecReport
  <2>4. QED
    BY <1>0, <2>2, <2>3, PlacementFrame DEF AttemptOwnership, Placement
<1>6. QED
  BY <1>1, <1>2, <1>3, <1>4, <1>5 DEF ExecStep

(* Steps that change no execution, no checkpoint and no pass.              *)
LEMMA StillNames ==
  ASSUME NamesOwnRunner, UNCHANGED <<owner, ckpt, exec, tick>>
  PROVE  NamesOwnRunner'
  BY Zenon DEF NamesOwnRunner, Names, SeenByPass

LEMMA OwnerOwnership ==
  ASSUME TypeOK, AttemptOwnership, NEW r \in Runs, OwnerStep(r) \/ RetryDue(r)
  PROVE  AttemptOwnership'
<1>0. NamesOwnRunner /\ Placement
  BY DEF AttemptOwnership, Placement
<1>1. UNCHANGED <<owner, held, client, vm, tick>>
  BY DEF OwnerStep, Cancel, Resume, RetryDue, runnerVars, workerVars
<1>2. CASE Cancel(r)
  <2> DEFINE f == active[r]
             x == [exec[f] EXCEPT !.token = TRUE]
  <2>1. UNCHANGED ckpt /\ (UNCHANGED exec \/ (f # NoExec /\ SetExec(f, x)))
    BY <1>2, Zenon DEF Cancel, SetExec
  <2>2. CASE UNCHANGED exec
    BY <1>0, <1>1, <2>1, <2>2, StillNames, PlacementFrame
       DEF AttemptOwnership, Placement
  <2>3. CASE f # NoExec /\ SetExec(f, x)
    <3>1. f \in Execs /\ exec[f] \in ExecState
      BY <2>3, Zenon DEF TypeOK
    <3>2. /\ x.run = exec[f].run /\ x.ck = exec[f].ck /\ x.seen = exec[f].seen
          /\ x.pc = exec[f].pc /\ x.attempt = exec[f].attempt
      BY <3>1, Zenon DEF ExecState
    <3> HIDE DEF f, x
    <3>3. ASSUME NEW g \in Execs
          PROVE  /\ Names(exec[g].ck, exec[g].run)'
                 /\ Names(exec[g].seen, exec[g].run)'
                 /\ (exec[g].pc \in Attempting =>
                       owner[exec[g].attempt] = exec[g].run)'
      <4>1. exec'[g] = IF g = f THEN x ELSE exec[g]
        BY <2>3, <3>1, Zenon DEF SetExec, TypeOK
      <4>2. /\ exec'[g].run = exec[g].run /\ exec'[g].ck = exec[g].ck
            /\ exec'[g].seen = exec[g].seen /\ exec'[g].pc = exec[g].pc
            /\ exec'[g].attempt = exec[g].attempt
        BY <3>2, <4>1
      <4>3. QED
        BY <1>0, <1>1, <4>2, Zenon DEF NamesOwnRunner, Names
    <3>4. SeenByPass' /\ \A q \in Runs : Names(ckpt[q], q)'
      BY <1>0, <1>1, <2>1, Zenon DEF NamesOwnRunner, SeenByPass, Names
    <3>5. NamesOwnRunner'
      BY <3>3, <3>4, Zenon DEF NamesOwnRunner
    <3>6. QED
      BY <1>0, <1>1, <3>5, PlacementFrame DEF AttemptOwnership, Placement
  <2>4. QED
    BY <2>1, <2>2, <2>3
<1>3. CASE Resume(r)
  <2> DEFINE before == run[r].status \in {"failed", "cancelled"}
                         /\ ~ckpt[r].launched
             c == [ckpt[r] EXCEPT !.settled = "none", !.cause = "none",
                                  !.completed = @ /\ before]
  <2>1. (UNCHANGED ckpt \/ Store(r, c)) /\ UNCHANGED exec
    BY <1>3, Zenon DEF Resume, workerVars
  <2>2. c.runner = ckpt[r].runner
    BY Zenon DEF Ckpt, TypeOK
  <2> HIDE DEF c
  <2>3. \A q \in Runs : ckpt'[q].runner = ckpt[q].runner
    BY <2>1, <2>2, Zenon DEF Store, TypeOK
  <2>4. \A q \in Runs : Names(ckpt[q], q)'
    BY <1>0, <1>1, <2>3 DEF NamesOwnRunner, Names
  <2>5. SeenByPass'
    BY <1>0, <1>1, Zenon DEF NamesOwnRunner, SeenByPass
  <2>6. NamesOwnRunner'
    BY <1>0, <1>1, <2>1, <2>4, <2>5, TickNames
  <2>7. QED
    BY <1>0, <1>1, <2>6, PlacementFrame DEF AttemptOwnership, Placement
<1>4. CASE RetryDue(r)
  <2>1. UNCHANGED <<ckpt, exec>>
    BY <1>4 DEF RetryDue, workerVars
  <2>2. QED
    BY <1>0, <1>1, <2>1, StillNames, PlacementFrame DEF AttemptOwnership, Placement
<1>5. QED
  BY <1>2, <1>3, <1>4 DEF OwnerStep

LEMMA OthersOwnership ==
  ASSUME TypeOK, AttemptOwnership,
         \/ \E a \in Attempts : RunnerStep(a)
         \/ Shutdown \/ Closed \/ Crash \/ Restart
  PROVE  AttemptOwnership'
<1>0. NamesOwnRunner /\ Placement
  BY DEF AttemptOwnership, Placement
<1>1. CASE \E a \in Attempts : RunnerStep(a)
  <2>1. PICK a \in Attempts : ClientStartsVm(a) \/ ClientOrphaned(a)
    BY <1>1, Zenon DEF RunnerStep
  <2>2. UNCHANGED <<owner, held, ckpt, exec, tick>>
    BY <2>1 DEF ClientStartsVm, ClientOrphaned, storeVars, workerVars
  <2>3. CASE ClientStartsVm(a)
    <3>1. /\ a \in client /\ client' = client
          /\ \A b \in Attempts : vm'[b] = IF b = a THEN "live" ELSE vm[b]
      BY <2>3 DEF ClientStartsVm, TypeOK
    <3>2. vm[a] = "none"
      BY <2>3 DEF ClientStartsVm
    <3>3. Placement'
      BY <1>0, <2>2, <3>1, <3>2
         DEF Placement, HeldUntilGone, UnownedUntouched, OneHeldPerRun
    <3>4. QED
      BY <1>0, <2>2, <3>3, StillNames DEF AttemptOwnership, Placement
  <2>4. CASE ClientOrphaned(a)
    <3>1. Placement'
      BY <1>0, <2>2, <2>4
         DEF Placement, HeldUntilGone, UnownedUntouched, OneHeldPerRun,
             ClientOrphaned
    <3>2. QED
      BY <1>0, <2>2, <3>1, StillNames DEF AttemptOwnership, Placement
  <2>5. QED
    BY <2>1, <2>3, <2>4
<1>2. CASE Shutdown \/ Restart
  <2>1. UNCHANGED <<owner, held, client, vm, ckpt, exec, tick>>
    BY <1>2 DEF Shutdown, Restart, storeVars, runnerVars, workerVars
  <2>2. QED
    BY <1>0, <2>1, StillNames, PlacementFrame DEF AttemptOwnership, Placement
<1>3. CASE Closed \/ Crash
  <2>1. /\ UNCHANGED <<owner, held, client, vm, ckpt>> /\ tick' = IdleTick
        /\ \A e \in Execs : exec'[e] = IdleExec
    BY <1>3 DEF Closed, Crash, Gone, storeVars, runnerVars
  <2>2. /\ IdleExec.ck = NoCkpt /\ IdleExec.seen = NoCkpt
        /\ IdleExec.pc \notin Attempting /\ IdleTick.seen = NoCkpt
    BY DEF IdleExec, IdleTick, Attempting
  <2>3. SeenByPass'
    BY <2>1, <2>2, NoCkptNames DEF SeenByPass
  <2>4. \A q \in Runs : Names(ckpt[q], q)'
    BY <1>0, <2>1, Zenon DEF NamesOwnRunner, Names
  <2>5. ASSUME NEW f \in Execs
        PROVE  /\ Names(exec[f].ck, exec[f].run)' /\ Names(exec[f].seen, exec[f].run)'
               /\ (exec[f].pc \in Attempting => owner[exec[f].attempt] = exec[f].run)'
    BY <2>1, <2>2, NoCkptNames DEF Names
  <2>6. NamesOwnRunner'
    BY <2>3, <2>4, <2>5, Zenon DEF NamesOwnRunner
  <2>7. QED
    BY <1>0, <2>1, <2>6, PlacementFrame DEF AttemptOwnership, Placement
<1>4. QED
  BY <1>1, <1>2, <1>3

LEMMA InitOwnership == Init => AttemptOwnership
<1> SUFFICES ASSUME Init PROVE AttemptOwnership
  OBVIOUS
<1>1. /\ \A q \in Runs : ckpt[q] = NoCkpt
      /\ \A e \in Execs : exec[e] = IdleExec
      /\ tick = IdleTick
  BY DEF Init
<1>2. /\ IdleExec.ck = NoCkpt /\ IdleExec.seen = NoCkpt
      /\ IdleExec.pc \notin Attempting /\ IdleTick.seen = NoCkpt
  BY DEF IdleExec, IdleTick, Attempting
<1>3. NamesOwnRunner
  BY <1>1, <1>2, NoCkptNames DEF NamesOwnRunner, Names, SeenByPass
<1>4. QED
  BY <1>3 DEF Init, AttemptOwnership, HeldUntilGone, UnownedUntouched,
              OneHeldPerRun

(* Every reserved attempt blocks its run until a runner confirmed its stop, *)
(* and no checkpoint or client names the attempt of another run.            *)
THEOREM OwnershipHolds == Spec => []AttemptOwnership
<1>1. TypeOK /\ AttemptOwnership /\ [Next]_vars => AttemptOwnership'
  <2> SUFFICES ASSUME TypeOK, AttemptOwnership, [Next]_vars
               PROVE  AttemptOwnership'
    OBVIOUS
  <2>1. CASE UNCHANGED vars
    <3>1. UNCHANGED <<owner, held, client, vm, ckpt, exec, tick>>
      BY <2>1 DEF vars
    <3>2. QED
      BY <3>1, StillNames, PlacementFrame DEF AttemptOwnership, Placement
  <2>2. CASE Next
    BY <2>2, TickOwnership, ExecOwnership, OwnerOwnership, OthersOwnership, Zenon
       DEF Next
  <2>3. QED
    BY <2>1, <2>2
<1>2. QED
  BY <1>1, InitOwnership, TypeCorrect, PTL DEF Spec

(* Two VMs never execute the same conversation: for every number of runs,  *)
(* overlapping executions, crashes, cancellations and store errors.        *)
THEOREM OneVmPerRun == Spec => []SingleVm
<1>1. TypeOK /\ AttemptOwnership => SingleVm
  BY OwnershipGivesSingleVm
<1>2. QED
  BY <1>1, TypeCorrect, OwnershipHolds, PTL

----------------------------------------
(***************************************************************************)
(* Proofs about what becomes of a run of RunWorker: its outcome, its       *)
(* checkpoint, the preparation guard and its account lease, for every set  *)
(* of runs, executions and attempts. Four inductive invariants carry them: *)
(*   OutcomeInv            one writer per run, whose copies agree with the *)
(*                         store (with the types and the ownership of      *)
(*                         the first part);                                *)
(*   Recoverable           what a restart needs is in the store;           *)
(*   PreparationNotLeaked  by itself;                                      *)
(*   LeaseInv              who gives each lease back (with OutcomeInv).    *)
(* For each there is one lemma per handler, then one for the next-state    *)
(* relation, then the theorems.                                            *)
(***************************************************************************)
----------------------------------------
(* Outcomes. A run that was never handled beside its own execution has one *)
(* writer at a time: its execution, or the pass. What this writer holds of *)
(* the checkpoint agrees with the store, and the places from which a run   *)
(* may be launched or settled are those where its VM has stopped.          *)

(* Two copies of a checkpoint agree but for the process, which a fence     *)
(* forgets, and what only counts or explains.                              *)
Same(c, d) ==
    /\ c.exists = d.exists /\ c.prepared = d.prepared /\ c.runner = d.runner
    /\ c.completed = d.completed /\ c.settled = d.settled

(* A VM that runs, or that a client left behind may still start.           *)
Startable(a) == vm[a] = "live" \/ (vm[a] = "none" /\ a \in client)

Quiet(r) == \A a \in Attempts : owner[a] = r => ~Startable(a)

(* No outcome waits in the checkpoint. A store error before a launch, and  *)
(* a crash in the middle of its failure, can leave one behind.             *)
Unsettled(c) == MaxIoErrors = 0 => c.settled = "none"

Early == {"load", "mark", "prepare"}
Calm == Early \cup {"reserve", "placed", "spawn", "start", "judge", "switch"}
Prepared == {"reserve", "placed", "spawn", "start", "wait", "afence", "judge",
             "switch"}
Spawned == {"spawn", "start", "wait"}
Ending == {"failpatch", "efence", "release", "remove", "requeue"}

(* An execution x against the stored checkpoint c and document doc of its  *)
(* run; quiet says that the run's VM has stopped.                          *)
CopySound(x, c, doc, quiet) ==
    /\ x.fencing => x.pc \in {"afence", "efence"} /\ Same(x.seen, c)
    /\ x.fenced => x.pc \in {"release", "remove", "requeue"} /\ quiet
    /\ x.pc \notin {"load", "requeue", "remove"} => Same(x.ck, c) /\ c.exists
    /\ x.pc \in Prepared => c.prepared
    /\ x.pc \in Spawned => c.runner = x.attempt
    /\ x.pc \in Calm => quiet
    /\ x.pc \in Early => ~c.completed
    /\ x.pc \notin Ending => Unsettled(c)
    /\ x.pc = "failpatch" => Unsettled(c) \/ (c.prepared /\ c.runner # NoAttempt)
    /\ x.pc \in {"efence", "release"} /\ doc.status \notin ActiveStatuses => Unsettled(c)
    /\ x.pc = "requeue" => MaxIoErrors # 0
    /\ x.pc \in {"prepare"} \cup Prepared => doc.status = "running"
    /\ x.pc \in {"fail", "failpatch"} => doc.status = "running" \/ MaxIoErrors # 0
    /\ x.pc \in {"efence", "release", "remove"} =>
         doc.status # "running" /\ (doc.status = "queued" => doc.recovering)
    /\ x.outcome # "running"

(* A run that reads as finished has stopped; one that waits for a launch   *)
(* has stopped and has no completed turn.                                  *)
DocSound(c, doc, quiet) ==
    /\ c.settled \notin ActiveStatuses
    /\ doc.status \notin ActiveStatuses => quiet
    /\ doc.status = "queued" /\ ~doc.recovering
         => quiet /\ ~c.completed /\ Unsettled(c)

(* The checkpoint names the VM that runs or may still be started.          *)
Named(r) ==
    \A a \in Attempts : owner[a] = r /\ Startable(a) =>
        ckpt[r].exists /\ ckpt[r].prepared /\ ckpt[r].runner = a

Idle(r) == \A e \in Execs : exec[e].pc # "free" => exec[e].run # r

OneExecution ==
    \A e \in Execs : exec[e].pc # "free" /\ exec[e].run \notin overlapped
        => active[exec[e].run] = e

ExecsSound ==
    \A e \in Execs : exec[e].pc # "free" /\ exec[e].run \notin overlapped
        => CopySound(exec[e], ckpt[exec[e].run], run[exec[e].run],
                     Quiet(exec[e].run))

RunsSound ==
    \A r \in Runs \ overlapped :
        /\ DocSound(ckpt[r], run[r], Quiet(r))
        /\ Named(r)
        /\ run[r].status = "running" /\ phase # "down" => ~Idle(r)

(* The runs the pass still has to handle, and those of them that it        *)
(* recovers.                                                               *)
Ahead == tick.todo \cup (IF tick.pc \in {"idle", "next"} THEN {} ELSE {tick.run})

Recovered ==
    (tick.todo \cap tick.queued \cap tick.recovering)
      \cup (IF tick.pc \in {"recover", "settle", "clear"} THEN {tick.run} ELSE {})

Launched ==
    ((tick.todo \cap tick.queued) \ tick.recovering)
      \cup (IF tick.pc \in {"admit", "acquire", "insert"} THEN {tick.run} ELSE {})

Alone(r) == r \notin overlapped /\ r \notin tick.beside

PassSound ==
    /\ tick.pc = "idle" => tick = IdleTick
    /\ tick.fencing => tick.pc = "recover"
    /\ tick.pc \notin {"idle", "next"} => tick.run \notin tick.todo
    /\ \A r \in Ahead \ tick.beside : Idle(r)
    /\ \A r \in Recovered : Alone(r) => run[r].status = "queued" /\ run[r].recovering
    /\ \A r \in Launched : Alone(r) =>
         Quiet(r) /\ ~ckpt[r].completed /\ Unsettled(ckpt[r])
    /\ tick.pc \in {"settle", "clear"} /\ Alone(tick.run) => Quiet(tick.run)
    /\ tick.pc = "clear" /\ Alone(tick.run) =>
         ~ckpt[tick.run].completed /\ ckpt[tick.run].settled = "none"
    /\ tick.fencing /\ Alone(tick.run) => Same(tick.seen, ckpt[tick.run])
    /\ tick.pc \in {"settle", "clear"} \/ tick.fencing =>
         tick.run \notin tick.beside \/ tick.run \in overlapped

DownIdle == phase = "down" => tick = IdleTick /\ \A e \in Execs : exec[e].pc = "free"

OutcomeInv == OneExecution /\ ExecsSound /\ RunsSound /\ PassSound /\ DownIdle
----------------------------------------
(* What a step does to the checkpoint and the document of a run: an        *)
(* outcome put aside is kept, and a cancelled recovery ends the run.       *)
Decided(c, doc, c2, doc2) ==
    /\ MaxIoErrors = 0 /\ c.settled # "none" /\ c2.settled # c.settled
         => doc.status \in ResumableStatuses
    /\ doc.recovering /\ doc.cancel /\ ~doc2.recovering
         => doc2.status \notin ActiveStatuses

(* No attempt of r becomes able to run.                                    *)
NoNewStart(r) ==
    \A a \in Attempts : owner'[a] = r /\ Startable(a)' => owner[a] = r /\ Startable(a)

LEMMA StaysQuiet ==
  ASSUME NEW r, NoNewStart(r), Quiet(r)
  PROVE  Quiet(r)'
  BY DEF NoNewStart, Quiet

LEMMA StaysNamed ==
  ASSUME NEW r, NoNewStart(r), Named(r), ckpt'[r].exists = ckpt[r].exists,
         ckpt'[r].prepared = ckpt[r].prepared, ckpt'[r].runner = ckpt[r].runner
  PROVE  Named(r)'
  BY Zenon DEF NoNewStart, Named

(* A checkpoint that names no runner to fence belongs to a quiet run.      *)
LEMMA NothingToFenceIsQuiet ==
  ASSUME NEW r, Named(r),
         ~(ckpt[r].exists /\ ckpt[r].prepared /\ ckpt[r].runner # NoAttempt)
  PROVE  Quiet(r)
  BY ConstantsAssumption, Zenon DEF Named, Quiet

LEMMA RunnerStill ==
  ASSUME UNCHANGED <<owner, client, vm>>
  PROVE  \A r : NoNewStart(r) /\ (Quiet(r) <=> Quiet(r)')
  BY DEF NoNewStart, Startable, Quiet

LEMMA RunnerStops ==
  ASSUME UNCHANGED owner, client' \subseteq client,
         \A a \in Attempts : vm'[a] \in {vm[a], "gone"}
  PROVE  \A r : NoNewStart(r)
  BY DEF NoNewStart, Startable

LEMMA FenceStops ==
  ASSUME NEW r \in Runs, NEW c, FenceConfirmed(r, c), UNCHANGED owner
  PROVE  /\ \A q : NoNewStart(q)
         /\ Named(r) /\ Same(c, ckpt[r]) => Quiet(r)'
<1>1. /\ client' \subseteq client
      /\ \A a \in Attempts : vm'[a] = IF a = FenceTarget(c) THEN "gone" ELSE vm[a]
  BY DEF FenceConfirmed
<1>2. \A q : NoNewStart(q)
  BY <1>1, RunnerStops
<1>3. ASSUME Named(r), Same(c, ckpt[r]), NEW a \in Attempts, owner'[a] = r, Startable(a)'
      PROVE  FALSE
  <2>1. owner[a] = r /\ Startable(a)
    BY <1>2, <1>3 DEF NoNewStart
  <2>2. ckpt[r].prepared /\ ckpt[r].runner = a
    BY <1>3, <2>1, Zenon DEF Named
  <2>3. c.prepared /\ c.runner = a
    BY <1>3, <2>2, Zenon DEF Same
  <2>4. FenceTarget(c) = a
    BY <2>3, Zenon DEF FenceTarget
  <2>5. vm'[a] = "gone"
    BY <1>1, <2>4
  <2> QED
    BY <1>3, <2>5 DEF Startable
<1> QED
  BY <1>2, <1>3 DEF Quiet

(* What the writes of an execution leave in the store.                     *)
LEMMA Wrote ==
  ASSUME TypeOK, NEW e \in Execs, NEW r \in Runs, NEW x, NEW c, NEW doc
  PROVE  /\ SetExec(e, x) => exec'[e] = x /\ \A f \in Execs \ {e} : exec'[f] = exec[f]
         /\ Store(r, c) => ckpt'[r] = c /\ \A q \in Runs \ {r} : ckpt'[q] = ckpt[q]
         /\ PatchRun(r, doc) => run'[r] = doc /\ \A q \in Runs \ {r} : run'[q] = run[q]
  BY Zenon DEF TypeOK, SetExec, Store, PatchRun

LEMMA SameChain ==
  ASSUME NEW b, NEW c, NEW d, Same(b, c), Same(c, d) \/ Same(d, c)
  PROVE  Same(b, d) /\ Same(d, b)
  BY Zenon DEF Same

LEMMA SameSelf == \A c : Same(c, c)
  BY DEF Same
----------------------------------------
(* The steps of an execution e of run r, where r was handled by no pass    *)
(* beside it.                                                              *)
Acting(e, r) ==
    /\ TypeOK /\ AttemptOwnership
    /\ exec[e].pc # "free" /\ exec[e].run = r
    /\ CopySound(exec[e], ckpt[r], run[r], Quiet(r))
    /\ DocSound(ckpt[r], run[r], Quiet(r))
    /\ Named(r)

Acted(e, r) ==
    /\ exec'[e].pc # "free" /\ exec'[e].run = r
    /\ CopySound(exec'[e], ckpt'[r], run'[r], Quiet(r)')
    /\ DocSound(ckpt'[r], run'[r], Quiet(r)')
    /\ Named(r)'
    /\ Decided(ckpt[r], run[r], ckpt'[r], run'[r])

(* Execution e goes on at pc with checkpoint c, the rest unchanged.        *)
Became(e, pc, c) ==
    /\ exec'[e].pc = pc /\ exec'[e].ck = c /\ exec'[e].run = exec[e].run
    /\ exec'[e].seen = exec[e].seen /\ exec'[e].fencing = exec[e].fencing
    /\ exec'[e].fenced = exec[e].fenced /\ exec'[e].outcome = exec[e].outcome

LEMMA ActingFacts ==
  ASSUME NEW e \in Execs, NEW r \in Runs, Acting(e, r)
  PROVE  /\ exec[e] \in ExecState /\ exec[e].ck \in Ckpt /\ exec[e].seen \in Ckpt
         /\ run[r] \in RunDoc /\ ckpt[r] \in Ckpt
  BY ExecFacts, Zenon DEF Acting

LEMMA RaisedExec ==
  ASSUME NEW e \in Execs, NEW r \in Runs, Acting(e, r), NEW err, Raise(e, err)
  PROVE  Became(e, "fail", exec[e].ck)
<1> DEFINE x == [exec[e] EXCEPT !.pc = "fail", !.err = err, !.exit = "none",
                                !.attempt = NoAttempt, !.prev = FALSE]
<1>0. TypeOK /\ SetExec(e, x)
  BY Zenon DEF Raise, Acting
<1>1. exec'[e] = x
  BY <1>0, Zenon DEF SetExec, TypeOK
<1>2. exec[e] \in ExecState /\ exec[e].run = r
  BY ActingFacts DEF Acting
<1>3. /\ x.pc = "fail" /\ x.run = exec[e].run /\ x.ck = exec[e].ck
      /\ x.seen = exec[e].seen /\ x.fencing = exec[e].fencing
      /\ x.fenced = exec[e].fenced /\ x.outcome = exec[e].outcome
  BY <1>2, Zenon DEF ExecState
<1> QED
  BY <1>1, <1>3 DEF Became

LEMMA MovedExec ==
  ASSUME NEW e \in Execs, NEW r \in Runs, Acting(e, r), NEW pc, Goto(e, pc)
  PROVE  Became(e, pc, exec[e].ck) /\ exec'[e].attempt = exec[e].attempt
<1> DEFINE x == [exec[e] EXCEPT !.pc = pc]
<1>1. exec'[e] = x
  BY Wrote, ZenonT(60) DEF Goto, Acting
<1>2. exec[e] \in ExecState /\ exec[e].run = r
  BY ActingFacts DEF Acting
<1>3. /\ x.pc = pc /\ x.run = exec[e].run /\ x.ck = exec[e].ck
      /\ x.seen = exec[e].seen /\ x.fencing = exec[e].fencing
      /\ x.fenced = exec[e].fenced /\ x.outcome = exec[e].outcome
      /\ x.attempt = exec[e].attempt
  BY <1>2, Zenon DEF ExecState
<1> QED
  BY <1>1, <1>3 DEF Became

LEMMA UpdatedExec ==
  ASSUME NEW e \in Execs, NEW r \in Runs, Acting(e, r), NEW c, NEW pc, Update(e, c, pc)
  PROVE  Became(e, pc, c) /\ exec'[e].attempt = exec[e].attempt /\ ckpt'[r] = c
<1> DEFINE x == [exec[e] EXCEPT !.ck = c, !.pc = pc]
<1>2. exec[e] \in ExecState /\ exec[e].run = r
  BY ActingFacts DEF Acting
<1>0. TypeOK /\ SetExec(e, x) /\ Store(r, c)
  BY <1>2, Zenon DEF Update, Acting
<1>1. exec'[e] = x /\ ckpt'[r] = c
  BY <1>0, Zenon DEF SetExec, Store, TypeOK
<1>3. /\ x.pc = pc /\ x.run = exec[e].run /\ x.ck = c
      /\ x.seen = exec[e].seen /\ x.fencing = exec[e].fencing
      /\ x.fenced = exec[e].fenced /\ x.outcome = exec[e].outcome
      /\ x.attempt = exec[e].attempt
  BY <1>2, Zenon DEF ExecState
<1> QED
  BY <1>1, <1>3 DEF Became

(* An error of the attempt.                                                *)
LEMMA RaiseActs ==
  ASSUME NEW e \in Execs, NEW r \in Runs, Acting(e, r), NEW err, Raise(e, err),
         UNCHANGED <<run, ckpt, owner, client, vm>>,
         ~exec[e].fencing, exec[e].pc \notin Ending \cup {"load"},
         exec[e].pc \in {"mark", "fail"} => MaxIoErrors # 0
  PROVE  Acted(e, r)
<1>1. Became(e, "fail", exec[e].ck)
  BY RaisedExec
<1>2. Quiet(r)' <=> Quiet(r)
  BY RunnerStill
<1>3. Named(r)'
  BY RunnerStill, StaysNamed DEF Acting
<1>4. CopySound(exec[e], ckpt[r], run[r], Quiet(r)) /\ DocSound(ckpt[r], run[r], Quiet(r))
  BY DEF Acting
<1>5. ~exec[e].fenced
  BY <1>4, Zenon DEF CopySound, Ending
<1>6. run[r].status = "running" \/ MaxIoErrors # 0
  <2>1. exec[e].pc \in ExecPcs /\ exec[e].pc # "free"
    BY ActingFacts, Zenon DEF ExecState, Acting
  <2>2. exec[e].pc \in {"mark", "fail", "prepare"} \cup Prepared
    BY <2>1, Zenon DEF ExecPcs, Prepared, Ending
  <2> QED
    BY <1>4, <2>2, Zenon DEF CopySound
<1>7. CopySound(exec'[e], ckpt'[r], run'[r], Quiet(r)')
  BY <1>1, <1>4, <1>5, <1>6, Zenon DEF CopySound, Became, Ending, Early, Calm, Prepared, Spawned
<1>8. DocSound(ckpt'[r], run'[r], Quiet(r)')
  BY <1>2, <1>4, Zenon DEF DocSound
<1> QED
  BY <1>1, <1>3, <1>7, <1>8, Zenon DEF Acted, Acting, Became, Decided

LEMMA FreshFields ==
    /\ Fresh.exists /\ ~Fresh.prepared /\ Fresh.runner = NoAttempt
    /\ ~Fresh.completed /\ Fresh.settled = "none"
<1>1. NoCkpt \in Ckpt /\ NoCkpt.runner = NoAttempt /\ ~NoCkpt.completed
      /\ NoCkpt.settled = "none" /\ ~NoCkpt.prepared
  BY ValueTypes DEF NoCkpt
<1> QED
  BY <1>1, Zenon DEF Fresh, Ckpt

LEMMA LoadActs ==
  ASSUME NEW e \in Execs, NEW r \in Runs, Acting(e, r), ExecLoad(e)
  PROVE  Acted(e, r)
<1>1. PICK c : c = IF ckpt[r].exists THEN ckpt[r] ELSE Fresh
  OBVIOUS
<1>2. Update(e, c, "mark") /\ UNCHANGED <<run, owner, client, vm>> /\ exec[e].pc = "load"
  BY <1>1, Zenon DEF ExecLoad, Acting, runnerVars
<1>3. Became(e, "mark", c) /\ exec'[e].attempt = exec[e].attempt /\ ckpt'[r] = c
  BY <1>2, UpdatedExec
<1>4. CopySound(exec[e], ckpt[r], run[r], Quiet(r)) /\ DocSound(ckpt[r], run[r], Quiet(r))
  BY DEF Acting
<1>5. Quiet(r) /\ ~exec[e].fencing /\ ~exec[e].fenced /\ exec[e].outcome # "running"
      /\ ~ckpt[r].completed /\ Unsettled(ckpt[r]) /\ ckpt[r].settled \notin ActiveStatuses
  BY <1>2, <1>4, Zenon DEF CopySound, DocSound, Calm, Early, Ending
<1>6. Quiet(r)'
  BY <1>2, <1>5, RunnerStill
<1>7. Named(r)'
  BY <1>6 DEF Quiet, Named
<1>8. c.exists /\ ~c.completed /\ Unsettled(c) /\ c.settled \notin ActiveStatuses
      /\ (c.settled # "none" => c.settled = ckpt[r].settled)
      /\ (ckpt[r].settled # "none" => c.settled = ckpt[r].settled \/ ~ckpt[r].exists)
  BY <1>1, <1>5, FreshFields, Zenon DEF Unsettled, ActiveStatuses
<1>9. CopySound(exec'[e], ckpt'[r], run'[r], Quiet(r)')
  BY <1>3, <1>5, <1>6, <1>8, Zenon
     DEF CopySound, Same, Became, Ending, Early, Calm, Prepared, Spawned
<1>10. DocSound(ckpt'[r], run'[r], Quiet(r)')
  BY <1>3, <1>6, <1>8, Zenon DEF DocSound
<1>11. Decided(ckpt[r], run[r], ckpt'[r], run'[r])
  BY <1>2, <1>5, Zenon DEF Decided, Unsettled
<1> QED
  BY <1>3, <1>7, <1>9, <1>10, <1>11 DEF Acted, Acting, Became

LEMMA MarkActs ==
  ASSUME NEW e \in Execs, NEW r \in Runs, Acting(e, r), ExecMarkRunning(e)
  PROVE  Acted(e, r)
<1>1. PICK doc : doc = [run[r] EXCEPT !.status = "running", !.started = TRUE,
                                      !.waiting = FALSE]
  OBVIOUS
<1>2. /\ Goto(e, "prepare") /\ UNCHANGED <<ckpt, owner, client, vm>>
      /\ PatchRun(r, doc) /\ exec[e].pc = "mark" /\ TypeOK
  BY <1>1, Zenon DEF ExecMarkRunning, Acting, runnerVars
<1>3. Became(e, "prepare", exec[e].ck) /\ exec'[e].attempt = exec[e].attempt
  BY <1>2, MovedExec
<1>4. CopySound(exec[e], ckpt[r], run[r], Quiet(r)) /\ DocSound(ckpt[r], run[r], Quiet(r))
  BY DEF Acting
<1>5. run'[r] = doc /\ doc.status = "running" /\ doc.recovering = run[r].recovering
  BY <1>1, <1>2, ActingFacts, Zenon DEF PatchRun, TypeOK, RunDoc
<1>6. Quiet(r)' <=> Quiet(r)
  BY <1>2, RunnerStill
<1>7. Named(r)'
  BY <1>2, RunnerStill, StaysNamed DEF Acting
<1>8. CopySound(exec'[e], ckpt'[r], run'[r], Quiet(r)')
  BY <1>2, <1>3, <1>4, <1>5, <1>6, Zenon
     DEF CopySound, Same, Became, Ending, Early, Calm, Prepared, Spawned
<1>9. DocSound(ckpt'[r], run'[r], Quiet(r)')
  BY <1>2, <1>4, <1>5, Zenon DEF DocSound, ActiveStatuses
<1>10. Decided(ckpt[r], run[r], ckpt'[r], run'[r])
  BY <1>2, <1>5, Zenon DEF Decided
<1> QED
  BY <1>3, <1>7, <1>8, <1>9, <1>10 DEF Acted, Acting, Became

LEMMA PrepareActs ==
  ASSUME NEW e \in Execs, NEW r \in Runs, Acting(e, r), ExecPrepare(e)
  PROVE  Acted(e, r)
<1>1. CopySound(exec[e], ckpt[r], run[r], Quiet(r)) /\ DocSound(ckpt[r], run[r], Quiet(r))
  BY DEF Acting
<1>2. exec[e].pc = "prepare" /\ UNCHANGED <<owner, client, vm>> /\ TypeOK /\ exec[e].run = r
  BY Zenon DEF ExecPrepare, Acting, runnerVars
<1>3. CASE Raise(e, "conflict") /\ UNCHANGED <<run, ckpt>>
  <2>1. ~exec[e].fencing /\ exec[e].pc \notin Ending \cup {"load"}
    BY <1>1, <1>2, Zenon DEF CopySound, Ending
  <2> QED
    BY <1>2, <1>3, <2>1, RaiseActs
<1>4. CASE /\ Update(e, [exec[e].ck EXCEPT !.prepared = TRUE], "reserve")
           /\ PatchRun(r, [run[r] EXCEPT !.resumable = @ \/ exec[e].ck.launched])
  <2>1. PICK c, doc : /\ c = [exec[e].ck EXCEPT !.prepared = TRUE]
                      /\ doc = [run[r] EXCEPT !.resumable = @ \/ exec[e].ck.launched]
    OBVIOUS
  <2>2. /\ c.exists = exec[e].ck.exists /\ c.prepared /\ c.completed = exec[e].ck.completed
        /\ c.settled = exec[e].ck.settled
    BY <2>1, ActingFacts, Zenon DEF Ckpt
  <2>3. run'[r] = doc /\ doc.status = run[r].status /\ doc.recovering = run[r].recovering
    BY <1>2, <1>4, <2>1, ActingFacts, ZenonT(40) DEF PatchRun, TypeOK, RunDoc
  <2>4. Became(e, "reserve", c) /\ exec'[e].attempt = exec[e].attempt /\ ckpt'[r] = c
    BY <1>4, <2>1, UpdatedExec
  <2>5. Quiet(r) /\ Quiet(r)'
    BY <1>1, <1>2, RunnerStill DEF CopySound, Calm, Early
  <2>6. Named(r)'
    BY <2>5 DEF Quiet, Named
  <2>7. c.settled = ckpt[r].settled /\ c.completed = ckpt[r].completed /\ c.exists
    BY <1>1, <1>2, <2>2, Zenon DEF CopySound, Same
  <2>8. CopySound(exec'[e], ckpt'[r], run'[r], Quiet(r)')
    BY <1>1, <1>2, <2>2, <2>3, <2>4, <2>5, <2>7, Zenon
       DEF CopySound, Same, Became, Unsettled, Ending, Early, Calm, Prepared, Spawned
  <2>9. DocSound(ckpt'[r], run'[r], Quiet(r)')
    BY <1>1, <2>3, <2>4, <2>5, <2>7, Zenon DEF DocSound, Unsettled
  <2>10. Decided(ckpt[r], run[r], ckpt'[r], run'[r])
    BY <2>3, <2>4, <2>7, Zenon DEF Decided
  <2> QED
    BY <2>4, <2>6, <2>8, <2>9, <2>10 DEF Acted, Acting, Became
<1> QED
  BY <1>2, <1>3, <1>4, Zenon DEF ExecPrepare

LEMMA ReserveActs ==
  ASSUME NEW e \in Execs, NEW r \in Runs, Acting(e, r), ExecReserve(e)
  PROVE  Acted(e, r)
<1>1. CopySound(exec[e], ckpt[r], run[r], Quiet(r)) /\ DocSound(ckpt[r], run[r], Quiet(r))
  BY DEF Acting
<1>2. /\ exec[e].pc = "reserve" /\ UNCHANGED <<run, ckpt, client, vm>> /\ TypeOK
      /\ exec[e].run = r /\ AttemptOwnership
  BY Zenon DEF ExecReserve, Acting, runnerVars
<1>3. CASE (Raise(e, "conflict") \/ Raise(e, "nocapacity")) /\ UNCHANGED <<owner, held>>
  <2>1. ~exec[e].fencing /\ exec[e].pc \notin Ending \cup {"load"}
    BY <1>1, <1>2, Zenon DEF CopySound, Ending
  <2> QED
    BY <1>2, <1>3, <2>1, RaiseActs
<1>4. ASSUME NEW a \in Attempts, owner[a] = NoRun, owner' = [owner EXCEPT ![a] = r],
             SetExec(e, [exec[e] EXCEPT !.pc = "placed", !.attempt = a])
      PROVE  Acted(e, r)
  <2>1. Became(e, "placed", exec[e].ck)
    <3>1. exec'[e] = [exec[e] EXCEPT !.pc = "placed", !.attempt = a]
      BY <1>2, <1>4, Zenon DEF SetExec, TypeOK
    <3> QED
      BY <3>1, ActingFacts, Zenon DEF Became, ExecState
  <2>2. ~Startable(a)'
    BY <1>2, <1>4 DEF AttemptOwnership, UnownedUntouched, Startable
  <2>3. \A b \in Attempts \ {a} : owner'[b] = owner[b] /\ (Startable(b)' <=> Startable(b))
    BY <1>2, <1>4 DEF TypeOK, Startable
  <2>4. Quiet(r) /\ Quiet(r)'
    BY <1>1, <1>2, <2>2, <2>3 DEF CopySound, Calm, Quiet
  <2>5. Named(r)'
    BY <2>4 DEF Quiet, Named
  <2>6. CopySound(exec'[e], ckpt'[r], run'[r], Quiet(r)')
    BY <1>1, <1>2, <2>1, <2>4, Zenon
       DEF CopySound, Same, Became, Ending, Early, Calm, Prepared, Spawned
  <2>7. DocSound(ckpt'[r], run'[r], Quiet(r)') /\ Decided(ckpt[r], run[r], ckpt'[r], run'[r])
    BY <1>1, <1>2, <2>4, Zenon DEF DocSound, Decided
  <2> QED
    BY <2>1, <2>5, <2>6, <2>7, Zenon DEF Acted, Acting, Became
<1> QED
  BY <1>2, <1>3, <1>4, Zenon DEF ExecReserve

LEMMA PlacedActs ==
  ASSUME NEW e \in Execs, NEW r \in Runs, Acting(e, r), ExecPlaced(e)
  PROVE  Acted(e, r)
<1>1. CopySound(exec[e], ckpt[r], run[r], Quiet(r)) /\ DocSound(ckpt[r], run[r], Quiet(r))
  BY DEF Acting
<1>2. PICK c : c = [exec[e].ck EXCEPT !.runner = exec[e].attempt]
  OBVIOUS
<1>3. exec[e].pc = "placed" /\ UNCHANGED <<run, owner, client, vm>> /\ Update(e, c, "spawn")
  BY <1>2, Zenon DEF ExecPlaced, runnerVars
<1>4. /\ c.exists = exec[e].ck.exists /\ c.prepared = exec[e].ck.prepared
      /\ c.completed = exec[e].ck.completed /\ c.settled = exec[e].ck.settled
      /\ c.runner = exec[e].attempt
  BY <1>2, ActingFacts, Zenon DEF Ckpt
<1>5. Became(e, "spawn", c) /\ exec'[e].attempt = exec[e].attempt /\ ckpt'[r] = c
  BY <1>3, UpdatedExec
<1>6. Quiet(r) /\ Quiet(r)'
  BY <1>1, <1>3, RunnerStill DEF CopySound, Calm
<1>7. Named(r)'
  BY <1>6 DEF Quiet, Named
<1>8. /\ c.settled = ckpt[r].settled /\ c.completed = ckpt[r].completed
      /\ c.exists /\ c.prepared
  BY <1>1, <1>3, <1>4, Zenon DEF CopySound, Same, Prepared
<1>9. CopySound(exec'[e], ckpt'[r], run'[r], Quiet(r)')
  BY <1>1, <1>3, <1>4, <1>5, <1>6, <1>8, Zenon
     DEF CopySound, Same, Became, Unsettled, Ending, Early, Calm, Prepared, Spawned
<1>10. DocSound(ckpt'[r], run'[r], Quiet(r)') /\ Decided(ckpt[r], run[r], ckpt'[r], run'[r])
  BY <1>1, <1>3, <1>5, <1>6, <1>8, Zenon DEF DocSound, Decided, Unsettled
<1> QED
  BY <1>5, <1>7, <1>9, <1>10, Zenon DEF Acted, Acting, Became

LEMMA SpawnActs ==
  ASSUME NEW e \in Execs, NEW r \in Runs, Acting(e, r), ExecSpawn(e)
  PROVE  Acted(e, r)
<1>1. CopySound(exec[e], ckpt[r], run[r], Quiet(r)) /\ DocSound(ckpt[r], run[r], Quiet(r))
  BY DEF Acting
<1>2. /\ exec[e].pc = "spawn" /\ UNCHANGED <<run, owner, client, vm>> /\ TypeOK
      /\ exec[e].run = r
  BY Zenon DEF ExecSpawn, Acting, runnerVars
<1>3. PICK c : c = [exec[e].ck EXCEPT !.launched = TRUE, !.completed = FALSE,
                      !.cause = "none", !.proc = exec[e].attempt]
  OBVIOUS
<1>4. CASE Raise(e, "unavailable") /\ UNCHANGED ckpt
  <2>1. ~exec[e].fencing /\ exec[e].pc \notin Ending \cup {"load"}
    BY <1>1, <1>2, Zenon DEF CopySound, Ending
  <2> QED
    BY <1>2, <1>4, <2>1, RaiseActs
<1>5. CASE /\ SetExec(e, [exec[e] EXCEPT !.pc = "start", !.ck = c,
                            !.prev = exec[e].ck.launched, !.exit = "none"])
           /\ Store(r, c)
  <2>1. Became(e, "start", c) /\ exec'[e].attempt = exec[e].attempt
    <3>1. exec'[e] = [exec[e] EXCEPT !.pc = "start", !.ck = c,
                            !.prev = exec[e].ck.launched, !.exit = "none"]
      BY <1>2, <1>5, Zenon DEF SetExec, TypeOK
    <3> QED
      BY <3>1, ActingFacts, Zenon DEF Became, ExecState
  <2>2. ckpt'[r] = c
    BY <1>2, <1>5, Zenon DEF Store, TypeOK
  <2>3. /\ c.exists = exec[e].ck.exists /\ c.prepared = exec[e].ck.prepared
        /\ ~c.completed /\ c.settled = exec[e].ck.settled
        /\ c.runner = exec[e].ck.runner
    BY <1>3, ActingFacts, Zenon DEF Ckpt
  <2>4. Quiet(r) /\ Quiet(r)'
    BY <1>1, <1>2, RunnerStill DEF CopySound, Calm
  <2>5. Named(r)'
    BY <2>4 DEF Quiet, Named
  <2>6. /\ c.settled = ckpt[r].settled /\ c.exists /\ c.prepared
        /\ c.runner = exec[e].attempt
    BY <1>1, <1>2, <2>3, Zenon DEF CopySound, Same, Prepared, Spawned
  <2>7. CopySound(exec'[e], ckpt'[r], run'[r], Quiet(r)')
    BY <1>1, <1>2, <2>1, <2>2, <2>4, <2>6, Zenon
       DEF CopySound, Same, Became, Unsettled, Ending, Early, Calm, Prepared, Spawned
  <2>8. DocSound(ckpt'[r], run'[r], Quiet(r)') /\ Decided(ckpt[r], run[r], ckpt'[r], run'[r])
    BY <1>1, <1>2, <2>2, <2>3, <2>4, <2>6, Zenon DEF DocSound, Decided, Unsettled
  <2> QED
    BY <2>1, <2>5, <2>7, <2>8, Zenon DEF Acted, Acting, Became
<1> QED
  BY <1>2, <1>3, <1>4, <1>5, Zenon DEF ExecSpawn

(* The only step that lets a VM start: its attempt is the one the          *)
(* checkpoint names.                                                       *)
LEMMA StartActs ==
  ASSUME NEW e \in Execs, NEW r \in Runs, Acting(e, r), ExecStart(e)
  PROVE  Acted(e, r)
<1>1. CopySound(exec[e], ckpt[r], run[r], Quiet(r)) /\ DocSound(ckpt[r], run[r], Quiet(r))
  BY DEF Acting
<1>2. /\ exec[e].pc = "start" /\ UNCHANGED <<run, ckpt, owner, vm>> /\ TypeOK
      /\ exec[e].run = r
  BY Zenon DEF ExecStart, Acting, storeVars
<1>3. CASE Raise(e, "conflict") /\ UNCHANGED client
  <2>1. ~exec[e].fencing /\ exec[e].pc \notin Ending \cup {"load"}
    BY <1>1, <1>2, Zenon DEF CopySound, Ending
  <2> QED
    BY <1>2, <1>3, <2>1, RaiseActs
<1>4. CASE client' = client \cup {exec[e].attempt} /\ Goto(e, "wait")
  <2>1. Became(e, "wait", exec[e].ck) /\ exec'[e].attempt = exec[e].attempt
    BY <1>4, MovedExec
  <2>2. Quiet(r)
    BY <1>1, <1>2 DEF CopySound, Calm
  <2>3. ckpt[r].exists /\ ckpt[r].prepared /\ ckpt[r].runner = exec[e].attempt
    BY <1>1, <1>2, Zenon DEF CopySound, Prepared, Spawned
  <2>4. \A a \in Attempts : owner'[a] = r /\ Startable(a)' => a = exec[e].attempt
    BY <1>2, <1>4, <2>2 DEF Quiet, Startable
  <2>5. Named(r)'
    BY <1>2, <2>3, <2>4, Zenon DEF Named
  <2>6. run[r].status = "running"
    BY <1>1, <1>2 DEF CopySound, Prepared
  <2>7. CopySound(exec'[e], ckpt'[r], run'[r], Quiet(r)')
    BY <1>1, <1>2, <2>1, Zenon
       DEF CopySound, Same, Became, Ending, Early, Calm, Prepared, Spawned
  <2>8. DocSound(ckpt'[r], run'[r], Quiet(r)') /\ Decided(ckpt[r], run[r], ckpt'[r], run'[r])
    BY <1>1, <1>2, <2>6, Zenon DEF DocSound, Decided, ActiveStatuses
  <2> QED
    BY <2>1, <2>5, <2>7, <2>8, Zenon DEF Acted, Acting, Became
<1> QED
  BY <1>2, <1>3, <1>4, Zenon DEF ExecStart
----------------------------------------
(* Reports, heartbeats and the end of the client. *)
LEMMA ReportActs ==
  ASSUME NEW e \in Execs, NEW r \in Runs, Acting(e, r),
         ExecThreadStarted(e) \/ Heartbeat(e)
  PROVE  Acted(e, r)
<1>1. CopySound(exec[e], ckpt[r], run[r], Quiet(r)) /\ DocSound(ckpt[r], run[r], Quiet(r))
  BY DEF Acting
<1>2. /\ UNCHANGED <<owner, client, vm, exec>> /\ TypeOK
      /\ exec[e].run = r /\ exec[e].pc # "free" /\ Named(r)
  BY Zenon DEF ExecThreadStarted, Heartbeat, Acting, runnerVars, workerVars
<1>3. /\ run'[r].status = run[r].status /\ run'[r].recovering = run[r].recovering
      /\ Same(ckpt'[r], ckpt[r])
  <2>1. CASE ExecThreadStarted(e)
    <3>1. UNCHANGED ckpt /\ run'[r] = [run[r] EXCEPT !.session = TRUE, !.resumable = TRUE]
      BY <1>2, <2>1, Zenon DEF ExecThreadStarted, PatchRun, TypeOK
    <3> QED
      BY <3>1, ActingFacts, SameSelf, Zenon DEF RunDoc
  <2>2. CASE Heartbeat(e)
    <3>1. UNCHANGED run /\ ckpt'[r] = exec[e].ck /\ exec[e].pc \notin {"load", "requeue", "remove"}
      BY <1>2, <2>2, Zenon DEF Heartbeat, Store, TypeOK
    <3> QED
      BY <1>1, <3>1, Zenon DEF CopySound
  <2> QED
    BY <2>1, <2>2
<1>4. Quiet(r)' <=> Quiet(r)
  BY <1>2, RunnerStill
<1>5. Named(r)'
  BY <1>2, <1>3, RunnerStill, StaysNamed DEF Same
<1>6. CopySound(exec[e], ckpt'[r], run'[r], Quiet(r)')
  <2>1. /\ Same(exec[e].seen, ckpt[r]) => Same(exec[e].seen, ckpt'[r])
        /\ Same(exec[e].ck, ckpt[r]) => Same(exec[e].ck, ckpt'[r])
    BY <1>3, SameChain
  <2>2. /\ ckpt'[r].exists = ckpt[r].exists /\ ckpt'[r].prepared = ckpt[r].prepared
        /\ ckpt'[r].runner = ckpt[r].runner /\ ckpt'[r].completed = ckpt[r].completed
        /\ (Unsettled(ckpt[r]) => Unsettled(ckpt'[r]))
    BY <1>3, Zenon DEF Same, Unsettled
  <2> QED
    BY <1>1, <1>3, <1>4, <2>1, <2>2, ZenonT(40) DEF CopySound
<1>7. DocSound(ckpt'[r], run'[r], Quiet(r)') /\ Decided(ckpt[r], run[r], ckpt'[r], run'[r])
  BY <1>1, <1>3, <1>4, Zenon DEF DocSound, Decided, Unsettled, Same
<1> QED
  BY <1>2, <1>5, <1>6, <1>7, Zenon DEF Acted

LEMMA TurnActs ==
  ASSUME NEW e \in Execs, NEW r \in Runs, Acting(e, r),
         ExecTurnCompleted(e) \/ ExecTurnFailed(e) \/ ExecExit(e)
  PROVE  Acted(e, r)
<1>1. CopySound(exec[e], ckpt[r], run[r], Quiet(r)) /\ DocSound(ckpt[r], run[r], Quiet(r))
  BY DEF Acting
<1>2. /\ UNCHANGED <<run, owner, vm>> /\ client' \subseteq client /\ TypeOK
      /\ exec[e].run = r /\ exec[e].pc = "wait" /\ Named(r)
  BY DEF ExecTurnCompleted, ExecTurnFailed, ExecExit, Reporting, Acting, runnerVars
<1>3. PICK c, pc :
        /\ Became(e, pc, c) /\ ckpt'[r] = c
        /\ (pc = "wait" /\ exec'[e].attempt = exec[e].attempt) \/ pc = "afence"
        /\ c.exists = exec[e].ck.exists /\ c.prepared = exec[e].ck.prepared
        /\ c.settled = exec[e].ck.settled /\ c.runner = exec[e].ck.runner
  <2>1. CASE ExecTurnCompleted(e)
    <3>1. PICK c : c = [exec[e].ck EXCEPT !.completed = TRUE]
      OBVIOUS
    <3>2. Update(e, c, "wait")
      BY <2>1, <3>1, Zenon DEF ExecTurnCompleted
    <3>3. /\ c.exists = exec[e].ck.exists /\ c.prepared = exec[e].ck.prepared
          /\ c.settled = exec[e].ck.settled /\ c.runner = exec[e].ck.runner
      BY <3>1, ActingFacts, Zenon DEF Ckpt
    <3> QED
      BY <3>2, <3>3, UpdatedExec
  <2>2. CASE ExecTurnFailed(e)
    <3>1. PICK cause : Update(e, [exec[e].ck EXCEPT !.cause = cause, !.completed = FALSE],
                              "wait")
      BY <2>2, Zenon DEF ExecTurnFailed
    <3>2. PICK c : c = [exec[e].ck EXCEPT !.cause = cause, !.completed = FALSE]
      OBVIOUS
    <3>3. /\ c.exists = exec[e].ck.exists /\ c.prepared = exec[e].ck.prepared
          /\ c.settled = exec[e].ck.settled /\ c.runner = exec[e].ck.runner
      BY <3>2, ActingFacts, Zenon DEF Ckpt
    <3> QED
      BY <3>1, <3>2, <3>3, UpdatedExec
  <2>3. CASE ExecExit(e)
    <3>1. PICK exit \in ExitsNow(e) :
            LET first == exit = "rejected" /\ ~exec[e].prev /\ ~run[r].session
                c == [exec[e].ck EXCEPT !.proc = NoAttempt,
                        !.cause = IF exit = "rejected" THEN "terminal" ELSE @,
                        !.launched = @ /\ ~first] IN
            /\ Store(r, c)
            /\ SetExec(e, [exec[e] EXCEPT !.pc = "afence", !.exit = exit, !.ck = c,
                             !.attempt = NoAttempt, !.prev = FALSE])
      BY <1>2, <2>3, Zenon DEF ExecExit
    <3>2. PICK c : c = [exec[e].ck EXCEPT !.proc = NoAttempt,
                          !.cause = IF exit = "rejected" THEN "terminal" ELSE @,
                          !.launched = @ /\ ~(exit = "rejected" /\ ~exec[e].prev
                                              /\ ~run[r].session)]
      OBVIOUS
    <3>3. /\ ckpt'[r] = c
          /\ exec'[e] = [exec[e] EXCEPT !.pc = "afence", !.exit = exit, !.ck = c,
                             !.attempt = NoAttempt, !.prev = FALSE]
      BY <1>2, <3>1, <3>2, Zenon DEF Store, SetExec, TypeOK
    <3>4. /\ c.exists = exec[e].ck.exists /\ c.prepared = exec[e].ck.prepared
          /\ c.settled = exec[e].ck.settled /\ c.runner = exec[e].ck.runner
      BY <3>2, ActingFacts, Zenon DEF Ckpt
    <3>5. Became(e, "afence", c)
      BY <3>3, ActingFacts, Zenon DEF Became, ExecState
    <3> QED
      BY <3>3, <3>4, <3>5
  <2> QED
    BY <2>1, <2>2, <2>3
<1>4. /\ c.exists = ckpt[r].exists /\ c.prepared = ckpt[r].prepared /\ c.exists
      /\ c.settled = ckpt[r].settled /\ c.runner = ckpt[r].runner /\ c.prepared
      /\ c.runner = exec[e].attempt /\ run[r].status = "running"
  BY <1>1, <1>2, <1>3, Zenon DEF CopySound, Same, Prepared, Spawned
<1>5. NoNewStart(r)
  BY <1>2, RunnerStops
<1>6. Named(r)'
  BY <1>2, <1>3, <1>4, <1>5, StaysNamed
<1>7. CopySound(exec'[e], ckpt'[r], run'[r], Quiet(r)')
  BY <1>1, <1>2, <1>3, <1>4, Zenon
     DEF CopySound, Same, Became, Unsettled, Ending, Early, Calm, Prepared, Spawned
<1>8. DocSound(ckpt'[r], run'[r], Quiet(r)') /\ Decided(ckpt[r], run[r], ckpt'[r], run'[r])
  BY <1>1, <1>2, <1>3, <1>4, Zenon DEF DocSound, Decided, ActiveStatuses
<1> QED
  BY <1>2, <1>3, <1>6, <1>7, <1>8, Zenon DEF Acted, Became
----------------------------------------
(* The fences of an execution. *)
LEMMA FenceBeginActs ==
  ASSUME NEW e \in Execs, NEW r \in Runs, Acting(e, r), ExecFenceBegin(e)
  PROVE  Acted(e, r)
<1>1. CopySound(exec[e], ckpt[r], run[r], Quiet(r)) /\ DocSound(ckpt[r], run[r], Quiet(r))
  BY DEF Acting
<1>2. /\ UNCHANGED <<run, ckpt, owner, client, vm>> /\ TypeOK /\ exec[e].run = r
      /\ exec[e].pc \in {"afence", "efence"} /\ ~exec[e].fencing /\ Named(r)
  BY Zenon DEF ExecFenceBegin, Acting, storeVars, runnerVars
<1>3. Quiet(r)' <=> Quiet(r)
  BY <1>2, RunnerStill
<1>4. Named(r)'
  BY <1>2, RunnerStill, StaysNamed
<1>5. Same(exec[e].ck, ckpt[r]) /\ ckpt[r].exists
  BY <1>1, <1>2, Zenon DEF CopySound
<1>6. DocSound(ckpt'[r], run'[r], Quiet(r)') /\ Decided(ckpt[r], run[r], ckpt'[r], run'[r])
  BY <1>1, <1>2, <1>3, Zenon DEF DocSound, Decided
<1>7. CASE /\ exec[e].pc = "efence" /\ ~(exec[e].ck.prepared /\ exec[e].ck.runner # NoAttempt)
           /\ SetExec(e, [exec[e] EXCEPT !.pc = "release", !.fenced = TRUE])
  <2>1. exec'[e] = [exec[e] EXCEPT !.pc = "release", !.fenced = TRUE]
    BY <1>2, <1>7, Zenon DEF SetExec, TypeOK
  <2>2. /\ exec'[e].pc = "release" /\ exec'[e].run = r /\ exec'[e].ck = exec[e].ck
        /\ exec'[e].fencing = exec[e].fencing /\ exec'[e].outcome = exec[e].outcome
    BY <1>2, <2>1, ActingFacts, Zenon DEF ExecState
  <2>3. Quiet(r)
    BY <1>2, <1>5, <1>7, NothingToFenceIsQuiet, Zenon DEF Same
  <2>4. CopySound(exec'[e], ckpt'[r], run'[r], Quiet(r)')
    BY <1>1, <1>2, <1>3, <1>7, <2>2, <2>3, Zenon
       DEF CopySound, Ending, Early, Calm, Prepared, Spawned
  <2> QED
    BY <1>4, <1>6, <2>2, <2>4, Zenon DEF Acted
<1>8. CASE SetExec(e, [exec[e] EXCEPT !.fencing = TRUE, !.seen = ckpt[r]])
  <2>1. exec'[e] = [exec[e] EXCEPT !.fencing = TRUE, !.seen = ckpt[r]]
    BY <1>2, <1>8, Zenon DEF SetExec, TypeOK
  <2>2. /\ exec'[e].pc = exec[e].pc /\ exec'[e].run = r /\ exec'[e].ck = exec[e].ck
        /\ exec'[e].fenced = exec[e].fenced /\ exec'[e].outcome = exec[e].outcome
        /\ exec'[e].seen = ckpt[r] /\ exec'[e].attempt = exec[e].attempt
    BY <1>2, <2>1, ActingFacts, Zenon DEF ExecState
  <2>3. CopySound(exec'[e], ckpt'[r], run'[r], Quiet(r)')
    BY <1>1, <1>2, <1>3, <2>2, SameSelf, Zenon DEF CopySound
  <2> QED
    BY <1>2, <1>4, <1>6, <2>2, <2>3, Zenon DEF Acted
<1> QED
  BY <1>2, <1>7, <1>8, Zenon DEF ExecFenceBegin

LEMMA FencedActs ==
  ASSUME NEW e \in Execs, NEW r \in Runs, Acting(e, r), ExecFenced(e)
  PROVE  Acted(e, r)
<1>1. CopySound(exec[e], ckpt[r], run[r], Quiet(r)) /\ DocSound(ckpt[r], run[r], Quiet(r))
  BY DEF Acting
<1>2. /\ UNCHANGED <<run, owner>> /\ TypeOK /\ exec[e].run = r
      /\ exec[e].pc \in {"afence", "efence"} /\ exec[e].fencing /\ Named(r)
      /\ FenceConfirmed(r, exec[e].seen)
  BY Zenon DEF ExecFenced, Acting
<1>3. PICK x : x = [exec[e] EXCEPT !.fencing = FALSE, !.seen = NoCkpt,
                      !.fenced = exec[e].pc = "efence",
                      !.pc = IF @ = "afence" THEN "judge" ELSE "release"]
  OBVIOUS
<1>4. exec'[e] = x
  BY <1>2, <1>3, Zenon DEF ExecFenced, SetExec, TypeOK
<1>5. /\ x.run = r /\ x.ck = exec[e].ck /\ ~x.fencing /\ x.outcome = exec[e].outcome
      /\ x.pc = (IF exec[e].pc = "afence" THEN "judge" ELSE "release")
      /\ (x.fenced => exec[e].pc = "efence")
  BY <1>2, <1>3, ActingFacts, Zenon DEF ExecState
<1>6. Same(exec[e].seen, ckpt[r]) /\ Same(exec[e].ck, ckpt[r]) /\ ckpt[r].exists
  BY <1>1, <1>2, Zenon DEF CopySound
<1>7. Quiet(r)'
  BY <1>2, <1>6, FenceStops
<1>8. Named(r)'
  BY <1>7 DEF Quiet, Named
<1>9. Same(ckpt'[r], ckpt[r])
  <2>1. ckpt'[r] = ckpt[r] \/ ckpt'[r] = [exec[e].seen EXCEPT !.proc = NoAttempt]
    BY <1>2, Zenon DEF FenceConfirmed, TypeOK
  <2>2. Same([exec[e].seen EXCEPT !.proc = NoAttempt], exec[e].seen)
    BY ActingFacts, Zenon DEF Ckpt, Same
  <2> QED
    BY <1>6, <2>1, <2>2, SameChain, SameSelf
<1>10. /\ Same(exec[e].ck, ckpt'[r])
       /\ ckpt'[r].exists /\ ckpt'[r].prepared = ckpt[r].prepared
       /\ (Unsettled(ckpt[r]) => Unsettled(ckpt'[r]))
       /\ ckpt'[r].settled = ckpt[r].settled /\ ckpt'[r].completed = ckpt[r].completed
  <2>1. Same(exec[e].ck, ckpt'[r])
    BY <1>6, <1>9, SameChain
  <2> QED
    BY <1>6, <1>9, <2>1, Zenon DEF Same, Unsettled
<1>11. CopySound(exec'[e], ckpt'[r], run'[r], Quiet(r)')
  <2>1. CASE exec[e].pc = "afence"
    <3>1. x.pc = "judge" /\ ~x.fenced
      BY <1>5, <2>1
    <3> QED
      BY <1>1, <1>2, <1>4, <1>5, <1>7, <1>10, <2>1, <3>1, Zenon
         DEF CopySound, Ending, Early, Prepared, Spawned
  <2>2. CASE exec[e].pc = "efence"
    <3>1. x.pc = "release"
      BY <1>5, <2>2
    <3> QED
      BY <1>1, <1>2, <1>4, <1>5, <1>7, <1>10, <2>2, <3>1, Zenon
         DEF CopySound, Ending, Early, Calm, Prepared, Spawned
  <2> QED
    BY <1>2, <2>1, <2>2
<1>12. DocSound(ckpt'[r], run'[r], Quiet(r)') /\ Decided(ckpt[r], run[r], ckpt'[r], run'[r])
  BY <1>1, <1>2, <1>7, <1>10, Zenon DEF DocSound, Decided
<1> QED
  BY <1>4, <1>5, <1>8, <1>11, <1>12, Zenon DEF Acted

LEMMA FenceFailedActs ==
  ASSUME NEW e \in Execs, NEW r \in Runs, Acting(e, r), ExecFenceFailed(e)
  PROVE  Acted(e, r)
<1>1. CopySound(exec[e], ckpt[r], run[r], Quiet(r)) /\ DocSound(ckpt[r], run[r], Quiet(r))
  BY DEF Acting
<1>2. /\ UNCHANGED <<owner, client, vm>> /\ TypeOK /\ exec[e].run = r
      /\ exec[e].pc \in {"afence", "efence"} /\ exec[e].fencing /\ Named(r)
  BY Zenon DEF ExecFenceFailed, Acting, runnerVars
<1>3. Quiet(r)' <=> Quiet(r)
  BY <1>2, RunnerStill
<1>4. Same(exec[e].ck, ckpt[r]) /\ ckpt[r].exists
  BY <1>1, <1>2, Zenon DEF CopySound
<1>5. PICK done, c :
        /\ done = [exec[e] EXCEPT !.fencing = FALSE, !.seen = NoCkpt]
        /\ c = [exec[e].ck EXCEPT !.settled =
                  IF run[r].status = "queued" THEN @ ELSE run[r].status]
  OBVIOUS
<1>6. done \in ExecState /\ done.run = r /\ done.ck = exec[e].ck /\ ~done.fencing
      /\ done.fenced = exec[e].fenced /\ done.outcome = exec[e].outcome
  BY <1>2, <1>5, ActingFacts, ValueTypes, Zenon DEF ExecState
<1>7. CASE exec[e].pc = "afence"
  <2>1. PICK x : x = [done EXCEPT !.pc = "fail", !.err = "unavailable", !.exit = "none"]
    OBVIOUS
  <2>2. exec'[e] = x /\ UNCHANGED <<run, ckpt>>
    BY <1>2, <1>5, <1>7, <2>1, Zenon DEF ExecFenceFailed, SetExec, TypeOK
  <2>3. /\ x.pc = "fail" /\ x.run = r /\ x.ck = exec[e].ck /\ ~x.fencing
        /\ x.fenced = exec[e].fenced /\ x.outcome = exec[e].outcome
    BY <1>6, <2>1, Zenon DEF ExecState
  <2>4. CopySound(exec'[e], ckpt'[r], run'[r], Quiet(r)')
    BY <1>1, <1>7, <2>2, <2>3, Zenon DEF CopySound, Ending, Early, Calm, Prepared, Spawned
  <2>5. DocSound(ckpt'[r], run'[r], Quiet(r)') /\ Decided(ckpt[r], run[r], ckpt'[r], run'[r])
    BY <1>1, <1>3, <2>2, Zenon DEF DocSound, Decided
  <2>6. Named(r)'
    BY <1>2, <2>2, RunnerStill, StaysNamed
  <2> QED
    BY <2>2, <2>3, <2>4, <2>5, <2>6, Zenon DEF Acted
<1>8. CASE exec[e].pc = "efence"
  <2>1. PICK x, doc : x = [done EXCEPT !.pc = "release", !.ck = c] /\ doc = Requeued(run[r])
    OBVIOUS
  <2>2. /\ exec'[e] = x /\ run'[r] = doc
        /\ (ckpt'[r] = c \/ (c = exec[e].ck /\ ckpt'[r] = ckpt[r]))
    BY <1>2, <1>5, <1>8, <2>1, Zenon
       DEF ExecFenceFailed, SetExec, Store, PatchRun, TypeOK
  <2>3. /\ x.pc = "release" /\ x.run = r /\ x.ck = c /\ ~x.fencing
        /\ x.fenced = exec[e].fenced /\ x.outcome = exec[e].outcome
    BY <1>6, <2>1, Zenon DEF ExecState
  <2>4. doc.status = "queued" /\ doc.recovering
    BY <2>1, ActingFacts, Zenon DEF Requeued, RunDoc
  <2>5. /\ c.exists = exec[e].ck.exists /\ c.prepared = exec[e].ck.prepared
        /\ c.runner = exec[e].ck.runner /\ c.completed = exec[e].ck.completed
        /\ c.settled = IF run[r].status = "queued" THEN exec[e].ck.settled
                                                   ELSE run[r].status
    BY <1>5, ActingFacts, Zenon DEF Ckpt
  <2>6. /\ Same(c, ckpt'[r]) /\ ckpt'[r].exists
        /\ ckpt'[r].prepared = ckpt[r].prepared /\ ckpt'[r].runner = ckpt[r].runner
        /\ ckpt'[r].settled = c.settled
    BY <1>4, <2>2, <2>5, Zenon DEF Same
  <2>7. /\ ckpt'[r].settled \notin ActiveStatuses
        /\ (MaxIoErrors = 0 /\ ckpt[r].settled # "none" => ckpt'[r].settled = ckpt[r].settled)
    <3>1. run[r].status # "running" /\ ckpt[r].settled \notin ActiveStatuses
          /\ (run[r].status \notin ActiveStatuses => Unsettled(ckpt[r]))
      BY <1>1, <1>8, Zenon DEF CopySound, DocSound
    <3>2. exec[e].ck.settled = ckpt[r].settled
      BY <1>4, Zenon DEF Same
    <3> QED
      BY <2>5, <2>6, <3>1, <3>2, Zenon DEF Unsettled, ActiveStatuses
  <2>8. CopySound(exec'[e], ckpt'[r], run'[r], Quiet(r)')
    BY <1>1, <1>3, <1>8, <2>2, <2>3, <2>4, <2>6, Zenon
       DEF CopySound, ActiveStatuses, Ending, Early, Calm, Prepared, Spawned
  <2>9. DocSound(ckpt'[r], run'[r], Quiet(r)') /\ Decided(ckpt[r], run[r], ckpt'[r], run'[r])
    BY <2>2, <2>4, <2>7, Zenon DEF DocSound, Decided, ActiveStatuses
  <2>10. Named(r)'
    BY <1>2, <1>4, <2>6, RunnerStill, StaysNamed
  <2> QED
    BY <2>2, <2>3, <2>8, <2>9, <2>10, Zenon DEF Acted
<1> QED
  BY <1>2, <1>7, <1>8
----------------------------------------
(* The verdict on an attempt and the end of the execution. *)
LEMMA JudgeActs ==
  ASSUME NEW e \in Execs, NEW r \in Runs, Acting(e, r), ExecJudge(e)
  PROVE  Acted(e, r)
<1>1. CopySound(exec[e], ckpt[r], run[r], Quiet(r)) /\ DocSound(ckpt[r], run[r], Quiet(r))
  BY DEF Acting
<1>2. /\ UNCHANGED <<ckpt, owner, client, vm>> /\ TypeOK /\ exec[e].run = r
      /\ exec[e].pc = "judge" /\ Named(r)
  BY Zenon DEF ExecJudge, Acting, runnerVars
<1>3. CASE /\ Raise(e, "conflict") \/ Raise(e, "unavailable") \/ Raise(e, "retriable")
           /\ UNCHANGED run
  <2>1. ~exec[e].fencing /\ exec[e].pc \notin Ending \cup {"load"}
    BY <1>1, <1>2, Zenon DEF CopySound, Ending
  <2> QED
    BY <1>2, <1>3, <2>1, RaiseActs
<1>4. Quiet(r) /\ Quiet(r)'
  BY <1>1, <1>2, RunnerStill DEF CopySound, Calm
<1>5. Named(r)'
  BY <1>4 DEF Quiet, Named
<1>6. CASE /\ SetExec(e, [exec[e] EXCEPT !.pc = "switch", !.account = FALSE,
                                         !.exit = "none"])
           /\ UNCHANGED run
  <2>1. exec'[e] = [exec[e] EXCEPT !.pc = "switch", !.account = FALSE, !.exit = "none"]
    BY <1>2, <1>6, Zenon DEF SetExec, TypeOK
  <2>2. Became(e, "switch", exec[e].ck)
    BY <2>1, ActingFacts, Zenon DEF Became, ExecState
  <2>3. CopySound(exec'[e], ckpt'[r], run'[r], Quiet(r)')
    BY <1>1, <1>2, <1>4, <1>6, <2>2, Zenon
       DEF CopySound, Became, Ending, Early, Calm, Prepared, Spawned
  <2>4. DocSound(ckpt'[r], run'[r], Quiet(r)') /\ Decided(ckpt[r], run[r], ckpt'[r], run'[r])
    BY <1>1, <1>2, <1>4, <1>6, Zenon DEF DocSound, Decided
  <2> QED
    BY <1>2, <1>5, <2>2, <2>3, <2>4, Zenon DEF Acted, Became
<1>7. CASE /\ PatchRun(r, [run[r] EXCEPT
                !.status = Verdict(e), !.resumable = run[r].session,
                !.retry = IF Verdict(e) = "succeeded" THEN 0 ELSE @])
           /\ SetExec(e, [exec[e] EXCEPT !.pc = "efence", !.exit = "none"])
  <2>1. exec'[e] = [exec[e] EXCEPT !.pc = "efence", !.exit = "none"]
    BY <1>2, <1>7, Zenon DEF SetExec, TypeOK
  <2>2. Became(e, "efence", exec[e].ck)
    BY <2>1, ActingFacts, Zenon DEF Became, ExecState
  <2>3. run'[r].status = Verdict(e) /\ run'[r].recovering = run[r].recovering
    <3>1. PICK doc : doc = [run[r] EXCEPT
                !.status = Verdict(e), !.resumable = run[r].session,
                !.retry = IF Verdict(e) = "succeeded" THEN 0 ELSE @]
      OBVIOUS
    <3>2. run'[r] = doc
      BY <1>2, <1>7, <3>1, Zenon DEF PatchRun, TypeOK
    <3>3. doc.status = Verdict(e) /\ doc.recovering = run[r].recovering
      BY <3>1, ActingFacts, Zenon DEF RunDoc
    <3> QED
      BY <3>2, <3>3
  <2>4. Verdict(e) \in {"cancelled", "succeeded", "failed"}
    BY Zenon DEF Verdict
  <2>5. CopySound(exec'[e], ckpt'[r], run'[r], Quiet(r)')
    BY <1>1, <1>2, <1>4, <2>2, <2>3, <2>4, Zenon
       DEF CopySound, Became, Ending, Early, Calm, Prepared, Spawned
  <2>6. DocSound(ckpt'[r], run'[r], Quiet(r)') /\ Decided(ckpt[r], run[r], ckpt'[r], run'[r])
    BY <1>1, <1>2, <1>4, <2>3, <2>4, Zenon DEF DocSound, Decided, ActiveStatuses
  <2> QED
    BY <1>2, <1>5, <2>2, <2>5, <2>6, Zenon DEF Acted, Became
<1> QED
  BY <1>2, <1>3, <1>6, <1>7, Zenon DEF ExecJudge

LEMMA SwitchActs ==
  ASSUME NEW e \in Execs, NEW r \in Runs, Acting(e, r), ExecSwitch(e)
  PROVE  Acted(e, r)
<1>1. CopySound(exec[e], ckpt[r], run[r], Quiet(r)) /\ DocSound(ckpt[r], run[r], Quiet(r))
  BY DEF Acting
<1>2. /\ UNCHANGED <<run, ckpt, owner, client, vm>> /\ TypeOK /\ exec[e].run = r
      /\ exec[e].pc = "switch" /\ Named(r)
  BY Zenon DEF ExecSwitch, Acting, storeVars, runnerVars
<1>3. CASE Raise(e, "conflict")
  <2>1. ~exec[e].fencing /\ exec[e].pc \notin Ending \cup {"load"}
    BY <1>1, <1>2, Zenon DEF CopySound, Ending
  <2> QED
    BY <1>2, <1>3, <2>1, RaiseActs
<1>4. CASE SetExec(e, [exec[e] EXCEPT !.pc = "reserve", !.account = TRUE])
  <2>1. exec'[e] = [exec[e] EXCEPT !.pc = "reserve", !.account = TRUE]
    BY <1>2, <1>4, Zenon DEF SetExec, TypeOK
  <2>2. Became(e, "reserve", exec[e].ck)
    BY <2>1, ActingFacts, Zenon DEF Became, ExecState
  <2>3. Quiet(r) /\ Quiet(r)'
    BY <1>1, <1>2, RunnerStill DEF CopySound, Calm
  <2>4. Named(r)'
    BY <2>3 DEF Quiet, Named
  <2>5. CopySound(exec'[e], ckpt'[r], run'[r], Quiet(r)')
    BY <1>1, <1>2, <2>2, <2>3, Zenon
       DEF CopySound, Became, Ending, Early, Calm, Prepared, Spawned
  <2>6. DocSound(ckpt'[r], run'[r], Quiet(r)') /\ Decided(ckpt[r], run[r], ckpt'[r], run'[r])
    BY <1>1, <1>2, <2>3, Zenon DEF DocSound, Decided
  <2> QED
    BY <1>2, <2>2, <2>4, <2>5, <2>6, Zenon DEF Acted, Became
<1> QED
  BY <1>2, <1>3, <1>4, Zenon DEF ExecSwitch

LEMMA FailActs ==
  ASSUME NEW e \in Execs, NEW r \in Runs, Acting(e, r), ExecFail(e)
  PROVE  Acted(e, r)
<1>1. CopySound(exec[e], ckpt[r], run[r], Quiet(r)) /\ DocSound(ckpt[r], run[r], Quiet(r))
  BY DEF Acting
<1>2. /\ UNCHANGED <<owner, client, vm>> /\ TypeOK /\ exec[e].run = r
      /\ exec[e].pc = "fail" /\ Named(r)
  BY Zenon DEF ExecFail, Acting, runnerVars
<1>3. Quiet(r)' <=> Quiet(r)
  BY <1>2, RunnerStill
<1>4. Same(exec[e].ck, ckpt[r]) /\ ckpt[r].exists /\ Unsettled(ckpt[r])
  BY <1>1, <1>2, Zenon DEF CopySound, Ending
<1>5. ASSUME NEW doc, PatchRun(r, doc), doc.status = "queued", doc.recovering,
             SetExec(e, [exec[e] EXCEPT !.pc = "efence", !.err = "none"]),
             UNCHANGED ckpt
      PROVE  Acted(e, r)
  <2>1. exec'[e] = [exec[e] EXCEPT !.pc = "efence", !.err = "none"] /\ run'[r] = doc
    BY <1>2, <1>5, Zenon DEF SetExec, PatchRun, TypeOK
  <2>2. Became(e, "efence", exec[e].ck)
    BY <2>1, ActingFacts, Zenon DEF Became, ExecState
  <2>3. CopySound(exec'[e], ckpt'[r], run'[r], Quiet(r)')
    BY <1>1, <1>2, <1>5, <2>1, <2>2, Zenon
       DEF CopySound, Became, ActiveStatuses, Ending, Early, Calm, Prepared, Spawned
  <2>4. DocSound(ckpt'[r], run'[r], Quiet(r)') /\ Decided(ckpt[r], run[r], ckpt'[r], run'[r])
    BY <1>1, <1>5, <2>1, Zenon DEF DocSound, Decided, ActiveStatuses
  <2>5. Named(r)'
    BY <1>2, <1>5, RunnerStill, StaysNamed
  <2> QED
    BY <1>2, <2>2, <2>3, <2>4, <2>5, Zenon DEF Acted, Became
<1>6. CASE /\ PatchRun(r, [Requeued(run[r]) EXCEPT
                             !.retry = @ + 1, !.waiting = TRUE, !.resumable = TRUE])
           /\ SetExec(e, [exec[e] EXCEPT !.pc = "efence", !.err = "none"])
           /\ UNCHANGED ckpt
  <2>1. Requeued(run[r]) \in RunDoc /\ Requeued(run[r]).status = "queued"
        /\ Requeued(run[r]).recovering
    BY ActingFacts, Zenon DEF Requeued, RunDoc, Statuses
  <2>2. PICK doc : doc = [Requeued(run[r]) EXCEPT
                            !.retry = @ + 1, !.waiting = TRUE, !.resumable = TRUE]
    OBVIOUS
  <2>3. doc.status = "queued" /\ doc.recovering
    BY <2>1, <2>2, Zenon DEF RunDoc
  <2> QED
    BY <1>5, <1>6, <2>2, <2>3
<1>7. CASE /\ PatchRun(r, Requeued(run[r]))
           /\ SetExec(e, [exec[e] EXCEPT !.pc = "efence", !.err = "none"])
           /\ UNCHANGED ckpt
  <2>1. Requeued(run[r]).status = "queued" /\ Requeued(run[r]).recovering
    BY ActingFacts, Zenon DEF Requeued, RunDoc
  <2> QED
    BY <1>5, <1>7, <2>1
<1>10. PICK away \in BOOLEAN : FailAs(e, away)
  BY Zenon DEF ExecFail
<1>8. PICK status, c :
        /\ status = FailureStatus(e, away)
        /\ c = [exec[e].ck EXCEPT
                  !.recoveries = IF RecoversController(e, away) THEN Counted(@) ELSE @,
                  !.settled = IF NeedsFence(e) /\ status # "queued" THEN status ELSE @]
  OBVIOUS
<1>9. CASE /\ SetExec(e, [exec[e] EXCEPT !.pc = "failpatch", !.ck = c,
                            !.outcome = status, !.err = "none"])
           /\ IF c = exec[e].ck THEN UNCHANGED ckpt ELSE Store(r, c)
           /\ UNCHANGED run
  <2>1. PICK x : x = [exec[e] EXCEPT !.pc = "failpatch", !.ck = c,
                            !.outcome = status, !.err = "none"]
    OBVIOUS
  <2>2. exec'[e] = x /\ (ckpt'[r] = c \/ (c = exec[e].ck /\ ckpt'[r] = ckpt[r]))
    BY <1>2, <1>9, <2>1, Zenon DEF SetExec, Store, TypeOK
  <2>3. /\ x.pc = "failpatch" /\ x.run = r /\ x.ck = c /\ x.outcome = status
        /\ x.fencing = exec[e].fencing /\ x.fenced = exec[e].fenced
    BY <1>2, <2>1, ActingFacts, Zenon DEF ExecState
  <2>4. status \in {"cancelled", "queued", "failed"}
    BY <1>8, Zenon DEF FailureStatus
  <2>5. /\ c.exists = exec[e].ck.exists /\ c.prepared = exec[e].ck.prepared
        /\ c.runner = exec[e].ck.runner /\ c.completed = exec[e].ck.completed
        /\ c.settled = IF NeedsFence(e) /\ status # "queued" THEN status
                                                             ELSE exec[e].ck.settled
    BY <1>8, ActingFacts, Zenon DEF Ckpt
  <2>6. /\ Same(c, ckpt'[r]) /\ ckpt'[r].exists /\ ckpt'[r].completed = ckpt[r].completed
        /\ ckpt'[r].prepared = ckpt[r].prepared /\ ckpt'[r].runner = ckpt[r].runner
        /\ ckpt'[r].settled = c.settled
    BY <1>4, <2>2, <2>5, Zenon DEF Same
  <2>7. ckpt'[r].settled \notin ActiveStatuses
        /\ (Unsettled(ckpt'[r]) \/ (ckpt'[r].prepared /\ ckpt'[r].runner # NoAttempt))
    <3>1. exec[e].ck.settled = ckpt[r].settled /\ ckpt[r].settled \notin ActiveStatuses
      BY <1>1, <1>4, Zenon DEF Same, DocSound
    <3>2. NeedsFence(e) => ckpt[r].prepared /\ ckpt[r].runner # NoAttempt
      BY <1>4, Zenon DEF NeedsFence, Same
    <3> QED
      BY <1>4, <2>4, <2>5, <2>6, <3>1, <3>2, Zenon DEF Unsettled, ActiveStatuses
  <2>8. CopySound(exec'[e], ckpt'[r], run'[r], Quiet(r)')
    BY <1>1, <1>2, <1>9, <2>2, <2>3, <2>4, <2>6, <2>7, Zenon
       DEF CopySound, Ending, Early, Calm, Prepared, Spawned
  <2>9. DocSound(ckpt'[r], run'[r], Quiet(r)')
    <3>1. run[r].status = "running" \/ MaxIoErrors # 0
      BY <1>1, <1>2, Zenon DEF CopySound
    <3> QED
      BY <1>1, <1>3, <1>9, <2>6, <2>7, <3>1, Zenon DEF DocSound, Unsettled, ActiveStatuses
  <2>10. Decided(ckpt[r], run[r], ckpt'[r], run'[r])
    BY <1>4, <1>9, Zenon DEF Decided, Unsettled
  <2>11. Named(r)'
    BY <1>2, <1>4, <2>6, RunnerStill, StaysNamed
  <2> QED
    BY <2>2, <2>3, <2>8, <2>9, <2>10, <2>11, Zenon DEF Acted
<1> QED
  BY <1>2, <1>6, <1>7, <1>8, <1>9, <1>10, Zenon DEF FailAs

LEMMA FailPatchActs ==
  ASSUME NEW e \in Execs, NEW r \in Runs, Acting(e, r), ExecFailPatch(e)
  PROVE  Acted(e, r)
<1>1. CopySound(exec[e], ckpt[r], run[r], Quiet(r)) /\ DocSound(ckpt[r], run[r], Quiet(r))
  BY DEF Acting
<1>2. /\ UNCHANGED <<ckpt, owner, client, vm>> /\ TypeOK /\ exec[e].run = r
      /\ exec[e].pc = "failpatch" /\ Named(r)
  BY Zenon DEF ExecFailPatch, Acting, runnerVars
<1>3. Quiet(r)' <=> Quiet(r)
  BY <1>2, RunnerStill
<1>4. Named(r)'
  BY <1>2, RunnerStill, StaysNamed
<1>5. PICK x, doc :
        /\ x = [exec[e] EXCEPT !.pc = "efence", !.outcome = "queued"]
        /\ doc = [run[r] EXCEPT
                    !.status = IF NeedsFence(e) THEN "queued" ELSE exec[e].outcome,
                    !.recovering = NeedsFence(e) \/ exec[e].outcome = "queued"]
  OBVIOUS
<1>6. exec'[e] = x /\ run'[r] = doc
  BY <1>2, <1>5, Zenon DEF ExecFailPatch, SetExec, PatchRun, TypeOK
<1>7. /\ x.pc = "efence" /\ x.run = r /\ x.ck = exec[e].ck /\ x.outcome = "queued"
      /\ x.fencing = exec[e].fencing /\ x.fenced = exec[e].fenced
  BY <1>2, <1>5, ActingFacts, Zenon DEF ExecState
<1>8. /\ doc.status = (IF NeedsFence(e) THEN "queued" ELSE exec[e].outcome)
      /\ doc.recovering = (NeedsFence(e) \/ exec[e].outcome = "queued")
  BY <1>5, ActingFacts, Zenon DEF RunDoc
<1>9. exec[e].outcome # "running" /\ Same(exec[e].ck, ckpt[r])
  BY <1>1, <1>2, Zenon DEF CopySound
<1>10. NeedsFence(e) <=> ckpt[r].prepared /\ ckpt[r].runner # NoAttempt
  BY <1>9, Zenon DEF NeedsFence, Same
<1>11. ~NeedsFence(e) => Quiet(r) /\ Unsettled(ckpt[r])
  BY <1>1, <1>2, <1>10, NothingToFenceIsQuiet, Zenon DEF CopySound
<1>12. CASE NeedsFence(e)
  <2>1. doc.status = "queued" /\ doc.recovering
    BY <1>8, <1>12, Zenon
  <2>2. CopySound(exec'[e], ckpt'[r], run'[r], Quiet(r)')
    BY <1>1, <1>2, <1>6, <1>7, <2>1, Zenon
       DEF CopySound, ActiveStatuses, Ending, Early, Calm, Prepared, Spawned
  <2>3. DocSound(ckpt'[r], run'[r], Quiet(r)') /\ Decided(ckpt[r], run[r], ckpt'[r], run'[r])
    BY <1>1, <1>2, <1>6, <2>1, Zenon DEF DocSound, Decided, ActiveStatuses
  <2> QED
    BY <1>4, <1>6, <1>7, <2>2, <2>3, Zenon DEF Acted
<1>13. CASE ~NeedsFence(e)
  <2>1. /\ doc.status = exec[e].outcome /\ doc.status # "running"
        /\ (doc.status = "queued" => doc.recovering)
        /\ Quiet(r) /\ Quiet(r)' /\ Unsettled(ckpt[r])
    BY <1>3, <1>8, <1>9, <1>11, <1>13, Zenon
  <2>2. CopySound(exec'[e], ckpt'[r], run'[r], Quiet(r)')
    BY <1>1, <1>2, <1>6, <1>7, <2>1, Zenon
       DEF CopySound, Ending, Early, Calm, Prepared, Spawned
  <2>3. DocSound(ckpt'[r], run'[r], Quiet(r)')
    BY <1>1, <1>2, <1>6, <2>1, Zenon DEF DocSound
  <2>4. Decided(ckpt[r], run[r], ckpt'[r], run'[r])
    BY <1>2, <1>6, <2>1, Zenon DEF Decided, ActiveStatuses
  <2> QED
    BY <1>4, <1>6, <1>7, <2>2, <2>3, <2>4, Zenon DEF Acted
<1> QED
  BY <1>12, <1>13

LEMMA ReleaseActs ==
  ASSUME NEW e \in Execs, NEW r \in Runs, Acting(e, r), ExecRelease(e)
  PROVE  Acted(e, r)
<1>1. CopySound(exec[e], ckpt[r], run[r], Quiet(r)) /\ DocSound(ckpt[r], run[r], Quiet(r))
  BY DEF Acting
<1>2. /\ UNCHANGED <<owner, client, vm>> /\ TypeOK /\ exec[e].run = r
      /\ exec[e].pc = "release" /\ Named(r) /\ Update(e, exec[e].ck, "remove")
  BY Zenon DEF ExecRelease, Acting, runnerVars
<1>3. Quiet(r)' <=> Quiet(r)
  BY <1>2, RunnerStill
<1>4. Became(e, "remove", exec[e].ck) /\ ckpt'[r] = exec[e].ck
  BY <1>2, UpdatedExec
<1>5. Same(ckpt'[r], ckpt[r])
  BY <1>1, <1>2, <1>4, Zenon DEF CopySound
<1>6. /\ ckpt'[r].settled = ckpt[r].settled /\ ckpt'[r].completed = ckpt[r].completed
      /\ ckpt'[r].exists = ckpt[r].exists /\ ckpt'[r].runner = ckpt[r].runner
      /\ ckpt'[r].prepared = ckpt[r].prepared /\ exec[e].ck.settled = ckpt[r].settled
  BY <1>4, <1>5, Zenon DEF Same
<1>7. Named(r)'
  BY <1>2, <1>6, RunnerStill, StaysNamed
<1>8. CASE exec[e].fenced /\ exec[e].ck.settled # "none"
  <2>1. run'[r] = SettledRun(run[r], ckpt[r].settled)
    <3>1. PatchRun(r, SettledRun(run[r], exec[e].ck.settled))
      BY <1>2, <1>8, Zenon DEF ExecRelease
    <3>2. run'[r] = SettledRun(run[r], exec[e].ck.settled)
      BY <1>2, <3>1, Zenon DEF PatchRun, TypeOK
    <3> QED
      BY <1>6, <3>2
  <2>2. run'[r].status = ckpt[r].settled
    BY <2>1, ActingFacts, Zenon DEF SettledRun, RunDoc
  <2>3. /\ ckpt[r].settled \notin ActiveStatuses /\ Quiet(r) /\ exec[e].outcome # "running"
        /\ exec[e].fencing => FALSE
    BY <1>1, <1>2, <1>8, Zenon DEF CopySound, DocSound
  <2>4. CopySound(exec'[e], ckpt'[r], run'[r], Quiet(r)')
    BY <1>2, <1>3, <1>4, <2>2, <2>3, Zenon
       DEF CopySound, Became, ActiveStatuses, Ending, Early, Calm, Prepared, Spawned
  <2>5. DocSound(ckpt'[r], run'[r], Quiet(r)') /\ Decided(ckpt[r], run[r], ckpt'[r], run'[r])
    BY <1>3, <1>6, <2>2, <2>3, Zenon DEF DocSound, Decided, ActiveStatuses
  <2> QED
    BY <1>2, <1>4, <1>7, <2>4, <2>5, Zenon DEF Acted, Became
<1>9. CASE ~(exec[e].fenced /\ exec[e].ck.settled # "none")
  <2>1. UNCHANGED run
    BY <1>9, Zenon DEF ExecRelease
  <2>2. CopySound(exec'[e], ckpt'[r], run'[r], Quiet(r)')
    BY <1>1, <1>2, <1>3, <1>4, <2>1, Zenon
       DEF CopySound, Became, Ending, Early, Calm, Prepared, Spawned
  <2>3. DocSound(ckpt'[r], run'[r], Quiet(r)') /\ Decided(ckpt[r], run[r], ckpt'[r], run'[r])
    BY <1>1, <1>3, <1>6, <2>1, Zenon DEF DocSound, Decided, Unsettled
  <2> QED
    BY <1>2, <1>4, <1>7, <2>2, <2>3, Zenon DEF Acted, Became
<1> QED
  BY <1>8, <1>9

LEMMA RequeueActs ==
  ASSUME NEW e \in Execs, NEW r \in Runs, Acting(e, r), ExecRequeue(e)
  PROVE  Acted(e, r)
<1>1. CopySound(exec[e], ckpt[r], run[r], Quiet(r)) /\ DocSound(ckpt[r], run[r], Quiet(r))
  BY DEF Acting
<1>2. /\ UNCHANGED <<owner, client, vm>> /\ TypeOK /\ exec[e].run = r
      /\ exec[e].pc = "requeue" /\ Named(r) /\ Goto(e, "remove")
  BY Zenon DEF ExecRequeue, Acting, runnerVars
<1>3. PICK b : b = IF ckpt[r].exists THEN ckpt[r] ELSE Fresh
  OBVIOUS
<1>4. PICK c : c = [b EXCEPT !.settled = IF run[r].status \in ActiveStatuses THEN @
                                         ELSE run[r].status]
  OBVIOUS
<1>5. ckpt'[r] = c /\ run'[r] = Requeued(run[r])
  BY <1>2, <1>3, <1>4, Zenon DEF ExecRequeue, Store, PatchRun, TypeOK
<1>6. b \in Ckpt
  BY <1>3, ActingFacts, ValueTypes, Zenon
<1>7. /\ c.exists = b.exists /\ c.prepared = b.prepared /\ c.runner = b.runner
      /\ c.settled = IF run[r].status \in ActiveStatuses THEN b.settled ELSE run[r].status
  BY <1>4, <1>6, Zenon DEF Ckpt
<1>8. run'[r].status = "queued" /\ run'[r].recovering
  BY <1>5, ActingFacts, Zenon DEF Requeued, RunDoc
<1>9. Became(e, "remove", exec[e].ck)
  BY <1>2, MovedExec
<1>10. Quiet(r)' <=> Quiet(r)
  BY <1>2, RunnerStill
<1>11. Named(r)'
  <2>1. CASE ckpt[r].exists
    BY <1>2, <1>3, <1>5, <1>7, <2>1, RunnerStill, StaysNamed
  <2>2. CASE ~ckpt[r].exists
    <3>1. Quiet(r)'
      BY <1>2, <1>10, <2>2, NothingToFenceIsQuiet
    <3> QED
      BY <3>1 DEF Quiet, Named
  <2> QED
    BY <2>1, <2>2
<1>12. c.settled \notin ActiveStatuses /\ MaxIoErrors # 0
  <2>1. ckpt[r].settled \notin ActiveStatuses /\ MaxIoErrors # 0
    BY <1>1, <1>2, Zenon DEF CopySound, DocSound
  <2>2. b.settled \notin ActiveStatuses
    BY <1>3, <2>1, FreshFields, Zenon DEF ActiveStatuses
  <2> QED
    BY <1>7, <2>1, <2>2, Zenon
<1>13. CopySound(exec'[e], ckpt'[r], run'[r], Quiet(r)')
  BY <1>1, <1>2, <1>8, <1>9, <1>10, Zenon
     DEF CopySound, Became, ActiveStatuses, Ending, Early, Calm, Prepared, Spawned
<1>14. DocSound(ckpt'[r], run'[r], Quiet(r)') /\ Decided(ckpt[r], run[r], ckpt'[r], run'[r])
  BY <1>5, <1>8, <1>12, Zenon DEF DocSound, Decided, ActiveStatuses
<1> QED
  BY <1>2, <1>9, <1>11, <1>13, <1>14, Zenon DEF Acted, Became

LEMMA IoErrorActs ==
  ASSUME NEW e \in Execs, NEW r \in Runs, Acting(e, r), ExecIoError(e)
  PROVE  Acted(e, r)
<1>1. CopySound(exec[e], ckpt[r], run[r], Quiet(r)) /\ DocSound(ckpt[r], run[r], Quiet(r))
  BY DEF Acting
<1>2. /\ UNCHANGED <<run, ckpt, owner, client, vm>> /\ TypeOK /\ exec[e].run = r
      /\ exec[e].pc \notin {"free", "remove", "requeue", "judge"}
      /\ ~exec[e].fencing /\ Named(r)
  BY Zenon DEF ExecIoError, Acting, storeVars, runnerVars
<1>3. MaxIoErrors # 0
  <2>1. used.io < MaxIoErrors /\ used.io \in 0 .. MaxIoErrors
    BY <1>2, Zenon DEF ExecIoError, TypeOK
  <2> QED
    BY <2>1, ConstantsAssumption
<1>4. CASE exec[e].pc \in {"load", "fail", "failpatch", "efence", "release"}
  <2>1. Goto(e, "requeue")
    BY <1>4, Zenon DEF ExecIoError
  <2>2. Became(e, "requeue", exec[e].ck)
    BY <2>1, MovedExec
  <2>3. Quiet(r)' <=> Quiet(r)
    BY <1>2, RunnerStill
  <2>4. Named(r)'
    BY <1>2, RunnerStill, StaysNamed
  <2>5. CopySound(exec'[e], ckpt'[r], run'[r], Quiet(r)')
    BY <1>1, <1>2, <1>3, <2>2, <2>3, Zenon
       DEF CopySound, Became, Ending, Early, Calm, Prepared, Spawned
  <2>6. DocSound(ckpt'[r], run'[r], Quiet(r)') /\ Decided(ckpt[r], run[r], ckpt'[r], run'[r])
    BY <1>1, <1>2, <2>3, Zenon DEF DocSound, Decided
  <2> QED
    BY <1>2, <2>2, <2>4, <2>5, <2>6, Zenon DEF Acted, Became
<1>5. CASE exec[e].pc \notin {"load", "fail", "failpatch", "efence", "release"}
  <2>1. Raise(e, "conflict") /\ exec[e].pc \notin Ending \cup {"load"}
    BY <1>2, <1>5, Zenon DEF ExecIoError, Ending
  <2> QED
    BY <1>2, <1>3, <2>1, RaiseActs
<1> QED
  BY <1>4, <1>5
----------------------------------------
(* A step of an execution concerns its own run only.                       *)
Elsewhere(e, r) ==
    /\ UNCHANGED <<phase, tick, overlapped>>
    /\ \A f \in Execs \ {e} : exec'[f] = exec[f]
    /\ exec'[e].pc # "free" => exec'[e].run = r
    /\ \A q \in Runs \ {r} :
         run'[q] = run[q] /\ ckpt'[q] = ckpt[q] /\ active'[q] = active[q]

LEMMA WritesElsewhere ==
  ASSUME TypeOK, NEW e \in Execs, NEW r \in Runs, exec[e].pc # "free", exec[e].run = r,
         UNCHANGED <<phase, tick, overlapped, active>>,
         UNCHANGED exec \/ \E x : SetExec(e, x) /\ x.run = r,
         UNCHANGED run \/ \E doc : PatchRun(r, doc),
         UNCHANGED ckpt \/ \E c : Store(r, c)
  PROVE  Elsewhere(e, r)
<1>1. /\ \A f \in Execs \ {e} : exec'[f] = exec[f]
      /\ exec'[e].run = r
  BY Zenon DEF SetExec, TypeOK
<1>2. \A q \in Runs \ {r} : run'[q] = run[q]
  BY Zenon DEF PatchRun, TypeOK
<1>3. \A q \in Runs \ {r} : ckpt'[q] = ckpt[q]
  BY Zenon DEF Store, TypeOK
<1> QED
  BY <1>1, <1>2, <1>3 DEF Elsewhere

LEMMA SameRun ==
  ASSUME TypeOK, NEW e \in Execs, NEW r \in Runs, exec[e].pc # "free", exec[e].run = r
  PROVE  /\ \A err : Raise(e, err) => \E x : SetExec(e, x) /\ x.run = r
         /\ \A pc : Goto(e, pc) => \E x : SetExec(e, x) /\ x.run = r
         /\ \A pc, c : Update(e, c, pc) =>
              Store(r, c) /\ \E x : SetExec(e, x) /\ x.run = r
<1>1. exec[e] \in ExecState
  BY Zenon DEF TypeOK
<1>2. ASSUME NEW err, Raise(e, err) PROVE \E x : SetExec(e, x) /\ x.run = r
  <2> DEFINE x == [exec[e] EXCEPT !.pc = "fail", !.err = err, !.exit = "none",
                                  !.attempt = NoAttempt, !.prev = FALSE]
  <2>1. SetExec(e, x)
    BY <1>2, Zenon DEF Raise
  <2>2. x.run = r
    BY <1>1, Zenon DEF ExecState
  <2> QED
    BY <2>1, <2>2
<1>3. ASSUME NEW pc, Goto(e, pc) PROVE \E x : SetExec(e, x) /\ x.run = r
  <2>1. [exec[e] EXCEPT !.pc = pc].run = r
    BY <1>1, Zenon DEF ExecState
  <2> QED
    BY <1>3, <2>1, Zenon DEF Goto
<1>4. ASSUME NEW pc, NEW c, Update(e, c, pc)
      PROVE  Store(r, c) /\ \E x : SetExec(e, x) /\ x.run = r
  <2>1. [exec[e] EXCEPT !.ck = c, !.pc = pc].run = r
    BY <1>1, Zenon DEF ExecState
  <2> QED
    BY <1>4, <2>1, Zenon DEF Update
<1> QED
  BY <1>2, <1>3, <1>4

LEMMA ExecElsewhere ==
  ASSUME TypeOK, NEW e \in Execs, NEW r \in Runs, exec[e].pc # "free", exec[e].run = r,
         ExecStep(e) \/ ExecReport(e)
  PROVE  Elsewhere(e, r)
<1>0. exec[e] \in ExecState
  BY Zenon DEF TypeOK
<1>1. CASE \/ ExecLoad(e) \/ ExecMarkRunning(e) \/ ExecPrepare(e) \/ ExecPlaced(e)
           \/ ExecStart(e) \/ ExecRelease(e) \/ ExecRequeue(e) \/ ExecThreadStarted(e)
           \/ ExecTurnCompleted(e) \/ ExecTurnFailed(e) \/ Heartbeat(e) \/ ExecIoError(e)
  <2>1. UNCHANGED <<phase, tick, overlapped, active>>
    BY <1>1, Zenon DEF ExecLoad, ExecMarkRunning, ExecPrepare, ExecPlaced, ExecStart,
       ExecRelease, ExecRequeue, ExecThreadStarted, ExecTurnCompleted, ExecTurnFailed,
       Heartbeat, ExecIoError, workerVars
  <2>2. /\ UNCHANGED exec \/ \E x : SetExec(e, x) /\ x.run = r
        /\ UNCHANGED run \/ \E doc : PatchRun(r, doc)
        /\ UNCHANGED ckpt \/ \E c : Store(r, c)
    <3>1. CASE ExecLoad(e) \/ ExecPlaced(e) \/ ExecTurnCompleted(e) \/ ExecTurnFailed(e)
      BY <3>1, SameRun, Zenon DEF ExecLoad, ExecPlaced, ExecTurnCompleted, ExecTurnFailed
    <3>2. CASE ExecMarkRunning(e) \/ ExecRequeue(e)
      BY <3>2, SameRun, Zenon DEF ExecMarkRunning, ExecRequeue
    <3>3. CASE ExecPrepare(e)
      BY <3>3, SameRun, Zenon DEF ExecPrepare
    <3>4. CASE ExecStart(e) \/ ExecIoError(e)
      BY <3>4, SameRun, Zenon DEF ExecStart, ExecIoError, storeVars
    <3>5. CASE ExecRelease(e)
      BY <3>5, SameRun, Zenon DEF ExecRelease
    <3>6. CASE ExecThreadStarted(e) \/ Heartbeat(e)
      BY <3>6, Zenon DEF ExecThreadStarted, Heartbeat, workerVars
    <3> QED
      BY <1>1, <3>1, <3>2, <3>3, <3>4, <3>5, <3>6
  <2> QED
    BY <2>1, <2>2, WritesElsewhere
<1>2. CASE ExecReserve(e)
  <2>1. ASSUME NEW a PROVE [exec[e] EXCEPT !.pc = "placed", !.attempt = a].run = r
    BY <1>0, Zenon DEF ExecState
  <2>2. \E x : SetExec(e, x) /\ x.run = r
    BY <1>2, <2>1, SameRun, Zenon DEF ExecReserve
  <2> QED
    BY <1>2, <2>2, WritesElsewhere DEF ExecReserve
<1>3. CASE ExecSpawn(e)
  <2>1. ASSUME NEW c, NEW p
        PROVE  [exec[e] EXCEPT !.pc = "start", !.ck = c, !.prev = p, !.exit = "none"].run = r
    BY <1>0, Zenon DEF ExecState
  <2>2. /\ \E x : SetExec(e, x) /\ x.run = r
        /\ UNCHANGED ckpt \/ \E c : Store(r, c)
    <3>1. CASE Raise(e, "unavailable") /\ UNCHANGED ckpt
      BY <3>1, SameRun
    <3>2. PICK c : c = [exec[e].ck EXCEPT !.launched = TRUE, !.completed = FALSE,
                          !.cause = "none", !.proc = exec[e].attempt]
      OBVIOUS
    <3>3. CASE /\ SetExec(e, [exec[e] EXCEPT !.pc = "start", !.ck = c,
                                 !.prev = exec[e].ck.launched, !.exit = "none"])
               /\ Store(r, c)
      BY <2>1, <3>3, Zenon
    <3> QED
      BY <1>3, <3>1, <3>2, <3>3, Zenon DEF ExecSpawn
  <2> QED
    BY <1>3, <2>2, WritesElsewhere DEF ExecSpawn
<1>4. CASE ExecExit(e)
  <2>1. ASSUME NEW c, NEW exit
        PROVE  [exec[e] EXCEPT !.pc = "afence", !.exit = exit, !.ck = c,
                   !.attempt = NoAttempt, !.prev = FALSE].run = r
    BY <1>0, Zenon DEF ExecState
  <2>2. (\E x : SetExec(e, x) /\ x.run = r) /\ \E c : Store(r, c)
    BY <1>4, <2>1, Zenon DEF ExecExit
  <2> QED
    BY <1>4, <2>2, WritesElsewhere DEF ExecExit
<1>5. CASE ExecFenceBegin(e)
  <2>1. /\ [exec[e] EXCEPT !.pc = "release", !.fenced = TRUE].run = r
        /\ [exec[e] EXCEPT !.fencing = TRUE, !.seen = ckpt[r]].run = r
    BY <1>0, Zenon DEF ExecState
  <2>2. \E x : SetExec(e, x) /\ x.run = r
    BY <1>5, <2>1, Zenon DEF ExecFenceBegin
  <2> QED
    BY <1>5, <2>2, WritesElsewhere DEF ExecFenceBegin, storeVars
<1>6. CASE ExecFenced(e)
  <2>1. [exec[e] EXCEPT !.fencing = FALSE, !.seen = NoCkpt,
           !.fenced = exec[e].pc = "efence",
           !.pc = IF @ = "afence" THEN "judge" ELSE "release"].run = r
    BY <1>0, Zenon DEF ExecState
  <2>2. \E x : SetExec(e, x) /\ x.run = r
    BY <1>6, <2>1, Zenon DEF ExecFenced
  <2>3. UNCHANGED ckpt \/ \E c : Store(r, c)
    BY <1>6, Zenon DEF ExecFenced, FenceConfirmed, Store
  <2> QED
    BY <1>6, <2>2, <2>3, WritesElsewhere DEF ExecFenced
<1>7. CASE ExecFenceFailed(e)
  <2>1. PICK done : done = [exec[e] EXCEPT !.fencing = FALSE, !.seen = NoCkpt]
    OBVIOUS
  <2>2. done \in ExecState /\ done.run = r
    BY <1>0, <2>1, ValueTypes, Zenon DEF ExecState
  <2>3. /\ [done EXCEPT !.pc = "fail", !.err = "unavailable", !.exit = "none"].run = r
        /\ \A c : [done EXCEPT !.pc = "release", !.ck = c].run = r
    BY <2>2, Zenon DEF ExecState
  <2>4. /\ \E x : SetExec(e, x) /\ x.run = r
        /\ UNCHANGED run \/ \E doc : PatchRun(r, doc)
        /\ UNCHANGED ckpt \/ \E c : Store(r, c)
    BY <1>7, <2>1, <2>3, Zenon DEF ExecFenceFailed
  <2> QED
    BY <1>7, <2>4, WritesElsewhere DEF ExecFenceFailed
<1>8. CASE ExecJudge(e) \/ ExecSwitch(e)
  <2>1. /\ [exec[e] EXCEPT !.pc = "switch", !.account = FALSE, !.exit = "none"].run = r
        /\ [exec[e] EXCEPT !.pc = "efence", !.exit = "none"].run = r
        /\ [exec[e] EXCEPT !.pc = "reserve", !.account = TRUE].run = r
    BY <1>0, Zenon DEF ExecState
  <2>2. /\ \E x : SetExec(e, x) /\ x.run = r
        /\ UNCHANGED run \/ \E doc : PatchRun(r, doc)
    <3>1. CASE ExecJudge(e)
      BY <2>1, <3>1, SameRun, Zenon DEF ExecJudge
    <3>2. CASE ExecSwitch(e)
      BY <2>1, <3>2, SameRun, Zenon DEF ExecSwitch, storeVars
    <3> QED
      BY <1>8, <3>1, <3>2
  <2> QED
    BY <1>8, <2>2, WritesElsewhere DEF ExecJudge, ExecSwitch, storeVars
<1>9. CASE ExecFail(e) \/ ExecFailPatch(e)
  <2>1. /\ [exec[e] EXCEPT !.pc = "efence", !.err = "none"].run = r
        /\ \A c, s : [exec[e] EXCEPT !.pc = "failpatch", !.ck = c,
                        !.outcome = s, !.err = "none"].run = r
        /\ [exec[e] EXCEPT !.pc = "efence", !.outcome = "queued"].run = r
    BY <1>0, Zenon DEF ExecState
  <2>2. /\ \E x : SetExec(e, x) /\ x.run = r
        /\ UNCHANGED run \/ \E doc : PatchRun(r, doc)
        /\ UNCHANGED ckpt \/ \E c : Store(r, c)
    <3>1. CASE ExecFail(e)
      <4>0. PICK away \in BOOLEAN : FailAs(e, away)
        BY <3>1, Zenon DEF ExecFail
      <4>1. CASE /\ \E doc : PatchRun(r, doc)
                 /\ SetExec(e, [exec[e] EXCEPT !.pc = "efence", !.err = "none"])
                 /\ UNCHANGED ckpt
        BY <2>1, <4>1, Zenon
      <4>2. PICK s, c :
              /\ s = FailureStatus(e, away)
              /\ c = [exec[e].ck EXCEPT
                        !.recoveries = IF RecoversController(e, away) THEN Counted(@) ELSE @,
                        !.settled = IF NeedsFence(e) /\ s # "queued" THEN s ELSE @]
        OBVIOUS
      <4>3. CASE /\ SetExec(e, [exec[e] EXCEPT !.pc = "failpatch", !.ck = c,
                                   !.outcome = s, !.err = "none"])
                 /\ IF c = exec[e].ck THEN UNCHANGED ckpt ELSE Store(r, c)
                 /\ UNCHANGED run
        BY <2>1, <4>3, Zenon
      <4> QED
        BY <4>0, <4>1, <4>2, <4>3, Zenon DEF FailAs
    <3>2. CASE ExecFailPatch(e)
      BY <2>1, <3>2, Zenon DEF ExecFailPatch
    <3> QED
      BY <1>9, <3>1, <3>2
  <2> QED
    BY <1>9, <2>2, WritesElsewhere DEF ExecFail, ExecFailPatch
<1>10. CASE ExecRemove(e)
  <2>1. exec'[e] = IdleExec /\ \A f \in Execs \ {e} : exec'[f] = exec[f]
    BY <1>10, Zenon DEF ExecRemove, SetExec, TypeOK
  <2>2. \A q \in Runs \ {r} : active'[q] = active[q]
    BY <1>10, Zenon DEF ExecRemove, TypeOK
  <2> QED
    BY <1>10, <2>1, <2>2, IdlePc DEF ExecRemove, Elsewhere, storeVars
<1> QED
  BY <1>1, <1>2, <1>3, <1>4, <1>5, <1>6, <1>7, <1>8, <1>9, <1>10
     DEF ExecStep, ExecReport
----------------------------------------
LEMMA ExecStarts ==
  ASSUME TypeOK, AttemptOwnership, NEW e \in Execs, NEW r \in Runs,
         exec[e].pc # "free", exec[e].run = r, ExecStep(e) \/ ExecReport(e),
         NEW q \in Runs \ {r}
  PROVE  NoNewStart(q)
<1>1. CASE ExecReserve(e)
  <2>1. CASE UNCHANGED owner
    BY <1>1, <2>1, RunnerStill DEF ExecReserve, runnerVars
  <2>2. CASE \E a \in Attempts : owner' = [owner EXCEPT ![a] = r]
    BY <1>1, <2>2 DEF ExecReserve, runnerVars, TypeOK, NoNewStart, Startable
  <2> QED
    BY <1>1, <2>1, <2>2, Zenon DEF ExecReserve
<1>2. CASE ExecStart(e)
  <2>1. owner[exec[e].attempt] = r /\ exec[e].attempt \in Attempts
    BY <1>2, Zenon DEF ExecStart, AttemptOwnership, NamesOwnRunner, Attempting, TypeOK
  <2>2. /\ client' \in {client, client \cup {exec[e].attempt}}
        /\ UNCHANGED <<owner, vm>>
    BY <1>2, Zenon DEF ExecStart, storeVars
  <2> QED
    BY <2>1, <2>2 DEF NoNewStart, Startable
<1>3. CASE ExecExit(e)
  BY <1>3, RunnerStops DEF ExecExit
<1>4. CASE ExecFenced(e)
  BY <1>4, FenceStops DEF ExecFenced
<1>5. CASE \/ ExecLoad(e) \/ ExecMarkRunning(e) \/ ExecPrepare(e) \/ ExecPlaced(e)
           \/ ExecSpawn(e) \/ ExecFenceBegin(e) \/ ExecFenceFailed(e) \/ ExecJudge(e)
           \/ ExecSwitch(e) \/ ExecFail(e) \/ ExecFailPatch(e) \/ ExecRelease(e)
           \/ ExecRemove(e) \/ ExecRequeue(e) \/ ExecThreadStarted(e)
           \/ ExecTurnCompleted(e) \/ ExecTurnFailed(e) \/ Heartbeat(e) \/ ExecIoError(e)
  <2>1. UNCHANGED <<owner, client, vm>>
    BY <1>5, Zenon DEF ExecLoad, ExecMarkRunning, ExecPrepare, ExecPlaced, ExecSpawn,
       ExecFenceBegin, ExecFenceFailed, ExecJudge, ExecSwitch, ExecFail, ExecFailPatch,
       ExecRelease, ExecRemove, ExecRequeue, ExecThreadStarted, ExecTurnCompleted,
       ExecTurnFailed, Heartbeat, ExecIoError, storeVars, runnerVars
  <2> QED
    BY <2>1, RunnerStill
<1> QED
  BY <1>1, <1>2, <1>3, <1>4, <1>5 DEF ExecStep, ExecReport

LEMMA ExecActs ==
  ASSUME NEW e \in Execs, NEW r \in Runs, Acting(e, r),
         ExecStep(e) \/ ExecReport(e), ~ExecRemove(e)
  PROVE  Acted(e, r)
  BY LoadActs, MarkActs, PrepareActs, ReserveActs, PlacedActs, SpawnActs, StartActs,
     ReportActs, TurnActs, FenceBeginActs, FencedActs, FenceFailedActs, JudgeActs,
     SwitchActs, FailActs, FailPatchActs, ReleaseActs, RequeueActs, IoErrorActs, Zenon
     DEF ExecStep, ExecReport

(* Less running keeps what is said of a run. *)
LEMMA QuietKeeps ==
  ASSUME NEW x, NEW c, NEW doc, NEW q1 \in BOOLEAN, NEW q2 \in BOOLEAN, q1 => q2
  PROVE  /\ CopySound(x, c, doc, q1) => CopySound(x, c, doc, q2)
         /\ DocSound(c, doc, q1) => DocSound(c, doc, q2)
  BY Zenon DEF CopySound, DocSound

(* What the pass holds of run q is left alone.                             *)
Undisturbed(q) ==
    /\ Quiet(q) => Quiet(q)'
    /\ q \in Recovered =>
         /\ run'[q].status = run[q].status /\ run'[q].recovering = run[q].recovering
         /\ Same(ckpt'[q], ckpt[q])
    /\ q \in Launched =>
         /\ ~ckpt[q].completed => ~ckpt'[q].completed
         /\ Unsettled(ckpt[q]) => Unsettled(ckpt'[q])

LEMMA PassKept ==
  ASSUME TypeOK, PassSound, UNCHANGED <<tick, overlapped>>,
         \A q \in Ahead \ tick.beside : Idle(q)',
         \A q \in Ahead : Alone(q) => Undisturbed(q)
  PROVE  PassSound'
<1>1. Recovered \subseteq Ahead /\ Launched \subseteq Ahead
  BY DEF Ahead, Recovered, Launched
<1>2. Ahead' = Ahead /\ Recovered' = Recovered /\ Launched' = Launched
  BY DEF Ahead, Recovered, Launched
<1>3. \A q : Alone(q)' <=> Alone(q)
  BY DEF Alone
<1>4. /\ tick'.pc = "idle" => tick' = IdleTick
      /\ tick'.fencing => tick'.pc = "recover"
      /\ tick'.pc \notin {"idle", "next"} => tick'.run \notin tick'.todo
      /\ \A q \in Ahead' \ tick'.beside : Idle(q)'
      /\ tick'.pc \in {"settle", "clear"} \/ tick'.fencing =>
           tick'.run \notin tick'.beside \/ tick'.run \in overlapped'
  BY <1>2, Zenon DEF PassSound
<1>5. \A q \in Recovered' : Alone(q)' => run'[q].status = "queued" /\ run'[q].recovering
  BY <1>1, <1>2, <1>3, Zenon DEF PassSound, Undisturbed
<1>6. \A q \in Launched' : Alone(q)' =>
        Quiet(q)' /\ ~ckpt'[q].completed /\ Unsettled(ckpt'[q])
  BY <1>1, <1>2, <1>3, Zenon DEF PassSound, Undisturbed
<1>7. /\ tick'.pc \in {"settle", "clear"} /\ Alone(tick.run)' => Quiet(tick.run)'
      /\ tick'.pc = "clear" /\ Alone(tick.run)' =>
           ~ckpt'[tick'.run].completed /\ ckpt'[tick'.run].settled = "none"
      /\ tick'.fencing /\ Alone(tick.run)' => Same(tick'.seen, ckpt'[tick'.run])
  <2>1. PICK q : q = tick.run
    OBVIOUS
  <2>2. /\ tick'.run = q /\ tick' = tick /\ (Alone(tick.run)' => Alone(q))
        /\ (Quiet(q)' => Quiet(tick.run)')
    BY <2>1 DEF Alone, Quiet
  <2>3. tick.pc \in {"recover", "settle", "clear"} => q \in Recovered /\ q \in Ahead
    BY <2>1 DEF Recovered, Ahead
  <2>4. /\ tick.pc \in {"settle", "clear"} /\ Alone(q) => Quiet(q)
        /\ tick.pc = "clear" /\ Alone(q) => ~ckpt[q].completed /\ ckpt[q].settled = "none"
        /\ tick.fencing /\ Alone(q) => Same(tick.seen, ckpt[q])
        /\ tick.fencing => tick.pc = "recover"
    BY <2>1, Zenon DEF PassSound
  <2>5. tick.pc \in {"recover", "settle", "clear"} /\ Alone(q) =>
          Same(ckpt'[q], ckpt[q]) /\ (Quiet(q) => Quiet(q)')
    BY <2>3, Zenon DEF Undisturbed
  <2>6. Same(tick.seen, ckpt[q]) /\ Same(ckpt'[q], ckpt[q]) => Same(tick.seen, ckpt'[q])
    BY SameChain
  <2>7. Same(ckpt'[q], ckpt[q]) =>
          ckpt'[q].completed = ckpt[q].completed /\ ckpt'[q].settled = ckpt[q].settled
    BY DEF Same
  <2> QED
    BY <2>2, <2>4, <2>5, <2>6, <2>7, Zenon
<1> QED
  BY <1>4, <1>5, <1>6, <1>7, Zenon DEF PassSound

(* What the step leaves of its own run.                                    *)
Left(e, r) ==
    /\ DocSound(ckpt'[r], run'[r], Quiet(r)')
    /\ Named(r)'
    /\ exec'[e].pc # "free" =>
         active'[r] = e /\ CopySound(exec'[e], ckpt'[r], run'[r], Quiet(r)')
    /\ exec'[e].pc = "free" => run'[r].status # "running"

LEMMA ExecFramed ==
  ASSUME TypeOK, OutcomeInv, NEW e \in Execs, NEW r \in Runs, exec[e].pc # "free",
         exec[e].run = r, Elsewhere(e, r), \A q \in Runs \ {r} : NoNewStart(q),
         r \notin overlapped => Left(e, r)
  PROVE  OutcomeInv'
<1>1. /\ UNCHANGED <<phase, tick, overlapped>>
      /\ \A f \in Execs \ {e} : exec'[f] = exec[f]
      /\ exec'[e].pc # "free" => exec'[e].run = r
      /\ \A q \in Runs \ {r} :
           run'[q] = run[q] /\ ckpt'[q] = ckpt[q] /\ active'[q] = active[q]
  BY DEF Elsewhere
<1>2. \A q \in Runs \ {r} : Quiet(q) => Quiet(q)'
  BY StaysQuiet
<1>3. ASSUME NEW f \in Execs, f # e, exec'[f].pc # "free", exec'[f].run \notin overlapped
      PROVE  /\ exec[f].pc # "free" /\ exec'[f] = exec[f] /\ exec[f].run \in Runs \ {r}
             /\ active[exec[f].run] = f
             /\ CopySound(exec[f], ckpt[exec[f].run], run[exec[f].run], Quiet(exec[f].run))
  <2>1. exec'[f] = exec[f]
    BY <1>1, <1>3
  <2>2. exec[f].run \in Runs
    BY <1>3, <2>1, Zenon DEF TypeOK
  <2>3. active[exec[f].run] = f /\ (r \notin overlapped => active[r] = e)
    BY <1>3, <2>1, Zenon DEF OutcomeInv, OneExecution
  <2>4. exec[f].run # r
    BY <1>3, <2>1, <2>3
  <2>5. CopySound(exec[f], ckpt[exec[f].run], run[exec[f].run], Quiet(exec[f].run))
    BY <1>3, <2>1, Zenon DEF OutcomeInv, ExecsSound
  <2> QED
    BY <1>3, <2>1, <2>2, <2>3, <2>4, <2>5
<1>4. OneExecution'
  <2> SUFFICES ASSUME NEW f \in Execs, exec'[f].pc # "free", exec'[f].run \notin overlapped'
               PROVE  active'[exec'[f].run] = f
    BY Zenon DEF OneExecution
  <2>1. CASE f = e
    BY <1>1, <2>1 DEF Left
  <2>2. CASE f # e
    BY <1>1, <1>3, <2>2
  <2> QED
    BY <2>1, <2>2
<1>5. ExecsSound'
  <2> SUFFICES ASSUME NEW f \in Execs, exec'[f].pc # "free", exec'[f].run \notin overlapped'
               PROVE  CopySound(exec'[f], ckpt'[exec'[f].run], run'[exec'[f].run],
                                Quiet(exec[f].run)')
    BY Zenon DEF ExecsSound
  <2>1. CASE f = e
    BY <1>1, <2>1, Zenon DEF Left
  <2>2. CASE f # e
    <3>1. PICK q \in Runs \ {r} : q = exec[f].run
      BY <1>1, <1>3, <2>2
    <3>2. CopySound(exec[f], ckpt[q], run[q], Quiet(q)) /\ exec'[f] = exec[f]
      BY <1>1, <1>3, <2>2, <3>1
    <3>3. Quiet(q) \in BOOLEAN /\ Quiet(q)' \in BOOLEAN
      BY DEF Quiet
    <3>4. CopySound(exec[f], ckpt[q], run[q], Quiet(q)')
      BY <1>2, <3>2, <3>3, QuietKeeps
    <3> QED
      BY <1>1, <3>1, <3>2, <3>4
  <2> QED
    BY <2>1, <2>2
<1>6. RunsSound'
  <2> SUFFICES ASSUME NEW q \in Runs, q \notin overlapped'
               PROVE  /\ DocSound(ckpt'[q], run'[q], Quiet(q)')
                      /\ Named(q)'
                      /\ run'[q].status = "running" /\ phase' # "down" => ~Idle(q)'
    BY Zenon DEF RunsSound
  <2>1. CASE q = r
    <3>1. Left(e, r)
      BY <1>1, <2>1
    <3>2. exec'[e].pc # "free" => ~Idle(r)'
      BY <1>1 DEF Idle
    <3> QED
      BY <2>1, <3>1, <3>2 DEF Left
  <2>2. CASE q # r
    <3>1. /\ DocSound(ckpt[q], run[q], Quiet(q)) /\ Named(q)
          /\ (run[q].status = "running" /\ phase # "down" => ~Idle(q))
      BY <1>1, Zenon DEF OutcomeInv, RunsSound
    <3>2. Quiet(q) \in BOOLEAN /\ Quiet(q)' \in BOOLEAN
      BY DEF Quiet
    <3>3. DocSound(ckpt'[q], run'[q], Quiet(q)')
      BY <1>1, <1>2, <2>2, <3>1, <3>2, QuietKeeps
    <3>4. Named(q)'
      BY <1>1, <2>2, <3>1, StaysNamed
    <3>5. ~Idle(q) => ~Idle(q)'
      BY <1>1, <2>2 DEF Idle
    <3> QED
      BY <1>1, <2>2, <3>1, <3>3, <3>4, <3>5
  <2> QED
    BY <2>1, <2>2
<1>7. PassSound'
  <2>1. PassSound /\ ~Idle(r)
    BY DEF OutcomeInv, Idle
  <2>2. \A q \in Ahead \ tick.beside : q # r /\ Idle(q)'
    <3>1. \A q \in Ahead \ tick.beside : q # r /\ Idle(q)
      BY <2>1, Zenon DEF PassSound
    <3> QED
      BY <1>1, <3>1 DEF Idle
  <2>3. Ahead \subseteq Runs
    BY DEF TypeOK, TickState, Ahead
  <2>4. ASSUME NEW q \in Ahead, Alone(q) PROVE Undisturbed(q)
    <3>1. run'[q] = run[q] /\ ckpt'[q] = ckpt[q] /\ (Quiet(q) => Quiet(q)')
      BY <1>1, <1>2, <2>2, <2>3, <2>4 DEF Alone
    <3> QED
      BY <3>1, SameSelf, Zenon DEF Undisturbed
  <2> QED
    BY <1>1, <2>1, <2>2, <2>4, PassKept
<1>8. DownIdle'
  BY <1>1 DEF OutcomeInv, DownIdle
<1> QED
  BY <1>4, <1>5, <1>6, <1>7, <1>8 DEF OutcomeInv

LEMMA RemoveLeaves ==
  ASSUME NEW e \in Execs, NEW r \in Runs, Acting(e, r), ExecRemove(e)
  PROVE  Left(e, r) /\ Decided(ckpt[r], run[r], ckpt'[r], run'[r])
<1>1. /\ UNCHANGED <<run, ckpt, owner, client, vm>> /\ exec[e].pc = "remove" /\ Named(r)
      /\ TypeOK /\ CopySound(exec[e], ckpt[r], run[r], Quiet(r))
      /\ DocSound(ckpt[r], run[r], Quiet(r))
  BY Zenon DEF ExecRemove, Acting, storeVars, runnerVars
<1>2. exec'[e].pc = "free"
  BY <1>1, IdlePc, Zenon DEF ExecRemove, SetExec, TypeOK
<1>3. (Quiet(r)' <=> Quiet(r)) /\ Named(r)'
  BY <1>1, RunnerStill, StaysNamed
<1>4. run[r].status # "running"
  BY <1>1, Zenon DEF CopySound
<1>5. DocSound(ckpt'[r], run'[r], Quiet(r)')
  BY <1>1, <1>3 DEF DocSound
<1> QED
  BY <1>1, <1>2, <1>3, <1>4, <1>5, Zenon DEF Left, Decided

LEMMA ExecActive ==
  ASSUME TypeOK, NEW e \in Execs, ExecStep(e) \/ ExecReport(e), ~ExecRemove(e)
  PROVE  UNCHANGED active
  BY Zenon DEF ExecStep, ExecReport, ExecLoad, ExecMarkRunning, ExecPrepare, ExecReserve,
     ExecPlaced, ExecSpawn, ExecStart, ExecExit, ExecFenceBegin, ExecFenced,
     ExecFenceFailed, ExecJudge, ExecSwitch, ExecFail, ExecFailPatch, ExecRelease,
     ExecRequeue, ExecThreadStarted, ExecTurnCompleted, ExecTurnFailed, Heartbeat,
     ExecIoError, workerVars

LEMMA ExecRunning ==
  ASSUME NEW e \in Execs, ExecStep(e) \/ ExecReport(e)
  PROVE  exec[e].pc # "free"
  BY Zenon DEF ExecStep, ExecReport, ExecLoad, ExecMarkRunning, ExecPrepare, ExecReserve,
     ExecPlaced, ExecSpawn, ExecStart, ExecExit, ExecFenceBegin, ExecFenced,
     ExecFenceFailed, ExecJudge, ExecSwitch, ExecFail, ExecFailPatch, ExecRelease,
     ExecRemove, ExecRequeue, ExecThreadStarted, ExecTurnCompleted, ExecTurnFailed,
     Reporting, Heartbeat, ExecIoError

(* What the step did to the runs that were never handled beside their      *)
(* execution.                                                              *)
AllDecided ==
    \A r \in Runs \ overlapped : Decided(ckpt[r], run[r], ckpt'[r], run'[r])

LEMMA StillDecided ==
  ASSUME NEW r, run'[r] = run[r], ckpt'[r] = ckpt[r]
  PROVE  Decided(ckpt[r], run[r], ckpt'[r], run'[r])
  BY Zenon DEF Decided

LEMMA ExecKeeps ==
  ASSUME TypeOK, AttemptOwnership, OutcomeInv, NEW e \in Execs,
         ExecStep(e) \/ ExecReport(e)
  PROVE  OutcomeInv' /\ AllDecided
<1>1. exec[e].pc # "free"
  BY ExecRunning
<1>2. PICK r \in Runs : exec[e].run = r
  BY <1>1, Zenon DEF TypeOK
<1>3. Elsewhere(e, r)
  BY <1>1, <1>2, ExecElsewhere
<1>4. \A q \in Runs \ {r} : NoNewStart(q)
  BY <1>1, <1>2, ExecStarts
<1>5. ASSUME r \notin overlapped
      PROVE  Left(e, r) /\ Decided(ckpt[r], run[r], ckpt'[r], run'[r])
  <2>1. Acting(e, r)
    BY <1>1, <1>2, <1>5, Zenon DEF OutcomeInv, ExecsSound, RunsSound, Acting
  <2>2. active[r] = e
    BY <1>1, <1>2, <1>5, Zenon DEF OutcomeInv, OneExecution
  <2>3. CASE ExecRemove(e)
    BY <2>1, <2>3, RemoveLeaves
  <2>4. CASE ~ExecRemove(e)
    <3>1. Acted(e, r)
      BY <2>1, <2>4, ExecActs
    <3>2. active'[r] = e
      BY <2>2, <2>4, ExecActive
    <3> QED
      BY <3>1, <3>2, Zenon DEF Acted, Left
  <2> QED
    BY <2>3, <2>4
<1>6. OutcomeInv'
  BY <1>1, <1>2, <1>3, <1>4, <1>5, ExecFramed
<1>7. AllDecided
  BY <1>3, <1>5, StillDecided DEF Elsewhere, AllDecided
<1> QED
  BY <1>6, <1>7
----------------------------------------
(* Steps that start no execution and write at most the documents of run r. *)
Alike ==
    \A e \in Execs :
        /\ exec'[e].pc = exec[e].pc /\ exec'[e].run = exec[e].run
        /\ exec'[e].ck = exec[e].ck /\ exec'[e].seen = exec[e].seen
        /\ exec'[e].attempt = exec[e].attempt /\ exec'[e].fencing = exec[e].fencing
        /\ exec'[e].fenced = exec[e].fenced /\ exec'[e].outcome = exec[e].outcome

WritesOnly(r) ==
    /\ phase = "down" => phase' = "down"
    /\ UNCHANGED active /\ Alike /\ overlapped \subseteq overlapped'
    /\ \A q \in Runs \ {r} : run'[q] = run[q] /\ ckpt'[q] = ckpt[q] /\ NoNewStart(q)

WrittenSound(r) ==
    /\ DocSound(ckpt'[r], run'[r], Quiet(r)')
    /\ Named(r)'
    /\ run'[r].status = "running" /\ phase' # "down" => ~Idle(r)
    /\ \A e \in Execs : exec[e].pc # "free" /\ exec[e].run = r =>
         CopySound(exec[e], ckpt'[r], run'[r], Quiet(r)')

LEMMA RunFramed ==
  ASSUME TypeOK, OutcomeInv, NEW r, WritesOnly(r),
         r \in Runs \ overlapped => WrittenSound(r), PassSound', DownIdle'
  PROVE  OutcomeInv'
<1>1. /\ phase = "down" => phase' = "down"
      /\ UNCHANGED active /\ Alike /\ overlapped \subseteq overlapped'
      /\ \A q \in Runs \ {r} : run'[q] = run[q] /\ ckpt'[q] = ckpt[q] /\ NoNewStart(q)
  BY DEF WritesOnly
<1>2. \A q : Quiet(q) \in BOOLEAN /\ Quiet(q)' \in BOOLEAN
  BY DEF Quiet
<1>3. \A q \in Runs \ {r} : Quiet(q) => Quiet(q)'
  BY <1>1, StaysQuiet
<1>4. \A q : Idle(q)' <=> Idle(q)
  BY <1>1 DEF Alike, Idle
<1>5. OneExecution'
  BY <1>1, Zenon DEF OneExecution, OutcomeInv, Alike
<1>6. ExecsSound'
  <2> SUFFICES ASSUME NEW f \in Execs, exec'[f].pc # "free", exec'[f].run \notin overlapped'
               PROVE  CopySound(exec'[f], ckpt'[exec'[f].run], run'[exec'[f].run],
                                Quiet(exec[f].run)')
    BY Zenon DEF ExecsSound
  <2>1. exec[f].pc # "free" /\ exec[f].run \notin overlapped
    BY <1>1 DEF Alike
  <2>2. PICK q \in Runs : q = exec[f].run /\ q = exec'[f].run
    BY <1>1, <2>1 DEF Alike, TypeOK
  <2>3. CopySound(exec[f], ckpt'[q], run'[q], Quiet(q)')
    <3>1. CASE q = r
      BY <2>1, <2>2, <3>1, Zenon DEF WrittenSound
    <3>2. CASE q # r
      <4>1. CopySound(exec[f], ckpt[q], run[q], Quiet(q))
        BY <2>1, <2>2, Zenon DEF OutcomeInv, ExecsSound
      <4> QED
        BY <1>1, <1>2, <1>3, <3>2, <4>1, QuietKeeps
    <3> QED
      BY <3>1, <3>2
  <2>4. CopySound(exec'[f], ckpt'[q], run'[q], Quiet(q)')
    <3>1. /\ exec'[f].pc = exec[f].pc /\ exec'[f].ck = exec[f].ck
          /\ exec'[f].seen = exec[f].seen /\ exec'[f].attempt = exec[f].attempt
          /\ exec'[f].fencing = exec[f].fencing /\ exec'[f].fenced = exec[f].fenced
          /\ exec'[f].outcome = exec[f].outcome
      BY <1>1 DEF Alike
    <3> QED
      BY <2>3, <3>1, ZenonT(40) DEF CopySound
  <2> QED
    BY <2>2, <2>4, Zenon
<1>7. RunsSound'
  <2> SUFFICES ASSUME NEW q \in Runs, q \notin overlapped'
               PROVE  /\ DocSound(ckpt'[q], run'[q], Quiet(q)')
                      /\ Named(q)'
                      /\ run'[q].status = "running" /\ phase' # "down" => ~Idle(q)'
    BY Zenon DEF RunsSound
  <2>1. CASE q = r
    BY <1>1, <1>4, <2>1 DEF WrittenSound
  <2>2. CASE q # r
    <3>1. /\ DocSound(ckpt[q], run[q], Quiet(q)) /\ Named(q)
          /\ (run[q].status = "running" /\ phase # "down" => ~Idle(q))
      BY <1>1, Zenon DEF OutcomeInv, RunsSound
    <3>2. DocSound(ckpt'[q], run'[q], Quiet(q)')
      BY <1>1, <1>2, <1>3, <2>2, <3>1, QuietKeeps
    <3>3. Named(q)'
      BY <1>1, <2>2, <3>1, StaysNamed
    <3> QED
      BY <1>1, <1>4, <2>2, <3>1, <3>2, <3>3
  <2> QED
    BY <2>1, <2>2
<1> QED
  BY <1>5, <1>6, <1>7 DEF OutcomeInv

LEMMA StillAlike ==
  ASSUME UNCHANGED exec
  PROVE  Alike /\ \A q : Idle(q)' <=> Idle(q)
  BY DEF Alike, Idle

(* A VM starts, or a client ends.                                          *)
LEMMA RunnerKeeps ==
  ASSUME TypeOK, OutcomeInv, NEW a \in Attempts, RunnerStep(a)
  PROVE  OutcomeInv' /\ AllDecided
<1>1. UNCHANGED <<phase, run, ckpt, owner, active, exec, tick, overlapped>>
  BY Zenon DEF RunnerStep, ClientStartsVm, ClientOrphaned, storeVars, workerVars
<1>2. \A q : NoNewStart(q)
  <2>1. CASE ClientStartsVm(a)
    BY <2>1 DEF ClientStartsVm, storeVars, TypeOK, NoNewStart, Startable
  <2>2. CASE ClientOrphaned(a)
    BY <2>2, RunnerStops DEF ClientOrphaned, storeVars
  <2> QED
    BY <2>1, <2>2 DEF RunnerStep
<1>3. WritesOnly(NoRun) /\ NoRun \notin Runs
  BY <1>1, <1>2, StillAlike, ConstantsAssumption DEF WritesOnly, NoRun
<1>4. PassSound'
  <2>1. PassSound
    BY DEF OutcomeInv
  <2>2. \A q \in Ahead \ tick.beside : Idle(q)'
    BY <1>1, <2>1, StillAlike, Zenon DEF PassSound
  <2>3. \A q : Undisturbed(q)
    BY <1>1, <1>2, StaysQuiet, SameSelf DEF Undisturbed
  <2> QED
    BY <1>1, <2>1, <2>2, <2>3, PassKept
<1>5. DownIdle'
  BY <1>1 DEF OutcomeInv, DownIdle
<1>6. OutcomeInv'
  BY <1>3, <1>4, <1>5, RunFramed
<1> QED
  BY <1>1, <1>6, StillDecided DEF AllDecided
----------------------------------------
(* Requests of the owner, and time.                                        *)

(* A request or a timer changes the document of r, not whether r waits for *)
(* recovery, and leaves its checkpoint.                                    *)
LEMMA NotedKeeps ==
  ASSUME TypeOK, OutcomeInv, NEW r \in Runs, Alike,
         UNCHANGED <<phase, ckpt, owner, client, vm, active, tick, overlapped>>,
         NEW doc, PatchRun(r, doc), doc.status = run[r].status,
         doc.recovering = run[r].recovering
  PROVE  OutcomeInv' /\ AllDecided
<1>1. run'[r] = doc /\ \A q \in Runs \ {r} : run'[q] = run[q]
  BY Zenon DEF TypeOK, PatchRun
<1>2. \A q : NoNewStart(q) /\ (Quiet(q) <=> Quiet(q)')
  BY RunnerStill
<1>3. \A q : Idle(q)' <=> Idle(q)
  BY DEF Alike, Idle
<1>4. WritesOnly(r)
  BY <1>1, <1>2 DEF WritesOnly
<1>5. ASSUME r \notin overlapped PROVE WrittenSound(r)
  <2>1. /\ DocSound(ckpt[r], run[r], Quiet(r)) /\ Named(r)
        /\ (run[r].status = "running" /\ phase # "down" => ~Idle(r))
        /\ \A e \in Execs : exec[e].pc # "free" /\ exec[e].run = r =>
             CopySound(exec[e], ckpt[r], run[r], Quiet(r))
    BY <1>5, Zenon DEF OutcomeInv, RunsSound, ExecsSound
  <2>2. DocSound(ckpt'[r], run'[r], Quiet(r)')
    BY <1>1, <1>2, <2>1, Zenon DEF DocSound
  <2>3. Named(r)'
    BY <1>2, <2>1, StaysNamed
  <2>4. ASSUME NEW e \in Execs, exec[e].pc # "free", exec[e].run = r
        PROVE  CopySound(exec[e], ckpt'[r], run'[r], Quiet(r)')
    <3>1. CopySound(exec[e], ckpt[r], run[r], Quiet(r))
      BY <2>1, <2>4, Zenon
    <3> QED
      BY <1>1, <1>2, <3>1, ZenonT(40) DEF CopySound
  <2> QED
    BY <1>1, <2>1, <2>2, <2>3, <2>4 DEF WrittenSound
<1>6. PassSound'
  <2>1. PassSound
    BY DEF OutcomeInv
  <2>2. \A q \in Ahead \ tick.beside : Idle(q)'
    BY <1>3, <2>1, Zenon DEF PassSound
  <2>3. ASSUME NEW q \in Ahead PROVE Undisturbed(q)
    <3>1. q \in Runs
      BY DEF TypeOK, TickState, Ahead
    <3>2. run'[q].status = run[q].status /\ run'[q].recovering = run[q].recovering
      BY <1>1, <3>1
    <3> QED
      BY <1>2, <3>2, SameSelf, Zenon DEF Undisturbed
  <2> QED
    BY <2>1, <2>2, <2>3, PassKept
<1>7. DownIdle'
  BY DEF OutcomeInv, DownIdle, Alike
<1>8. OutcomeInv'
  BY <1>4, <1>5, <1>6, <1>7, RunFramed
<1>9. Decided(ckpt[r], run[r], ckpt'[r], run'[r])
  BY <1>1, Zenon DEF Decided
<1> QED
  BY <1>1, <1>8, <1>9, StillDecided DEF AllDecided

LEMMA RetryDueKeeps ==
  ASSUME TypeOK, OutcomeInv, NEW r \in Runs, RetryDue(r)
  PROVE  OutcomeInv' /\ AllDecided
<1>1. PICK doc : doc = [run[r] EXCEPT !.waiting = FALSE]
  OBVIOUS
<1>2. /\ PatchRun(r, doc) /\ Alike
      /\ UNCHANGED <<phase, ckpt, owner, client, vm, active, tick, overlapped>>
  BY <1>1, StillAlike DEF RetryDue, runnerVars, workerVars
<1>3. run[r] \in RunDoc
  BY Zenon DEF TypeOK
<1>4. doc.status = run[r].status /\ doc.recovering = run[r].recovering
  BY <1>1, <1>3, Zenon DEF RunDoc
<1> QED
  BY <1>2, <1>4, NotedKeeps

LEMMA TokenSet ==
  ASSUME TypeOK, NEW r \in Runs,
         exec' = IF active[r] = NoExec THEN exec
                 ELSE [exec EXCEPT ![active[r]].token = TRUE]
  PROVE  Alike
<1>1. CASE active[r] = NoExec
  BY <1>1, StillAlike
<1>2. CASE active[r] # NoExec
  <2>1. PICK f \in Execs : f = active[r]
    BY <1>2, Zenon DEF TypeOK
  <2>2. exec[f] \in ExecState
    BY Zenon DEF TypeOK
  <2>3. PICK x : x = [exec[f] EXCEPT !.token = TRUE]
    OBVIOUS
  <2>4. exec'[f] = x /\ \A e \in Execs \ {f} : exec'[e] = exec[e]
    BY <1>2, <2>1, <2>3, Zenon DEF TypeOK
  <2>5. /\ x.pc = exec[f].pc /\ x.run = exec[f].run /\ x.ck = exec[f].ck
        /\ x.seen = exec[f].seen /\ x.attempt = exec[f].attempt
        /\ x.fencing = exec[f].fencing /\ x.fenced = exec[f].fenced
        /\ x.outcome = exec[f].outcome
    BY <2>2, <2>3, Zenon DEF ExecState
  <2> QED
    BY <2>4, <2>5, Zenon DEF Alike
<1> QED
  BY <1>1, <1>2

(* Without an execution, r is written by the request alone.                *)
LEMMA NoExecIdle ==
  ASSUME OutcomeInv, NEW r \in Runs, r \notin overlapped, active[r] = NoExec
  PROVE  Idle(r)
  BY ConstantsAssumption DEF OutcomeInv, OneExecution, Idle

LEMMA CancelKeeps ==
  ASSUME TypeOK, OutcomeInv, NEW r \in Runs, Cancel(r)
  PROVE  OutcomeInv' /\ AllDecided
<1>1. PICK asked : asked = [run[r] EXCEPT !.cancel = TRUE]
  OBVIOUS
<1>2. run[r] \in RunDoc
  BY Zenon DEF TypeOK
<1>3. /\ asked \in RunDoc /\ asked.status = run[r].status
      /\ asked.recovering = run[r].recovering
  BY <1>1, <1>2, Zenon DEF RunDoc
<1>4. /\ PatchRun(r, IF active[r] = NoExec /\ ~run[r].recovering
                     THEN CancelledRun(asked) ELSE asked)
      /\ UNCHANGED <<phase, ckpt, owner, client, vm, active, tick, overlapped>>
      /\ run[r].status \in ActiveStatuses /\ phase # "down"
  BY <1>1 DEF Cancel, runnerVars
<1>5. Alike
  BY TokenSet DEF Cancel
<1>6. CASE ~(active[r] = NoExec /\ ~run[r].recovering)
  BY <1>3, <1>4, <1>5, <1>6, NotedKeeps
<1>7. CASE active[r] = NoExec /\ ~run[r].recovering
  <2>1. CancelledRun(asked).status = "cancelled" /\ ~CancelledRun(asked).recovering
    BY <1>3, Zenon DEF CancelledRun, SettledRun, RunDoc
  <2>2. /\ run'[r].status = "cancelled" /\ ~run'[r].recovering
        /\ \A q \in Runs \ {r} : run'[q] = run[q]
    BY <1>4, <1>7, <2>1, Zenon DEF PatchRun, TypeOK
  <2>3. \A q : NoNewStart(q) /\ (Quiet(q) <=> Quiet(q)')
    BY <1>4, RunnerStill
  <2>4. WritesOnly(r)
    BY <1>4, <1>5, <2>2, <2>3 DEF WritesOnly
  <2>5. ASSUME r \notin overlapped PROVE WrittenSound(r)
    <3>1. /\ DocSound(ckpt[r], run[r], Quiet(r)) /\ Named(r)
          /\ (run[r].status = "running" => ~Idle(r))
      BY <1>4, <2>5, Zenon DEF OutcomeInv, RunsSound
    <3>2. Idle(r)
      BY <1>7, <2>5, NoExecIdle
    <3>3. Quiet(r)
      BY <1>4, <1>7, <3>1, <3>2, Zenon DEF DocSound, ActiveStatuses
    <3>4. DocSound(ckpt'[r], run'[r], Quiet(r)')
      BY <1>4, <2>2, <2>3, <3>1, <3>3, Zenon DEF DocSound
    <3>5. Named(r)'
      BY <1>4, <2>3, <3>1, StaysNamed
    <3> QED
      BY <2>2, <3>2, <3>4, <3>5 DEF WrittenSound, Idle
  <2>6. PassSound'
    <3>1. PassSound
      BY DEF OutcomeInv
    <3>2. \A q \in Ahead \ tick.beside : Idle(q)'
      BY <1>5, <3>1 DEF PassSound, Alike, Idle
    <3>3. ASSUME NEW q \in Ahead, Alone(q) PROVE Undisturbed(q)
      <4>1. q \in Runs
        BY DEF TypeOK, TickState, Ahead
      <4>2. q \in Recovered => q # r
        BY <1>7, <3>1, <3>3, Zenon DEF PassSound
      <4>3. q \in Recovered => run'[q] = run[q]
        BY <2>2, <4>1, <4>2
      <4> QED
        BY <1>4, <2>3, <4>3, SameSelf, Zenon DEF Undisturbed
    <3> QED
      BY <1>4, <3>1, <3>2, <3>3, PassKept
  <2>7. DownIdle'
    BY <1>4 DEF DownIdle
  <2>8. OutcomeInv'
    BY <2>4, <2>5, <2>6, <2>7, RunFramed
  <2>9. Decided(ckpt[r], run[r], ckpt'[r], run'[r])
    BY <1>4, <2>2, Zenon DEF Decided, ActiveStatuses
  <2> QED
    BY <1>4, <2>2, <2>8, <2>9, StillDecided DEF AllDecided
<1> QED
  BY <1>6, <1>7

LEMMA ResumeKeeps ==
  ASSUME TypeOK, OutcomeInv, NEW r \in Runs, Resume(r)
  PROVE  OutcomeInv' /\ AllDecided
<1>1. PICK doc : doc = [Requeued(run[r]) EXCEPT !.cancel = FALSE, !.retry = 0,
                                                !.waiting = FALSE]
  OBVIOUS
<1>2. /\ PatchRun(r, doc) /\ active[r] = NoExec /\ phase # "down"
      /\ UNCHANGED <<phase, owner, client, vm, active, exec, tick, overlapped>>
      /\ run[r].status \in ResumableStatuses
  BY <1>1, Zenon DEF Resume, runnerVars, workerVars, ResumableStatuses
<1>3. run[r] \in RunDoc /\ ckpt[r] \in Ckpt
  BY Zenon DEF TypeOK
<1>4. Requeued(run[r]) \in RunDoc /\ Requeued(run[r]).status = "queued"
      /\ Requeued(run[r]).recovering
  BY <1>3, PatchTypes, Zenon DEF Requeued, RunDoc, Statuses
<1>5. doc.status = "queued" /\ doc.recovering
  BY <1>1, <1>4, Zenon DEF RunDoc
<1>6. run'[r] = doc /\ \A q \in Runs \ {r} : run'[q] = run[q]
  BY <1>2, Zenon DEF PatchRun, TypeOK
<1>7. /\ ckpt'[r].exists = ckpt[r].exists /\ ckpt'[r].prepared = ckpt[r].prepared
      /\ ckpt'[r].runner = ckpt[r].runner
      /\ ckpt'[r].settled \in {ckpt[r].settled, "none"}
      /\ (ckpt'[r].completed => ckpt[r].completed)
      /\ \A q \in Runs \ {r} : ckpt'[q] = ckpt[q]
  <2>1. CASE UNCHANGED ckpt
    BY <2>1
  <2>2. ASSUME NEW b, Store(r, [ckpt[r] EXCEPT !.settled = "none", !.cause = "none",
                                  !.completed = @ /\ b])
        PROVE  /\ ckpt'[r].exists = ckpt[r].exists /\ ckpt'[r].prepared = ckpt[r].prepared
               /\ ckpt'[r].runner = ckpt[r].runner /\ ckpt'[r].settled = "none"
               /\ (ckpt'[r].completed => ckpt[r].completed)
               /\ \A q \in Runs \ {r} : ckpt'[q] = ckpt[q]
    <3>1. PICK c : c = [ckpt[r] EXCEPT !.settled = "none", !.cause = "none",
                          !.completed = @ /\ b]
      OBVIOUS
    <3>2. ckpt'[r] = c /\ \A q \in Runs \ {r} : ckpt'[q] = ckpt[q]
      BY <2>2, <3>1, Zenon DEF Store, TypeOK
    <3>3. /\ c.exists = ckpt[r].exists /\ c.prepared = ckpt[r].prepared
          /\ c.runner = ckpt[r].runner /\ c.settled = "none"
          /\ (c.completed => ckpt[r].completed)
      BY <1>3, <3>1, Zenon DEF Ckpt
    <3> QED
      BY <3>2, <3>3, Zenon
  <2>3. \/ UNCHANGED ckpt
        \/ Store(r, [ckpt[r] EXCEPT !.settled = "none", !.cause = "none",
                       !.completed = @ /\ (run[r].status \in {"failed", "cancelled"}
                                           /\ ~ckpt[r].launched)])
    BY Zenon DEF Resume
  <2>4. CASE Store(r, [ckpt[r] EXCEPT !.settled = "none", !.cause = "none",
                         !.completed = @ /\ (run[r].status \in {"failed", "cancelled"}
                                             /\ ~ckpt[r].launched)])
    BY <2>2, <2>4
  <2> QED
    BY <2>1, <2>3, <2>4
<1>8. \A q : NoNewStart(q) /\ (Quiet(q) <=> Quiet(q)')
  BY <1>2, RunnerStill
<1>9. WritesOnly(r)
  BY <1>2, <1>6, <1>7, <1>8, StillAlike DEF WritesOnly
<1>10. ASSUME r \notin overlapped PROVE WrittenSound(r)
  <2>1. DocSound(ckpt[r], run[r], Quiet(r)) /\ Named(r)
    BY <1>10, Zenon DEF OutcomeInv, RunsSound
  <2>2. Idle(r)
    BY <1>2, <1>10, NoExecIdle
  <2>3. DocSound(ckpt'[r], run'[r], Quiet(r)')
    BY <1>5, <1>6, <1>7, <2>1, Zenon DEF DocSound, ActiveStatuses
  <2>4. Named(r)'
    BY <1>7, <1>8, <2>1, StaysNamed
  <2> QED
    BY <1>5, <1>6, <2>2, <2>3, <2>4 DEF WrittenSound, Idle
<1>11. PassSound'
  <2>1. PassSound
    BY DEF OutcomeInv
  <2>2. \A q \in Ahead \ tick.beside : Idle(q)'
    BY <1>2, <2>1, StillAlike, Zenon DEF PassSound
  <2>3. ASSUME NEW q \in Ahead, Alone(q) PROVE Undisturbed(q)
    <3>1. q \in Runs
      BY DEF TypeOK, TickState, Ahead
    <3>2. q \in Recovered => q # r
      BY <1>2, <2>1, <2>3, Zenon DEF PassSound, ResumableStatuses
    <3>3. q \in Recovered => run'[q] = run[q] /\ ckpt'[q] = ckpt[q]
      BY <1>6, <1>7, <3>1, <3>2
    <3>4. /\ ~ckpt[q].completed => ~ckpt'[q].completed
          /\ Unsettled(ckpt[q]) => Unsettled(ckpt'[q])
      <4>1. CASE q = r
        BY <1>7, <4>1, Zenon DEF Unsettled
      <4>2. CASE q # r
        BY <1>7, <3>1, <4>2
      <4> QED
        BY <4>1, <4>2
    <3> QED
      BY <1>8, <3>3, <3>4, SameSelf, Zenon DEF Undisturbed
  <2> QED
    BY <1>2, <2>1, <2>2, <2>3, PassKept
<1>12. DownIdle'
  BY <1>2 DEF DownIdle
<1>13. OutcomeInv'
  BY <1>9, <1>10, <1>11, <1>12, RunFramed
<1>14. Decided(ckpt[r], run[r], ckpt'[r], run'[r])
  BY <1>2, <1>5, <1>6, Zenon DEF Decided
<1> QED
  BY <1>6, <1>7, <1>13, <1>14, StillDecided DEF AllDecided
----------------------------------------
(* The manager process.                                                    *)
LEMMA IdleTickFields ==
    /\ IdleTick.pc = "idle" /\ IdleTick.todo = {} /\ IdleTick.run = NoRun
    /\ ~IdleTick.fencing /\ IdleTick.queued = {} /\ IdleTick.recovering = {}
    /\ IdleTick.beside = {}
  BY DEF IdleTick

LEMMA IdlePassSound == tick = IdleTick => PassSound
<1> SUFFICES ASSUME tick = IdleTick PROVE PassSound
  OBVIOUS
<1>1. /\ tick.pc = "idle" /\ tick.todo = {} /\ ~tick.fencing
  BY IdleTickFields
<1>2. Ahead = {} /\ Recovered = {} /\ Launched = {}
  BY <1>1 DEF Ahead, Recovered, Launched
<1> QED
  BY <1>1, <1>2, Zenon DEF PassSound

LEMMA GoneKeeps ==
  ASSUME TypeOK, OutcomeInv, Gone
  PROVE  OutcomeInv' /\ AllDecided
<1>1. /\ phase' = "down" /\ UNCHANGED <<run, ckpt, owner, client, vm, overlapped>>
      /\ \A e \in Execs : exec'[e].pc = "free"
      /\ tick' = IdleTick
  BY IdlePc DEF Gone, storeVars, runnerVars
<1>2. \A q : NoNewStart(q) /\ (Quiet(q) <=> Quiet(q)')
  BY <1>1, RunnerStill
<1>3. OneExecution' /\ ExecsSound'
  BY <1>1, Zenon DEF OneExecution, ExecsSound
<1>4. RunsSound'
  <2> SUFFICES ASSUME NEW q \in Runs, q \notin overlapped'
               PROVE  DocSound(ckpt'[q], run'[q], Quiet(q)') /\ Named(q)'
    BY <1>1, Zenon DEF RunsSound
  <2>1. DocSound(ckpt[q], run[q], Quiet(q)) /\ Named(q)
    BY <1>1, Zenon DEF OutcomeInv, RunsSound
  <2> QED
    BY <1>1, <1>2, <2>1, StaysNamed DEF DocSound
<1>5. PassSound'
  <2>1. (tick = IdleTick)'
    BY <1>1
  <2> QED
    BY <2>1, IdlePassSound, PTL
<1>6. DownIdle'
  BY <1>1 DEF DownIdle
<1> QED
  BY <1>1, <1>3, <1>4, <1>5, <1>6, StillDecided DEF AllDecided, OutcomeInv

LEMMA ShutdownKeeps ==
  ASSUME TypeOK, OutcomeInv, Shutdown
  PROVE  OutcomeInv' /\ AllDecided
<1>1. /\ UNCHANGED <<run, ckpt, owner, client, vm, active, exec, tick, overlapped>>
      /\ phase = "up" /\ phase' = "stopping"
  BY DEF Shutdown, storeVars, runnerVars, workerVars
<1>2. \A q : NoNewStart(q) /\ (Quiet(q) <=> Quiet(q)')
  BY <1>1, RunnerStill
<1>3. WritesOnly(NoRun) /\ NoRun \notin Runs
  BY <1>1, <1>2, StillAlike, ConstantsAssumption DEF WritesOnly, NoRun
<1>4. PassSound'
  <2>1. PassSound
    BY DEF OutcomeInv
  <2>2. \A q \in Ahead \ tick.beside : Idle(q)'
    BY <1>1, <2>1, StillAlike, Zenon DEF PassSound
  <2>3. \A q : Undisturbed(q)
    BY <1>1, <1>2, SameSelf DEF Undisturbed
  <2> QED
    BY <1>1, <2>1, <2>2, <2>3, PassKept
<1>5. DownIdle'
  BY <1>1 DEF DownIdle
<1>6. OutcomeInv'
  BY <1>3, <1>4, <1>5, RunFramed
<1> QED
  BY <1>1, <1>6, StillDecided DEF AllDecided

(* A restart gives a run up only where no checkpoint exists, and then no   *)
(* VM of it can run.                                                       *)
LEMMA RestartKeeps ==
  ASSUME TypeOK, OutcomeInv, Restart
  PROVE  OutcomeInv' /\ AllDecided
<1>1. /\ UNCHANGED <<ckpt, owner, client, vm, active, exec, tick, overlapped>>
      /\ phase = "down" /\ phase' = "up" /\ \A q \in Runs : run'[q] = Restored(q)
  BY DEF Restart, runnerVars, workerVars
<1>2. \A q : NoNewStart(q) /\ (Quiet(q) <=> Quiet(q)')
  BY <1>1, RunnerStill
<1>3. tick' = IdleTick /\ \A e \in Execs : exec'[e].pc = "free"
  BY <1>1 DEF OutcomeInv, DownIdle
<1>4. ASSUME NEW q \in Runs
      PROVE  /\ run'[q].status \in {run[q].status, "queued", "interrupted"}
             /\ run'[q].status # "running"
             /\ run[q].recovering => run'[q].recovering
             /\ run'[q].status = "queued" /\ ~run'[q].recovering =>
                  run[q].status = "queued" /\ ~run[q].recovering
             /\ run'[q].status = "interrupted" =>
                  run[q].status = "interrupted" \/ ~ckpt[q].exists
  <2>1. run[q] \in RunDoc
    BY <1>4, Zenon DEF TypeOK
  <2>2. /\ Requeued(run[q]).status = "queued" /\ Requeued(run[q]).recovering
        /\ [run[q] EXCEPT !.status = "interrupted"].status = "interrupted"
        /\ [run[q] EXCEPT !.status = "interrupted"].recovering = run[q].recovering
        /\ [run[q] EXCEPT !.recovering = TRUE].status = run[q].status
        /\ [run[q] EXCEPT !.recovering = TRUE].recovering
    BY <2>1, Zenon DEF Requeued, RunDoc
  <2>3. run'[q] = Restored(q)
    BY <1>1, <1>4
  <2>4. CASE run[q].status = "running" /\ run[q].started /\ ~ckpt[q].exists
    <3>1. run'[q] = [run[q] EXCEPT !.status = "interrupted"]
      BY <2>3, <2>4, Zenon DEF Restored
    <3> QED
      BY <2>2, <2>4, <3>1
  <2>5. CASE run[q].status = "running" /\ ~(run[q].started /\ ~ckpt[q].exists)
    <3>1. run'[q] = Requeued(run[q])
      BY <2>3, <2>5, Zenon DEF Restored
    <3> QED
      BY <2>2, <2>5, <3>1
  <2>6. CASE run[q].status = "queued" /\ run[q].cancel
    <3>1. run'[q] = [run[q] EXCEPT !.recovering = TRUE]
      BY <2>3, <2>6 DEF Restored
    <3> QED
      BY <2>2, <2>6, <3>1
  <2>7. CASE run[q].status # "running" /\ ~(run[q].status = "queued" /\ run[q].cancel)
    <3>1. run'[q] = run[q]
      BY <2>3, <2>7, Zenon DEF Restored
    <3> QED
      BY <2>7, <3>1
  <2> QED
    BY <2>4, <2>5, <2>6, <2>7
<1>5. OneExecution' /\ ExecsSound'
  BY <1>3, Zenon DEF OneExecution, ExecsSound
<1>6. RunsSound'
  <2> SUFFICES ASSUME NEW q \in Runs, q \notin overlapped'
               PROVE  DocSound(ckpt'[q], run'[q], Quiet(q)') /\ Named(q)'
    BY <1>4, Zenon DEF RunsSound
  <2>1. DocSound(ckpt[q], run[q], Quiet(q)) /\ Named(q)
    BY <1>1, Zenon DEF OutcomeInv, RunsSound
  <2>2. ~ckpt[q].exists => Quiet(q)
    BY <2>1, NothingToFenceIsQuiet
  <2>3. DocSound(ckpt'[q], run'[q], Quiet(q)')
    BY <1>1, <1>2, <1>4, <2>1, <2>2 DEF DocSound, ActiveStatuses
  <2> QED
    BY <1>1, <1>2, <2>1, <2>3, StaysNamed
<1>7. PassSound'
  <2>1. (tick = IdleTick)'
    BY <1>3
  <2> QED
    BY <2>1, IdlePassSound, PTL
<1>8. DownIdle'
  BY <1>1 DEF DownIdle
<1>9. AllDecided
  BY <1>1, <1>4, Zenon DEF AllDecided, Decided
<1> QED
  BY <1>5, <1>6, <1>7, <1>8, <1>9 DEF OutcomeInv
----------------------------------------
(* The scheduling pass.                                                    *)

(* A step of the pass that writes no document.                             *)
LEMMA PassOnly ==
  ASSUME TypeOK, OutcomeInv, PassSound', phase # "down",
         UNCHANGED <<phase, run, ckpt, owner, client, vm, active, exec>>,
         overlapped \subseteq overlapped'
  PROVE  OutcomeInv' /\ AllDecided
<1>1. \A q : NoNewStart(q)
  BY RunnerStill
<1>2. WritesOnly(NoRun) /\ NoRun \notin Runs
  BY <1>1, StillAlike, ConstantsAssumption DEF WritesOnly, NoRun
<1>3. DownIdle'
  BY DEF DownIdle
<1>4. OutcomeInv'
  BY <1>2, <1>3, RunFramed
<1> QED
  BY <1>4, StillDecided DEF AllDecided

(* The pass goes on to a state t where it holds less than before.          *)
Narrows(t) ==
    /\ t.pc \in {"next", "recover", "admit", "acquire", "insert"} /\ ~t.fencing
    /\ t.queued = tick.queued /\ t.recovering = tick.recovering /\ t.beside = tick.beside
    /\ t.todo \subseteq tick.todo
    /\ t.pc # "next" => t.run \notin t.todo /\ t.run \in Ahead
    /\ t.pc = "recover" => t.run \in Recovered
    /\ t.pc \in {"admit", "acquire", "insert"} => t.run \in Launched

LEMMA Narrowed ==
  ASSUME TypeOK, PassSound, Narrows(tick'),
         UNCHANGED <<run, ckpt, owner, client, vm, exec, overlapped>>
  PROVE  PassSound'
<1>1. /\ tick'.pc \in {"next", "recover", "admit", "acquire", "insert"} /\ ~tick'.fencing
      /\ tick'.queued = tick.queued /\ tick'.recovering = tick.recovering
      /\ tick'.beside = tick.beside /\ tick'.todo \subseteq tick.todo
      /\ tick'.pc # "next" => tick'.run \notin tick'.todo /\ tick'.run \in Ahead
      /\ tick'.pc = "recover" => tick'.run \in Recovered
      /\ tick'.pc \in {"admit", "acquire", "insert"} => tick'.run \in Launched
  BY DEF Narrows
<1>2. Ahead' \subseteq Ahead
  BY <1>1 DEF Ahead
<1>3. Recovered' \subseteq Recovered
  BY <1>1 DEF Recovered
<1>4. Launched' \subseteq Launched
  BY <1>1 DEF Launched
<1>5. \A q : (Alone(q)' <=> Alone(q)) /\ (Idle(q)' <=> Idle(q)) /\ (Quiet(q)' <=> Quiet(q))
  BY <1>1, StillAlike, RunnerStill DEF Alone
<1>6. /\ tick'.pc # "idle" /\ ~tick'.fencing
      /\ tick'.pc \notin {"settle", "clear"}
  BY <1>1
<1>7. /\ \A q \in Ahead' \ tick'.beside : Idle(q)'
      /\ \A q \in Recovered' : Alone(q)' => run'[q].status = "queued" /\ run'[q].recovering
      /\ \A q \in Launched' : Alone(q)' =>
           Quiet(q)' /\ ~ckpt'[q].completed /\ Unsettled(ckpt'[q])
  BY <1>1, <1>2, <1>3, <1>4, <1>5, Zenon DEF PassSound
<1>8. tick'.pc \notin {"idle", "next"} => tick'.run \notin tick'.todo
  BY <1>1
<1> QED
  BY <1>6, <1>7, <1>8, Zenon DEF PassSound

LEMMA TickFields ==
  ASSUME TypeOK, NEW pc
  PROVE  LET t == [tick EXCEPT !.pc = pc] IN
         /\ t.pc = pc /\ t.todo = tick.todo /\ t.run = tick.run
         /\ t.queued = tick.queued /\ t.recovering = tick.recovering
         /\ t.beside = tick.beside /\ t.fencing = tick.fencing /\ t.seen = tick.seen
  BY Zenon DEF TypeOK, TickState

LEMMA NextRunFields ==
  ASSUME TypeOK
  PROVE  \/ NextRun = IdleTick
         \/ /\ NextRun.pc = "next" /\ NextRun.todo = tick.todo /\ ~NextRun.fencing
            /\ NextRun.queued = tick.queued /\ NextRun.recovering = tick.recovering
            /\ NextRun.beside = tick.beside
<1>1. tick \in TickState
  BY Zenon DEF TypeOK
<1>2. PICK t : t = [tick EXCEPT !.pc = "next", !.run = NoRun, !.fencing = FALSE,
                                !.seen = NoCkpt]
  OBVIOUS
<1>3. /\ t.pc = "next" /\ t.todo = tick.todo /\ ~t.fencing /\ t.queued = tick.queued
      /\ t.recovering = tick.recovering /\ t.beside = tick.beside
  BY <1>1, <1>2, Zenon DEF TickState
<1>4. NextRun = IdleTick \/ NextRun = t
  BY <1>2, Zenon DEF NextRun
<1> QED
  BY <1>3, <1>4

(* Leaving a run, or the pass, is always allowed.                          *)
LEMMA NextRunSound ==
  ASSUME TypeOK, PassSound, tick' = NextRun \/ tick' = IdleTick,
         UNCHANGED <<run, ckpt, owner, client, vm, exec, overlapped>>
  PROVE  PassSound'
<1>1. CASE tick' = IdleTick
  <2>1. (tick = IdleTick)'
    BY <1>1
  <2> QED
    BY <2>1, IdlePassSound, PTL
<1>2. CASE tick' # IdleTick
  <2>1. Narrows(tick')
    BY <1>2, NextRunFields DEF Narrows
  <2> QED
    BY <2>1, Narrowed
<1> QED
  BY <1>1, <1>2

LEMMA BusyUp ==
  ASSUME OutcomeInv, tick.pc # "idle"
  PROVE  phase # "down"
  BY IdlePc DEF OutcomeInv, DownIdle

LEMMA BeginKeeps ==
  ASSUME TypeOK, OutcomeInv, TickBegin
  PROVE  OutcomeInv' /\ AllDecided
<1>1. /\ UNCHANGED <<phase, run, ckpt, owner, client, vm, active, exec, overlapped>>
      /\ phase = "up" /\ tick.pc = "idle"
  BY DEF TickBegin, storeVars, runnerVars
<1>2. PICK listed : listed = {r \in Runs : run[r].status \in ActiveStatuses}
  OBVIOUS
<1>3. PICK t : t = [tick EXCEPT !.pc = "next", !.todo = listed,
                      !.queued = {r \in listed : run[r].status = "queued"},
                      !.recovering = {r \in listed : run[r].recovering},
                      !.beside = {r \in listed : Executions(r) # {}}]
  OBVIOUS
<1>4. tick' = IdleTick \/ tick' = t
  BY <1>2, <1>3, Zenon DEF TickBegin
<1>5. CASE tick' = IdleTick
  BY <1>1, <1>5, NextRunSound, PassOnly DEF OutcomeInv
<1>6. CASE tick' = t
  <2>1. tick \in TickState /\ tick = IdleTick
    BY <1>1 DEF TypeOK, OutcomeInv, PassSound
  <2>2. /\ t.pc = "next" /\ t.todo = listed /\ t.fencing = tick.fencing
        /\ t.queued = {r \in listed : run[r].status = "queued"}
        /\ t.recovering = {r \in listed : run[r].recovering}
        /\ t.beside = {r \in listed : Executions(r) # {}}
    BY <1>3, <2>1, Zenon DEF TickState
  <2>3. ~t.fencing
    BY <2>1, <2>2, IdleTickFields
  <2>4. Ahead' = listed
    BY <1>6, <2>2 DEF Ahead
  <2>5. Recovered' = {r \in listed : run[r].status = "queued" /\ run[r].recovering}
    BY <1>6, <2>2 DEF Recovered
  <2>6. Launched' = {r \in listed : run[r].status = "queued" /\ ~run[r].recovering}
    BY <1>6, <2>2 DEF Launched
  <2>7. \A q : (Idle(q)' <=> Idle(q)) /\ (Quiet(q)' <=> Quiet(q))
    BY <1>1, StillAlike, RunnerStill
  <2>8. \A q \in Ahead' \ tick'.beside : Idle(q)'
    BY <1>6, <2>2, <2>4, <2>7 DEF Executions, Idle
  <2>9. ASSUME NEW q \in Launched', Alone(q)'
        PROVE  Quiet(q)' /\ ~ckpt'[q].completed /\ Unsettled(ckpt'[q])
    <3>1. q \in Runs \ overlapped /\ run[q].status = "queued" /\ ~run[q].recovering
      BY <1>1, <1>2, <2>6, <2>9 DEF Alone
    <3>2. DocSound(ckpt[q], run[q], Quiet(q))
      BY <3>1, Zenon DEF OutcomeInv, RunsSound
    <3> QED
      BY <1>1, <2>7, <3>1, <3>2, Zenon DEF DocSound
  <2>10. PassSound'
    BY <1>1, <1>6, <2>2, <2>3, <2>5, <2>8, <2>9 DEF PassSound
  <2> QED
    BY <1>1, <2>10, PassOnly
<1> QED
  BY <1>4, <1>5, <1>6

LEMMA PickKeeps ==
  ASSUME TypeOK, OutcomeInv, TickPick
  PROVE  OutcomeInv' /\ AllDecided
<1>1. /\ UNCHANGED <<phase, run, ckpt, owner, client, vm, active, exec, overlapped>>
      /\ tick.pc = "next"
  BY DEF TickPick, storeVars, runnerVars
<1>2. tick \in TickState /\ PassSound /\ ~tick.fencing
  BY <1>1 DEF TypeOK, OutcomeInv, PassSound
<1>3. PICK r \in tick.todo :
        tick' = IF Handled(r)
                THEN [tick EXCEPT !.todo = tick.todo \ {r}, !.run = r,
                        !.pc = IF r \in tick.recovering THEN "recover" ELSE "admit"]
                ELSE IF tick.todo \ {r} = {} THEN IdleTick
                ELSE [tick EXCEPT !.todo = tick.todo \ {r}]
  BY Zenon DEF TickPick
<1>4. PassSound'
  <2>1. CASE Handled(r)
    <3>1. PICK pc, rest : /\ pc = IF r \in tick.recovering THEN "recover" ELSE "admit"
                          /\ rest = tick.todo \ {r}
      OBVIOUS
    <3>2. tick' = [tick EXCEPT !.todo = rest, !.run = r, !.pc = pc]
      BY <1>3, <2>1, <3>1, Zenon
    <3>3. /\ tick'.pc = pc /\ tick'.todo = rest /\ tick'.run = r
          /\ tick'.queued = tick.queued /\ tick'.recovering = tick.recovering
          /\ tick'.beside = tick.beside /\ tick'.fencing = tick.fencing
      BY <1>2, <3>2, Zenon DEF TickState
    <3>4. Narrows(tick')
      BY <1>2, <2>1, <3>1, <3>3 DEF Narrows, Handled, Ahead, Recovered, Launched
    <3> QED
      BY <1>1, <1>2, <3>4, Narrowed
  <2>2. CASE tick' = IdleTick
    BY <1>1, <1>2, <2>2, NextRunSound
  <2>3. CASE tick' = [tick EXCEPT !.todo = tick.todo \ {r}]
    <3>1. PICK rest : rest = tick.todo \ {r}
      OBVIOUS
    <3>2. tick' = [tick EXCEPT !.todo = rest]
      BY <2>3, <3>1
    <3>3. /\ tick'.pc = tick.pc /\ tick'.todo = rest
          /\ tick'.queued = tick.queued /\ tick'.recovering = tick.recovering
          /\ tick'.beside = tick.beside /\ tick'.fencing = tick.fencing
      BY <1>2, <3>2, Zenon DEF TickState
    <3>4. Narrows(tick')
      BY <1>1, <1>2, <3>1, <3>3 DEF Narrows
    <3> QED
      BY <1>1, <1>2, <3>4, Narrowed
  <2> QED
    BY <1>3, <2>1, <2>2, <2>3
<1>5. phase # "down"
  BY <1>1, BusyUp
<1> QED
  BY <1>1, <1>4, <1>5, PassOnly

(* The lock, the lease, and the errors that end the handling of a run.     *)
LEMMA AdmitKeeps ==
  ASSUME TypeOK, OutcomeInv, TickAdmit \/ TickAcquire \/ TickFenceFailed \/ TickError
  PROVE  OutcomeInv' /\ AllDecided
<1>1. /\ UNCHANGED <<phase, run, ckpt, owner, client, vm, active, exec, overlapped>>
      /\ tick.pc \notin {"idle", "next"}
      /\ \/ tick' = NextRun \/ tick' = IdleTick
         \/ tick.pc = "admit" /\ TickGoto("acquire")
         \/ tick.pc = "acquire" /\ TickGoto("insert")
  <2>1. CASE TickAdmit
    BY <2>1, Zenon DEF TickAdmit, storeVars, runnerVars
  <2>2. CASE TickAcquire
    BY <2>2, Zenon DEF TickAcquire, storeVars, runnerVars
  <2>3. CASE TickFenceFailed \/ TickError
    BY <2>3, Zenon DEF TickFenceFailed, TickError, storeVars, runnerVars
  <2> QED
    BY <2>1, <2>2, <2>3
<1>2. tick \in TickState /\ PassSound
  BY DEF TypeOK, OutcomeInv
<1>3. PassSound'
  <2>1. CASE tick' = NextRun \/ tick' = IdleTick
    BY <1>1, <1>2, <2>1, NextRunSound
  <2>2. ASSUME NEW pc \in {"acquire", "insert"}, tick.pc \in {"admit", "acquire"},
               TickGoto(pc)
        PROVE  Narrows(tick')
    <3>1. /\ tick'.pc = pc /\ tick'.todo = tick.todo /\ tick'.run = tick.run
          /\ tick'.queued = tick.queued /\ tick'.recovering = tick.recovering
          /\ tick'.beside = tick.beside /\ tick'.fencing = tick.fencing
      BY <2>2, TickFields, Zenon DEF TickGoto
    <3>2. ~tick.fencing /\ tick.run \notin tick.todo
      BY <1>2, <2>2 DEF PassSound
    <3>3. tick.run \in Ahead /\ tick.run \in Launched
      BY <2>2 DEF Ahead, Launched
    <3> QED
      BY <2>2, <3>1, <3>2, <3>3 DEF Narrows
  <2> QED
    BY <1>1, <1>2, <2>1, <2>2, Narrowed
<1>4. phase # "down"
  BY <1>1, BusyUp
<1> QED
  BY <1>1, <1>3, <1>4, PassOnly

LEMMA FenceBeginKeeps ==
  ASSUME TypeOK, OutcomeInv, TickFenceBegin
  PROVE  OutcomeInv' /\ AllDecided
<1>1. /\ UNCHANGED <<phase, run, ckpt, owner, client, vm, active, exec>>
      /\ tick.pc = "recover" /\ NoteOverlap(tick.run)
      /\ tick' = [tick EXCEPT !.fencing = TRUE, !.seen = ckpt[tick.run]]
  BY DEF TickFenceBegin, storeVars, runnerVars
<1>2. tick \in TickState /\ PassSound
  BY DEF TypeOK, OutcomeInv
<1>3. PICK r : r = tick.run
  OBVIOUS
<1>4. /\ tick'.pc = "recover" /\ tick'.todo = tick.todo /\ tick'.run = r
      /\ tick'.queued = tick.queued /\ tick'.recovering = tick.recovering
      /\ tick'.beside = tick.beside /\ tick'.fencing /\ tick'.seen = ckpt[r]
  BY <1>1, <1>2, <1>3, Zenon DEF TickState
<1>5. overlapped \subseteq overlapped' /\ (r \in tick.beside => r \in overlapped')
  BY <1>1, <1>3 DEF NoteOverlap
<1>6. Ahead' = Ahead /\ Recovered' = Recovered /\ Launched' = Launched
  BY <1>1, <1>3, <1>4 DEF Ahead, Recovered, Launched
<1>7. \A q : (Idle(q)' <=> Idle(q)) /\ (Quiet(q)' <=> Quiet(q)) /\ (Alone(q)' => Alone(q))
  BY <1>1, <1>4, <1>5, StillAlike, RunnerStill DEF Alone
<1>8. /\ \A q \in Ahead' \ tick'.beside : Idle(q)'
      /\ \A q \in Recovered' : Alone(q)' => run'[q].status = "queued" /\ run'[q].recovering
      /\ \A q \in Launched' : Alone(q)' =>
           Quiet(q)' /\ ~ckpt'[q].completed /\ Unsettled(ckpt'[q])
  BY <1>1, <1>2, <1>4, <1>6, <1>7, Zenon DEF PassSound
<1>9. tick'.run \notin tick'.todo
  BY <1>1, <1>2, <1>3, <1>4 DEF PassSound
<1>10. /\ Same(tick'.seen, ckpt'[tick'.run])
       /\ tick'.run \notin tick'.beside \/ tick'.run \in overlapped'
  BY <1>1, <1>4, <1>5, SameSelf
<1>11. PassSound'
  BY <1>4, <1>8, <1>9, <1>10 DEF PassSound
<1>12. phase # "down"
  BY <1>1, BusyUp
<1> QED
  BY <1>1, <1>5, <1>11, <1>12, PassOnly

(* A step of the recovery of run tick.run.                                 *)
LEMMA PassMoves ==
  ASSUME TypeOK, PassSound, tick.pc \in {"recover", "settle", "clear"},
         UNCHANGED <<exec, overlapped>>, NEW r \in Runs, r = tick.run,
         \A q \in Runs \ {r} :
           run'[q] = run[q] /\ ckpt'[q] = ckpt[q] /\ (Quiet(q) => Quiet(q)'),
         tick'.pc \in {"next", "settle", "clear", "admit"}, ~tick'.fencing,
         tick'.todo = tick.todo, tick'.queued = tick.queued,
         tick'.recovering = tick.recovering, tick'.beside = tick.beside,
         tick'.pc # "next" => tick'.run = r,
         tick'.pc \in {"settle", "clear"} => r \notin tick.beside \/ r \in overlapped,
         Alone(r) =>
           /\ tick'.pc \in {"settle", "clear"} =>
                run'[r].status = "queued" /\ run'[r].recovering /\ Quiet(r)'
           /\ tick'.pc = "clear" => ~ckpt'[r].completed /\ ckpt'[r].settled = "none"
           /\ tick'.pc = "admit" => Quiet(r)' /\ ~ckpt'[r].completed /\ Unsettled(ckpt'[r])
  PROVE  PassSound'
<1>1. tick.todo \subseteq Runs \ {r} /\ tick.todo \subseteq Ahead /\ r \in Ahead
  BY DEF TypeOK, TickState, PassSound, Ahead
<1>2. \A q : (Alone(q)' <=> Alone(q)) /\ (Idle(q)' <=> Idle(q))
  BY StillAlike DEF Alone
<1>3. Ahead' \subseteq Ahead
  BY <1>1 DEF Ahead
<1>4. \A q \in Recovered' :
        \/ q \in Recovered /\ q \in Runs \ {r}
        \/ q = r /\ tick'.pc \in {"settle", "clear"}
  BY <1>1 DEF Recovered
<1>5. \A q \in Launched' :
        \/ q \in Launched /\ q \in Runs \ {r}
        \/ q = r /\ tick'.pc = "admit"
  BY <1>1 DEF Launched
<1>6. \A q \in Ahead' \ tick'.beside : Idle(q)'
  BY <1>2, <1>3, Zenon DEF PassSound
<1>7. \A q \in Recovered' : Alone(q)' => run'[q].status = "queued" /\ run'[q].recovering
  <2>1. \A q \in Recovered : Alone(q) => run[q].status = "queued" /\ run[q].recovering
    BY DEF PassSound
  <2> TAKE q \in Recovered'
  <2>2. CASE q \in Recovered /\ q \in Runs \ {r}
    BY <1>2, <2>1, <2>2
  <2>3. CASE q = r /\ tick'.pc \in {"settle", "clear"}
    BY <1>2, <2>3
  <2> QED
    BY <1>4, <2>2, <2>3
<1>8. \A q \in Launched' : Alone(q)' =>
        Quiet(q)' /\ ~ckpt'[q].completed /\ Unsettled(ckpt'[q])
  BY <1>2, <1>5, Zenon DEF PassSound
<1>9. /\ tick'.pc # "idle" /\ ~tick'.fencing
      /\ tick'.pc \notin {"idle", "next"} => tick'.run \notin tick'.todo
      /\ tick'.pc \in {"settle", "clear"} =>
           tick'.run \notin tick'.beside \/ tick'.run \in overlapped'
  BY <1>1
<1>10. /\ tick'.pc \in {"settle", "clear"} /\ Alone(tick.run)' => Quiet(tick.run)'
       /\ tick'.pc = "clear" /\ Alone(tick.run)' =>
            ~ckpt'[tick'.run].completed /\ ckpt'[tick'.run].settled = "none"
  <2>1. tick'.pc \in {"settle", "clear"} => tick'.run = r
    OBVIOUS
  <2>2. tick'.run = r => (Alone(tick.run)' => Alone(r)) /\ (Quiet(r)' => Quiet(tick.run)')
    BY DEF Alone, Quiet
  <2> QED
    BY <2>1, <2>2, Zenon
<1> QED
  BY <1>6, <1>7, <1>8, <1>9, <1>10, Zenon DEF PassSound

(* What is known of the run being recovered.                               *)
LEMMA RecoveryFacts ==
  ASSUME TypeOK, OutcomeInv, tick.pc \in {"settle", "clear"} \/ tick.fencing
  PROVE  /\ tick.run \in Runs /\ phase # "down" /\ run[tick.run] \in RunDoc
         /\ ckpt[tick.run] \in Ckpt /\ tick.seen \in Ckpt
         /\ tick.pc \in {"recover", "settle", "clear"}
         /\ tick.run \notin overlapped =>
              /\ Alone(tick.run) /\ Idle(tick.run) /\ Named(tick.run)
              /\ run[tick.run].status = "queued" /\ run[tick.run].recovering
              /\ DocSound(ckpt[tick.run], run[tick.run], Quiet(tick.run))
              /\ tick.pc \in {"settle", "clear"} => Quiet(tick.run)
              /\ tick.pc = "clear" => ~ckpt[tick.run].completed
                                      /\ ckpt[tick.run].settled = "none"
              /\ tick.fencing => Same(tick.seen, ckpt[tick.run])
<1>1. PassSound /\ RunsSound
  BY DEF OutcomeInv
<1>2. tick.pc \in {"recover", "settle", "clear"}
  BY <1>1, Zenon DEF PassSound
<1>3. /\ tick.run \in Runs /\ phase # "down" /\ run[tick.run] \in RunDoc
      /\ ckpt[tick.run] \in Ckpt /\ tick.seen \in Ckpt
  BY <1>2, TickFacts, BusyUp
<1>4. PICK r \in Runs : r = tick.run
  BY <1>3
<1>5. r \in Recovered /\ r \in Ahead
  BY <1>2, <1>4 DEF Recovered, Ahead
<1>6. r \notin overlapped => Alone(r) /\ r \notin tick.beside
  BY <1>1, <1>4, Zenon DEF PassSound, Alone
<1>7. r \notin overlapped =>
        /\ Idle(r) /\ Named(r) /\ run[r].status = "queued" /\ run[r].recovering
        /\ DocSound(ckpt[r], run[r], Quiet(r))
  BY <1>1, <1>5, <1>6, Zenon DEF PassSound, RunsSound
<1>8. r \notin overlapped =>
        /\ tick.pc \in {"settle", "clear"} => Quiet(r)
        /\ tick.pc = "clear" => ~ckpt[r].completed /\ ckpt[r].settled = "none"
        /\ tick.fencing => Same(tick.seen, ckpt[r])
  BY <1>1, <1>4, <1>6, Zenon DEF PassSound
<1> QED
  BY <1>2, <1>3, <1>4, <1>6, <1>7, <1>8

LEMMA FenceWrites ==
  ASSUME TypeOK, NEW r \in Runs, NEW c \in Ckpt, FenceConfirmed(r, c)
  PROVE  /\ \A q \in Runs \ {r} : ckpt'[q] = ckpt[q]
         /\ Same(c, ckpt[r]) => Same(ckpt'[r], ckpt[r])
<1>1. PICK d : d = [c EXCEPT !.proc = NoAttempt]
  OBVIOUS
<1>2. Same(d, c)
  BY <1>1, Zenon DEF Same, Ckpt
<1>3. ckpt' = IF c.exists THEN [ckpt EXCEPT ![r] = d] ELSE ckpt
  BY <1>1, Zenon DEF FenceConfirmed
<1>4. CASE c.exists
  <2>1. ckpt'[r] = d /\ \A q \in Runs \ {r} : ckpt'[q] = ckpt[q]
    BY <1>3, <1>4, Zenon DEF TypeOK
  <2> QED
    BY <1>2, <2>1, SameChain
<1>5. CASE ~c.exists
  BY <1>3, <1>5, SameSelf
<1> QED
  BY <1>4, <1>5

LEMMA FencedKeeps ==
  ASSUME TypeOK, OutcomeInv, TickFenced
  PROVE  OutcomeInv' /\ AllDecided
<1>1. /\ UNCHANGED <<phase, run, owner, active, exec, overlapped>>
      /\ tick.pc = "recover" /\ tick.fencing /\ FenceConfirmed(tick.run, tick.seen)
      /\ tick' = [tick EXCEPT !.pc = "settle", !.fencing = FALSE, !.seen = NoCkpt]
  BY DEF TickFenced
<1>2. tick \in TickState /\ PassSound
  BY DEF TypeOK, OutcomeInv
<1>3. PICK r \in Runs : r = tick.run
  BY <1>1, RecoveryFacts
<1>4. /\ tick'.pc = "settle" /\ tick'.todo = tick.todo /\ tick'.run = r
      /\ tick'.queued = tick.queued /\ tick'.recovering = tick.recovering
      /\ tick'.beside = tick.beside /\ ~tick'.fencing
  BY <1>1, <1>2, <1>3, Zenon DEF TickState
<1>5. phase # "down" /\ tick.seen \in Ckpt
  BY <1>1, RecoveryFacts
<1>6. /\ \A q : NoNewStart(q)
      /\ Named(r) /\ Same(tick.seen, ckpt[r]) => Quiet(r)'
  BY <1>1, <1>3, FenceStops
<1>7. /\ \A q \in Runs \ {r} : ckpt'[q] = ckpt[q]
      /\ Same(tick.seen, ckpt[r]) => Same(ckpt'[r], ckpt[r])
  BY <1>1, <1>3, <1>5, FenceWrites
<1>8. ASSUME r \notin overlapped
      PROVE  /\ Alone(r) /\ Idle(r) /\ run[r].status = "queued" /\ run[r].recovering
             /\ Quiet(r)' /\ Same(ckpt'[r], ckpt[r])
             /\ DocSound(ckpt[r], run[r], Quiet(r))
  BY <1>1, <1>3, <1>6, <1>7, <1>8, RecoveryFacts
<1>9. WritesOnly(r)
  BY <1>1, <1>6, <1>7, StillAlike DEF WritesOnly
<1>10. ASSUME r \notin overlapped PROVE WrittenSound(r)
  <2>1. DocSound(ckpt'[r], run'[r], Quiet(r)')
    BY <1>1, <1>8, <1>10, Zenon DEF DocSound, Same
  <2>2. Named(r)'
    BY <1>8, <1>10 DEF Quiet, Named
  <2> QED
    BY <1>1, <1>8, <1>10, <2>1, <2>2 DEF WrittenSound, Idle
<1>11. PassSound'
  <2>1. \A q \in Runs \ {r} :
          run'[q] = run[q] /\ ckpt'[q] = ckpt[q] /\ (Quiet(q) => Quiet(q)')
    BY <1>1, <1>6, <1>7, StaysQuiet
  <2>2. r \notin tick.beside \/ r \in overlapped
    BY <1>8 DEF Alone
  <2>3. Alone(r) => run'[r].status = "queued" /\ run'[r].recovering /\ Quiet(r)'
    BY <1>1, <1>8 DEF Alone
  <2> QED
    BY <1>1, <1>2, <1>3, <1>4, <2>1, <2>2, <2>3, PassMoves
<1>12. DownIdle'
  BY <1>1, <1>5 DEF DownIdle
<1>13. OutcomeInv'
  BY <1>9, <1>10, <1>11, <1>12, RunFramed
<1>14. r \notin overlapped => Decided(ckpt[r], run[r], ckpt'[r], run'[r])
  BY <1>1, <1>8, Zenon DEF Decided, Same
<1> QED
  BY <1>1, <1>7, <1>13, <1>14, StillDecided DEF AllDecided

(* The document of the run the pass recovers is settled, or cleared for a  *)
(* launch.                                                                 *)
LEMMA RecoveryWrites ==
  ASSUME TypeOK, OutcomeInv, tick.pc \in {"settle", "clear"}, NEW r \in Runs,
         r = tick.run, NEW doc, PatchRun(r, doc),
         UNCHANGED <<phase, ckpt, owner, client, vm, active, exec, overlapped>>,
         \/ /\ r \notin overlapped => doc.status \notin ActiveStatuses
            /\ tick' = NextRun
         \/ /\ doc.status = run[r].status /\ doc.recovering = run[r].recovering
            /\ tick.pc = "settle" /\ TickGoto("clear")
            /\ ckpt[r].settled = "none" /\ ~ckpt[r].completed
         \/ /\ doc.status = run[r].status /\ ~run[r].cancel
            /\ tick.pc = "clear" /\ TickGoto("admit")
  PROVE  OutcomeInv' /\ AllDecided
<1>1. tick \in TickState /\ PassSound /\ phase # "down"
  BY RecoveryFacts DEF TypeOK, OutcomeInv
<1>2. run'[r] = doc /\ \A q \in Runs \ {r} : run'[q] = run[q]
  BY Zenon DEF TypeOK, PatchRun
<1>3. \A q : NoNewStart(q) /\ (Quiet(q) <=> Quiet(q)')
  BY RunnerStill
<1>4. ASSUME r \notin overlapped
      PROVE  /\ Alone(r) /\ Idle(r) /\ Named(r) /\ Quiet(r) /\ ~tick.fencing
             /\ run[r].status = "queued" /\ run[r].recovering
             /\ DocSound(ckpt[r], run[r], Quiet(r))
             /\ (tick.pc = "clear" => ~ckpt[r].completed /\ ckpt[r].settled = "none")
  <2>1. ~tick.fencing
    BY <1>1 DEF PassSound
  <2> QED
    BY <1>4, <2>1, RecoveryFacts
<1>5. \/ r \notin overlapped => doc.status \notin ActiveStatuses
      \/ doc.status = run[r].status /\ doc.recovering = run[r].recovering
      \/ doc.status = run[r].status /\ tick.pc = "clear" /\ ~run[r].cancel
  OBVIOUS
<1>6. WritesOnly(r)
  BY <1>2, <1>3, StillAlike DEF WritesOnly
<1>7. ASSUME r \notin overlapped PROVE WrittenSound(r)
  <2>1. DocSound(ckpt'[r], run'[r], Quiet(r)')
    <3>1. ckpt[r].settled \notin ActiveStatuses /\ (tick.pc = "clear" => Unsettled(ckpt[r]))
      BY <1>4, <1>7 DEF DocSound, Unsettled
    <3> QED
      BY <1>2, <1>3, <1>4, <1>5, <1>7, <3>1 DEF DocSound, ActiveStatuses
  <2>2. Named(r)'
    BY <1>3, <1>4, <1>7, StaysNamed
  <2>3. doc.status # "running"
    BY <1>4, <1>5, <1>7 DEF ActiveStatuses
  <2> QED
    BY <1>2, <1>4, <1>7, <2>1, <2>2, <2>3 DEF WrittenSound, Idle
<1>8. PassSound'
  <2>1. \A q \in Runs \ {r} :
          run'[q] = run[q] /\ ckpt'[q] = ckpt[q] /\ (Quiet(q) => Quiet(q)')
    BY <1>2, <1>3
  <2>2. ~tick.fencing /\ (Alone(r) => r \notin overlapped)
        /\ (r \notin tick.beside \/ r \in overlapped)
    BY <1>1, Zenon DEF PassSound, Alone
  <2>3. CASE tick' = NextRun
    <3>1. CASE tick' = IdleTick
      <4>1. (tick = IdleTick)'
        BY <3>1
      <4> QED
        BY <4>1, IdlePassSound, PTL
    <3>2. CASE tick' # IdleTick
      <4>1. /\ tick'.pc = "next" /\ tick'.todo = tick.todo /\ ~tick'.fencing
            /\ tick'.queued = tick.queued /\ tick'.recovering = tick.recovering
            /\ tick'.beside = tick.beside
        BY <2>3, <3>2, NextRunFields
      <4> QED
        BY <1>1, <2>1, <4>1, PassMoves
    <3> QED
      BY <3>1, <3>2
  <2>4. CASE tick.pc = "settle" /\ TickGoto("clear")
    <3>1. /\ tick'.pc = "clear" /\ tick'.todo = tick.todo /\ tick'.run = tick.run
          /\ tick'.queued = tick.queued /\ tick'.recovering = tick.recovering
          /\ tick'.beside = tick.beside /\ tick'.fencing = tick.fencing
      BY <2>4, TickFields, Zenon DEF TickGoto
    <3>2. doc.status = run[r].status /\ doc.recovering = run[r].recovering
          /\ ckpt[r].settled = "none" /\ ~ckpt[r].completed
      <4>1. tick'.pc # NextRun.pc
        BY <3>1, NextRunFields, IdlePc
      <4> QED
        BY <2>4, <4>1
    <3>3. Alone(r) => /\ run'[r].status = "queued" /\ run'[r].recovering /\ Quiet(r)'
                      /\ ~ckpt'[r].completed /\ ckpt'[r].settled = "none"
      BY <1>2, <1>3, <1>4, <2>2, <3>2
    <3> QED
      BY <1>1, <2>1, <2>2, <3>1, <3>3, PassMoves
  <2>5. CASE tick.pc = "clear" /\ TickGoto("admit")
    <3>1. /\ tick'.pc = "admit" /\ tick'.todo = tick.todo /\ tick'.run = tick.run
          /\ tick'.queued = tick.queued /\ tick'.recovering = tick.recovering
          /\ tick'.beside = tick.beside /\ tick'.fencing = tick.fencing
      BY <2>5, TickFields, Zenon DEF TickGoto
    <3>2. Alone(r) => Quiet(r)' /\ ~ckpt'[r].completed /\ Unsettled(ckpt'[r])
      BY <1>3, <1>4, <2>2, <2>5 DEF Unsettled
    <3> QED
      BY <1>1, <2>1, <2>2, <3>1, <3>2, PassMoves
  <2> QED
    BY <2>3, <2>4, <2>5
<1>9. DownIdle'
  BY <1>1 DEF DownIdle
<1>10. OutcomeInv'
  BY <1>6, <1>7, <1>8, <1>9, RunFramed
<1>11. r \notin overlapped => Decided(ckpt[r], run[r], ckpt'[r], run'[r])
  BY <1>2, <1>5, Zenon DEF Decided
<1> QED
  BY <1>2, <1>10, <1>11, StillDecided DEF AllDecided


LEMMA SettleKeeps ==
  ASSUME TypeOK, OutcomeInv, TickSettle
  PROVE  OutcomeInv' /\ AllDecided
<1>1. /\ UNCHANGED <<phase, ckpt, owner, client, vm, active, exec, overlapped>>
      /\ tick.pc = "settle"
  BY DEF TickSettle, runnerVars
<1>2. PICK r \in Runs : r = tick.run
  BY <1>1, RecoveryFacts
<1>3. run[r] \in RunDoc /\ ckpt[r] \in Ckpt
  BY <1>1, <1>2, RecoveryFacts
<1>4. CASE RecoverOutcome(r) = "none"
  <2>1. TickGoto("clear") /\ UNCHANGED run
    BY <1>2, <1>4, Zenon DEF TickSettle
  <2>2. ckpt[r].settled = "none" /\ ~ckpt[r].completed
    BY <1>4 DEF RecoverOutcome
  <2>3. PatchRun(r, run[r])
    BY <2>1 DEF PatchRun, TypeOK
  <2> QED
    BY <1>1, <1>2, <2>1, <2>2, <2>3, RecoveryWrites
<1>5. CASE RecoverOutcome(r) # "none"
  <2>1. PICK d, o, b : /\ o = RecoverOutcome(r)
                       /\ b = (run[r].cancel \/ ckpt[r].settled # "none")
                       /\ d = [run[r] EXCEPT !.resumable = @ /\ b]
    OBVIOUS
  <2>2. PatchRun(r, SettledRun(d, o)) /\ tick' = NextRun
    BY <1>2, <1>5, <2>1, Zenon DEF TickSettle
  <2>3. d \in RunDoc
    BY <1>3, <2>1, Zenon DEF RunDoc
  <2>4. SettledRun(d, o).status = o
    BY <2>3, Zenon DEF SettledRun, RunDoc
  <2>5. r \notin overlapped => o \notin ActiveStatuses
    <3>1. r \notin overlapped => ckpt[r].settled \notin ActiveStatuses
      BY <1>1, <1>2, RecoveryFacts DEF DocSound
    <3> QED
      BY <1>5, <2>1, <3>1 DEF RecoverOutcome, ActiveStatuses
  <2> QED
    BY <1>1, <1>2, <2>2, <2>4, <2>5, RecoveryWrites
<1> QED
  BY <1>4, <1>5

LEMMA ClearKeeps ==
  ASSUME TypeOK, OutcomeInv, TickClear
  PROVE  OutcomeInv' /\ AllDecided
<1>1. /\ UNCHANGED <<phase, ckpt, owner, client, vm, active, exec, overlapped>>
      /\ tick.pc = "clear"
  BY DEF TickClear, runnerVars
<1>2. PICK r \in Runs : r = tick.run
  BY <1>1, RecoveryFacts
<1>3. run[r] \in RunDoc
  BY <1>1, <1>2, RecoveryFacts
<1>4. CASE run[r].cancel
  <2>1. PatchRun(r, CancelledRun(run[r])) /\ tick' = NextRun
    BY <1>2, <1>4, Zenon DEF TickClear
  <2>2. CancelledRun(run[r]).status = "cancelled"
    BY <1>3, Zenon DEF CancelledRun, SettledRun, RunDoc
  <2>3. CancelledRun(run[r]).status \notin ActiveStatuses
    BY <2>2 DEF ActiveStatuses
  <2> QED
    BY <1>1, <1>2, <2>1, <2>3, RecoveryWrites
<1>5. CASE ~run[r].cancel
  <2>1. PICK d : d = [run[r] EXCEPT !.recovering = FALSE]
    OBVIOUS
  <2>2. PatchRun(r, d) /\ TickGoto("admit")
    BY <1>2, <1>5, <2>1, Zenon DEF TickClear
  <2>3. d.status = run[r].status
    BY <1>3, <2>1, Zenon DEF RunDoc
  <2> QED
    BY <1>1, <1>2, <1>5, <2>2, <2>3, RecoveryWrites
<1> QED
  BY <1>4, <1>5

(* The launch: a new execution of a run that has stopped and has neither a *)
(* completed turn nor an outcome.                                          *)
LEMMA InsertKeeps ==
  ASSUME TypeOK, OutcomeInv, TickInsert
  PROVE  OutcomeInv' /\ AllDecided
<1>1. /\ UNCHANGED <<phase, run, ckpt, owner, client, vm>>
      /\ tick.pc = "insert" /\ tick' = NextRun /\ NoteOverlap(tick.run)
  BY DEF TickInsert, storeVars, runnerVars
<1>2. PassSound /\ phase # "down"
  BY <1>1, BusyUp DEF OutcomeInv
<1>3. PICK r \in Runs : r = tick.run
  BY <1>1, TickFacts
<1>4. PICK x : x = [IdleExec EXCEPT !.pc = "load", !.run = r, !.account = TRUE]
  OBVIOUS
<1>5. PICK e \in Execs : /\ exec[e].pc = "free" /\ SetExec(e, x)
                         /\ active' = [active EXCEPT ![r] = e]
  BY <1>3, <1>4, Zenon DEF TickInsert
<1>6. /\ x.pc = "load" /\ x.run = r /\ ~x.fencing /\ ~x.fenced /\ x.outcome = "queued"
  BY <1>4, ValueTypes DEF IdleExec
<1>7. /\ exec'[e] = x /\ \A f \in Execs \ {e} : exec'[f] = exec[f]
      /\ active'[r] = e /\ \A q \in Runs \ {r} : active'[q] = active[q]
  BY <1>5, Zenon DEF SetExec, TypeOK
<1>8. /\ overlapped \subseteq overlapped'
      /\ r \notin overlapped' => Alone(r)
  BY <1>1, <1>3 DEF NoteOverlap, Alone
<1>9. Alone(r) => Idle(r) /\ Quiet(r) /\ ~ckpt[r].completed /\ Unsettled(ckpt[r])
  <2>1. r \in Ahead /\ r \in Launched
    BY <1>1, <1>3 DEF Ahead, Launched
  <2> QED
    BY <1>2, <2>1, Zenon DEF PassSound, Alone
<1>10. \A q : NoNewStart(q) /\ (Quiet(q) <=> Quiet(q)')
  BY <1>1, RunnerStill
<1>11. OneExecution'
  <2> SUFFICES ASSUME NEW f \in Execs, exec'[f].pc # "free", exec'[f].run \notin overlapped'
               PROVE  active'[exec'[f].run] = f
    BY Zenon DEF OneExecution
  <2>1. CASE f = e
    BY <1>6, <1>7, <2>1
  <2>2. CASE f # e
    <3>1. exec'[f] = exec[f] /\ exec[f].run \in Runs /\ exec[f].pc # "free"
      BY <1>7, <2>2 DEF TypeOK
    <3>2. exec[f].run # r
      BY <1>8, <1>9, <3>1 DEF Idle
    <3>3. active[exec[f].run] = f
      BY <1>8, <3>1 DEF OutcomeInv, OneExecution
    <3> QED
      BY <1>7, <3>1, <3>2, <3>3
  <2> QED
    BY <2>1, <2>2
<1>12. ExecsSound'
  <2> SUFFICES ASSUME NEW f \in Execs, exec'[f].pc # "free", exec'[f].run \notin overlapped'
               PROVE  CopySound(exec'[f], ckpt'[exec'[f].run], run'[exec'[f].run],
                                Quiet(exec[f].run)')
    BY Zenon DEF ExecsSound
  <2>1. CASE f = e
    <3>1. Quiet(r) /\ ~ckpt[r].completed /\ Unsettled(ckpt[r])
      BY <1>6, <1>7, <1>8, <1>9, <2>1
    <3>2. CopySound(x, ckpt[r], run[r], Quiet(r)')
      BY <1>6, <1>10, <3>1, Zenon
         DEF CopySound, Ending, Early, Calm, Prepared, Spawned
    <3>3. exec'[f] = x /\ exec'[f].run = r
      BY <1>6, <1>7, <2>1
    <3>4. Quiet(r)' => Quiet(exec[f].run)'
      BY <3>3 DEF Quiet
    <3> QED
      BY <1>1, <1>10, <3>1, <3>2, <3>3, <3>4, QuietKeeps
  <2>2. CASE f # e
    <3>1. PICK q : q = exec[f].run
      OBVIOUS
    <3>2. exec'[f] = exec[f] /\ exec[f].pc # "free" /\ q \notin overlapped
      BY <1>7, <1>8, <2>2, <3>1
    <3>3. CopySound(exec[f], ckpt[q], run[q], Quiet(q))
      BY <3>1, <3>2, Zenon DEF OutcomeInv, ExecsSound
    <3>4. Quiet(q) \in BOOLEAN /\ Quiet(q)' \in BOOLEAN
      BY DEF Quiet
    <3>5. CopySound(exec[f], ckpt[q], run[q], Quiet(q)')
      BY <1>10, <3>3, <3>4, QuietKeeps
    <3> QED
      BY <1>1, <3>1, <3>2, <3>5
  <2> QED
    BY <2>1, <2>2
<1>13. RunsSound'
  <2> SUFFICES ASSUME NEW q \in Runs, q \notin overlapped'
               PROVE  /\ DocSound(ckpt'[q], run'[q], Quiet(q)')
                      /\ Named(q)'
                      /\ run'[q].status = "running" /\ phase' # "down" => ~Idle(q)'
    BY Zenon DEF RunsSound
  <2>1. /\ DocSound(ckpt[q], run[q], Quiet(q)) /\ Named(q)
        /\ (run[q].status = "running" /\ phase # "down" => ~Idle(q))
    BY <1>8, Zenon DEF OutcomeInv, RunsSound
  <2>2. DocSound(ckpt'[q], run'[q], Quiet(q)')
    BY <1>1, <1>10, <2>1 DEF DocSound
  <2>3. Named(q)'
    BY <1>1, <1>10, <2>1, StaysNamed
  <2>4. ~Idle(q) => ~Idle(q)'
    BY <1>5, <1>7 DEF Idle
  <2> QED
    BY <1>1, <2>1, <2>2, <2>3, <2>4
<1>14. PassSound'
  <2>1. CASE tick' = IdleTick
    <3>1. (tick = IdleTick)'
      BY <2>1
    <3> QED
      BY <3>1, IdlePassSound, PTL
  <2>2. CASE tick' # IdleTick
    <3>1. /\ tick'.pc = "next" /\ tick'.todo = tick.todo /\ ~tick'.fencing
          /\ tick'.queued = tick.queued /\ tick'.recovering = tick.recovering
          /\ tick'.beside = tick.beside
      BY <1>1, <2>2, NextRunFields
    <3>2. r \notin tick.todo
      BY <1>1, <1>2, <1>3 DEF PassSound
    <3>3. Ahead' \subseteq Ahead /\ r \notin Ahead'
      BY <3>1, <3>2 DEF Ahead
    <3>4. Recovered' \subseteq Recovered /\ Launched' \subseteq Launched
      BY <3>1 DEF Recovered, Launched
    <3>5. \A q : Alone(q)' => Alone(q)
      BY <1>8, <3>1 DEF Alone
    <3>6. \A q \in Ahead' \ tick'.beside : Idle(q)'
      <4>1. \A q \in Ahead' \ tick'.beside : Idle(q) /\ q # r
        BY <1>2, <3>1, <3>3, Zenon DEF PassSound
      <4> QED
        BY <1>6, <1>7, <4>1 DEF Idle
    <3>7. \A q \in Recovered' : Alone(q)' => run'[q].status = "queued" /\ run'[q].recovering
      <4>1. \A q \in Recovered : Alone(q) => run[q].status = "queued" /\ run[q].recovering
        BY <1>2 DEF PassSound
      <4> QED
        BY <1>1, <3>4, <3>5, <4>1, Zenon
    <3>8. \A q \in Launched' : Alone(q)' =>
            Quiet(q)' /\ ~ckpt'[q].completed /\ Unsettled(ckpt'[q])
      <4>1. \A q \in Launched : Alone(q) =>
              Quiet(q) /\ ~ckpt[q].completed /\ Unsettled(ckpt[q])
        BY <1>2 DEF PassSound
      <4> QED
        BY <1>1, <1>10, <3>4, <3>5, <4>1
    <3> QED
      BY <3>1, <3>6, <3>7, <3>8 DEF PassSound
  <2> QED
    BY <2>1, <2>2
<1>15. DownIdle'
  BY <1>1, <1>2 DEF DownIdle
<1> QED
  BY <1>1, <1>11, <1>12, <1>13, <1>14, <1>15, StillDecided DEF AllDecided, OutcomeInv
----------------------------------------
LEMMA TickKeeps ==
  ASSUME TypeOK, OutcomeInv, TickStep \/ TickError
  PROVE  OutcomeInv' /\ AllDecided
  BY BeginKeeps, PickKeeps, FenceBeginKeeps, FencedKeeps, SettleKeeps, ClearKeeps,
     AdmitKeeps, InsertKeeps, Zenon DEF TickStep

LEMMA OwnerKeeps ==
  ASSUME TypeOK, OutcomeInv, NEW r \in Runs, OwnerStep(r) \/ RetryDue(r)
  PROVE  OutcomeInv' /\ AllDecided
  BY CancelKeeps, ResumeKeeps, RetryDueKeeps, Zenon DEF OwnerStep

LEMMA ManagerKeeps ==
  ASSUME TypeOK, OutcomeInv, Shutdown \/ Closed \/ Crash \/ Restart
  PROVE  OutcomeInv' /\ AllDecided
  BY ShutdownKeeps, GoneKeeps, RestartKeeps, Zenon DEF Closed, Crash

LEMMA StutterKeeps ==
  ASSUME TypeOK, OutcomeInv, UNCHANGED vars
  PROVE  OutcomeInv' /\ AllDecided
<1>1. UNCHANGED <<phase, run, ckpt, owner, client, vm, active, exec, tick, overlapped>>
  BY DEF vars
<1>2. \A q : NoNewStart(q) /\ (Quiet(q) <=> Quiet(q)')
  BY <1>1, RunnerStill
<1>3. WritesOnly(NoRun) /\ NoRun \notin Runs
  BY <1>1, <1>2, StillAlike, NotNoRun DEF WritesOnly
<1>4. PassSound'
  <2>1. PassSound
    BY DEF OutcomeInv
  <2>2. \A q \in Ahead \ tick.beside : Idle(q)'
    BY <1>1, <2>1, StillAlike, Zenon DEF PassSound
  <2>3. \A q : Undisturbed(q)
    BY <1>1, <1>2, SameSelf DEF Undisturbed
  <2> QED
    BY <1>1, <2>1, <2>2, <2>3, PassKept
<1>5. DownIdle'
  BY <1>1 DEF OutcomeInv, DownIdle
<1>6. OutcomeInv'
  BY <1>3, <1>4, <1>5, RunFramed
<1> QED
  BY <1>1, <1>6, StillDecided DEF AllDecided

LEMMA NextKeeps ==
  ASSUME TypeOK, AttemptOwnership, OutcomeInv, [Next]_vars
  PROVE  OutcomeInv' /\ AllDecided
<1>1. CASE UNCHANGED vars
  BY <1>1, StutterKeeps
<1>2. CASE Next
  BY <1>2, TickKeeps, ExecKeeps, RunnerKeeps, OwnerKeeps, ManagerKeeps, Zenon DEF Next
<1> QED
  BY <1>1, <1>2

LEMMA InitOutcome == Init => OutcomeInv
<1> SUFFICES ASSUME Init PROVE OutcomeInv
  OBVIOUS
<1>1. /\ phase = "up" /\ tick = IdleTick /\ \A e \in Execs : exec[e].pc = "free"
      /\ \A a \in Attempts : owner[a] = NoRun
      /\ \A r \in Runs : run[r] = QueuedRun /\ ckpt[r] = NoCkpt
  BY IdlePc, Zenon DEF Init
<1>2. \A r \in Runs : Quiet(r)
  BY <1>1, NotNoRun DEF Quiet
<1>3. OneExecution /\ ExecsSound /\ DownIdle
  BY <1>1 DEF OneExecution, ExecsSound, DownIdle
<1>4. PassSound
  BY <1>1, IdlePassSound
<1>5. RunsSound
  <2>1. /\ QueuedRun.status = "queued" /\ ~NoCkpt.completed /\ NoCkpt.settled = "none"
    BY DEF QueuedRun, NoCkpt
  <2> SUFFICES ASSUME NEW r \in Runs
               PROVE  /\ DocSound(ckpt[r], run[r], Quiet(r)) /\ Named(r)
                      /\ run[r].status # "running"
    BY Zenon DEF RunsSound
  <2>2. DocSound(ckpt[r], run[r], Quiet(r))
    BY <1>1, <1>2, <2>1 DEF DocSound, Unsettled, ActiveStatuses
  <2>3. Named(r)
    BY <1>2 DEF Quiet, Named
  <2> QED
    BY <1>1, <2>1, <2>2, <2>3
<1> QED
  BY <1>3, <1>4, <1>5 DEF OutcomeInv

(* One writer at a time for every run that no pass handled beside its      *)
(* execution: the checkpoint names the VM that may run, and the copy of    *)
(* the execution or of the pass agrees with the store (recovery.rs fence,  *)
(* checkpoint.rs update).                                                  *)
THEOREM OutcomesSound == Spec => []OutcomeInv
<1>1. TypeOK /\ AttemptOwnership /\ OutcomeInv /\ [Next]_vars => OutcomeInv'
  BY NextKeeps
<1> QED
  BY <1>1, InitOutcome, TypeCorrect, OwnershipHolds, PTL DEF Spec

(* A run reads as finished only once its VM has stopped, for every number  *)
(* of executions, crashes, cancellations, resumes and store errors: the    *)
(* settled outcome waits in the checkpoint until the fence is confirmed    *)
(* (execution.rs release, failure_patch; schedule.rs recover).             *)
THEOREM FinishedMeansStopped == Spec => []TerminalMeansStopped
<1>1. OutcomeInv => TerminalMeansStopped
  <2> SUFFICES ASSUME OutcomeInv, NEW r \in Runs, r \notin overlapped,
                      run[r].status \notin ActiveStatuses
               PROVE  ~LiveVm(r)
    BY DEF TerminalMeansStopped
  <2>1. DocSound(ckpt[r], run[r], Quiet(r))
    BY Zenon DEF OutcomeInv, RunsSound
  <2>2. Quiet(r)
    BY <2>1 DEF DocSound
  <2> QED
    BY <2>2 DEF Quiet, Startable, LiveVm
<1> QED
  BY <1>1, OutcomesSound, PTL

(* No execution starts from a checkpoint whose turn is completed: recovery *)
(* settles such a run, and a resume clears the mark (schedule.rs recover,  *)
(* control.rs requeue).                                                    *)
THEOREM CompletedTurnsNotReplayed == Spec => []NoReplayOfCompletedTurn
<1>1. OutcomeInv => NoReplayOfCompletedTurn
  <2> SUFFICES ASSUME OutcomeInv, NEW e \in Execs, exec[e].pc \in {"mark", "prepare"},
                      exec[e].run \notin overlapped
               PROVE  ~exec[e].ck.completed
    BY DEF NoReplayOfCompletedTurn
  <2>1. CopySound(exec[e], ckpt[exec[e].run], run[exec[e].run], Quiet(exec[e].run))
    BY Zenon DEF OutcomeInv, ExecsSound
  <2> QED
    BY <2>1, Zenon DEF CopySound, Same, Early
<1> QED
  BY <1>1, OutcomesSound, PTL

(* Without store errors, an outcome put aside in the checkpoint is cleared *)
(* by a resume only (recovery.rs fence, execution.rs release, control.rs   *)
(* requeue), and a cancelled recovery always ends the run (schedule.rs     *)
(* recover). A store error before the launch, followed by a crash, leaves  *)
(* an outcome behind that the next failure overwrites.                     *)
THEOREM DecisionsAreKept ==
  ASSUME MaxIoErrors = 0
  PROVE  Spec => DecisionsKept
<1>1. TypeOK /\ AttemptOwnership /\ OutcomeInv /\ [Next]_vars =>
        /\ [\A r \in Runs \ overlapped :
              ckpt[r].settled # "none" /\ ckpt'[r].settled # ckpt[r].settled
                => run[r].status \in ResumableStatuses]_vars
        /\ [\A r \in Runs \ overlapped :
              run[r].recovering /\ run[r].cancel /\ ~run'[r].recovering
                => run'[r].status \notin ActiveStatuses]_vars
  <2> SUFFICES ASSUME TypeOK, AttemptOwnership, OutcomeInv, [Next]_vars
               PROVE  \A r \in Runs \ overlapped :
                        /\ ckpt[r].settled # "none" /\ ckpt'[r].settled # ckpt[r].settled
                             => run[r].status \in ResumableStatuses
                        /\ run[r].recovering /\ run[r].cancel /\ ~run'[r].recovering
                             => run'[r].status \notin ActiveStatuses
    BY Zenon
  <2>1. AllDecided
    BY NextKeeps
  <2> QED
    BY <2>1, Zenon DEF AllDecided, Decided
<1> QED
  BY <1>1, TypeCorrect, OwnershipHolds, OutcomesSound, PTL
     DEF Spec, DecisionsKept, SettledKept, CancelledRecoveryEnds
----------------------------------------
(* Nothing stranded. These invariants hold of every run, also of one that  *)
(* is handled beside its execution: no copy of a checkpoint that reaches   *)
(* the store is missing, and no outcome is `interrupted`.                  *)
Sound(c) == c.settled # "interrupted" /\ (~c.exists => c.settled = "none")

Unstored == {"free", "load", "requeue", "remove"}

CopyKept(x) ==
    /\ Sound(x.ck) /\ Sound(x.seen) /\ x.outcome # "interrupted"
    /\ x.pc \notin Unstored => x.ck.exists

Restorable(c, doc) ==
    /\ Sound(c) /\ doc.status # "interrupted"
    /\ doc.status = "running" => c.exists

Recoverable ==
    /\ \A r \in Runs : Restorable(ckpt[r], run[r])
    /\ \A e \in Execs :
         /\ CopyKept(exec[e])
         /\ exec[e].pc \notin Unstored => ckpt[exec[e].run].exists
    /\ Sound(tick.seen)

(* What a step of execution e must leave of itself and of its run r.       *)
Working(e, r) ==
    /\ TypeOK /\ exec[e].pc # "free" /\ exec[e].run = r
    /\ CopyKept(exec[e]) /\ Restorable(ckpt[r], run[r])
    /\ exec[e].pc \notin Unstored => ckpt[r].exists

Worked(e, r) ==
    /\ CopyKept(exec'[e]) /\ Restorable(ckpt'[r], run'[r])
    /\ exec'[e].pc \notin Unstored \/ ckpt[r].exists => ckpt'[r].exists

LEMMA WorkingFacts ==
  ASSUME NEW e \in Execs, NEW r \in Runs, Working(e, r)
  PROVE  /\ exec[e] \in ExecState /\ exec[e].ck \in Ckpt /\ exec[e].seen \in Ckpt
         /\ run[r] \in RunDoc /\ ckpt[r] \in Ckpt
  BY ExecFacts, Zenon DEF Working

(* The three ways a step leaves the record of its execution.               *)
LEMMA RaiseKept ==
  ASSUME NEW e \in Execs, NEW r \in Runs, Working(e, r), NEW err, Raise(e, err),
         exec[e].pc \notin Unstored
  PROVE  CopyKept(exec'[e])
<1>1. PICK x : x = [exec[e] EXCEPT !.pc = "fail", !.err = err, !.exit = "none",
                                   !.attempt = NoAttempt, !.prev = FALSE]
  OBVIOUS
<1>2. exec'[e] = x
  BY <1>1, Zenon DEF Raise, SetExec, TypeOK, Working
<1>3. x.ck = exec[e].ck /\ x.seen = exec[e].seen /\ x.outcome = exec[e].outcome
  BY <1>1, WorkingFacts, Zenon DEF ExecState
<1> QED
  BY <1>2, <1>3, Zenon DEF CopyKept, Working

LEMMA GotoKept ==
  ASSUME NEW e \in Execs, NEW r \in Runs, Working(e, r), NEW pc, Goto(e, pc),
         exec[e].pc \notin Unstored \/ pc \in Unstored
  PROVE  CopyKept(exec'[e]) /\ exec'[e].pc = pc
<1>1. PICK x : x = [exec[e] EXCEPT !.pc = pc]
  OBVIOUS
<1>2. exec'[e] = x
  BY <1>1, Zenon DEF Goto, SetExec, TypeOK, Working
<1>3. x.ck = exec[e].ck /\ x.seen = exec[e].seen /\ x.outcome = exec[e].outcome /\ x.pc = pc
  BY <1>1, WorkingFacts, Zenon DEF ExecState
<1> QED
  BY <1>2, <1>3, Zenon DEF CopyKept, Working

LEMMA UpdateKept ==
  ASSUME NEW e \in Execs, NEW r \in Runs, Working(e, r), NEW c, NEW pc, Update(e, c, pc),
         Sound(c), c.exists
  PROVE  CopyKept(exec'[e]) /\ ckpt'[r] = c
<1>1. PICK x : x = [exec[e] EXCEPT !.ck = c, !.pc = pc]
  OBVIOUS
<1>2. exec'[e] = x /\ ckpt'[r] = c
  BY <1>1, Zenon DEF Update, Store, SetExec, TypeOK, Working
<1>3. x.ck = c /\ x.seen = exec[e].seen /\ x.outcome = exec[e].outcome
  BY <1>1, WorkingFacts, Zenon DEF ExecState
<1> QED
  BY <1>2, <1>3, Zenon DEF CopyKept, Working

(* An error changes nothing of the run.                                    *)
LEMMA RaiseWorks ==
  ASSUME NEW e \in Execs, NEW r \in Runs, Working(e, r), NEW err, Raise(e, err),
         exec[e].pc \notin Unstored, UNCHANGED <<run, ckpt>>
  PROVE  Worked(e, r)
  BY RaiseKept, Zenon DEF Worked, Working

LEMMA LaunchWorks ==
  ASSUME NEW e \in Execs, NEW r \in Runs, Working(e, r),
         \/ ExecLoad(e) \/ ExecMarkRunning(e) \/ ExecPrepare(e) \/ ExecReserve(e)
         \/ ExecPlaced(e)
  PROVE  Worked(e, r)
<1>1. /\ TypeOK /\ exec[e].run = r /\ Restorable(ckpt[r], run[r]) /\ CopyKept(exec[e])
      /\ (exec[e].pc \notin Unstored => ckpt[r].exists)
  BY DEF Working
<1>2. CASE ExecLoad(e)
  <2>1. PICK c : c = IF ckpt[r].exists THEN ckpt[r] ELSE Fresh
    OBVIOUS
  <2>2. Update(e, c, "mark") /\ UNCHANGED run
    BY <1>1, <1>2, <2>1, Zenon DEF ExecLoad
  <2>3. Sound(c) /\ c.exists
    BY <1>1, <2>1, FreshFields DEF Sound, Restorable
  <2> QED
    BY <1>1, <2>2, <2>3, UpdateKept, Zenon DEF Worked, Restorable
<1>3. CASE ExecMarkRunning(e)
  <2>1. PICK doc : doc = [run[r] EXCEPT !.status = "running", !.started = TRUE,
                                        !.waiting = FALSE]
    OBVIOUS
  <2>2. /\ PatchRun(r, doc) /\ Goto(e, "prepare") /\ UNCHANGED ckpt /\ exec[e].pc = "mark"
    BY <1>1, <1>3, <2>1, Zenon DEF ExecMarkRunning
  <2>3. run'[r] = doc /\ doc.status = "running"
    BY <1>1, <2>1, <2>2, WorkingFacts, ZenonT(60) DEF PatchRun, TypeOK, RunDoc
  <2>4. exec[e].pc \notin Unstored
    BY <2>2 DEF Unstored
  <2> QED
    BY <1>1, <2>2, <2>3, <2>4, GotoKept, Zenon DEF Worked, Restorable
<1>4. CASE ExecPrepare(e)
  <2>1. exec[e].pc \notin Unstored
    BY <1>4 DEF ExecPrepare, Unstored
  <2>2. CASE Raise(e, "conflict") /\ UNCHANGED <<run, ckpt>>
    BY <2>1, <2>2, RaiseWorks
  <2>3. PICK c, doc : /\ c = [exec[e].ck EXCEPT !.prepared = TRUE]
                      /\ doc = [run[r] EXCEPT !.resumable = @ \/ exec[e].ck.launched]
    OBVIOUS
  <2>4. CASE Update(e, c, "reserve") /\ PatchRun(r, doc)
    <3>1. c.exists = exec[e].ck.exists /\ c.settled = exec[e].ck.settled
      BY <2>3, WorkingFacts, Zenon DEF Ckpt
    <3>2. Sound(c) /\ c.exists
      BY <1>1, <2>1, <3>1, Zenon DEF CopyKept, Sound
    <3>3. run'[r] = doc /\ doc.status = run[r].status
      BY <1>1, <2>3, <2>4, WorkingFacts, ZenonT(60) DEF PatchRun, TypeOK, RunDoc
    <3>4. CopyKept(exec'[e]) /\ ckpt'[r] = c
      BY <2>4, <3>2, UpdateKept
    <3> QED
      BY <1>1, <3>2, <3>3, <3>4, Zenon DEF Worked, Restorable
  <2> QED
    BY <1>1, <1>4, <2>2, <2>3, <2>4, Zenon DEF ExecPrepare
<1>5. CASE ExecReserve(e)
  <2>1. exec[e].pc \notin Unstored /\ UNCHANGED <<run, ckpt>>
    BY <1>5 DEF ExecReserve, Unstored
  <2>2. CASE Raise(e, "conflict") \/ Raise(e, "nocapacity")
    BY <2>1, <2>2, RaiseWorks
  <2>3. ASSUME NEW a, SetExec(e, [exec[e] EXCEPT !.pc = "placed", !.attempt = a])
        PROVE  Worked(e, r)
    <3>1. PICK x : x = [exec[e] EXCEPT !.pc = "placed", !.attempt = a]
      OBVIOUS
    <3>2. exec'[e] = x
      BY <1>1, <2>3, <3>1, Zenon DEF SetExec, TypeOK
    <3>3. x.ck = exec[e].ck /\ x.seen = exec[e].seen /\ x.outcome = exec[e].outcome
      BY <3>1, WorkingFacts, Zenon DEF ExecState
    <3>4. CopyKept(exec'[e])
      BY <1>1, <2>1, <3>2, <3>3, Zenon DEF CopyKept
    <3> QED
      BY <1>1, <2>1, <3>4, Zenon DEF Worked
  <2> QED
    BY <1>5, <2>2, <2>3, Zenon DEF ExecReserve
<1>6. CASE ExecPlaced(e)
  <2>1. exec[e].pc \notin Unstored /\ UNCHANGED run
    BY <1>6 DEF ExecPlaced, Unstored
  <2>2. PICK c : c = [exec[e].ck EXCEPT !.runner = exec[e].attempt]
    OBVIOUS
  <2>3. Update(e, c, "spawn")
    BY <1>6, <2>2, Zenon DEF ExecPlaced
  <2>4. c.exists = exec[e].ck.exists /\ c.settled = exec[e].ck.settled
    BY <2>2, WorkingFacts, Zenon DEF Ckpt
  <2>5. Sound(c) /\ c.exists
    BY <1>1, <2>1, <2>4, Zenon DEF CopyKept, Sound
  <2>6. CopyKept(exec'[e]) /\ ckpt'[r] = c
    BY <2>3, <2>5, UpdateKept
  <2> QED
    BY <1>1, <2>1, <2>5, <2>6, Zenon DEF Worked, Restorable
<1> QED
  BY <1>2, <1>3, <1>4, <1>5, <1>6

LEMMA SetKept ==
  ASSUME NEW e \in Execs, NEW r \in Runs, Working(e, r), NEW x, SetExec(e, x),
         x.seen = exec[e].seen \/ Sound(x.seen), x.ck = exec[e].ck \/ Sound(x.ck),
         x.outcome = exec[e].outcome \/ x.outcome # "interrupted",
         x.pc \notin Unstored => x.ck.exists
  PROVE  CopyKept(exec'[e]) /\ exec'[e].pc = x.pc
<1>1. exec'[e] = x
  BY Zenon DEF SetExec, TypeOK, Working
<1> QED
  BY <1>1, Zenon DEF CopyKept, Working

LEMMA StoreKept ==
  ASSUME NEW e \in Execs, NEW r \in Runs, Working(e, r), NEW c, Store(r, c),
         UNCHANGED run, CopyKept(exec'[e]), Sound(c), c.exists
  PROVE  Worked(e, r)
<1>1. ckpt'[r] = c
  BY Zenon DEF Store, TypeOK, Working
<1> QED
  BY <1>1, Zenon DEF Worked, Working, Restorable

LEMMA SpawnWorks ==
  ASSUME NEW e \in Execs, NEW r \in Runs, Working(e, r), ExecSpawn(e) \/ ExecStart(e)
  PROVE  Worked(e, r)
<1>1. /\ TypeOK /\ exec[e].run = r /\ Restorable(ckpt[r], run[r]) /\ CopyKept(exec[e])
      /\ exec[e].pc \notin Unstored /\ UNCHANGED run
      /\ (exec[e].pc \notin Unstored => ckpt[r].exists)
  BY DEF Working, ExecSpawn, ExecStart, Unstored, storeVars
<1>2. CASE ExecSpawn(e)
  <2>1. CASE Raise(e, "unavailable") /\ UNCHANGED ckpt
    BY <1>1, <2>1, RaiseWorks
  <2>2. PICK c : c = [exec[e].ck EXCEPT !.launched = TRUE, !.completed = FALSE,
                        !.cause = "none", !.proc = exec[e].attempt]
    OBVIOUS
  <2>3. CASE /\ SetExec(e, [exec[e] EXCEPT !.pc = "start", !.ck = c,
                              !.prev = exec[e].ck.launched, !.exit = "none"])
             /\ Store(r, c)
    <3>1. PICK x : x = [exec[e] EXCEPT !.pc = "start", !.ck = c,
                          !.prev = exec[e].ck.launched, !.exit = "none"]
      OBVIOUS
    <3>2. x.seen = exec[e].seen /\ x.outcome = exec[e].outcome /\ x.ck = c
      BY <3>1, WorkingFacts, Zenon DEF ExecState
    <3>3. c.exists = exec[e].ck.exists /\ c.settled = exec[e].ck.settled
      BY <2>2, WorkingFacts, Zenon DEF Ckpt
    <3>4. Sound(c) /\ c.exists
      BY <1>1, <3>3, Zenon DEF CopyKept, Sound
    <3>5. CopyKept(exec'[e])
      BY <2>3, <3>1, <3>2, <3>4, SetKept
    <3> QED
      BY <1>1, <2>3, <3>4, <3>5, StoreKept
  <2> QED
    BY <1>1, <1>2, <2>1, <2>2, <2>3, Zenon DEF ExecSpawn
<1>3. CASE ExecStart(e)
  <2>1. UNCHANGED ckpt
    BY <1>3 DEF ExecStart, storeVars
  <2>2. CASE Raise(e, "conflict")
    BY <1>1, <2>1, <2>2, RaiseWorks
  <2>3. CASE Goto(e, "wait")
    BY <1>1, <2>1, <2>3, GotoKept, Zenon DEF Worked
  <2> QED
    BY <1>3, <2>2, <2>3 DEF ExecStart
<1> QED
  BY <1>2, <1>3

LEMMA ReportWorks ==
  ASSUME NEW e \in Execs, NEW r \in Runs, Working(e, r),
         \/ ExecThreadStarted(e) \/ ExecTurnCompleted(e) \/ ExecTurnFailed(e)
         \/ Heartbeat(e) \/ ExecIoError(e) \/ ExecExit(e)
  PROVE  Worked(e, r)
<1>1. /\ TypeOK /\ exec[e].run = r /\ Restorable(ckpt[r], run[r]) /\ CopyKept(exec[e])
      /\ (exec[e].pc \notin Unstored => ckpt[r].exists)
  BY DEF Working
<1>2. CASE ExecThreadStarted(e)
  <2>1. /\ UNCHANGED <<ckpt, exec>>
        /\ run'[r] = [run[r] EXCEPT !.session = TRUE, !.resumable = TRUE]
    BY <1>1, <1>2, Zenon DEF ExecThreadStarted, PatchRun, TypeOK, workerVars
  <2>2. run'[r].status = run[r].status
    BY <2>1, WorkingFacts, Zenon DEF RunDoc
  <2> QED
    BY <1>1, <2>1, <2>2, Zenon DEF Worked, Restorable
<1>3. ASSUME NEW c, Update(e, c, "wait"), UNCHANGED run, exec[e].pc = "wait",
             c.exists = exec[e].ck.exists, c.settled = exec[e].ck.settled
      PROVE  Worked(e, r)
  <2>1. Sound(c) /\ c.exists
    BY <1>1, <1>3 DEF CopyKept, Sound, Unstored
  <2>2. CopyKept(exec'[e]) /\ Store(r, c)
    BY <1>1, <1>3, <2>1, UpdateKept DEF Update
  <2> QED
    BY <1>3, <2>1, <2>2, StoreKept
<1>4. CASE ExecTurnCompleted(e)
  <2>1. PICK c : c = [exec[e].ck EXCEPT !.completed = TRUE]
    OBVIOUS
  <2>2. c.exists = exec[e].ck.exists /\ c.settled = exec[e].ck.settled
    BY <2>1, WorkingFacts, Zenon DEF Ckpt
  <2>3. Update(e, c, "wait") /\ UNCHANGED run /\ exec[e].pc = "wait"
    BY <1>4, <2>1, Zenon DEF ExecTurnCompleted, Reporting
  <2> QED
    BY <1>3, <2>2, <2>3
<1>5. CASE ExecTurnFailed(e)
  <2>1. PICK cause : Update(e, [exec[e].ck EXCEPT !.cause = cause, !.completed = FALSE],
                            "wait")
    BY <1>5, Zenon DEF ExecTurnFailed
  <2>2. PICK c : c = [exec[e].ck EXCEPT !.cause = cause, !.completed = FALSE]
    OBVIOUS
  <2>3. c.exists = exec[e].ck.exists /\ c.settled = exec[e].ck.settled
    BY <2>2, WorkingFacts, Zenon DEF Ckpt
  <2>4. UNCHANGED run /\ exec[e].pc = "wait"
    BY <1>5, Zenon DEF ExecTurnFailed, Reporting
  <2> QED
    BY <1>3, <2>1, <2>2, <2>3, <2>4
<1>6. CASE Heartbeat(e)
  <2>1. UNCHANGED <<run, exec>> /\ Store(r, exec[e].ck) /\ exec[e].pc \notin Unstored
    BY <1>1, <1>6 DEF Heartbeat, workerVars, Unstored
  <2> QED
    BY <1>1, <2>1, StoreKept DEF CopyKept
<1>7. CASE ExecIoError(e)
  <2>1. UNCHANGED <<run, ckpt>> /\ exec[e].pc # "free"
    BY <1>7 DEF ExecIoError, storeVars
  <2>2. CASE Goto(e, "requeue")
    BY <1>1, <2>1, <2>2, GotoKept DEF Worked, Unstored
  <2>3. CASE exec[e].pc \notin {"load", "fail", "failpatch", "efence", "release"}
    <3>1. Raise(e, "conflict") /\ exec[e].pc \notin Unstored
      BY <1>7, <2>3 DEF ExecIoError, Unstored
    <3> QED
      BY <2>1, <3>1, RaiseWorks
  <2> QED
    BY <1>7, <2>2, <2>3 DEF ExecIoError
<1>8. CASE ExecExit(e)
  <2>1. PICK exit \in ExitsNow(e) :
          LET first == exit = "rejected" /\ ~exec[e].prev /\ ~run[r].session
              c == [exec[e].ck EXCEPT !.proc = NoAttempt,
                      !.cause = IF exit = "rejected" THEN "terminal" ELSE @,
                      !.launched = @ /\ ~first] IN
          /\ Store(r, c)
          /\ SetExec(e, [exec[e] EXCEPT !.pc = "afence", !.exit = exit, !.ck = c,
                           !.attempt = NoAttempt, !.prev = FALSE])
    BY <1>1, <1>8, Zenon DEF ExecExit
  <2>2. PICK c : c = [exec[e].ck EXCEPT !.proc = NoAttempt,
                        !.cause = IF exit = "rejected" THEN "terminal" ELSE @,
                        !.launched = @ /\ ~(exit = "rejected" /\ ~exec[e].prev
                                            /\ ~run[r].session)]
    OBVIOUS
  <2>3. PICK x : x = [exec[e] EXCEPT !.pc = "afence", !.exit = exit, !.ck = c,
                        !.attempt = NoAttempt, !.prev = FALSE]
    OBVIOUS
  <2>4. Store(r, c) /\ SetExec(e, x)
    BY <2>1, <2>2, <2>3, Zenon
  <2>5. c.exists = exec[e].ck.exists /\ c.settled = exec[e].ck.settled
    BY <2>2, WorkingFacts, Zenon DEF Ckpt
  <2>6. x.seen = exec[e].seen /\ x.outcome = exec[e].outcome /\ x.ck = c
    BY <2>3, WorkingFacts, Zenon DEF ExecState
  <2>7. Sound(c) /\ c.exists /\ UNCHANGED run
    BY <1>1, <1>8, <2>5 DEF CopyKept, Sound, ExecExit, Unstored
  <2>8. CopyKept(exec'[e])
    BY <2>4, <2>6, <2>7, SetKept
  <2> QED
    BY <2>4, <2>7, <2>8, StoreKept
<1> QED
  BY <1>2, <1>4, <1>5, <1>6, <1>7, <1>8

LEMMA FenceWorks ==
  ASSUME NEW e \in Execs, NEW r \in Runs, Working(e, r),
         ExecFenceBegin(e) \/ ExecFenced(e) \/ ExecFenceFailed(e)
  PROVE  Worked(e, r)
<1>1. /\ TypeOK /\ exec[e].run = r /\ Restorable(ckpt[r], run[r]) /\ CopyKept(exec[e])
      /\ (exec[e].pc \notin Unstored => ckpt[r].exists)
      /\ exec[e].pc \in {"afence", "efence"} /\ exec[e].pc \notin Unstored
  BY DEF Working, ExecFenceBegin, ExecFenced, ExecFenceFailed, Unstored
<1>2. exec[e].ck.exists /\ ckpt[r].exists
  BY <1>1 DEF CopyKept
<1>3. CASE ExecFenceBegin(e)
  <2>1. UNCHANGED <<run, ckpt>>
    BY <1>3 DEF ExecFenceBegin, storeVars
  <2>2. PICK x, y : /\ x = [exec[e] EXCEPT !.pc = "release", !.fenced = TRUE]
                    /\ y = [exec[e] EXCEPT !.fencing = TRUE, !.seen = ckpt[r]]
    OBVIOUS
  <2>3. /\ x.seen = exec[e].seen /\ x.outcome = exec[e].outcome /\ x.ck = exec[e].ck
        /\ y.seen = ckpt[r] /\ y.outcome = exec[e].outcome /\ y.ck = exec[e].ck
    BY <2>2, WorkingFacts, Zenon DEF ExecState
  <2>4. SetExec(e, x) \/ SetExec(e, y)
    BY <1>1, <1>3, <2>2, Zenon DEF ExecFenceBegin
  <2>5. CopyKept(exec'[e])
    BY <1>1, <1>2, <2>3, <2>4, SetKept DEF Restorable
  <2> QED
    BY <1>1, <1>2, <2>1, <2>5, Zenon DEF Worked
<1>4. CASE ExecFenced(e)
  <2>1. PICK x : x = [exec[e] EXCEPT !.fencing = FALSE, !.seen = NoCkpt,
                        !.fenced = exec[e].pc = "efence",
                        !.pc = IF @ = "afence" THEN "judge" ELSE "release"]
    OBVIOUS
  <2>2. x.seen = NoCkpt /\ x.outcome = exec[e].outcome /\ x.ck = exec[e].ck
    BY <2>1, WorkingFacts, Zenon DEF ExecState
  <2>3. SetExec(e, x) /\ UNCHANGED run /\ FenceConfirmed(r, exec[e].seen)
    BY <1>1, <1>4, <2>1, Zenon DEF ExecFenced
  <2>4. CopyKept(exec'[e])
    <3>1. Sound(NoCkpt)
      BY DEF NoCkpt, Sound
    <3> QED
      BY <1>2, <2>2, <2>3, <3>1, SetKept
  <2>5. PICK d : d = [exec[e].seen EXCEPT !.proc = NoAttempt]
    OBVIOUS
  <2>6. d.exists = exec[e].seen.exists /\ d.settled = exec[e].seen.settled
    BY <2>5, WorkingFacts, Zenon DEF Ckpt
  <2>7. \/ UNCHANGED ckpt
        \/ exec[e].seen.exists /\ ckpt'[r] = d
    BY <1>1, <2>3, <2>5, Zenon DEF FenceConfirmed, TypeOK
  <2>8. ckpt'[r].exists /\ Sound(ckpt'[r])
    BY <1>1, <1>2, <2>6, <2>7 DEF CopyKept, Restorable, Sound
  <2> QED
    BY <1>1, <2>3, <2>4, <2>8, Zenon DEF Worked, Restorable
<1>5. CASE ExecFenceFailed(e)
  <2>1. PICK done, c : /\ done = [exec[e] EXCEPT !.fencing = FALSE, !.seen = NoCkpt]
                       /\ c = [exec[e].ck EXCEPT !.settled =
                                 IF run[r].status = "queued" THEN @ ELSE run[r].status]
    OBVIOUS
  <2>2. /\ done \in ExecState /\ done.seen = NoCkpt /\ done.outcome = exec[e].outcome
        /\ done.ck = exec[e].ck
    BY <2>1, WorkingFacts, ValueTypes, Zenon DEF ExecState
  <2>3. PICK x, y : /\ x = [done EXCEPT !.pc = "fail", !.err = "unavailable", !.exit = "none"]
                    /\ y = [done EXCEPT !.pc = "release", !.ck = c]
    OBVIOUS
  <2>4. /\ x.seen = NoCkpt /\ x.outcome = exec[e].outcome /\ x.ck = exec[e].ck
        /\ y.seen = NoCkpt /\ y.outcome = exec[e].outcome /\ y.ck = c
    BY <2>2, <2>3, Zenon DEF ExecState
  <2>5. \/ SetExec(e, x) /\ UNCHANGED <<run, ckpt>>
        \/ /\ SetExec(e, y) /\ PatchRun(r, Requeued(run[r]))
           /\ UNCHANGED ckpt \/ Store(r, c)
    BY <1>1, <1>5, <2>1, <2>3, Zenon DEF ExecFenceFailed
  <2>6. Sound(NoCkpt)
    BY DEF NoCkpt, Sound
  <2>7. CASE SetExec(e, x) /\ UNCHANGED <<run, ckpt>>
    <3>1. CopyKept(exec'[e])
      BY <1>2, <2>4, <2>6, <2>7, SetKept
    <3> QED
      BY <1>1, <2>7, <3>1, Zenon DEF Worked
  <2>8. CASE /\ SetExec(e, y) /\ PatchRun(r, Requeued(run[r]))
             /\ UNCHANGED ckpt \/ Store(r, c)
    <3>1. c.exists = exec[e].ck.exists /\ c.settled \in {exec[e].ck.settled, run[r].status}
      BY <2>1, WorkingFacts, Zenon DEF Ckpt
    <3>2. c.exists /\ Sound(c)
      BY <1>1, <1>2, <3>1 DEF CopyKept, Restorable, Sound
    <3>3. CopyKept(exec'[e])
      BY <2>4, <2>6, <2>8, <3>2, SetKept
    <3>4. run'[r] = Requeued(run[r]) /\ Requeued(run[r]).status = "queued"
      BY <1>1, <2>8, WorkingFacts, ZenonT(60) DEF PatchRun, TypeOK, Requeued, RunDoc
    <3>5. ckpt'[r] = ckpt[r] \/ ckpt'[r] = c
      BY <1>1, <2>8, Zenon DEF Store, TypeOK
    <3> QED
      BY <1>1, <1>2, <3>2, <3>3, <3>4, <3>5 DEF Worked, Restorable
  <2> QED
    BY <2>5, <2>7, <2>8
<1> QED
  BY <1>3, <1>4, <1>5

LEMMA JudgeWorks ==
  ASSUME NEW e \in Execs, NEW r \in Runs, Working(e, r), ExecJudge(e) \/ ExecSwitch(e)
  PROVE  Worked(e, r)
<1>1. /\ TypeOK /\ exec[e].run = r /\ Restorable(ckpt[r], run[r]) /\ CopyKept(exec[e])
      /\ exec[e].pc \notin Unstored /\ UNCHANGED ckpt /\ ckpt[r].exists /\ exec[e].ck.exists
  BY DEF Working, ExecJudge, ExecSwitch, Unstored, storeVars, CopyKept
<1>2. ASSUME NEW err, Raise(e, err), UNCHANGED run
      PROVE  Worked(e, r)
  BY <1>1, <1>2, RaiseWorks
<1>3. PICK x, y, z : /\ x = [exec[e] EXCEPT !.pc = "switch", !.account = FALSE, !.exit = "none"]
                     /\ y = [exec[e] EXCEPT !.pc = "efence", !.exit = "none"]
                     /\ z = [exec[e] EXCEPT !.pc = "reserve", !.account = TRUE]
  OBVIOUS
<1>4. /\ x.seen = exec[e].seen /\ x.outcome = exec[e].outcome /\ x.ck = exec[e].ck
      /\ y.seen = exec[e].seen /\ y.outcome = exec[e].outcome /\ y.ck = exec[e].ck
      /\ z.seen = exec[e].seen /\ z.outcome = exec[e].outcome /\ z.ck = exec[e].ck
  BY <1>3, WorkingFacts, Zenon DEF ExecState
<1>5. SetExec(e, x) \/ SetExec(e, y) \/ SetExec(e, z) => CopyKept(exec'[e])
  BY <1>1, <1>4, SetKept
<1>6. CASE ExecJudge(e)
  <2>1. PICK doc : doc = [run[r] EXCEPT
                           !.status = Verdict(e), !.resumable = run[r].session,
                           !.retry = IF Verdict(e) = "succeeded" THEN 0 ELSE @]
    OBVIOUS
  <2>2. \/ \E err : Raise(e, err) /\ UNCHANGED run
        \/ SetExec(e, x) /\ UNCHANGED run
        \/ SetExec(e, y) /\ PatchRun(r, doc)
    BY <1>1, <1>3, <1>6, <2>1, Zenon DEF ExecJudge
  <2>3. doc.status = Verdict(e)
    BY <2>1, WorkingFacts, Zenon DEF RunDoc
  <2>4. Verdict(e) \in {"cancelled", "succeeded", "failed"}
    BY DEF Verdict
  <2>5. CASE SetExec(e, x) /\ UNCHANGED run
    BY <1>1, <1>5, <2>5, Zenon DEF Worked
  <2>6. CASE SetExec(e, y) /\ PatchRun(r, doc)
    <3>1. run'[r] = doc
      BY <1>1, <2>6, Zenon DEF PatchRun, TypeOK
    <3> QED
      BY <1>1, <1>5, <2>3, <2>4, <2>6, <3>1 DEF Worked, Restorable
  <2> QED
    BY <1>2, <2>2, <2>5, <2>6
<1>7. CASE ExecSwitch(e)
  <2>1. UNCHANGED run
    BY <1>7 DEF ExecSwitch, storeVars
  <2>2. (\E err : Raise(e, err)) \/ SetExec(e, z)
    BY <1>3, <1>7, Zenon DEF ExecSwitch
  <2>3. CASE SetExec(e, z)
    BY <1>1, <1>5, <2>1, <2>3, Zenon DEF Worked
  <2> QED
    BY <1>2, <2>1, <2>2, <2>3
<1> QED
  BY <1>6, <1>7

LEMMA FailWorks ==
  ASSUME NEW e \in Execs, NEW r \in Runs, Working(e, r), ExecFail(e)
  PROVE  Worked(e, r)
<1>1. /\ TypeOK /\ exec[e].run = r /\ Restorable(ckpt[r], run[r]) /\ CopyKept(exec[e])
      /\ exec[e].pc \notin Unstored /\ ckpt[r].exists /\ exec[e].ck.exists
  BY DEF Working, ExecFail, Unstored, CopyKept
<1>2. PICK x : x = [exec[e] EXCEPT !.pc = "efence", !.err = "none"]
  OBVIOUS
<1>3. x.seen = exec[e].seen /\ x.outcome = exec[e].outcome /\ x.ck = exec[e].ck
  BY <1>2, WorkingFacts, Zenon DEF ExecState
<1>4. ASSUME NEW doc, PatchRun(r, doc), doc.status = "queued", SetExec(e, x), UNCHANGED ckpt
      PROVE  Worked(e, r)
  <2>1. CopyKept(exec'[e])
    BY <1>1, <1>3, <1>4, SetKept
  <2>2. run'[r] = doc
    BY <1>1, <1>4, Zenon DEF PatchRun, TypeOK
  <2> QED
    BY <1>1, <1>4, <2>1, <2>2 DEF Worked, Restorable
<1>5. PICK again : again = [Requeued(run[r]) EXCEPT
                              !.retry = @ + 1, !.waiting = TRUE, !.resumable = TRUE]
  OBVIOUS
<1>6. Requeued(run[r]).status = "queued" /\ again.status = "queued"
  <2>1. run[r] \in RunDoc
    BY WorkingFacts
  <2>2. Requeued(run[r]) \in RunDoc
    BY <2>1, PatchTypes, ZenonT(60) DEF Requeued, RunDoc, Statuses
  <2>3. Requeued(run[r]).status = "queued"
    BY <2>1, Zenon DEF Requeued, RunDoc
  <2> QED
    BY <1>5, <2>2, <2>3, Zenon DEF RunDoc
<1>11. PICK away \in BOOLEAN : FailAs(e, away)
  BY Zenon DEF ExecFail
<1>7. PICK s, c :
        /\ s = FailureStatus(e, away)
        /\ c = [exec[e].ck EXCEPT
                  !.recoveries = IF RecoversController(e, away) THEN Counted(@) ELSE @,
                  !.settled = IF NeedsFence(e) /\ s # "queued" THEN s ELSE @]
  OBVIOUS
<1>8. PICK y : y = [exec[e] EXCEPT !.pc = "failpatch", !.ck = c,
                      !.outcome = s, !.err = "none"]
  OBVIOUS
<1>9. \/ PatchRun(r, again) /\ SetExec(e, x) /\ UNCHANGED ckpt
      \/ PatchRun(r, Requeued(run[r])) /\ SetExec(e, x) /\ UNCHANGED ckpt
      \/ SetExec(e, y) /\ UNCHANGED run /\ (UNCHANGED ckpt \/ Store(r, c))
  <2>1. CASE /\ PatchRun(r, [Requeued(run[r]) EXCEPT
                               !.retry = @ + 1, !.waiting = TRUE, !.resumable = TRUE])
             /\ SetExec(e, [exec[e] EXCEPT !.pc = "efence", !.err = "none"])
             /\ UNCHANGED ckpt
    BY <1>2, <1>5, <2>1, Zenon
  <2>2. CASE /\ PatchRun(r, Requeued(run[r]))
             /\ SetExec(e, [exec[e] EXCEPT !.pc = "efence", !.err = "none"])
             /\ UNCHANGED ckpt
    BY <1>2, <2>2, Zenon
  <2>3. CASE /\ SetExec(e, [exec[e] EXCEPT !.pc = "failpatch", !.ck = c,
                              !.outcome = s, !.err = "none"])
             /\ IF c = exec[e].ck THEN UNCHANGED ckpt ELSE Store(r, c)
             /\ UNCHANGED run
    BY <1>8, <2>3, Zenon
  <2> QED
    BY <1>1, <1>7, <1>11, <2>1, <2>2, <2>3, Zenon DEF FailAs
<1>10. CASE SetExec(e, y) /\ UNCHANGED run /\ (UNCHANGED ckpt \/ Store(r, c))
  <2>1. s # "interrupted"
    BY <1>7 DEF FailureStatus
  <2>2. c.exists = exec[e].ck.exists /\ c.settled \in {exec[e].ck.settled, s}
    BY <1>7, WorkingFacts, Zenon DEF Ckpt
  <2>3. Sound(c) /\ c.exists
    BY <1>1, <2>1, <2>2 DEF CopyKept, Sound
  <2>4. y.seen = exec[e].seen /\ y.outcome = s /\ y.ck = c
    BY <1>8, WorkingFacts, Zenon DEF ExecState
  <2>5. CopyKept(exec'[e])
    BY <1>10, <2>1, <2>3, <2>4, SetKept
  <2>6. ckpt'[r] = ckpt[r] \/ ckpt'[r] = c
    BY <1>1, <1>10, Zenon DEF Store, TypeOK
  <2> QED
    BY <1>1, <1>10, <2>3, <2>5, <2>6 DEF Worked, Restorable
<1> QED
  BY <1>4, <1>6, <1>9, <1>10

LEMMA EndWorks ==
  ASSUME NEW e \in Execs, NEW r \in Runs, Working(e, r),
         ExecFailPatch(e) \/ ExecRelease(e) \/ ExecRemove(e) \/ ExecRequeue(e)
  PROVE  Worked(e, r)
<1>1. /\ TypeOK /\ exec[e].run = r /\ Restorable(ckpt[r], run[r]) /\ CopyKept(exec[e])
      /\ (exec[e].pc \notin Unstored => ckpt[r].exists)
  BY DEF Working
<1>2. CASE ExecFailPatch(e)
  <2>1. exec[e].pc \notin Unstored /\ UNCHANGED ckpt /\ exec[e].outcome # "interrupted"
    BY <1>1, <1>2 DEF ExecFailPatch, Unstored, CopyKept
  <2>2. PICK doc, x :
          /\ doc = [run[r] EXCEPT
                     !.status = IF NeedsFence(e) THEN "queued" ELSE exec[e].outcome,
                     !.recovering = NeedsFence(e) \/ exec[e].outcome = "queued"]
          /\ x = [exec[e] EXCEPT !.pc = "efence", !.outcome = "queued"]
    OBVIOUS
  <2>3. PatchRun(r, doc) /\ SetExec(e, x)
    BY <1>1, <1>2, <2>2, Zenon DEF ExecFailPatch
  <2>4. x.seen = exec[e].seen /\ x.outcome = "queued" /\ x.ck = exec[e].ck
    BY <2>2, WorkingFacts, Zenon DEF ExecState
  <2>5. CopyKept(exec'[e])
    BY <1>1, <2>1, <2>3, <2>4, SetKept DEF CopyKept
  <2>6. run'[r] = doc /\ doc.status \in {"queued", exec[e].outcome}
    BY <1>1, <2>2, <2>3, WorkingFacts, Zenon DEF PatchRun, TypeOK, RunDoc
  <2> QED
    BY <1>1, <2>1, <2>5, <2>6 DEF Worked, Restorable
<1>3. CASE ExecRelease(e)
  <2>1. exec[e].pc \notin Unstored /\ Update(e, exec[e].ck, "remove")
    BY <1>3 DEF ExecRelease, Unstored
  <2>2. exec[e].ck.exists /\ Sound(exec[e].ck)
    BY <1>1, <2>1 DEF CopyKept
  <2>3. CopyKept(exec'[e]) /\ ckpt'[r] = exec[e].ck
    BY <2>1, <2>2, UpdateKept
  <2>4. UNCHANGED run \/ PatchRun(r, SettledRun(run[r], exec[e].ck.settled))
    BY <1>1, <1>3, Zenon DEF ExecRelease
  <2>5. SettledRun(run[r], exec[e].ck.settled).status = exec[e].ck.settled
    BY WorkingFacts, Zenon DEF SettledRun, RunDoc
  <2>6. run'[r] = run[r] \/ run'[r].status = exec[e].ck.settled
    BY <1>1, <2>4, <2>5, Zenon DEF PatchRun, TypeOK
  <2> QED
    BY <1>1, <2>2, <2>3, <2>6 DEF Worked, Restorable, Sound
<1>4. CASE ExecRemove(e)
  <2>1. exec'[e] = IdleExec /\ UNCHANGED <<run, ckpt>>
    BY <1>1, <1>4 DEF ExecRemove, SetExec, TypeOK, storeVars
  <2>2. CopyKept(IdleExec) /\ IdleExec.pc \in Unstored
    BY DEF CopyKept, IdleExec, NoCkpt, Sound, Unstored
  <2> QED
    BY <1>1, <2>1, <2>2 DEF Worked
<1>5. CASE ExecRequeue(e)
  <2>1. PICK b : b = IF ckpt[r].exists THEN ckpt[r] ELSE Fresh
    OBVIOUS
  <2>2. PICK c : c = [b EXCEPT !.settled =
                        IF run[r].status \in ActiveStatuses THEN @ ELSE run[r].status]
    OBVIOUS
  <2>3. Store(r, c) /\ PatchRun(r, Requeued(run[r])) /\ Goto(e, "remove")
    BY <1>1, <1>5, <2>1, <2>2, Zenon DEF ExecRequeue
  <2>4. b \in Ckpt /\ b.exists /\ Sound(b)
    BY <1>1, <2>1, WorkingFacts, ValueTypes, FreshFields DEF Restorable, Sound
  <2>5. c.exists = b.exists /\ c.settled \in {b.settled, run[r].status}
    BY <2>2, <2>4, Zenon DEF Ckpt
  <2>6. c.exists /\ Sound(c)
    BY <1>1, <2>4, <2>5 DEF Restorable, Sound
  <2>7. CopyKept(exec'[e])
    BY <2>3, GotoKept DEF Unstored
  <2>8. run'[r] = Requeued(run[r]) /\ Requeued(run[r]).status = "queued" /\ ckpt'[r] = c
    BY <1>1, <2>3, WorkingFacts, ZenonT(60) DEF PatchRun, Store, TypeOK, Requeued, RunDoc
  <2> QED
    BY <1>1, <2>6, <2>7, <2>8 DEF Worked, Restorable
<1> QED
  BY <1>2, <1>3, <1>4, <1>5

LEMMA ExecRecovers ==
  ASSUME TypeOK, Recoverable, NEW e \in Execs, ExecStep(e) \/ ExecReport(e)
  PROVE  Recoverable'
<1>1. exec[e].pc # "free"
  BY ExecRunning
<1>2. PICK r \in Runs : exec[e].run = r
  BY <1>1, Zenon DEF TypeOK
<1>3. Elsewhere(e, r)
  BY <1>1, <1>2, ExecElsewhere
<1>4. Working(e, r)
  BY <1>1, <1>2, Zenon DEF Recoverable, Working
<1>5. Worked(e, r)
  BY <1>4, LaunchWorks, SpawnWorks, ReportWorks, FenceWorks, JudgeWorks, FailWorks,
     EndWorks, Zenon DEF ExecStep, ExecReport
<1>6. \A q \in Runs : Restorable(ckpt'[q], run'[q]) /\ (ckpt[q].exists => ckpt'[q].exists)
  BY <1>3, <1>5 DEF Worked, Elsewhere, Recoverable
<1>7. ASSUME NEW f \in Execs
      PROVE  /\ CopyKept(exec'[f])
             /\ exec'[f].pc \notin Unstored => ckpt'[exec'[f].run].exists
  <2>1. CASE f = e
    BY <1>3, <1>5, <2>1 DEF Worked, Elsewhere, Unstored
  <2>2. CASE f # e
    <3>1. exec'[f] = exec[f] /\ CopyKept(exec[f])
      BY <1>3, <2>2 DEF Elsewhere, Recoverable
    <3>2. exec[f].pc \notin Unstored => ckpt[exec[f].run].exists /\ exec[f].run \in Runs
      BY DEF Recoverable, TypeOK, Unstored
    <3> QED
      BY <1>6, <3>1, <3>2
  <2> QED
    BY <2>1, <2>2
<1>8. Sound(tick'.seen)
  BY <1>3 DEF Elsewhere, Recoverable
<1> QED
  BY <1>6, <1>7, <1>8 DEF Recoverable

(* Steps that start no execution: the documents stay restorable, no stored *)
(* checkpoint disappears.                                                  *)
LEMMA RecoverableFrame ==
  ASSUME TypeOK, Recoverable,
         \A q \in Runs : Restorable(ckpt'[q], run'[q]) /\ (ckpt[q].exists => ckpt'[q].exists),
         \A f \in Execs :
           \/ /\ exec'[f].pc = exec[f].pc /\ exec'[f].run = exec[f].run
              /\ exec'[f].ck = exec[f].ck /\ exec'[f].seen = exec[f].seen
              /\ exec'[f].outcome = exec[f].outcome
           \/ exec'[f].pc \in Unstored /\ CopyKept(exec'[f]),
         Sound(tick'.seen)
  PROVE  Recoverable'
<1>1. ASSUME NEW f \in Execs
      PROVE  /\ CopyKept(exec'[f])
             /\ exec'[f].pc \notin Unstored => ckpt'[exec'[f].run].exists
  <2>1. CASE exec'[f].pc \in Unstored /\ CopyKept(exec'[f])
    BY <2>1
  <2>2. CASE /\ exec'[f].pc = exec[f].pc /\ exec'[f].run = exec[f].run
             /\ exec'[f].ck = exec[f].ck /\ exec'[f].seen = exec[f].seen
             /\ exec'[f].outcome = exec[f].outcome
    <3>1. CopyKept(exec[f]) /\ (exec[f].pc \notin Unstored => ckpt[exec[f].run].exists)
      BY DEF Recoverable
    <3>2. exec[f].pc \notin Unstored => exec[f].run \in Runs
      BY DEF TypeOK, Unstored
    <3>3. CopyKept(exec'[f])
      BY <2>2, <3>1 DEF CopyKept
    <3> QED
      BY <2>2, <3>1, <3>2, <3>3
  <2> QED
    BY <2>1, <2>2
<1> QED
  BY <1>1 DEF Recoverable

LEMMA IdleCopies ==
    /\ Sound(NoCkpt) /\ CopyKept(IdleExec) /\ IdleExec.pc \in Unstored
    /\ IdleTick.seen = NoCkpt
  BY DEF Sound, NoCkpt, CopyKept, IdleExec, Unstored, IdleTick

(* The copy of the pass is what it read when its fence began.              *)
LEMMA PassCopy ==
  ASSUME TypeOK, TickStep \/ TickError
  PROVE  \/ tick'.seen = tick.seen \/ tick'.seen = NoCkpt
         \/ tick.run \in Runs /\ tick'.seen = ckpt[tick.run]
<1>1. tick \in TickState
  BY Zenon DEF TypeOK
<1>2. NextRun.seen = NoCkpt
  <2>1. [tick EXCEPT !.pc = "next", !.run = NoRun, !.fencing = FALSE,
                     !.seen = NoCkpt].seen = NoCkpt
    BY <1>1, Zenon DEF TickState
  <2> QED
    BY <2>1, IdleCopies, Zenon DEF NextRun
<1>3. CASE tick' = NextRun \/ tick' = IdleTick
  BY <1>2, <1>3, IdleCopies
<1>4. CASE TickBegin
  <2>1. ASSUME NEW a, NEW b, NEW c, NEW d
        PROVE  [tick EXCEPT !.pc = "next", !.todo = a, !.queued = b, !.recovering = c,
                            !.beside = d].seen = tick.seen
    BY <1>1, Zenon DEF TickState
  <2>2. PICK a, b, c, d : /\ a = {r \in Runs : run[r].status \in ActiveStatuses}
                          /\ b = {r \in a : run[r].status = "queued"}
                          /\ c = {r \in a : run[r].recovering}
                          /\ d = {r \in a : Executions(r) # {}}
    OBVIOUS
  <2>3. \/ tick' = IdleTick
        \/ tick' = [tick EXCEPT !.pc = "next", !.todo = a, !.queued = b, !.recovering = c,
                               !.beside = d]
    BY <1>4, <2>2, Zenon DEF TickBegin
  <2>4. CASE tick' = [tick EXCEPT !.pc = "next", !.todo = a, !.queued = b,
                              !.recovering = c, !.beside = d]
    BY <2>1, <2>4
  <2> QED
    BY <1>3, <2>3, <2>4
<1>5. CASE TickPick
  <2>1. ASSUME NEW a, NEW b, NEW c
        PROVE  /\ [tick EXCEPT !.todo = a, !.run = b, !.pc = c].seen = tick.seen
               /\ [tick EXCEPT !.todo = a].seen = tick.seen
    BY <1>1, Zenon DEF TickState
  <2>2. PICK r \in tick.todo :
          tick' = IF Handled(r)
                  THEN [tick EXCEPT
                          !.todo = tick.todo \ {r}, !.run = r,
                          !.pc = IF r \in tick.recovering THEN "recover" ELSE "admit"]
                  ELSE IF tick.todo \ {r} = {} THEN IdleTick
                  ELSE [tick EXCEPT !.todo = tick.todo \ {r}]
    BY <1>5, Zenon DEF TickPick
  <2>3. PICK a, c : a = tick.todo \ {r}
                    /\ c = IF r \in tick.recovering THEN "recover" ELSE "admit"
    OBVIOUS
  <2>4. \/ tick' = IdleTick
        \/ tick' = [tick EXCEPT !.todo = a, !.run = r, !.pc = c]
        \/ tick' = [tick EXCEPT !.todo = a]
    BY <2>2, <2>3, Zenon
  <2>5. CASE tick' = [tick EXCEPT !.todo = a, !.run = r, !.pc = c]
    BY <2>1, <2>5
  <2>6. CASE tick' = [tick EXCEPT !.todo = a]
    BY <2>1, <2>6
  <2> QED
    BY <1>3, <2>4, <2>5, <2>6
<1>6. CASE TickFenceBegin
  <2>1. [tick EXCEPT !.fencing = TRUE, !.seen = ckpt[tick.run]].seen = ckpt[tick.run]
    BY <1>1, Zenon DEF TickState
  <2>2. tick.run \in Runs
    BY <1>6, TickFacts DEF TickFenceBegin
  <2> QED
    BY <1>6, <2>1, <2>2 DEF TickFenceBegin
<1>7. CASE TickFenced
  <2>1. [tick EXCEPT !.pc = "settle", !.fencing = FALSE, !.seen = NoCkpt].seen = NoCkpt
    BY <1>1, Zenon DEF TickState
  <2> QED
    BY <1>7, <2>1 DEF TickFenced
<1>8. ASSUME NEW pc, TickGoto(pc) PROVE tick'.seen = tick.seen
  BY <1>8, TickFields DEF TickGoto
<1>9. CASE TickFenceFailed \/ TickError \/ TickInsert
  BY <1>3, <1>9 DEF TickFenceFailed, TickError, TickInsert
<1>10. CASE TickSettle \/ TickClear
  BY <1>3, <1>8, <1>10, Zenon DEF TickSettle, TickClear
<1>11. CASE TickAdmit \/ TickAcquire
  BY <1>3, <1>8, <1>11, Zenon DEF TickAdmit, TickAcquire
<1> QED
  BY <1>4, <1>5, <1>6, <1>7, <1>9, <1>10, <1>11 DEF TickStep

LEMMA PassRecovers ==
  ASSUME TypeOK, Recoverable, TickStep \/ TickError
  PROVE  Recoverable'
<1>1. Sound(tick'.seen)
  BY PassCopy, IdleCopies DEF Recoverable, Restorable
<1>2. \A f \in Execs : exec'[f] = exec[f] \/ (exec'[f].pc \in Unstored /\ CopyKept(exec'[f]))
  <2>1. CASE UNCHANGED exec
    BY <2>1, Zenon
  <2>2. CASE TickInsert
    <3>1. PICK x : x = [IdleExec EXCEPT !.pc = "load", !.run = tick.run, !.account = TRUE]
      OBVIOUS
    <3>2. PICK e \in Execs : SetExec(e, x)
      BY <2>2, <3>1, Zenon DEF TickInsert
    <3>3. \A f \in Execs : exec'[f] = exec[f] \/ exec'[f] = x
      BY <3>2, Zenon DEF SetExec, TypeOK
    <3>4. /\ x.pc = "load" /\ x.ck = IdleExec.ck /\ x.seen = IdleExec.seen
          /\ x.outcome = IdleExec.outcome
      BY <3>1, ValueTypes, Zenon DEF ExecState
    <3>5. x.pc \in Unstored
      BY <3>4 DEF Unstored
    <3>6. CopyKept(x)
      BY <3>4, <3>5, IdleCopies, Zenon DEF CopyKept
    <3> QED
      BY <3>3, <3>5, <3>6, Zenon
  <2> QED
    BY <2>1, <2>2 DEF TickStep, TickBegin, TickPick, TickFenceBegin, TickFenced,
       TickFenceFailed, TickSettle, TickClear, TickAdmit, TickAcquire, TickError
<1>3. \A q \in Runs : Restorable(ckpt'[q], run'[q]) /\ (ckpt[q].exists => ckpt'[q].exists)
  <2>0. \A q \in Runs : Restorable(ckpt[q], run[q])
    BY DEF Recoverable
  <2>1. CASE UNCHANGED <<run, ckpt>>
    BY <2>0, <2>1
  <2>2. ASSUME NEW r \in Runs, NEW doc, PatchRun(r, doc), UNCHANGED ckpt,
               \/ doc.status \in {run[r].status, "cancelled", "succeeded"}
               \/ ckpt[r].settled # "none" /\ doc.status = ckpt[r].settled
        PROVE  \A q \in Runs : Restorable(ckpt'[q], run'[q])
                               /\ (ckpt[q].exists => ckpt'[q].exists)
    <3>1. run'[r] = doc /\ \A q \in Runs \ {r} : run'[q] = run[q]
      BY <2>2, Zenon DEF PatchRun, TypeOK
    <3> QED
      BY <2>0, <2>2, <3>1 DEF Restorable, Sound
  <2>3. CASE TickFenced
    <3>1. PICK r \in Runs : r = tick.run
      BY <2>3, TickFacts DEF TickFenced
    <3>2. tick.seen \in Ckpt /\ UNCHANGED run /\ FenceConfirmed(r, tick.seen)
      BY <2>3, <3>1, TickFacts DEF TickFenced
    <3>3. PICK d : d = [tick.seen EXCEPT !.proc = NoAttempt]
      OBVIOUS
    <3>4. d.exists = tick.seen.exists /\ d.settled = tick.seen.settled
      BY <3>2, <3>3, Zenon DEF Ckpt
    <3>5. \A q \in Runs : ckpt'[q] = ckpt[q] \/ (tick.seen.exists /\ ckpt'[q] = d)
      <4>1. ckpt' = IF tick.seen.exists THEN [ckpt EXCEPT ![r] = d] ELSE ckpt
        BY <3>2, <3>3, Zenon DEF FenceConfirmed
      <4>2. CASE tick.seen.exists
        BY <4>1, <4>2, Zenon DEF TypeOK
      <4>3. CASE ~tick.seen.exists
        BY <4>1, <4>3, Zenon
      <4> QED
        BY <4>2, <4>3
    <3>6. Sound(tick.seen)
      BY DEF Recoverable
    <3> QED
      BY <2>0, <3>2, <3>4, <3>5, <3>6 DEF Restorable, Sound
  <2>4. CASE TickClear
    <3>1. PICK r \in Runs : r = tick.run
      BY <2>4, TickFacts DEF TickClear
    <3>2. run[r] \in RunDoc /\ UNCHANGED ckpt
      BY <2>4, <3>1, TickFacts DEF TickClear
    <3>3. /\ CancelledRun(run[r]).status = "cancelled"
          /\ [run[r] EXCEPT !.recovering = FALSE].status = run[r].status
      BY <3>2, Zenon DEF CancelledRun, SettledRun, RunDoc
    <3>4. \/ PatchRun(r, CancelledRun(run[r]))
          \/ PatchRun(r, [run[r] EXCEPT !.recovering = FALSE])
      BY <2>4, <3>1, Zenon DEF TickClear
    <3> QED
      BY <2>2, <3>2, <3>3, <3>4
  <2>5. CASE TickSettle
    <3>1. PICK r \in Runs : r = tick.run
      BY <2>5, TickFacts DEF TickSettle
    <3>2. run[r] \in RunDoc /\ UNCHANGED ckpt
      BY <2>5, <3>1, TickFacts DEF TickSettle
    <3>3. PICK d, o, b : /\ o = RecoverOutcome(r)
                         /\ b = (run[r].cancel \/ ckpt[r].settled # "none")
                         /\ d = [run[r] EXCEPT !.resumable = @ /\ b]
      OBVIOUS
    <3>4. UNCHANGED run \/ (PatchRun(r, SettledRun(d, o)) /\ o # "none")
      BY <2>5, <3>1, <3>3, Zenon DEF TickSettle
    <3>5. d \in RunDoc
      BY <3>2, <3>3, Zenon DEF RunDoc
    <3>6. SettledRun(d, o).status = o
      BY <3>5, Zenon DEF SettledRun, RunDoc
    <3>7. CASE UNCHANGED run
      BY <2>1, <3>2, <3>7
    <3>8. CASE PatchRun(r, SettledRun(d, o)) /\ o # "none"
      BY <2>2, <3>2, <3>3, <3>6, <3>8 DEF RecoverOutcome
    <3> QED
      BY <3>4, <3>7, <3>8
  <2> QED
    BY <2>1, <2>3, <2>4, <2>5 DEF TickStep, TickBegin, TickPick, TickFenceBegin,
       TickFenceFailed, TickAdmit, TickAcquire, TickInsert, TickError, storeVars
<1> QED
  BY <1>1, <1>2, <1>3, RecoverableFrame

LEMMA OwnerRecovers ==
  ASSUME TypeOK, Recoverable, NEW r \in Runs, OwnerStep(r) \/ RetryDue(r)
  PROVE  Recoverable'
<1>1. run[r] \in RunDoc /\ ckpt[r] \in Ckpt /\ UNCHANGED tick
      /\ Restorable(ckpt[r], run[r])
  <2>1. run[r] \in RunDoc /\ ckpt[r] \in Ckpt
    BY Zenon DEF TypeOK
  <2>2. UNCHANGED tick
    BY DEF OwnerStep, Cancel, Resume, RetryDue, workerVars
  <2> QED
    BY <2>1, <2>2 DEF Recoverable
<1>2. Alike
  BY TokenSet, StillAlike DEF OwnerStep, Cancel, Resume, RetryDue, workerVars
<1>3. \A q \in Runs \ {r} : run'[q] = run[q] /\ ckpt'[q] = ckpt[q]
  <2>1. /\ \E doc : PatchRun(r, doc)
        /\ UNCHANGED ckpt \/ \E c : Store(r, c)
    BY Zenon DEF OwnerStep, Cancel, Resume, RetryDue
  <2> QED
    BY <2>1, Zenon DEF PatchRun, Store, TypeOK
<1>4. Restorable(ckpt'[r], run'[r]) /\ (ckpt[r].exists => ckpt'[r].exists)
  <2>1. CASE Cancel(r)
    <3>1. PICK asked : asked = [run[r] EXCEPT !.cancel = TRUE]
      OBVIOUS
    <3>2. asked \in RunDoc /\ asked.status = run[r].status
      BY <1>1, <3>1, Zenon DEF RunDoc
    <3>3. CancelledRun(asked).status = "cancelled"
      BY <3>2, Zenon DEF CancelledRun, SettledRun, RunDoc
    <3>4. UNCHANGED ckpt /\ (PatchRun(r, CancelledRun(asked)) \/ PatchRun(r, asked))
      BY <2>1, <3>1, Zenon DEF Cancel
    <3>5. run'[r].status = "cancelled" \/ run'[r].status = run[r].status
      BY <3>2, <3>3, <3>4, Zenon DEF PatchRun, TypeOK
    <3> QED
      BY <1>1, <3>4, <3>5 DEF Restorable
  <2>2. CASE RetryDue(r)
    <3>1. UNCHANGED ckpt /\ run'[r] = [run[r] EXCEPT !.waiting = FALSE]
      BY <2>2, Zenon DEF RetryDue, PatchRun, TypeOK
    <3>2. run'[r].status = run[r].status
      BY <1>1, <3>1, Zenon DEF RunDoc
    <3> QED
      BY <1>1, <3>1, <3>2 DEF Restorable
  <2>3. CASE Resume(r)
    <3>1. PICK doc : doc = [Requeued(run[r]) EXCEPT !.cancel = FALSE, !.retry = 0,
                                                    !.waiting = FALSE]
      OBVIOUS
    <3>2. Requeued(run[r]) \in RunDoc /\ Requeued(run[r]).status = "queued"
      BY <1>1, PatchTypes, Zenon DEF Requeued, RunDoc, Statuses
    <3>3. doc.status = "queued"
      BY <3>1, <3>2, Zenon DEF RunDoc
    <3>4. PatchRun(r, doc)
      BY <2>3, <3>1, Zenon DEF Resume
    <3>5. run'[r].status = "queued"
      BY <3>3, <3>4, Zenon DEF PatchRun, TypeOK
    <3>6. PICK b, c : /\ b = (run[r].status \in {"failed", "cancelled"} /\ ~ckpt[r].launched)
                      /\ c = [ckpt[r] EXCEPT !.settled = "none", !.cause = "none",
                                !.completed = @ /\ b]
      OBVIOUS
    <3>7. c.exists = ckpt[r].exists /\ c.settled = "none"
      BY <1>1, <3>6, Zenon DEF Ckpt
    <3>8. UNCHANGED ckpt \/ Store(r, c)
      BY <2>3, <3>6, Zenon DEF Resume
    <3>9. ckpt'[r] = ckpt[r] \/ ckpt'[r] = c
      BY <3>8, Zenon DEF Store, TypeOK
    <3> QED
      BY <1>1, <3>5, <3>7, <3>9 DEF Restorable, Sound
  <2> QED
    BY <2>1, <2>2, <2>3 DEF OwnerStep
<1>5. \A q \in Runs : Restorable(ckpt'[q], run'[q]) /\ (ckpt[q].exists => ckpt'[q].exists)
  BY <1>3, <1>4 DEF Recoverable
<1>6. Sound(tick'.seen)
  BY <1>1 DEF Recoverable
<1> QED
  BY <1>2, <1>5, <1>6, RecoverableFrame DEF Alike

(* A restart finds the checkpoint of every run that reads as running.      *)
LEMMA ManagerRecovers ==
  ASSUME TypeOK, Recoverable,
         \/ Shutdown \/ Closed \/ Crash \/ Restart \/ UNCHANGED vars
         \/ \E a \in Attempts : RunnerStep(a)
  PROVE  Recoverable'
<1>1. CASE /\ \/ Shutdown \/ UNCHANGED vars
              \/ \E a \in Attempts : RunnerStep(a)
  <2>1. UNCHANGED <<run, ckpt, exec, tick>>
    BY <1>1 DEF Shutdown, vars, RunnerStep, ClientStartsVm, ClientOrphaned, storeVars,
       workerVars
  <2> QED
    BY <2>1 DEF Recoverable, CopyKept, Restorable, Sound
<1>2. CASE Closed \/ Crash
  <2>1. UNCHANGED <<run, ckpt>> /\ tick' = IdleTick /\ \A f \in Execs : exec'[f] = IdleExec
    BY <1>2, Zenon DEF Closed, Crash, Gone, storeVars
  <2>2. \A q \in Runs : Restorable(ckpt'[q], run'[q]) /\ (ckpt[q].exists => ckpt'[q].exists)
    BY <2>1 DEF Recoverable
  <2> QED
    BY <2>1, <2>2, IdleCopies, RecoverableFrame
<1>3. CASE Restart
  <2>1. UNCHANGED <<ckpt, exec, tick>> /\ \A q \in Runs : run'[q] = Restored(q)
    BY <1>3 DEF Restart, workerVars
  <2>2. ASSUME NEW q \in Runs PROVE Restorable(ckpt'[q], run'[q])
    <3>1. run[q] \in RunDoc /\ Restorable(ckpt[q], run[q])
      BY Zenon DEF TypeOK, Recoverable
    <3>2. /\ Requeued(run[q]).status = "queued"
          /\ [run[q] EXCEPT !.recovering = TRUE].status = run[q].status
      BY <3>1, Zenon DEF Requeued, RunDoc
    <3>3. \/ run'[q] = Requeued(run[q])
          \/ run'[q] = [run[q] EXCEPT !.recovering = TRUE]
          \/ run'[q] = run[q]
      <4>1. run[q].status = "running" => ckpt[q].exists
        BY <3>1 DEF Restorable
      <4>2. run'[q] = Restored(q)
        BY <2>1
      <4> QED
        BY <4>1, <4>2, Zenon DEF Restored
    <3>4. run'[q].status \in {"queued", run[q].status}
      BY <3>2, <3>3
    <3> QED
      BY <2>1, <3>1, <3>4 DEF Restorable
  <2>3. Sound(tick'.seen)
    BY <2>1 DEF Recoverable
  <2> QED
    BY <2>1, <2>2, <2>3, RecoverableFrame
<1> QED
  BY <1>1, <1>2, <1>3

LEMMA NextRecovers == TypeOK /\ Recoverable /\ [Next]_vars => Recoverable'
  BY PassRecovers, ExecRecovers, OwnerRecovers, ManagerRecovers, Zenon DEF Next

LEMMA InitRecoverable == Init => Recoverable
<1>1. /\ QueuedRun.status = "queued" /\ Sound(NoCkpt) /\ CopyKept(IdleExec)
      /\ IdleExec.pc \in Unstored /\ IdleTick.seen = NoCkpt
  BY IdleCopies DEF QueuedRun
<1>2. Restorable(NoCkpt, QueuedRun)
  BY <1>1 DEF Restorable
<1> QED
  BY <1>1, <1>2, Zenon DEF Init, Recoverable
----------------------------------------
(* The preparation guard.                                                  *)
Preparing == {"load", "mark", "prepare", "reserve", "placed"}

LEMMA ExecDropsPreparation ==
  ASSUME TypeOK, PreparationNotLeaked, NEW e \in Execs, ExecStep(e) \/ ExecReport(e)
  PROVE  /\ prep' = prep \/ (prep = e /\ prep' = NoExec)
         /\ prep' = e => exec'[e].pc \in Preparing
<1>1. prep = e => exec[e].pc \in Preparing
  BY DEF PreparationNotLeaked, Preparing
<1>2. exec[e] \in ExecState /\ e # NoExec
  BY ConstantsAssumption, Zenon DEF TypeOK
<1>3. ASSUME DropPreparation(e)
      PROVE  (prep' = prep \/ (prep = e /\ prep' = NoExec)) /\ prep' # e
  BY <1>2, <1>3 DEF DropPreparation
<1>4. ASSUME NEW pc, Goto(e, pc) PROVE exec'[e].pc = pc
  <2>1. exec'[e] = [exec[e] EXCEPT !.pc = pc]
    BY <1>4, Zenon DEF Goto, SetExec, TypeOK
  <2> QED
    BY <1>2, <2>1, Zenon DEF ExecState
<1>5. ASSUME NEW pc, NEW c, Update(e, c, pc) PROVE exec'[e].pc = pc
  <2>1. exec'[e] = [exec[e] EXCEPT !.ck = c, !.pc = pc]
    BY <1>5, Zenon DEF Update, SetExec, TypeOK
  <2> QED
    BY <1>2, <2>1, Zenon DEF ExecState
<1>6. CASE ExecLoad(e)
  <2>1. exec'[e].pc = "mark" /\ UNCHANGED prep
    BY <1>5, <1>6, Zenon DEF ExecLoad
  <2> QED
    BY <2>1 DEF Preparing
<1>7. CASE ExecMarkRunning(e)
  <2>1. exec'[e].pc = "prepare" /\ UNCHANGED prep
    BY <1>4, <1>7, Zenon DEF ExecMarkRunning
  <2> QED
    BY <2>1 DEF Preparing
<1>8. CASE ExecPrepare(e)
  <2>1. DropPreparation(e) \/ (exec'[e].pc = "reserve" /\ UNCHANGED prep)
    BY <1>5, <1>8, Zenon DEF ExecPrepare, Raise
  <2> QED
    BY <1>3, <2>1 DEF Preparing
<1>9. CASE ExecReserve(e)
  <2>1. ASSUME NEW a, SetExec(e, [exec[e] EXCEPT !.pc = "placed", !.attempt = a])
        PROVE  exec'[e].pc = "placed"
    <3>1. exec'[e] = [exec[e] EXCEPT !.pc = "placed", !.attempt = a]
      BY <2>1, Zenon DEF SetExec, TypeOK
    <3> QED
      BY <1>2, <3>1, Zenon DEF ExecState
  <2>2. DropPreparation(e) \/ (exec'[e].pc = "placed" /\ UNCHANGED prep)
    BY <1>9, <2>1, Zenon DEF ExecReserve, Raise
  <2> QED
    BY <1>3, <2>2 DEF Preparing
<1>10. CASE ExecPlaced(e)
  BY <1>3, <1>10 DEF ExecPlaced
<1>11. CASE ExecIoError(e)
  BY <1>3, <1>11 DEF ExecIoError, Raise
<1>12. CASE exec[e].pc \notin Preparing
  <2>1. prep # e
    BY <1>1, <1>12
  <2>2. ASSUME prep' = prep PROVE prep' # e
    BY <2>1, <2>2
  <2>3. UNCHANGED prep \/ DropPreparation(e) \/ ExecIoError(e) \/ exec[e].pc \in Preparing
    BY Zenon DEF ExecStep, ExecReport, ExecLoad, ExecMarkRunning, ExecPrepare, ExecReserve,
       ExecPlaced, ExecSpawn, ExecStart, ExecExit, ExecFenceBegin, ExecFenced,
       ExecFenceFailed, ExecJudge, ExecSwitch, ExecFail, ExecFailPatch, ExecRelease,
       ExecRemove, ExecRequeue, ExecThreadStarted, ExecTurnCompleted, ExecTurnFailed,
       Heartbeat, Raise, workerVars, Preparing
  <2> QED
    BY <1>3, <1>11, <1>12, <2>1, <2>2, <2>3
<1>13. CASE Heartbeat(e)
  BY <1>1, <1>13 DEF Heartbeat, workerVars
<1> QED
  <2>1. \/ ExecLoad(e) \/ ExecMarkRunning(e) \/ ExecPrepare(e) \/ ExecReserve(e)
        \/ ExecPlaced(e) \/ ExecIoError(e) \/ Heartbeat(e) \/ exec[e].pc \notin Preparing
    BY DEF ExecStep, ExecReport, ExecSpawn, ExecStart, ExecExit, ExecFenceBegin,
       ExecFenced, ExecFenceFailed, ExecJudge, ExecSwitch, ExecFail, ExecFailPatch,
       ExecRelease, ExecRemove, ExecRequeue, ExecThreadStarted, ExecTurnCompleted,
       ExecTurnFailed, Reporting, Preparing
  <2> QED
    BY <1>6, <1>7, <1>8, <1>9, <1>10, <1>11, <1>12, <1>13, <2>1

LEMMA PassKeepsPreparation ==
  ASSUME TypeOK, PreparationNotLeaked, TickStep \/ TickError
  PROVE  PreparationNotLeaked'
<1>1. /\ prep \in Execs \cup {NoExec, Pass} /\ Pass \notin Execs /\ NoExec \notin Execs
      /\ NoExec # Pass
  BY ConstantsAssumption DEF TypeOK
<1>2. /\ prep \in Execs => exec[prep].pc \in Preparing
      /\ prep = Pass => tick.pc \in {"acquire", "insert"}
  BY DEF PreparationNotLeaked, Preparing
<1>3. ASSUME NEW pc, TickGoto(pc) PROVE tick'.pc = pc
  BY <1>3, TickFields DEF TickGoto
<1>4. CASE TickAcquire
  <2>1. UNCHANGED exec /\ ((UNCHANGED prep /\ tick'.pc = "insert") \/ prep' = NoExec)
    BY <1>3, <1>4, Zenon DEF TickAcquire
  <2> QED
    BY <1>1, <1>2, <2>1 DEF PreparationNotLeaked, Preparing
<1>5. CASE TickAdmit
  <2>1. /\ UNCHANGED exec /\ tick.pc = "admit"
        /\ UNCHANGED prep \/ (prep' = Pass /\ tick'.pc = "acquire")
    BY <1>3, <1>5, Zenon DEF TickAdmit
  <2> QED
    BY <1>1, <1>2, <2>1 DEF PreparationNotLeaked, Preparing
<1>6. CASE TickError
  BY <1>1, <1>2, <1>6 DEF TickError, PreparationNotLeaked, Preparing
<1>7. CASE TickInsert
  <2>1. PICK x : x = [IdleExec EXCEPT !.pc = "load", !.run = tick.run, !.account = TRUE]
    OBVIOUS
  <2>2. PICK e \in Execs : SetExec(e, x) /\ prep' = e
    BY <1>7, <2>1, Zenon DEF TickInsert
  <2>3. exec'[e] = x
    BY <2>2, Zenon DEF SetExec, TypeOK
  <2>4. x.pc = "load"
    BY <2>1, ValueTypes, Zenon DEF ExecState
  <2> QED
    BY <1>1, <2>2, <2>3, <2>4 DEF PreparationNotLeaked
<1>8. CASE UNCHANGED <<prep, exec>> /\ tick.pc \notin {"acquire", "insert"}
  BY <1>2, <1>8 DEF PreparationNotLeaked, Preparing
<1> QED
  BY <1>4, <1>5, <1>6, <1>7, <1>8 DEF TickStep, TickBegin, TickPick, TickFenceBegin,
     TickFenced, TickFenceFailed, TickSettle, TickClear

LEMMA NextKeepsPreparation ==
    TypeOK /\ PreparationNotLeaked /\ [Next]_vars => PreparationNotLeaked'
<1> SUFFICES ASSUME TypeOK, PreparationNotLeaked, [Next]_vars
             PROVE  PreparationNotLeaked'
  OBVIOUS
<1>1. /\ NoExec \notin Execs /\ NoExec # Pass
      /\ prep \in Execs => exec[prep].pc \in Preparing
  BY ConstantsAssumption DEF PreparationNotLeaked, Preparing
<1>2. CASE TickStep \/ TickError
  BY <1>2, PassKeepsPreparation
<1>3. ASSUME NEW e \in Execs, ExecStep(e) \/ ExecReport(e) PROVE PreparationNotLeaked'
  <2>1. /\ prep' = prep \/ (prep = e /\ prep' = NoExec)
        /\ prep' = e => exec'[e].pc \in Preparing
    BY <1>3, ExecDropsPreparation
  <2>2. UNCHANGED tick /\ \A f \in Execs \ {e} : exec'[f] = exec[f]
    <3>1. exec[e].pc # "free"
      BY <1>3, ExecRunning
    <3>2. PICK r \in Runs : exec[e].run = r
      BY <3>1, Zenon DEF TypeOK
    <3> QED
      BY <1>3, <3>1, <3>2, ExecElsewhere DEF Elsewhere
  <2> QED
    BY <1>1, <2>1, <2>2 DEF PreparationNotLeaked, Preparing
<1>4. CASE \/ Shutdown \/ Restart \/ UNCHANGED vars
           \/ \E a \in Attempts : RunnerStep(a)
  <2>1. UNCHANGED <<prep, exec, tick>>
    BY <1>4 DEF Shutdown, Restart, vars, RunnerStep, ClientStartsVm, ClientOrphaned,
       workerVars
  <2> QED
    BY <2>1 DEF PreparationNotLeaked
<1>5. CASE Closed \/ Crash
  <2>1. prep' = NoExec
    BY <1>5 DEF Closed, Crash, Gone
  <2> QED
    BY <1>1, <2>1 DEF PreparationNotLeaked
<1>6. ASSUME NEW r \in Runs, OwnerStep(r) \/ RetryDue(r) PROVE PreparationNotLeaked'
  <2>1. UNCHANGED <<prep, tick>>
    BY <1>6 DEF OwnerStep, Cancel, Resume, RetryDue, workerVars
  <2>2. Alike
    BY <1>6, TokenSet, StillAlike DEF OwnerStep, Cancel, Resume, RetryDue, workerVars
  <2> QED
    BY <2>1, <2>2 DEF PreparationNotLeaked, Alike
<1> QED
  BY <1>2, <1>3, <1>4, <1>5, <1>6, Zenon DEF Next

(* Whatever crashes, errors and overlaps happen, a restart finds the       *)
(* checkpoint of every run that reads as running, so that none is given up *)
(* as interrupted, and the preparation guard is held only by a pass about  *)
(* to launch or by an execution that has not placed its VM                 *)
(* (worker/mod.rs restore_after_restart, launch.rs mark_running and        *)
(* prepare_runner).                                                        *)
THEOREM NothingIsStranded == Spec => []NothingStranded
<1>1. Init => PreparationNotLeaked
  BY ConstantsAssumption DEF Init, PreparationNotLeaked
<1>2. Recoverable /\ PreparationNotLeaked => NothingStranded
  BY DEF Recoverable, Restorable, NothingStranded, NeverInterrupted
<1>3. Spec => []Recoverable
  BY TypeCorrect, InitRecoverable, NextRecovers, PTL DEF Spec
<1>4. Spec => []PreparationNotLeaked
  BY <1>1, TypeCorrect, NextKeepsPreparation, PTL DEF Spec
<1> QED
  BY <1>2, <1>3, <1>4, PTL

(* A cancellation accepted during a recovery ends the run, with store      *)
(* errors and any number of crashes too: the transaction that clears the   *)
(* run looks for it again (schedule.rs recover).                           *)
THEOREM CancelledRecoveriesEnd == Spec => CancelledRecoveryEnds
<1>1. TypeOK /\ AttemptOwnership /\ OutcomeInv /\ [Next]_vars =>
        [\A r \in Runs \ overlapped :
           run[r].recovering /\ run[r].cancel /\ ~run'[r].recovering
             => run'[r].status \notin ActiveStatuses]_vars
  BY NextKeeps, Zenon DEF AllDecided, Decided
<1> QED
  BY <1>1, TypeCorrect, OwnershipHolds, OutcomesSound, PTL DEF Spec, CancelledRecoveryEnds
----------------------------------------
(* Account leases. Whoever will give the lease of a run back: the pass     *)
(* about to launch it, the execution that has its account, or the recovery *)
(* the run waits for.                                                      *)
Inserting(r) == tick.pc = "insert" /\ tick.run = r

Keeper(x, doc) == IF x.pc = "remove" THEN doc.recovering ELSE x.account

LeaseKept(r) ==
    \/ Inserting(r)
    \/ Idle(r) /\ run[r].recovering
    \/ \E e \in Execs : /\ exec[e].pc # "free" /\ exec[e].run = r
                        /\ Keeper(exec[e], run[r])

LeasesKept == \A r \in leases \ overlapped : LeaseKept(r)

(* An execution that could not fence its VM left its run to recovery.      *)
UnfencedRecovers ==
    \A e \in Execs : exec[e].pc = "release" /\ exec[e].run \notin overlapped =>
        exec[e].fenced \/ run[exec[e].run].recovering

(* Recovery has dropped the lease before it settles or clears the run.     *)
DroppedByRecovery ==
    tick.pc \in {"settle", "clear"} /\ tick.run \notin overlapped =>
        tick.run \notin leases

LeaseInv == LeasesKept /\ UnfencedRecovers /\ DroppedByRecovery

(* What is known of the lease of a run when its execution takes a step,    *)
(* and what the step must leave.                                           *)
Leasing(e, r) ==
    /\ TypeOK /\ exec[e].pc # "free" /\ exec[e].run = r
    /\ r \in leases => Inserting(r) \/ Keeper(exec[e], run[r])
    /\ exec[e].pc = "release" => exec[e].fenced \/ run[r].recovering

Leased(e, r) ==
    /\ \A q \in Runs \ {r} : q \in leases' => q \in leases
    /\ r \in leases' =>
         \/ Inserting(r)
         \/ IF exec'[e].pc \in {"free", "remove"} THEN run'[r].recovering
            ELSE exec'[e].account
    /\ exec'[e].pc = "release" => exec'[e].fenced \/ run'[r].recovering

LEMMA LeasingFacts ==
  ASSUME NEW e \in Execs, NEW r \in Runs, Leasing(e, r)
  PROVE  exec[e] \in ExecState /\ run[r] \in RunDoc
  BY Zenon DEF Leasing, TypeOK

LEMMA StaysLeased ==
  ASSUME NEW e \in Execs, NEW r \in Runs, Leasing(e, r), exec[e].pc # "remove",
         UNCHANGED leases, NEW x, SetExec(e, x), x.account = exec[e].account,
         x.pc \notin {"free", "remove", "release"}
  PROVE  Leased(e, r)
<1>1. exec'[e] = x
  BY Zenon DEF SetExec, TypeOK, Leasing
<1> QED
  BY <1>1 DEF Leased, Leasing, Keeper

LEMMA RaiseLeased ==
  ASSUME NEW e \in Execs, NEW r \in Runs, Leasing(e, r), exec[e].pc # "remove",
         UNCHANGED leases, NEW err, Raise(e, err)
  PROVE  Leased(e, r)
<1>1. PICK x : x = [exec[e] EXCEPT !.pc = "fail", !.err = err, !.exit = "none",
                                   !.attempt = NoAttempt, !.prev = FALSE]
  OBVIOUS
<1>2. x.account = exec[e].account /\ x.pc = "fail"
  BY <1>1, LeasingFacts, Zenon DEF ExecState
<1>3. SetExec(e, x)
  BY <1>1, Zenon DEF Raise
<1> QED
  BY <1>2, <1>3, StaysLeased

LEMMA MoveLeased ==
  ASSUME NEW e \in Execs, NEW r \in Runs, Leasing(e, r), exec[e].pc # "remove",
         UNCHANGED leases, NEW pc, pc \notin {"free", "remove", "release"},
         Goto(e, pc) \/ \E c : Update(e, c, pc)
  PROVE  Leased(e, r)
<1>1. CASE Goto(e, pc)
  <2>1. PICK x : x = [exec[e] EXCEPT !.pc = pc]
    OBVIOUS
  <2>2. x.account = exec[e].account /\ x.pc = pc
    BY <2>1, LeasingFacts, Zenon DEF ExecState
  <2>3. SetExec(e, x)
    BY <1>1, <2>1, Zenon DEF Goto
  <2> QED
    BY <2>2, <2>3, StaysLeased
<1>2. ASSUME NEW c, Update(e, c, pc) PROVE Leased(e, r)
  <2>1. PICK x : x = [exec[e] EXCEPT !.ck = c, !.pc = pc]
    OBVIOUS
  <2>2. x.account = exec[e].account /\ x.pc = pc
    BY <2>1, LeasingFacts, Zenon DEF ExecState
  <2>3. SetExec(e, x)
    BY <1>2, <2>1, Zenon DEF Update
  <2> QED
    BY <2>2, <2>3, StaysLeased
<1> QED
  BY <1>1, <1>2

LEMMA LaunchLeased ==
  ASSUME NEW e \in Execs, NEW r \in Runs, Leasing(e, r),
         \/ ExecLoad(e) \/ ExecMarkRunning(e) \/ ExecPrepare(e) \/ ExecReserve(e)
         \/ ExecPlaced(e) \/ ExecSpawn(e) \/ ExecStart(e)
  PROVE  Leased(e, r)
<1>1. UNCHANGED leases /\ exec[e].pc # "remove"
  BY DEF ExecLoad, ExecMarkRunning, ExecPrepare, ExecReserve, ExecPlaced, ExecSpawn, ExecStart
<1>2. CASE \E err : Raise(e, err)
  BY <1>1, <1>2, RaiseLeased
<1>3. CASE Goto(e, "prepare") \/ Goto(e, "wait")
  BY <1>1, <1>3, MoveLeased
<1>4. CASE \/ \E c : Update(e, c, "mark")
           \/ \E c : Update(e, c, "reserve")
           \/ \E c : Update(e, c, "spawn")
  <2>1. ASSUME NEW pc \in {"mark", "reserve", "spawn"}, \E c : Update(e, c, pc)
        PROVE  Leased(e, r)
    BY <1>1, <2>1, MoveLeased
  <2> QED
    BY <1>4, <2>1
<1>5. CASE ExecReserve(e)
  <2>1. ASSUME NEW a, SetExec(e, [exec[e] EXCEPT !.pc = "placed", !.attempt = a])
        PROVE  Leased(e, r)
    <3>1. PICK x : x = [exec[e] EXCEPT !.pc = "placed", !.attempt = a]
      OBVIOUS
    <3>2. x.account = exec[e].account /\ x.pc = "placed"
      BY <3>1, LeasingFacts, Zenon DEF ExecState
    <3> QED
      BY <1>1, <2>1, <3>1, <3>2, StaysLeased
  <2> QED
    BY <1>2, <1>5, <2>1, Zenon DEF ExecReserve
<1>6. CASE ExecSpawn(e)
  <2>1. ASSUME NEW c, SetExec(e, [exec[e] EXCEPT !.pc = "start", !.ck = c,
                                    !.prev = exec[e].ck.launched, !.exit = "none"])
        PROVE  Leased(e, r)
    <3>1. PICK x : x = [exec[e] EXCEPT !.pc = "start", !.ck = c,
                          !.prev = exec[e].ck.launched, !.exit = "none"]
      OBVIOUS
    <3>2. x.account = exec[e].account /\ x.pc = "start"
      BY <3>1, LeasingFacts, Zenon DEF ExecState
    <3> QED
      BY <1>1, <2>1, <3>1, <3>2, StaysLeased
  <2> QED
    BY <1>2, <1>6, <2>1, Zenon DEF ExecSpawn
<1>7. CASE ExecLoad(e) \/ ExecMarkRunning(e) \/ ExecPlaced(e)
  BY <1>3, <1>4, <1>7, Zenon DEF ExecLoad, ExecMarkRunning, ExecPlaced
<1>8. CASE ExecPrepare(e) \/ ExecStart(e)
  BY <1>2, <1>3, <1>4, <1>8, Zenon DEF ExecPrepare, ExecStart
<1> QED
  BY <1>5, <1>6, <1>7, <1>8

LEMMA TurnLeased ==
  ASSUME NEW e \in Execs, NEW r \in Runs, Leasing(e, r),
         \/ ExecThreadStarted(e) \/ ExecTurnCompleted(e) \/ ExecTurnFailed(e)
         \/ Heartbeat(e) \/ ExecExit(e)
  PROVE  Leased(e, r)
<1>1. /\ UNCHANGED leases /\ exec[e].pc \notin {"free", "remove", "release"}
  BY DEF ExecThreadStarted, ExecTurnCompleted, ExecTurnFailed, Heartbeat, ExecExit,
     Reporting, workerVars
<1>2. CASE UNCHANGED exec
  BY <1>1, <1>2 DEF Leasing, Leased, Keeper
<1>3. CASE ExecTurnCompleted(e) \/ ExecTurnFailed(e)
  <2>1. \E c : Update(e, c, "wait")
    BY <1>3, Zenon DEF ExecTurnCompleted, ExecTurnFailed
  <2> QED
    BY <1>1, <2>1, MoveLeased
<1>4. CASE ExecExit(e)
  <2>1. PICK c, exit : SetExec(e, [exec[e] EXCEPT !.pc = "afence", !.exit = exit, !.ck = c,
                                     !.attempt = NoAttempt, !.prev = FALSE])
    BY <1>4, Zenon DEF ExecExit
  <2>2. PICK x : x = [exec[e] EXCEPT !.pc = "afence", !.exit = exit, !.ck = c,
                        !.attempt = NoAttempt, !.prev = FALSE]
    OBVIOUS
  <2>3. x.account = exec[e].account /\ x.pc = "afence"
    BY <2>2, LeasingFacts, Zenon DEF ExecState
  <2> QED
    BY <1>1, <2>1, <2>2, <2>3, StaysLeased
<1> QED
  BY <1>2, <1>3, <1>4 DEF ExecThreadStarted, Heartbeat, workerVars

(* A fence that is not confirmed leaves the run, and its lease, to         *)
(* recovery.                                                               *)
LEMMA FenceLeased ==
  ASSUME NEW e \in Execs, NEW r \in Runs, Leasing(e, r),
         ExecFenceBegin(e) \/ ExecFenced(e) \/ ExecFenceFailed(e)
  PROVE  Leased(e, r)
<1>1. /\ UNCHANGED leases /\ exec[e].pc \in {"afence", "efence"} /\ exec[e].run = r
      /\ TypeOK /\ (r \in leases => Inserting(r) \/ exec[e].account)
  BY DEF ExecFenceBegin, ExecFenced, ExecFenceFailed, Leasing, Keeper
<1>2. ASSUME NEW x, SetExec(e, x), x.account = exec[e].account, x.pc = "release",
             x.fenced \/ run'[r].recovering
      PROVE  Leased(e, r)
  <2>1. exec'[e] = x
    BY <1>1, <1>2, Zenon DEF SetExec, TypeOK
  <2> QED
    BY <1>1, <1>2, <2>1 DEF Leased
<1>3. CASE ExecFenceBegin(e)
  <2>1. PICK x, y : /\ x = [exec[e] EXCEPT !.pc = "release", !.fenced = TRUE]
                    /\ y = [exec[e] EXCEPT !.fencing = TRUE, !.seen = ckpt[r]]
    OBVIOUS
  <2>2. /\ x.account = exec[e].account /\ x.pc = "release" /\ x.fenced
        /\ y.account = exec[e].account /\ y.pc = exec[e].pc
    BY <2>1, LeasingFacts, Zenon DEF ExecState
  <2>3. SetExec(e, x) \/ SetExec(e, y)
    BY <1>1, <1>3, <2>1, Zenon DEF ExecFenceBegin
  <2> QED
    BY <1>1, <1>2, <2>2, <2>3, StaysLeased
<1>4. CASE ExecFenced(e)
  <2>1. PICK x : x = [exec[e] EXCEPT !.fencing = FALSE, !.seen = NoCkpt,
                        !.fenced = exec[e].pc = "efence",
                        !.pc = IF @ = "afence" THEN "judge" ELSE "release"]
    OBVIOUS
  <2>2. /\ x.account = exec[e].account /\ x.fenced = (exec[e].pc = "efence")
        /\ x.pc = IF exec[e].pc = "afence" THEN "judge" ELSE "release"
    BY <2>1, LeasingFacts, Zenon DEF ExecState
  <2>3. SetExec(e, x)
    BY <1>4, <2>1, Zenon DEF ExecFenced
  <2>4. CASE exec[e].pc = "afence"
    BY <1>1, <2>2, <2>3, <2>4, StaysLeased
  <2>5. CASE exec[e].pc = "efence"
    BY <1>2, <2>2, <2>3, <2>5
  <2> QED
    BY <1>1, <2>4, <2>5
<1>5. CASE ExecFenceFailed(e)
  <2>1. PICK done, c : /\ done = [exec[e] EXCEPT !.fencing = FALSE, !.seen = NoCkpt]
                       /\ c = [exec[e].ck EXCEPT !.settled =
                                 IF run[r].status = "queued" THEN @ ELSE run[r].status]
    OBVIOUS
  <2>2. done \in ExecState /\ done.account = exec[e].account
    BY <2>1, LeasingFacts, ValueTypes, Zenon DEF ExecState
  <2>3. PICK x, y : /\ x = [done EXCEPT !.pc = "fail", !.err = "unavailable", !.exit = "none"]
                    /\ y = [done EXCEPT !.pc = "release", !.ck = c]
    OBVIOUS
  <2>4. /\ x.account = exec[e].account /\ x.pc = "fail"
        /\ y.account = exec[e].account /\ y.pc = "release"
    BY <2>2, <2>3, Zenon DEF ExecState
  <2>5. SetExec(e, x) \/ (SetExec(e, y) /\ PatchRun(r, Requeued(run[r])))
    BY <1>1, <1>5, <2>1, <2>3, Zenon DEF ExecFenceFailed
  <2>6. CASE SetExec(e, y) /\ PatchRun(r, Requeued(run[r]))
    <3>1. run'[r] = Requeued(run[r]) /\ Requeued(run[r]).recovering
      BY <1>1, <2>6, LeasingFacts, ZenonT(40) DEF PatchRun, TypeOK, Requeued, RunDoc
    <3> QED
      BY <1>2, <2>4, <2>6, <3>1
  <2> QED
    BY <1>1, <2>4, <2>5, <2>6, StaysLeased
<1> QED
  BY <1>3, <1>4, <1>5

LEMMA JudgeLeased ==
  ASSUME NEW e \in Execs, NEW r \in Runs, Leasing(e, r),
         ExecJudge(e) \/ ExecSwitch(e) \/ ExecFail(e) \/ ExecFailPatch(e)
  PROVE  Leased(e, r)
<1>1. TypeOK /\ exec[e].run = r /\ exec[e].pc # "remove"
  BY DEF Leasing, ExecJudge, ExecSwitch, ExecFail, ExecFailPatch
<1>2. ASSUME NEW err, Raise(e, err), UNCHANGED leases PROVE Leased(e, r)
  BY <1>1, <1>2, RaiseLeased
<1>3. CASE ExecJudge(e)
  <2>1. PICK x, y : /\ x = [exec[e] EXCEPT !.pc = "switch", !.account = FALSE, !.exit = "none"]
                    /\ y = [exec[e] EXCEPT !.pc = "efence", !.exit = "none"]
    OBVIOUS
  <2>2. x.pc = "switch" /\ y.pc = "efence" /\ y.account = exec[e].account
    BY <2>1, LeasingFacts, Zenon DEF ExecState
  <2>3. \/ \E err : Raise(e, err) /\ UNCHANGED leases
        \/ SetExec(e, x) /\ leases' = leases \ {r}
        \/ SetExec(e, y) /\ UNCHANGED leases
    BY <1>1, <1>3, <2>1, Zenon DEF ExecJudge
  <2>4. CASE SetExec(e, x) /\ leases' = leases \ {r}
    <3>1. exec'[e] = x
      BY <1>1, <2>4, Zenon DEF SetExec, TypeOK
    <3> QED
      BY <2>2, <2>4, <3>1 DEF Leased
  <2>5. CASE SetExec(e, y) /\ UNCHANGED leases
    BY <1>1, <2>2, <2>5, StaysLeased
  <2> QED
    BY <1>2, <2>3, <2>4, <2>5
<1>4. CASE ExecSwitch(e)
  <2>1. PICK x : x = [exec[e] EXCEPT !.pc = "reserve", !.account = TRUE]
    OBVIOUS
  <2>2. x.pc = "reserve" /\ x.account
    BY <2>1, LeasingFacts, Zenon DEF ExecState
  <2>3. \/ \E err : Raise(e, err) /\ UNCHANGED leases
        \/ SetExec(e, x) /\ leases' = leases \cup {r}
    BY <1>1, <1>4, <2>1, Zenon DEF ExecSwitch
  <2>4. CASE SetExec(e, x) /\ leases' = leases \cup {r}
    <3>1. exec'[e] = x
      BY <1>1, <2>4, Zenon DEF SetExec, TypeOK
    <3> QED
      BY <2>2, <2>4, <3>1 DEF Leased
  <2> QED
    BY <1>2, <2>3, <2>4
<1>5. CASE ExecFail(e)
  <2>1. ASSUME NEW c, NEW s
        PROVE  /\ [exec[e] EXCEPT !.pc = "efence", !.err = "none"].account = exec[e].account
               /\ [exec[e] EXCEPT !.pc = "efence", !.err = "none"].pc = "efence"
               /\ [exec[e] EXCEPT !.pc = "failpatch", !.ck = c, !.outcome = s,
                                  !.err = "none"].account = exec[e].account
               /\ [exec[e] EXCEPT !.pc = "failpatch", !.ck = c, !.outcome = s,
                                  !.err = "none"].pc = "failpatch"
    BY LeasingFacts, Zenon DEF ExecState
  <2>2. UNCHANGED leases
    BY <1>5 DEF ExecFail
  <2>3. \/ SetExec(e, [exec[e] EXCEPT !.pc = "efence", !.err = "none"])
        \/ \E c, s : SetExec(e, [exec[e] EXCEPT !.pc = "failpatch", !.ck = c,
                                   !.outcome = s, !.err = "none"])
    BY <1>5, Zenon DEF ExecFail, FailAs
  <2>4. CASE SetExec(e, [exec[e] EXCEPT !.pc = "efence", !.err = "none"])
    <3>1. PICK x : x = [exec[e] EXCEPT !.pc = "efence", !.err = "none"]
      OBVIOUS
    <3> QED
      BY <1>1, <2>1, <2>2, <2>4, <3>1, StaysLeased
  <2>5. ASSUME NEW c, NEW s, SetExec(e, [exec[e] EXCEPT !.pc = "failpatch", !.ck = c,
                                           !.outcome = s, !.err = "none"])
        PROVE  Leased(e, r)
    <3>1. PICK x : x = [exec[e] EXCEPT !.pc = "failpatch", !.ck = c, !.outcome = s,
                                       !.err = "none"]
      OBVIOUS
    <3>2. x.account = exec[e].account /\ x.pc = "failpatch" /\ SetExec(e, x)
      BY <2>1, <2>5, <3>1, ZenonT(60)
    <3> QED
      BY <1>1, <2>2, <3>2, StaysLeased
  <2> QED
    BY <2>3, <2>4, <2>5
<1>6. CASE ExecFailPatch(e)
  <2>1. PICK x : x = [exec[e] EXCEPT !.pc = "efence", !.outcome = "queued"]
    OBVIOUS
  <2>2. x.pc = "efence" /\ x.account = exec[e].account
    BY <2>1, LeasingFacts, Zenon DEF ExecState
  <2>3. SetExec(e, x) /\ UNCHANGED leases
    BY <1>6, <2>1, Zenon DEF ExecFailPatch
  <2> QED
    BY <1>1, <2>2, <2>3, StaysLeased
<1> QED
  BY <1>3, <1>4, <1>5, <1>6

(* The end: a fenced execution gives its account back, an unfenced one     *)
(* leaves the lease to recovery.                                           *)
LEMMA EndLeased ==
  ASSUME NEW e \in Execs, NEW r \in Runs, Leasing(e, r), ExecRelease(e) \/ ExecRemove(e)
  PROVE  Leased(e, r)
<1>1. /\ TypeOK /\ exec[e].run = r
      /\ (r \in leases => Inserting(r) \/ Keeper(exec[e], run[r]))
      /\ (exec[e].pc = "release" => exec[e].fenced \/ run[r].recovering)
  BY DEF Leasing
<1>2. CASE ExecRelease(e)
  <2>1. PICK x : x = [exec[e] EXCEPT !.ck = exec[e].ck, !.pc = "remove"]
    OBVIOUS
  <2>2. exec'[e] = x
    BY <1>1, <1>2, <2>1, Zenon DEF ExecRelease, Update, SetExec, TypeOK
  <2>3. exec'[e].pc = "remove"
    BY <2>1, <2>2, LeasingFacts, Zenon DEF ExecState
  <2>4. exec[e].pc = "release" /\ leases' = Released(e)
    BY <1>2 DEF ExecRelease
  <2>5. r \in leases => Inserting(r) \/ exec[e].account
    BY <1>1, <2>4 DEF Keeper
  <2>6. CASE exec[e].fenced
    <3>1. /\ \A q \in Runs \ {r} : q \in leases' => q \in leases
          /\ r \in leases' => Inserting(r)
      BY <1>1, <2>4, <2>5, <2>6 DEF Released
    <3> QED
      BY <2>3, <3>1 DEF Leased
  <2>7. CASE ~exec[e].fenced
    <3>1. run[r].recovering /\ leases' = leases
      BY <1>1, <2>4, <2>7 DEF Released
    <3>2. UNCHANGED run
      BY <1>2, <2>7 DEF ExecRelease
    <3> QED
      BY <2>3, <3>1, <3>2 DEF Leased
  <2> QED
    BY <2>6, <2>7
<1>3. CASE ExecRemove(e)
  <2>1. /\ exec'[e] = IdleExec /\ UNCHANGED <<run, leases>> /\ exec[e].pc = "remove"
    BY <1>1, <1>3 DEF ExecRemove, SetExec, TypeOK, storeVars
  <2> QED
    BY <1>1, <2>1, IdlePc DEF Leased, Keeper
<1> QED
  BY <1>2, <1>3

LEMMA NoStoreErrors ==
  ASSUME TypeOK, MaxIoErrors = 0
  PROVE  ~(used.io < MaxIoErrors)
<1>1. used.io \in 0 .. MaxIoErrors
  BY Zenon DEF TypeOK
<1> QED
  BY <1>1

LEMMA ExecLeases ==
  ASSUME TypeOK, OutcomeInv, LeaseInv, MaxIoErrors = 0, NEW e \in Execs,
         ExecStep(e) \/ ExecReport(e)
  PROVE  LeaseInv'
<1>1. exec[e].pc # "free"
  BY ExecRunning
<1>2. PICK r \in Runs : exec[e].run = r
  BY <1>1, Zenon DEF TypeOK
<1>3. Elsewhere(e, r)
  BY <1>1, <1>2, ExecElsewhere
<1>4. /\ UNCHANGED <<phase, tick, overlapped>>
      /\ \A f \in Execs \ {e} : exec'[f] = exec[f]
      /\ exec'[e].pc # "free" => exec'[e].run = r
      /\ \A q \in Runs \ {r} : run'[q] = run[q]
  BY <1>3 DEF Elsewhere
<1>5. ASSUME r \notin overlapped
      PROVE  Leased(e, r) /\ \A f \in Execs \ {e} : exec[f].pc # "free" => exec[f].run # r
  <2>1. \A f \in Execs \ {e} : exec[f].pc # "free" => exec[f].run # r
    BY <1>1, <1>2, <1>5 DEF OutcomeInv, OneExecution
  <2>2. r \in leases => Inserting(r) \/ Keeper(exec[e], run[r])
    BY <1>1, <1>2, <1>5, <2>1 DEF LeaseInv, LeasesKept, LeaseKept, Idle
  <2>3. exec[e].pc = "release" => exec[e].fenced \/ run[r].recovering
    BY <1>2, <1>5 DEF LeaseInv, UnfencedRecovers
  <2>4. Leasing(e, r)
    BY <1>1, <1>2, <2>2, <2>3 DEF Leasing
  <2>5. ~ExecIoError(e)
    BY NoStoreErrors DEF ExecIoError
  <2>6. ~ExecRequeue(e)
    <3>1. CopySound(exec[e], ckpt[r], run[r], Quiet(r))
      BY <1>1, <1>2, <1>5, Zenon DEF OutcomeInv, ExecsSound
    <3>2. exec[e].pc # "requeue"
      BY <3>1, Zenon DEF CopySound
    <3> QED
      BY <3>2 DEF ExecRequeue
  <2>7. Leased(e, r)
    BY <2>4, <2>5, <2>6, LaunchLeased, TurnLeased, FenceLeased, JudgeLeased, EndLeased,
       Zenon DEF ExecStep, ExecReport
  <2> QED
    BY <2>1, <2>7
<1>6. \A q \in Runs \ {r} : q \in leases' => q \in leases
  <2>1. leases' \in {leases, leases \cup {r}, leases \ {r}}
    <3>1. ~ExecIoError(e)
      BY NoStoreErrors DEF ExecIoError
    <3> QED
      BY <1>2, <3>1 DEF ExecStep, ExecReport, ExecLoad, ExecMarkRunning, ExecPrepare,
         ExecReserve, ExecPlaced, ExecSpawn, ExecStart, ExecExit, ExecFenceBegin,
         ExecFenced, ExecFenceFailed, ExecJudge, ExecSwitch, ExecFail, ExecFailPatch,
         ExecRelease, Released, ExecRemove, ExecRequeue, ExecThreadStarted,
         ExecTurnCompleted, ExecTurnFailed, Heartbeat, workerVars
  <2> QED
    BY <2>1
<1>7. \A q : Inserting(q)' <=> Inserting(q)
  BY <1>4 DEF Inserting
<1>8. LeasesKept'
  <2> SUFFICES ASSUME NEW q \in leases', q \notin overlapped' PROVE LeaseKept(q)'
    BY DEF LeasesKept
  <2>1. q \in Runs
    <3>1. leases' \subseteq Runs
      BY ExecTypes DEF TypeOK
    <3> QED
      BY <3>1
  <2>2. CASE q # r
    <3>1. q \in leases /\ q \notin overlapped
      BY <1>4, <1>6, <2>1, <2>2
    <3>2. LeaseKept(q)
      BY <3>1 DEF LeaseInv, LeasesKept
    <3>3. run'[q] = run[q]
      BY <1>4, <2>1, <2>2
    <3>4. Idle(q) => Idle(q)'
      BY <1>4, <2>2 DEF Idle
    <3>5. ASSUME NEW f \in Execs, exec[f].pc # "free", exec[f].run = q,
                 Keeper(exec[f], run[q])
          PROVE  LeaseKept(q)'
      <4>1. exec'[f] = exec[f]
        BY <1>2, <1>4, <2>2, <3>5
      <4> QED
        BY <3>3, <3>5, <4>1 DEF LeaseKept
    <3> QED
      BY <1>7, <3>2, <3>3, <3>4, <3>5 DEF LeaseKept
  <2>3. CASE q = r
    <3>1. /\ \A f \in Execs \ {e} : exec[f].pc # "free" => exec[f].run # r
          /\ \/ Inserting(r)
             \/ IF exec'[e].pc \in {"free", "remove"} THEN run'[r].recovering
                ELSE exec'[e].account
      BY <1>4, <1>5, <2>3 DEF Leased
    <3>2. CASE Inserting(r)
      BY <1>7, <2>3, <3>2 DEF LeaseKept
    <3>3. CASE exec'[e].pc = "free" /\ run'[r].recovering
      <4>1. Idle(r)'
        BY <1>4, <3>1, <3>3 DEF Idle
      <4> QED
        BY <2>3, <3>3, <4>1 DEF LeaseKept
    <3>4. CASE exec'[e].pc # "free" /\ Keeper(exec'[e], run'[r])
      BY <1>4, <2>3, <3>4 DEF LeaseKept
    <3> QED
      BY <3>1, <3>2, <3>3, <3>4 DEF Keeper
  <2> QED
    BY <2>2, <2>3
<1>9. UnfencedRecovers'
  <2> SUFFICES ASSUME NEW f \in Execs, exec'[f].pc = "release",
                      exec'[f].run \notin overlapped'
               PROVE  exec'[f].fenced \/ run'[exec'[f].run].recovering
    BY DEF UnfencedRecovers
  <2>1. CASE f = e
    BY <1>4, <1>5, <2>1 DEF Leased
  <2>2. CASE f # e
    <3>1. PICK q : q = exec[f].run
      OBVIOUS
    <3>2. exec'[f] = exec[f] /\ q \in Runs /\ q \notin overlapped
      BY <1>4, <2>2, <3>1 DEF TypeOK
    <3>3. CASE q = r
      BY <1>4, <1>5, <2>2, <3>1, <3>2, <3>3
    <3>4. CASE q # r
      <4>1. exec[f].fenced \/ run[q].recovering
        BY <3>1, <3>2 DEF LeaseInv, UnfencedRecovers
      <4> QED
        BY <1>4, <3>1, <3>2, <3>4, <4>1
    <3> QED
      BY <3>3, <3>4
  <2> QED
    BY <2>1, <2>2
<1>10. DroppedByRecovery'
  <2> SUFFICES ASSUME tick.pc \in {"settle", "clear"}, tick.run \notin overlapped,
                      tick.run \in leases'
               PROVE  FALSE
    BY <1>4 DEF DroppedByRecovery
  <2>1. tick.run \in Runs /\ Idle(tick.run)
    BY RecoveryFacts
  <2>2. tick.run # r
    BY <1>1, <1>2, <2>1 DEF Idle
  <2> QED
    BY <1>6, <2>1, <2>2 DEF LeaseInv, DroppedByRecovery
<1> QED
  BY <1>8, <1>9, <1>10 DEF LeaseInv

(* Steps that take no lease but the one of a pass about to launch, and     *)
(* take no run out of recovery.                                            *)
LEMMA LeaseFrame ==
  ASSUME TypeOK, LeaseInv, overlapped \subseteq overlapped',
         \A q \in leases' \ overlapped' : q \in leases \/ Inserting(q)',
         \A q : Inserting(q) => Inserting(q)',
         \A f \in Execs :
           /\ exec'[f].pc = exec[f].pc /\ exec'[f].run = exec[f].run
           /\ exec'[f].account = exec[f].account /\ exec'[f].fenced = exec[f].fenced,
         \A q \in Runs : run[q].recovering => run'[q].recovering,
         DroppedByRecovery'
  PROVE  LeaseInv'
<1>1. LeasesKept'
  <2> SUFFICES ASSUME NEW q \in leases', q \notin overlapped', ~Inserting(q)'
               PROVE  LeaseKept(q)'
    BY DEF LeasesKept, LeaseKept
  <2>1. q \in leases /\ q \notin overlapped /\ q \in Runs
    BY DEF TypeOK
  <2>2. LeaseKept(q) /\ ~Inserting(q)
    BY <2>1 DEF LeaseInv, LeasesKept
  <2>3. CASE Idle(q) /\ run[q].recovering
    BY <2>1, <2>3 DEF LeaseKept, Idle
  <2>4. ASSUME NEW f \in Execs, exec[f].pc # "free", exec[f].run = q,
               Keeper(exec[f], run[q])
        PROVE  LeaseKept(q)'
    <3>1. Keeper(exec'[f], run'[q])
      BY <2>1, <2>4 DEF Keeper
    <3> QED
      BY <2>4, <3>1 DEF LeaseKept
  <2> QED
    BY <2>2, <2>3, <2>4 DEF LeaseKept
<1>2. UnfencedRecovers'
  <2> SUFFICES ASSUME NEW f \in Execs, exec'[f].pc = "release",
                      exec'[f].run \notin overlapped'
               PROVE  exec'[f].fenced \/ run'[exec'[f].run].recovering
    BY DEF UnfencedRecovers
  <2>1. exec[f].run \in Runs /\ exec[f].run \notin overlapped
    BY DEF TypeOK
  <2> QED
    BY <2>1 DEF LeaseInv, UnfencedRecovers
<1> QED
  BY <1>1, <1>2 DEF LeaseInv

(* The run the pass settles or clears has neither a lease nor an           *)
(* execution.                                                              *)
LEMMA RecoveryLeases ==
  ASSUME TypeOK, OutcomeInv, LeaseInv, TickSettle \/ TickClear
  PROVE  LeaseInv'
<1>1. /\ UNCHANGED <<leases, exec, overlapped>> /\ tick.pc \in {"settle", "clear"}
  BY DEF TickSettle, TickClear
<1>2. PICK r \in Runs : r = tick.run
  BY <1>1, RecoveryFacts
<1>3. r \notin overlapped => r \notin leases /\ Idle(r)
  BY <1>1, <1>2, RecoveryFacts DEF LeaseInv, DroppedByRecovery
<1>4. \A q \in Runs \ {r} : run'[q] = run[q]
  <2>1. UNCHANGED run \/ \E doc : PatchRun(r, doc)
    BY <1>2, Zenon DEF TickSettle, TickClear
  <2> QED
    BY <2>1, Zenon DEF PatchRun, TypeOK
<1>5. tick'.pc \in {"idle", "next", "admit"} \/ (tick'.pc = "clear" /\ tick'.run = tick.run)
  <2>1. NextRun.pc \in {"idle", "next"}
    BY NextRunTypes
  <2>2. \A pc : TickGoto(pc) => tick'.pc = pc /\ tick'.run = tick.run
    BY TickFields DEF TickGoto
  <2> QED
    BY <2>1, <2>2, Zenon DEF TickSettle, TickClear
<1>6. LeasesKept'
  <2> SUFFICES ASSUME NEW q \in leases, q \notin overlapped PROVE LeaseKept(q)'
    BY <1>1 DEF LeasesKept
  <2>1. q \in Runs \ {r} /\ run'[q] = run[q] /\ LeaseKept(q)
    BY <1>3, <1>4 DEF TypeOK, LeaseInv, LeasesKept
  <2>2. ~Inserting(q)
    BY <1>1 DEF Inserting
  <2> QED
    BY <1>1, <2>1, <2>2 DEF LeaseKept, Idle
<1>7. UnfencedRecovers'
  <2> SUFFICES ASSUME NEW f \in Execs, exec[f].pc = "release", exec[f].run \notin overlapped
               PROVE  exec[f].fenced \/ run'[exec[f].run].recovering
    BY <1>1 DEF UnfencedRecovers
  <2>1. exec[f].run \in Runs \ {r}
    BY <1>3 DEF TypeOK, Idle
  <2> QED
    BY <1>4, <2>1 DEF LeaseInv, UnfencedRecovers
<1>8. DroppedByRecovery'
  BY <1>1, <1>5 DEF LeaseInv, DroppedByRecovery
<1> QED
  BY <1>6, <1>7, <1>8 DEF LeaseInv

(* The lease passes from the pass to the execution it spawns.              *)
LEMMA InsertLeases ==
  ASSUME TypeOK, OutcomeInv, LeaseInv, TickInsert
  PROVE  LeaseInv'
<1>1. /\ UNCHANGED <<run, leases>> /\ tick.pc = "insert" /\ tick' = NextRun
      /\ NoteOverlap(tick.run)
  BY DEF TickInsert, storeVars
<1>2. PICK r \in Runs : r = tick.run
  BY <1>1, TickFacts
<1>3. PICK x : x = [IdleExec EXCEPT !.pc = "load", !.run = r, !.account = TRUE]
  OBVIOUS
<1>4. PICK e \in Execs : exec[e].pc = "free" /\ SetExec(e, x)
  BY <1>2, <1>3, Zenon DEF TickInsert
<1>5. x.pc = "load" /\ x.run = r /\ x.account
  BY <1>3, ValueTypes, Zenon DEF ExecState
<1>6. exec'[e] = x /\ \A f \in Execs \ {e} : exec'[f] = exec[f]
  BY <1>4, Zenon DEF SetExec, TypeOK
<1>7. overlapped \subseteq overlapped'
  BY <1>1 DEF NoteOverlap
<1>8. tick'.pc \in {"idle", "next"}
  BY <1>1, NextRunTypes
<1>9. LeasesKept'
  <2> SUFFICES ASSUME NEW q \in leases, q \notin overlapped' PROVE LeaseKept(q)'
    BY <1>1 DEF LeasesKept
  <2>1. CASE q = r
    BY <1>5, <1>6, <2>1 DEF LeaseKept, Keeper
  <2>2. CASE q # r
    <3>1. LeaseKept(q) /\ ~Inserting(q)
      BY <1>2, <1>7, <2>2 DEF LeaseInv, LeasesKept, Inserting
    <3>2. Idle(q) => Idle(q)'
      BY <1>5, <1>6, <2>2 DEF Idle
    <3>3. ASSUME NEW f \in Execs, exec[f].pc # "free", exec[f].run = q,
                 Keeper(exec[f], run[q])
          PROVE  LeaseKept(q)'
      <4>1. exec'[f] = exec[f]
        BY <1>4, <1>6, <3>3
      <4> QED
        BY <1>1, <3>3, <4>1 DEF LeaseKept
    <3> QED
      BY <1>1, <3>1, <3>2, <3>3 DEF LeaseKept
  <2> QED
    BY <2>1, <2>2
<1>10. UnfencedRecovers'
  <2> SUFFICES ASSUME NEW f \in Execs, exec'[f].pc = "release",
                      exec'[f].run \notin overlapped'
               PROVE  exec'[f].fenced \/ run'[exec'[f].run].recovering
    BY DEF UnfencedRecovers
  <2>1. exec'[f] = exec[f]
    BY <1>5, <1>6
  <2> QED
    BY <1>1, <1>7, <2>1 DEF LeaseInv, UnfencedRecovers
<1>11. DroppedByRecovery'
  BY <1>8 DEF DroppedByRecovery
<1> QED
  BY <1>9, <1>10, <1>11 DEF LeaseInv

LEMMA PassLeases ==
  ASSUME TypeOK, OutcomeInv, LeaseInv, MaxIoErrors = 0, TickStep \/ TickError
  PROVE  LeaseInv'
<1>1. ~TickError
  BY NoStoreErrors DEF TickError
<1>2. NextRun.pc \in {"idle", "next"} /\ IdleTick.pc = "idle"
  BY NextRunTypes, IdlePc
<1>3. \A pc : TickGoto(pc) => tick'.pc = pc /\ tick'.run = tick.run
  BY TickFields DEF TickGoto
<1>4. tick \in TickState
  BY Zenon DEF TypeOK
<1>5. CASE TickFenced
  <2>1. PICK t : t = [tick EXCEPT !.pc = "settle", !.fencing = FALSE, !.seen = NoCkpt]
    OBVIOUS
  <2>2. t.pc = "settle" /\ t.run = tick.run
    BY <1>4, <2>1, Zenon DEF TickState
  <2>3. /\ leases' = leases \ {tick.run} /\ UNCHANGED <<run, exec, overlapped>>
        /\ tick' = t /\ tick.pc = "recover"
    BY <1>5, <2>1 DEF TickFenced
  <2>4. DroppedByRecovery' /\ \A q : ~Inserting(q)
    BY <2>2, <2>3 DEF DroppedByRecovery, Inserting
  <2> QED
    BY <2>3, <2>4, LeaseFrame
<1>6. CASE TickAcquire
  <2>1. /\ UNCHANGED <<run, exec, overlapped>> /\ tick.pc = "acquire"
    BY <1>6 DEF TickAcquire, storeVars
  <2>2. \/ leases' = leases \cup {tick.run} /\ tick'.pc = "insert" /\ tick'.run = tick.run
        \/ leases' = leases /\ tick'.pc \in {"idle", "next"}
    BY <1>2, <1>3, <1>6, Zenon DEF TickAcquire
  <2>3. DroppedByRecovery' /\ \A q : ~Inserting(q)
    BY <2>1, <2>2 DEF DroppedByRecovery, Inserting
  <2>4. \A q \in leases' : q \in leases \/ Inserting(q)'
    BY <2>2 DEF Inserting
  <2> QED
    BY <2>1, <2>3, <2>4, LeaseFrame
<1>7. CASE TickBegin \/ TickPick \/ TickFenceBegin \/ TickFenceFailed \/ TickAdmit
  <2>1. /\ UNCHANGED <<run, exec, leases>> /\ tick.pc # "insert"
        /\ overlapped \subseteq overlapped'
    BY <1>7 DEF TickBegin, TickPick, TickFenceBegin, TickFenceFailed, TickAdmit,
       NoteOverlap, storeVars
  <2>2. tick'.pc \notin {"settle", "clear"}
    <3>1. CASE TickBegin
      <4>1. ASSUME NEW a, NEW b, NEW c, NEW d
            PROVE  [tick EXCEPT !.pc = "next", !.todo = a, !.queued = b, !.recovering = c,
                                !.beside = d].pc = "next"
        BY <1>4, Zenon DEF TickState
      <4>2. PICK a, b, c, d : /\ a = {r \in Runs : run[r].status \in ActiveStatuses}
                              /\ b = {r \in a : run[r].status = "queued"}
                              /\ c = {r \in a : run[r].recovering}
                              /\ d = {r \in a : Executions(r) # {}}
        OBVIOUS
      <4>3. \/ tick' = IdleTick
            \/ tick' = [tick EXCEPT !.pc = "next", !.todo = a, !.queued = b,
                                    !.recovering = c, !.beside = d]
        BY <3>1, <4>2, Zenon DEF TickBegin
      <4>4. CASE tick' = [tick EXCEPT !.pc = "next", !.todo = a, !.queued = b,
                                  !.recovering = c, !.beside = d]
        BY <4>1, <4>4
      <4> QED
        BY <1>2, <4>3, <4>4
    <3>2. CASE TickPick
      <4>1. ASSUME NEW a, NEW b, NEW c
            PROVE  /\ [tick EXCEPT !.todo = a, !.run = b, !.pc = c].pc = c
                   /\ [tick EXCEPT !.todo = a].pc = tick.pc
        BY <1>4, Zenon DEF TickState
      <4>2. PICK r \in tick.todo :
              tick' = IF Handled(r)
                      THEN [tick EXCEPT
                              !.todo = tick.todo \ {r}, !.run = r,
                              !.pc = IF r \in tick.recovering THEN "recover" ELSE "admit"]
                      ELSE IF tick.todo \ {r} = {} THEN IdleTick
                      ELSE [tick EXCEPT !.todo = tick.todo \ {r}]
        BY <3>2, Zenon DEF TickPick
      <4>3. PICK a, c : a = tick.todo \ {r}
                        /\ c = IF r \in tick.recovering THEN "recover" ELSE "admit"
        OBVIOUS
      <4>4. \/ tick' = IdleTick
            \/ tick' = [tick EXCEPT !.todo = a, !.run = r, !.pc = c]
            \/ tick' = [tick EXCEPT !.todo = a]
        BY <4>2, <4>3, Zenon
      <4>5. CASE tick' = [tick EXCEPT !.todo = a, !.run = r, !.pc = c]
        BY <4>1, <4>3, <4>5
      <4>6. CASE tick' = [tick EXCEPT !.todo = a]
        BY <3>2, <4>1, <4>6 DEF TickPick
      <4> QED
        BY <1>2, <4>4, <4>5, <4>6
    <3>3. CASE TickFenceBegin
      <4>1. [tick EXCEPT !.fencing = TRUE, !.seen = ckpt[tick.run]].pc = tick.pc
        BY <1>4, Zenon DEF TickState
      <4> QED
        BY <3>3, <4>1 DEF TickFenceBegin
    <3>4. CASE TickFenceFailed \/ TickAdmit
      <4>1. tick'.pc \in {"idle", "next", "acquire"}
        BY <1>2, <1>3, <3>4, Zenon DEF TickFenceFailed, TickAdmit
      <4> QED
        BY <4>1
    <3> QED
      BY <1>7, <3>1, <3>2, <3>3, <3>4
  <2>3. DroppedByRecovery' /\ \A q : ~Inserting(q)
    BY <2>1, <2>2 DEF DroppedByRecovery, Inserting
  <2> QED
    BY <2>1, <2>3, LeaseFrame
<1> QED
  BY <1>1, <1>5, <1>6, <1>7, RecoveryLeases, InsertLeases DEF TickStep

LEMMA OwnerLeases ==
  ASSUME TypeOK, LeaseInv, NEW r \in Runs, OwnerStep(r) \/ RetryDue(r)
  PROVE  LeaseInv'
<1>1. UNCHANGED <<leases, tick, overlapped>> /\ run[r] \in RunDoc
  <2>1. UNCHANGED <<leases, tick, overlapped>>
    BY DEF OwnerStep, Cancel, Resume, RetryDue, workerVars
  <2> QED
    BY <2>1, Zenon DEF TypeOK
<1>2. \A f \in Execs :
        /\ exec'[f].pc = exec[f].pc /\ exec'[f].run = exec[f].run
        /\ exec'[f].account = exec[f].account /\ exec'[f].fenced = exec[f].fenced
  <2>1. CASE UNCHANGED exec
    BY <2>1
  <2>2. CASE Cancel(r) /\ active[r] # NoExec
    <3>1. PICK g \in Execs : g = active[r]
      BY <2>2, Zenon DEF TypeOK
    <3>2. exec[g] \in ExecState
      BY Zenon DEF TypeOK
    <3>3. PICK x : x = [exec[g] EXCEPT !.token = TRUE]
      OBVIOUS
    <3>4. exec'[g] = x /\ \A f \in Execs \ {g} : exec'[f] = exec[f]
      BY <2>2, <3>1, <3>3, Zenon DEF TypeOK, Cancel
    <3>5. /\ x.pc = exec[g].pc /\ x.run = exec[g].run
          /\ x.account = exec[g].account /\ x.fenced = exec[g].fenced
      BY <3>2, <3>3, Zenon DEF ExecState
    <3> QED
      BY <3>4, <3>5, Zenon
  <2> QED
    BY <2>1, <2>2 DEF OwnerStep, Cancel, Resume, RetryDue, workerVars
<1>3. run[r].recovering => run'[r].recovering
  <2>1. CASE Cancel(r)
    <3>1. PICK asked : asked = [run[r] EXCEPT !.cancel = TRUE]
      OBVIOUS
    <3>2. asked.recovering = run[r].recovering
      BY <1>1, <3>1, Zenon DEF RunDoc
    <3>3. PatchRun(r, asked) \/ ~run[r].recovering
      BY <2>1, <3>1, Zenon DEF Cancel
    <3> QED
      BY <3>2, <3>3, Zenon DEF PatchRun, TypeOK
  <2>2. CASE RetryDue(r)
    <3>1. run'[r] = [run[r] EXCEPT !.waiting = FALSE]
      BY <2>2, Zenon DEF RetryDue, PatchRun, TypeOK
    <3> QED
      BY <1>1, <3>1, Zenon DEF RunDoc
  <2>3. CASE Resume(r)
    <3>1. PICK doc : doc = [Requeued(run[r]) EXCEPT !.cancel = FALSE, !.retry = 0,
                                                    !.waiting = FALSE]
      OBVIOUS
    <3>2. Requeued(run[r]) \in RunDoc /\ Requeued(run[r]).recovering
      BY <1>1, PatchTypes, Zenon DEF Requeued, RunDoc, Statuses
    <3>3. doc.recovering
      BY <3>1, <3>2, Zenon DEF RunDoc
    <3>4. PatchRun(r, doc)
      BY <2>3, <3>1, Zenon DEF Resume
    <3> QED
      BY <3>3, <3>4, Zenon DEF PatchRun, TypeOK
  <2> QED
    BY <2>1, <2>2, <2>3 DEF OwnerStep
<1>4. \A q \in Runs \ {r} : run'[q] = run[q]
  <2>1. \E doc : PatchRun(r, doc)
    BY Zenon DEF OwnerStep, Cancel, Resume, RetryDue
  <2> QED
    BY <2>1, Zenon DEF PatchRun, TypeOK
<1>5. \A q \in Runs : run[q].recovering => run'[q].recovering
  BY <1>3, <1>4
<1>6. DroppedByRecovery' /\ \A q : Inserting(q) => Inserting(q)'
  BY <1>1 DEF LeaseInv, DroppedByRecovery, Inserting
<1> QED
  BY <1>1, <1>2, <1>5, <1>6, LeaseFrame

LEMMA ManagerLeases ==
  ASSUME TypeOK, LeaseInv,
         \/ Shutdown \/ Closed \/ Crash \/ Restart \/ UNCHANGED vars
         \/ \E a \in Attempts : RunnerStep(a)
  PROVE  LeaseInv'
<1>1. CASE /\ \/ Shutdown \/ Restart \/ UNCHANGED vars
              \/ \E a \in Attempts : RunnerStep(a)
  <2>1. UNCHANGED <<leases, exec, tick, overlapped>>
    BY <1>1 DEF Shutdown, Restart, vars, RunnerStep, ClientStartsVm, ClientOrphaned,
       workerVars
  <2>2. ASSUME NEW q \in Runs, run[q].recovering PROVE run'[q].recovering
    <3>1. CASE UNCHANGED run
      BY <2>2, <3>1
    <3>2. CASE Restart
      <4>1. run[q] \in RunDoc
        BY Zenon DEF TypeOK
      <4>2. /\ Requeued(run[q]).recovering
            /\ [run[q] EXCEPT !.status = "interrupted"].recovering = run[q].recovering
            /\ [run[q] EXCEPT !.recovering = TRUE].recovering
        BY <4>1, Zenon DEF Requeued, RunDoc
      <4>3. run'[q] = Restored(q)
        BY <3>2 DEF Restart
      <4>4. \/ run'[q] = Requeued(run[q]) \/ run'[q] = run[q]
            \/ run'[q] = [run[q] EXCEPT !.status = "interrupted"]
            \/ run'[q] = [run[q] EXCEPT !.recovering = TRUE]
        BY <4>3, Zenon DEF Restored
      <4> QED
        BY <2>2, <4>2, <4>4, Zenon
    <3> QED
      BY <1>1, <3>1, <3>2 DEF Shutdown, vars, RunnerStep, ClientStartsVm, ClientOrphaned,
         storeVars
  <2>3. DroppedByRecovery' /\ \A q : Inserting(q) => Inserting(q)'
    BY <2>1 DEF LeaseInv, DroppedByRecovery, Inserting
  <2> QED
    BY <2>1, <2>2, <2>3, LeaseFrame
<1>2. CASE Closed \/ Crash
  <2>1. leases' = {} /\ tick' = IdleTick /\ \A f \in Execs : exec'[f] = IdleExec
    BY <1>2, Zenon DEF Closed, Crash, Gone
  <2> QED
    BY <2>1, IdlePc DEF LeaseInv, LeasesKept, UnfencedRecovers, DroppedByRecovery
<1> QED
  BY <1>1, <1>2

(* Without store errors no account lease is leaked: the pass that took it  *)
(* launches the run or gives it back, an execution that could fence its VM *)
(* gives it back (execution.rs release), and recovery drops the one of an  *)
(* execution that could not (schedule.rs recover).                         *)
THEOREM LeasesNotLeaked ==
  ASSUME MaxIoErrors = 0
  PROVE  Spec => []LeaseNotLeaked
<1>1. Init => LeaseInv
  BY IdlePc, Zenon DEF Init, IdleTick, LeaseInv, LeasesKept, UnfencedRecovers,
     DroppedByRecovery
<1>2. TypeOK /\ OutcomeInv /\ LeaseInv /\ [Next]_vars => LeaseInv'
  BY ExecLeases, PassLeases, OwnerLeases, ManagerLeases, Zenon DEF Next
<1>3. TypeOK /\ LeaseInv => LeaseNotLeaked
  <2> SUFFICES ASSUME TypeOK, LeaseInv, NEW r \in leases, r \notin overlapped
               PROVE  \/ Executions(r) # {} \/ run[r].recovering
                      \/ tick.run = r /\ tick.pc = "insert"
    BY DEF LeaseNotLeaked
  <2>1. LeaseKept(r)
    BY DEF LeaseInv, LeasesKept
  <2> QED
    BY <2>1 DEF LeaseKept, Inserting, Executions
<1> QED
  BY <1>1, <1>2, <1>3, TypeCorrect, OutcomesSound, PTL DEF Spec
=============================================================================

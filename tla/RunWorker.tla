----------------------------- MODULE RunWorker -----------------------------
(***************************************************************************)
(* The run worker of the installation manager: how a queued conversation   *)
(* turn is launched, supervised, cancelled, retried, fenced and recovered   *)
(* (src/crates/installation/src/worker, recovery.rs and the attempt         *)
(* ownership of nodes/placement.rs).                                        *)
(*                                                                         *)
(* Every run executes in a private VM (runner_url configured, the           *)
(* production setting of execution::uses_vm).                               *)
(*                                                                         *)
(* Actors: the scheduling pass (`tick`, serialised by tick_lock), one task  *)
(* per execution, the owner's requests (cancel, resume), the runner client  *)
(* and the VM of each attempt, and the crash or shutdown of the manager.    *)
(*                                                                         *)
(* Grain: an action ends where the code awaits something outside the        *)
(* process (the runner, the child, an account) or a lock another actor may  *)
(* hold, or where it commits a write a crash may separate from the next.    *)
(*                                                                         *)
(* FencedAndForgotten, RecoveringSkipped, SilenceIsStopped,                 *)
(* CompletionIgnored, ClearedUnchecked, RaisedHolding, LoadedNotStored,     *)
(* FenceRetried, UncappedRetry, NothingToFence and ReleasedIfSettled        *)
(* are faulty forms of the definitions that follow them. The specification  *)
(* uses none of them: they show which slip each property would catch.       *)
(***************************************************************************)
EXTENDS Integers, FiniteSets

CONSTANTS
    Runs,           \* conversations' runs, in creation order (1 .. n)
    Execs,          \* execution tasks that may overlap in one manager process
    Attempts,       \* identifiers `config::id()` can return for runner attempts
    MaxRetries,     \* run_retry::MAX_ATTEMPTS
    MaxRecoveries,  \* execution::MAX_CONTROLLER_RECOVERIES
    MaxLaunches, MaxStops, MaxCancels, MaxResumes, MaxIoErrors  \* bounds

CONSTANTS
    NoExec, NoAttempt,  \* absent values
    Pass                \* the scheduling pass, as holder of the preparation lock

NoRun == 0

ASSUME ConstantsAssumption ==
    /\ Runs \subseteq Nat \ {NoRun}
    /\ NoExec \notin Execs
    /\ Pass \notin Execs \cup {NoExec}
    /\ NoAttempt \notin Attempts
    /\ MaxRetries \in Nat
    /\ MaxRecoveries \in Nat
    /\ MaxLaunches \in Nat
    /\ MaxStops \in Nat
    /\ MaxCancels \in Nat
    /\ MaxResumes \in Nat
    /\ MaxIoErrors \in Nat

VARIABLES
    phase,      \* "up", "stopping" (shutdown token cancelled) or "down"
    run,        \* [Runs -> RunDoc]: the run documents of the store
    ckpt,       \* [Runs -> Ckpt]: the stored checkpoints, run-checkpoint:{id}
    owner,      \* [Attempts -> Runs or NoRun]: node-attempts, by attempt
    held,       \* attempts whose node-attempts record is not released
    client,     \* attempts whose supervised runner client is alive
    vm,         \* [Attempts -> "none", "live" or "gone"]: the runner's side
    active,     \* Worker.active: [Runs -> Execs or NoExec]
    leases,     \* runs that hold an account lease
    prep,       \* holder of Worker.preparation
    exec,       \* [Execs -> ExecState]: the execution tasks
    tick,       \* the scheduling pass
    overlapped, \* history: runs recovered or launched beside their own execution
    used        \* how much of each bound has been spent

storeVars == <<run, ckpt, owner, held>>
runnerVars == <<client, vm>>
workerVars == <<active, leases, prep, exec, tick>>
vars == <<phase, run, ckpt, owner, held, client, vm, active, leases, prep,
          exec, tick, overlapped, used>>
----------------------------------------------------------------------------
Statuses == {"queued", "running", "succeeded", "failed", "cancelled",
             "interrupted"}
ActiveStatuses == {"queued", "running"}
ResumableStatuses == {"failed", "interrupted", "cancelled"}

(* cause: last_error is empty, set without a retry cause, or retriable.    *)
Ckpt == [exists: BOOLEAN, launched: BOOLEAN, prepared: BOOLEAN,
         runner: Attempts \cup {NoAttempt}, proc: Attempts \cup {NoAttempt},
         completed: BOOLEAN, cause: {"none", "terminal", "retriable"},
         settled: {"none"} \cup Statuses, recoveries: 0 .. MaxRecoveries]

RunDoc == [status: Statuses, recovering: BOOLEAN, cancel: BOOLEAN,
           started: BOOLEAN, session: BOOLEAN, resumable: BOOLEAN,
           retry: 0 .. MaxRetries, waiting: BOOLEAN]

ExecPcs == {"free", "load", "mark", "prepare", "reserve", "placed",
            "spawn", "start", "wait", "afence", "judge", "switch", "fail",
            "failpatch", "efence", "release", "remove", "requeue"}

Exits == {"none", "zero", "error", "stopped", "timeout", "exhausted",
          "interrupted", "rejected", "controllerFailed"}

Errors == {"none", "conflict", "nocapacity", "unavailable", "retriable"}

(* fencing: the fence has read its checkpoint, `seen`, and awaits the       *)
(* runner; prev: the run had been launched before this attempt.             *)
ExecState == [pc: ExecPcs, run: Runs \cup {NoRun}, ck: Ckpt, token: BOOLEAN,
              attempt: Attempts \cup {NoAttempt}, exit: Exits, err: Errors,
              outcome: Statuses, prev: BOOLEAN, fencing: BOOLEAN, seen: Ckpt,
              fenced: BOOLEAN, account: BOOLEAN]

TickPcs == {"idle", "next", "recover", "settle", "clear", "admit", "acquire",
            "insert"}

TickState == [pc: TickPcs, todo: SUBSET Runs, run: Runs \cup {NoRun},
              queued: SUBSET Runs, recovering: SUBSET Runs, beside: SUBSET Runs,
              fencing: BOOLEAN, seen: Ckpt]

Attempting == {"placed", "spawn", "start", "wait"}

(* Type correctness: every variable in its set; an execution that was       *)
(* spawned, and a pass that picked a run, have one; an execution between    *)
(* its reservation and the end of its client has its attempt.               *)
TypeOK ==
    /\ phase \in {"up", "stopping", "down"}
    /\ run \in [Runs -> RunDoc]
    /\ ckpt \in [Runs -> Ckpt]
    /\ owner \in [Attempts -> Runs \cup {NoRun}]
    /\ held \in SUBSET Attempts
    /\ client \in SUBSET Attempts
    /\ vm \in [Attempts -> {"none", "live", "gone"}]
    /\ active \in [Runs -> Execs \cup {NoExec}]
    /\ leases \in SUBSET Runs
    /\ prep \in Execs \cup {NoExec, Pass}
    /\ exec \in [Execs -> ExecState]
    /\ tick \in TickState
    /\ overlapped \in SUBSET Runs
    /\ used \in [launch: 0 .. MaxLaunches, stop: 0 .. MaxStops,
                 cancel: 0 .. MaxCancels, resume: 0 .. MaxResumes, io: 0 .. MaxIoErrors]
    /\ \A e \in Execs :
         /\ exec[e].pc # "free" => exec[e].run \in Runs
         /\ exec[e].pc \in Attempting => exec[e].attempt \in Attempts
    /\ tick.pc \notin {"idle", "next"} => tick.run \in Runs
----------------------------------------------------------------------------
NoCkpt == [exists |-> FALSE, launched |-> FALSE, prepared |-> FALSE,
           runner |-> NoAttempt, proc |-> NoAttempt, completed |-> FALSE,
           cause |-> "none", settled |-> "none", recoveries |-> 0]

Fresh == [NoCkpt EXCEPT !.exists = TRUE]

IdleExec == [pc |-> "free", run |-> NoRun, ck |-> NoCkpt, token |-> FALSE,
             attempt |-> NoAttempt, exit |-> "none", err |-> "none",
             outcome |-> "queued", prev |-> FALSE, fencing |-> FALSE,
             seen |-> NoCkpt, fenced |-> FALSE, account |-> FALSE]

IdleTick == [pc |-> "idle", todo |-> {}, run |-> NoRun, queued |-> {},
             recovering |-> {}, beside |-> {}, fencing |-> FALSE, seen |-> NoCkpt]

QueuedRun == [status |-> "queued", recovering |-> FALSE, cancel |-> FALSE,
              started |-> FALSE, session |-> FALSE, resumable |-> FALSE,
              retry |-> 0, waiting |-> FALSE]

Init ==
    /\ phase = "up"
    /\ run = [r \in Runs |-> QueuedRun]
    /\ ckpt = [r \in Runs |-> NoCkpt]
    /\ owner = [a \in Attempts |-> NoRun]
    /\ held = {}
    /\ client = {}
    /\ vm = [a \in Attempts |-> "none"]
    /\ active = [r \in Runs |-> NoExec]
    /\ leases = {}
    /\ prep = NoExec
    /\ exec = [e \in Execs |-> IdleExec]
    /\ tick = IdleTick
    /\ overlapped = {}
    /\ used = [launch |-> 0, stop |-> 0, cancel |-> 0, resume |-> 0, io |-> 0]
----------------------------------------------------------------------------
(* Shorthands for the writes the handlers make. *)

PatchRun(r, doc) == run' = [run EXCEPT ![r] = doc]
Store(r, c) == ckpt' = [ckpt EXCEPT ![r] = c]
SetExec(e, s) == exec' = [exec EXCEPT ![e] = s]

Executions(r) == {e \in Execs : exec[e].pc # "free" /\ exec[e].run = r}
Stopping(e) == exec[e].token \/ phase = "stopping"

(* Fields a patch back to recovery sets, and the ones settling sets.        *)
Requeued(doc) == [doc EXCEPT !.status = "queued", !.recovering = TRUE]

SettledRun(doc, status) ==
    [doc EXCEPT !.status = status, !.recovering = FALSE,
                !.retry = IF status = "cancelled" THEN 0 ELSE @,
                !.waiting = IF status = "cancelled" THEN FALSE ELSE @]

CancelledRun(doc) == SettledRun(doc, "cancelled")

(* recovery::fence stops the process the checkpoint names, then its runner  *)
(* attempt. A runner that confirmed the stop (or whose lease lapsed) never  *)
(* starts that attempt again, and its placement is released.                *)
FenceTarget(c) == IF c.prepared THEN c.runner ELSE NoAttempt

FenceConfirmed(r, c) ==
    LET a == FenceTarget(c) IN
    /\ client' = client \ {c.proc}
    /\ vm' = [x \in Attempts |-> IF x = a THEN "gone" ELSE vm[x]]
    /\ held' = held \ {a}
    /\ ckpt' = IF c.exists THEN [ckpt EXCEPT ![r] = [c EXCEPT !.proc = NoAttempt]]
                           ELSE ckpt
----------------------------------------------------------------------------
(* The scheduling pass: Worker::tick and try_launch (worker/schedule.rs).   *)

TickGoto(pc) == tick' = [tick EXCEPT !.pc = pc]

(* Leave try_launch for this run and go on with the pass. *)
NextRun ==
    IF tick.todo = {} THEN IdleTick
    ELSE [tick EXCEPT !.pc = "next", !.run = NoRun, !.fencing = FALSE,
                      !.seen = NoCkpt]

(* tick reads every active run once; each is then handled from that copy.   *)
TickBegin ==
    /\ phase = "up"
    /\ tick.pc = "idle"
    /\ LET listed == {r \in Runs : run[r].status \in ActiveStatuses} IN
       tick' = IF listed = {} THEN IdleTick
               ELSE [tick EXCEPT !.pc = "next", !.todo = listed,
                       !.queued = {r \in listed : run[r].status = "queued"},
                       !.recovering = {r \in listed : run[r].recovering},
                       !.beside = {r \in listed : Executions(r) # {}}]
    /\ UNCHANGED <<phase, storeVars, runnerVars, active, leases, prep, exec,
                   overlapped, used>>

(* Only a run that was queued when the pass listed it is handled.           *)
RecoveringSkipped(r) == r \in tick.queued \ tick.recovering

Handled(r) == r \in tick.queued

(* try_launch begins with the oldest listed run. A VM run locks no project  *)
(* and membership of Worker.active is not looked at.                        *)
TickPick ==
    /\ tick.pc = "next"
    /\ \E r \in tick.todo :
         /\ \A o \in tick.todo : r <= o
         /\ LET rest == tick.todo \ {r} IN
            tick' = IF Handled(r)
                    THEN [tick EXCEPT
                            !.todo = rest, !.run = r,
                            !.pc = IF r \in tick.recovering THEN "recover"
                                                            ELSE "admit"]
                    ELSE IF rest = {} THEN IdleTick
                    ELSE [tick EXCEPT !.todo = rest]
    /\ UNCHANGED <<phase, storeVars, runnerVars, active, leases, prep, exec,
                   overlapped, used>>

(* History only: the pass recovers or launches a run one of whose           *)
(* executions had not ended when it listed the run.                         *)
NoteOverlap(r) ==
    overlapped' = IF r \in tick.beside THEN overlapped \cup {r} ELSE overlapped

(* recover: recovery::fence loads the checkpoint, then awaits the runner.   *)
TickFenceBegin ==
    /\ tick.pc = "recover"
    /\ ~tick.fencing
    /\ tick' = [tick EXCEPT !.fencing = TRUE, !.seen = ckpt[tick.run]]
    /\ NoteOverlap(tick.run)
    /\ UNCHANGED <<phase, storeVars, runnerVars, active, leases, prep, exec, used>>

(* Once fenced, accounts.recover_run drops the lease kept for this run.     *)
TickFenced ==
    /\ tick.pc = "recover"
    /\ tick.fencing
    /\ FenceConfirmed(tick.run, tick.seen)
    /\ leases' = leases \ {tick.run}
    /\ tick' = [tick EXCEPT !.pc = "settle", !.fencing = FALSE, !.seen = NoCkpt]
    /\ UNCHANGED <<phase, run, owner, active, prep, exec, overlapped, used>>

SilenceIsStopped ==
    /\ tick.pc = "recover"
    /\ tick.fencing
    /\ held' = held \ {FenceTarget(tick.seen)}
    /\ leases' = leases \ {tick.run}
    /\ tick' = [tick EXCEPT !.pc = "settle", !.fencing = FALSE, !.seen = NoCkpt]
    /\ UNCHANGED <<phase, run, ckpt, owner, runnerVars, active, prep, exec,
                   overlapped, used>>

(* recover_or_wait: an unconfirmed stop leaves the run in recovery.         *)
TickFenceFailed ==
    /\ tick.pc = "recover"
    /\ tick.fencing
    /\ tick' = NextRun
    /\ UNCHANGED <<phase, storeVars, runnerVars, active, leases, prep, exec,
                   overlapped, used>>

CompletionIgnored(r) ==
    IF run[r].cancel THEN "cancelled" ELSE ckpt[r].settled

(* recover settles a cancelled, a settled or a completed run.               *)
RecoverOutcome(r) ==
    IF run[r].cancel THEN "cancelled"
    ELSE IF ckpt[r].settled # "none" THEN ckpt[r].settled
    ELSE IF ckpt[r].completed THEN "succeeded"
    ELSE "none"

TickSettle ==
    /\ tick.pc = "settle"
    /\ LET r == tick.run
           outcome == RecoverOutcome(r) IN
       IF outcome = "none"
       THEN TickGoto("clear") /\ UNCHANGED run
       ELSE /\ PatchRun(r, SettledRun(
                 [run[r] EXCEPT !.resumable =
                    @ /\ (run[r].cancel \/ ckpt[r].settled # "none")], outcome))
            /\ tick' = NextRun
    /\ UNCHANGED <<phase, ckpt, owner, held, runnerVars, active, leases, prep,
                   exec, overlapped, used>>

ClearedUnchecked ==
    /\ tick.pc = "clear"
    /\ PatchRun(tick.run, [run[tick.run] EXCEPT !.recovering = FALSE])
    /\ TickGoto("admit")
    /\ UNCHANGED <<phase, ckpt, owner, held, runnerVars, active, leases, prep,
                   exec, overlapped, used>>

(* The transaction that ends recovery checks for a cancellation again.      *)
TickClear ==
    /\ tick.pc = "clear"
    /\ LET r == tick.run IN
       IF run[r].cancel
       THEN PatchRun(r, CancelledRun(run[r])) /\ tick' = NextRun
       ELSE PatchRun(r, [run[r] EXCEPT !.recovering = FALSE])
            /\ TickGoto("admit")
    /\ UNCHANGED <<phase, ckpt, owner, held, runnerVars, active, leases, prep,
                   exec, overlapped, used>>

(* Status and retry delay are read again; then the preparation lock is      *)
(* tried and the capacity of the nodes checked (either may turn it away).   *)
Admissible(r) == run[r].status = "queued" /\ ~run[r].waiting

TickAdmit ==
    /\ tick.pc = "admit"
    /\ \/ /\ Admissible(tick.run)
          /\ prep = NoExec
          /\ used.launch < MaxLaunches
          /\ prep' = Pass
          /\ TickGoto("acquire")
       \/ tick' = NextRun /\ UNCHANGED prep
    /\ UNCHANGED <<phase, storeVars, runnerVars, active, leases, exec,
                   overlapped, used>>

(* accounts.acquire refuses a run that already holds a lease; otherwise it  *)
(* finds an eligible account or none. With the lease in hand, shutdown and  *)
(* status are looked at again, and the lease given back.                    *)
TickAcquire ==
    /\ tick.pc = "acquire"
    /\ \/ /\ tick.run \notin leases
          /\ phase # "stopping" /\ run[tick.run].status = "queued"
          /\ leases' = leases \cup {tick.run}
          /\ TickGoto("insert")
          /\ UNCHANGED prep
       \/ tick' = NextRun /\ prep' = NoExec /\ UNCHANGED leases
    /\ UNCHANGED <<phase, storeVars, runnerVars, active, exec, overlapped, used>>

(* The active lock is taken only now: the run joins Worker.active and its   *)
(* execution is spawned with the lease and the preparation guard.           *)
TickInsert ==
    /\ tick.pc = "insert"
    /\ used.launch < MaxLaunches
    /\ LET r == tick.run IN
       \E e \in Execs :
         /\ exec[e].pc = "free"
         /\ SetExec(e, [IdleExec EXCEPT !.pc = "load", !.run = r,
                                       !.account = TRUE])
         /\ active' = [active EXCEPT ![r] = e]
         /\ prep' = e
         /\ NoteOverlap(r)
    /\ tick' = NextRun
    /\ used' = [used EXCEPT !.launch = @ + 1]
    /\ UNCHANGED <<phase, storeVars, runnerVars, leases>>

(* accounts.acquire records the lease before it saves the account, and the  *)
(* pass reads the run once more: an error after that leaves the lease.      *)
LeasesAfterError(r, acquiring) ==
    IF acquiring THEN {leases, leases \cup {r}} ELSE {leases}

(* A store error ends the pass; the guard is dropped, a lease is not.       *)
TickError ==
    /\ tick.pc \notin {"idle", "next", "insert"}
    /\ used.io < MaxIoErrors
    /\ used' = [used EXCEPT !.io = @ + 1]
    /\ prep' = IF prep = Pass THEN NoExec ELSE prep
    /\ leases' \in LeasesAfterError(tick.run, tick.pc = "acquire")
    /\ tick' = IdleTick
    /\ UNCHANGED <<phase, storeVars, runnerVars, active, exec, overlapped>>

TickStep ==
    \/ TickBegin \/ TickPick \/ TickFenceBegin \/ TickFenced
    \/ TickFenceFailed \/ TickSettle \/ TickClear \/ TickAdmit \/ TickAcquire
    \/ TickInsert
----------------------------------------------------------------------------
(* One execution: execution::execute, launch::execute and what they call.   *)

Goto(e, pc) == SetExec(e, [exec[e] EXCEPT !.pc = pc])
DropPreparation(e) == prep' = IF prep = e THEN NoExec ELSE prep

RaisedHolding(e, err) ==
    /\ SetExec(e, [exec[e] EXCEPT !.pc = "fail", !.err = err, !.exit = "none",
                                  !.attempt = NoAttempt, !.prev = FALSE])
    /\ UNCHANGED prep

(* launch::execute returns an error; the preparation guard is dropped.      *)
Raise(e, err) ==
    /\ SetExec(e, [exec[e] EXCEPT !.pc = "fail", !.err = err, !.exit = "none",
                                  !.attempt = NoAttempt, !.prev = FALSE])
    /\ DropPreparation(e)

(* Checkpoint::update changes the copy in memory and stores all of it.      *)
Update(e, c, pc) ==
    /\ SetExec(e, [exec[e] EXCEPT !.ck = c, !.pc = pc])
    /\ Store(exec[e].run, c)

(* execute loads the checkpoint or makes a fresh one; mark_running stores   *)
(* it before the run reads as running.                                      *)
ExecLoad(e) ==
    /\ exec[e].pc = "load"
    /\ LET saved == ckpt[exec[e].run] IN
       Update(e, IF saved.exists THEN saved ELSE Fresh, "mark")
    /\ UNCHANGED <<phase, run, owner, held, runnerVars, active, leases, prep,
                   tick, overlapped, used>>

ExecMarkRunning(e) ==
    /\ exec[e].pc = "mark"
    /\ LET r == exec[e].run IN
       PatchRun(r, [run[r] EXCEPT !.status = "running", !.started = TRUE,
                                  !.waiting = FALSE])
    /\ Goto(e, "prepare")
    /\ UNCHANGED <<phase, ckpt, owner, held, runnerVars, active, leases, prep,
                   tick, overlapped, used>>

(* refresh_access, prepare and resume_session; a launched run needs its     *)
(* session, and any of them may refuse.                                     *)
ExecPrepare(e) ==
    /\ exec[e].pc = "prepare"
    /\ LET r == exec[e].run IN
       \/ /\ Raise(e, "conflict")
          /\ UNCHANGED <<run, ckpt>>
       \/ /\ exec[e].ck.launched => run[r].session
          /\ Update(e, [exec[e].ck EXCEPT !.prepared = TRUE], "reserve")
          /\ PatchRun(r, [run[r] EXCEPT !.resumable = @ \/ exec[e].ck.launched])
          /\ UNCHANGED prep
    /\ UNCHANGED <<phase, owner, held, runnerVars, active, leases, tick,
                   overlapped, used>>

(* attempt: stop, expired budget, or placement::reserve of a new attempt,   *)
(* which an attempt of the same run not yet released refuses (admit).       *)
StillOwned(r) == \E a \in held : owner[a] = r

ExecReserve(e) ==
    /\ exec[e].pc = "reserve"
    /\ LET r == exec[e].run IN
       \/ /\ Raise(e, "conflict")
          /\ UNCHANGED <<owner, held>>
       \/ /\ ~Stopping(e)
          /\ Raise(e, "nocapacity")
          /\ UNCHANGED <<owner, held>>
       \/ /\ ~Stopping(e)
          /\ ~StillOwned(r)
          /\ \E a \in Attempts :
               /\ owner[a] = NoRun
               /\ owner' = [owner EXCEPT ![a] = r]
               /\ held' = held \cup {a}
               /\ SetExec(e, [exec[e] EXCEPT !.pc = "placed", !.attempt = a])
          /\ UNCHANGED prep
    /\ UNCHANGED <<phase, run, ckpt, runnerVars, active, leases, tick,
                   overlapped, used>>

(* The reservation becomes known to recovery only with this update.         *)
ExecPlaced(e) ==
    /\ exec[e].pc = "placed"
    /\ Update(e, [exec[e].ck EXCEPT !.runner = exec[e].attempt], "spawn")
    /\ DropPreparation(e)
    /\ UNCHANGED <<phase, run, owner, held, runnerVars, active, leases, tick,
                   overlapped, used>>

(* The runner plan, the remote preparation and the spawn may fail. The      *)
(* supervisor's identity is stored before it may start the client.          *)
ExecSpawn(e) ==
    /\ exec[e].pc = "spawn"
    /\ \/ Raise(e, "unavailable") /\ UNCHANGED ckpt
       \/ LET c == [exec[e].ck EXCEPT !.launched = TRUE, !.completed = FALSE,
                       !.cause = "none", !.proc = exec[e].attempt] IN
          /\ SetExec(e, [exec[e] EXCEPT !.pc = "start", !.ck = c,
                           !.prev = exec[e].ck.launched, !.exit = "none"])
          /\ Store(exec[e].run, c)
          /\ UNCHANGED prep
    /\ UNCHANGED <<phase, run, owner, held, runnerVars, active, leases, tick,
                   overlapped, used>>

ExecStart(e) ==
    /\ exec[e].pc = "start"
    /\ IF Stopping(e)
       THEN Raise(e, "conflict") /\ UNCHANGED client
       ELSE /\ client' = client \cup {exec[e].attempt}
            /\ Goto(e, "wait")
            /\ UNCHANGED prep
    /\ UNCHANGED <<phase, storeVars, vm, active, leases, tick, overlapped, used>>
----------------------------------------------------------------------------
(* Output the worker records while the client runs (output::record).        *)
Reporting(e) == exec[e].pc = "wait" /\ vm[exec[e].attempt] = "live"

ExecThreadStarted(e) ==
    /\ Reporting(e)
    /\ LET r == exec[e].run IN
       /\ ~run[r].session
       /\ PatchRun(r, [run[r] EXCEPT !.session = TRUE, !.resumable = TRUE])
    /\ UNCHANGED <<phase, ckpt, owner, held, runnerVars, workerVars, overlapped,
                   used>>

ExecTurnCompleted(e) ==
    /\ Reporting(e)
    /\ ~exec[e].ck.completed
    /\ Update(e, [exec[e].ck EXCEPT !.completed = TRUE], "wait")
    /\ UNCHANGED <<phase, run, owner, held, runnerVars, active, leases, prep,
                   tick, overlapped, used>>

(* turn.failed keeps the first error; Cause::classify decides a retry.      *)
ExecTurnFailed(e) ==
    /\ Reporting(e)
    /\ exec[e].ck.cause = "none"
    /\ \E cause \in {"terminal", "retriable"} :
         Update(e, [exec[e].ck EXCEPT !.cause = cause, !.completed = FALSE],
                "wait")
    /\ UNCHANGED <<phase, run, owner, held, runnerVars, active, leases, prep,
                   tick, overlapped, used>>

(* Execution::wait ends: cancel or shutdown stop the client, the deadline   *)
(* passes, or the client exits. A runner that refused the start of a first  *)
(* attempt takes back `launched`.                                           *)
ExitsNow(e) ==
    {"zero", "error", "timeout", "exhausted", "interrupted", "controllerFailed"}
      \cup (IF Stopping(e) THEN {"stopped"} ELSE {})
      \cup (IF vm[exec[e].attempt] # "live" THEN {"rejected"} ELSE {})

ExecExit(e) ==
    /\ exec[e].pc = "wait"
    /\ \E exit \in ExitsNow(e) :
         LET r == exec[e].run
             first == exit = "rejected" /\ ~exec[e].prev /\ ~run[r].session
             c == [exec[e].ck EXCEPT !.proc = NoAttempt,
                     !.cause = IF exit = "rejected" THEN "terminal" ELSE @,
                     !.launched = @ /\ ~first] IN
         /\ Store(r, c)
         /\ SetExec(e, [exec[e] EXCEPT !.pc = "afence", !.exit = exit, !.ck = c,
                           !.attempt = NoAttempt, !.prev = FALSE])
    /\ client' = client \ {exec[e].attempt}
    /\ UNCHANGED <<phase, run, owner, held, vm, active, leases, prep, tick,
                   overlapped, used>>

(* recovery::fence, after each attempt and again in the epilogue: it reads  *)
(* the STORED checkpoint, awaits the runner, and stores what it read.       *)
ExecFenceBegin(e) ==
    /\ exec[e].pc \in {"afence", "efence"}
    /\ ~exec[e].fencing
    /\ IF exec[e].pc = "efence"
          /\ ~(exec[e].ck.prepared /\ exec[e].ck.runner # NoAttempt)
       THEN SetExec(e, [exec[e] EXCEPT !.pc = "release", !.fenced = TRUE])
       ELSE SetExec(e, [exec[e] EXCEPT !.fencing = TRUE,
                                       !.seen = ckpt[exec[e].run]])
    /\ UNCHANGED <<phase, storeVars, runnerVars, active, leases, prep, tick,
                   overlapped, used>>

ExecFenced(e) ==
    /\ exec[e].pc \in {"afence", "efence"} /\ exec[e].fencing
    /\ FenceConfirmed(exec[e].run, exec[e].seen)
    /\ SetExec(e, [exec[e] EXCEPT !.fencing = FALSE, !.seen = NoCkpt,
                     !.fenced = exec[e].pc = "efence",
                     !.pc = IF @ = "afence" THEN "judge" ELSE "release"])
    /\ UNCHANGED <<phase, run, owner, active, leases, prep, tick, overlapped, used>>

FenceRetried(e) ==
    /\ exec[e].pc \in {"afence", "efence"} /\ exec[e].fencing
    /\ SetExec(e, [exec[e] EXCEPT !.fencing = FALSE, !.seen = NoCkpt])
    /\ UNCHANGED <<phase, storeVars, runnerVars, active, leases, prep, tick,
                   overlapped, used>>

(* After an attempt this is an error of the attempt; in the epilogue the    *)
(* outcome goes to the checkpoint and the run back to recovery.             *)
ExecFenceFailed(e) ==
    /\ exec[e].pc \in {"afence", "efence"} /\ exec[e].fencing
    /\ LET r == exec[e].run
           done == [exec[e] EXCEPT !.fencing = FALSE, !.seen = NoCkpt]
           c == [exec[e].ck EXCEPT !.settled =
                   IF run[r].status = "queued" THEN @ ELSE run[r].status] IN
       IF exec[e].pc = "afence"
       THEN /\ SetExec(e, [done EXCEPT !.pc = "fail", !.err = "unavailable",
                                        !.exit = "none"])
            /\ UNCHANGED <<run, ckpt>>
       ELSE /\ SetExec(e, [done EXCEPT !.pc = "release", !.ck = c])
            /\ IF c = exec[e].ck THEN UNCHANGED ckpt ELSE Store(r, c)
            /\ PatchRun(r, Requeued(run[r]))
    /\ UNCHANGED <<phase, owner, held, runnerVars, active, leases, prep, tick,
                   overlapped, used>>
----------------------------------------------------------------------------
(* What a fenced attempt means: the end of Execution::attempt, and finish.  *)

Interrupted(e) ==
    /\ ~exec[e].token
    /\ \/ exec[e].exit \in {"interrupted", "rejected"}
       \/ /\ exec[e].exit = "controllerFailed"
          /\ exec[e].ck.recoveries < MaxRecoveries

MaySwitch(e) ==
    exec[e].exit = "exhausted" /\ exec[e].account /\ ~Stopping(e)

Verdict(e) ==
    LET x == exec[e] IN
    IF x.token THEN "cancelled"
    ELSE IF x.exit # "timeout"
            /\ (x.exit = "zero" \/ (phase = "stopping" /\ x.ck.completed))
         THEN "succeeded"
    ELSE "failed"

RetriableFailure(e) ==
    /\ Verdict(e) = "failed"
    /\ exec[e].exit # "timeout"
    /\ ~Stopping(e)
    /\ run[exec[e].run].session
    /\ exec[e].ck.cause = "retriable"

ExecJudge(e) ==
    /\ exec[e].pc = "judge"
    /\ LET r == exec[e].run
           restarting == phase = "stopping" /\ ~exec[e].token
                           /\ ~exec[e].ck.completed IN
       \/ /\ restarting
          /\ Raise(e, "conflict")
          /\ UNCHANGED <<run, leases>>
       \/ /\ ~restarting
          /\ Interrupted(e)
          /\ Raise(e, "unavailable")
          /\ UNCHANGED <<run, leases>>
       \/ /\ ~restarting /\ ~Interrupted(e)
          /\ run[r].session /\ MaySwitch(e)
          /\ leases' = leases \ {r}
          /\ SetExec(e, [exec[e] EXCEPT !.pc = "switch", !.account = FALSE,
                                        !.exit = "none"])
          /\ UNCHANGED <<run, prep>>
       \/ /\ ~restarting /\ ~Interrupted(e)
          /\ ~(run[r].session /\ MaySwitch(e))
          /\ RetriableFailure(e)
          /\ Raise(e, "retriable")
          /\ UNCHANGED <<run, leases>>
       \/ /\ ~restarting /\ ~Interrupted(e)
          /\ ~(run[r].session /\ MaySwitch(e))
          /\ ~RetriableFailure(e)
          /\ PatchRun(r, [run[r] EXCEPT
               !.status = Verdict(e), !.resumable = run[r].session,
               !.retry = IF Verdict(e) = "succeeded" THEN 0 ELSE @])
          /\ SetExec(e, [exec[e] EXCEPT !.pc = "efence", !.exit = "none"])
          /\ UNCHANGED <<leases, prep>>
    /\ UNCHANGED <<phase, ckpt, owner, held, runnerVars, active, tick,
                   overlapped, used>>

(* switch_account waits for another lease; a stop, the end of the budget or *)
(* an error of the accounts ends the attempt.                               *)
ExecSwitch(e) ==
    /\ exec[e].pc = "switch"
    /\ LET r == exec[e].run IN
       \/ /\ r \notin leases
          /\ leases' = leases \cup {r}
          /\ SetExec(e, [exec[e] EXCEPT !.pc = "reserve", !.account = TRUE])
          /\ UNCHANGED prep
       \/ /\ Raise(e, "conflict")
          /\ UNCHANGED leases
    /\ UNCHANGED <<phase, storeVars, runnerVars, active, tick, overlapped, used>>
----------------------------------------------------------------------------
(* record_failure: schedule a retry, wait for room, recover the controller, *)
(* or settle. An outcome whose VM may still run goes to the checkpoint      *)
(* first.                                                                   *)

UncappedRetry(e) ==
    LET r == exec[e].run IN
    /\ exec[e].err = "retriable" /\ ~Stopping(e) /\ ~exec[e].ck.completed
    /\ ~run[r].cancel /\ run[r].session /\ run[r].status \in ActiveStatuses

MayRetry(e) ==
    LET r == exec[e].run IN
    /\ exec[e].err = "retriable"
    /\ ~Stopping(e)
    /\ ~exec[e].ck.completed
    /\ ~run[r].cancel /\ run[r].session
    /\ run[r].status \in ActiveStatuses
    /\ run[r].retry < MaxRetries

(* away: the run has a move request, or is placed on another node; it is    *)
(* then recovered without a cap.                                            *)
RecoversController(e, away) ==
    /\ exec[e].err = "unavailable"
    /\ exec[e].ck.prepared
    /\ exec[e].ck.recoveries < MaxRecoveries \/ away
    /\ run[exec[e].run].session
    /\ ~Stopping(e)

(* The counter is only ever compared with the cap: beyond it, it stays there. *)
Counted(n) == IF n < MaxRecoveries THEN n + 1 ELSE n

NothingToFence(e) == ~exec[e].ck.prepared

NeedsFence(e) == exec[e].ck.prepared /\ exec[e].ck.runner # NoAttempt

FailureStatus(e, away) ==
    IF exec[e].token THEN "cancelled"
    ELSE IF phase = "stopping" \/ RecoversController(e, away) THEN "queued"
    ELSE "failed"

FailAs(e, away) ==
    LET r == exec[e].run
        status == FailureStatus(e, away)
        c == [exec[e].ck EXCEPT
               !.recoveries = IF RecoversController(e, away)
                              THEN Counted(@) ELSE @,
               !.settled = IF NeedsFence(e) /\ status # "queued"
                           THEN status ELSE @] IN
    \/ /\ MayRetry(e)
       /\ PatchRun(r, [Requeued(run[r]) EXCEPT
                         !.retry = @ + 1, !.waiting = TRUE, !.resumable = TRUE])
       /\ SetExec(e, [exec[e] EXCEPT !.pc = "efence", !.err = "none"])
       /\ UNCHANGED ckpt
    \/ /\ exec[e].err = "nocapacity" /\ ~exec[e].token
       /\ PatchRun(r, Requeued(run[r]))
       /\ SetExec(e, [exec[e] EXCEPT !.pc = "efence", !.err = "none"])
       /\ UNCHANGED ckpt
    \/ /\ ~MayRetry(e)
       /\ ~(exec[e].err = "nocapacity" /\ ~exec[e].token)
       /\ SetExec(e, [exec[e] EXCEPT !.pc = "failpatch", !.ck = c,
                          !.outcome = status, !.err = "none"])
       /\ IF c = exec[e].ck THEN UNCHANGED ckpt ELSE Store(r, c)
       /\ UNCHANGED run

ExecFail(e) ==
    /\ exec[e].pc = "fail"
    /\ \E away \in BOOLEAN : FailAs(e, away)
    /\ UNCHANGED <<phase, owner, held, runnerVars, active, leases, prep, tick,
                   overlapped, used>>

(* failure_patch *)
ExecFailPatch(e) ==
    /\ exec[e].pc = "failpatch"
    /\ LET r == exec[e].run IN
       PatchRun(r, [run[r] EXCEPT
         !.status = IF NeedsFence(e) THEN "queued" ELSE exec[e].outcome,
         !.recovering = NeedsFence(e) \/ exec[e].outcome = "queued"])
    /\ SetExec(e, [exec[e] EXCEPT !.pc = "efence", !.outcome = "queued"])
    /\ UNCHANGED <<phase, ckpt, owner, held, runnerVars, active, leases, prep,
                   tick, overlapped, used>>

ReleasedIfSettled(e) ==
    IF exec[e].fenced /\ exec[e].ck.settled # "none"
    THEN leases \ {exec[e].run} ELSE leases

Released(e) ==
    IF exec[e].fenced /\ exec[e].account THEN leases \ {exec[e].run} ELSE leases

(* The heartbeat has stopped. The checkpoint is persisted once more; then   *)
(* release settles a fenced run and gives its account back.                 *)
ExecRelease(e) ==
    /\ exec[e].pc = "release"
    /\ LET r == exec[e].run
           settled == exec[e].ck.settled IN
       /\ Update(e, exec[e].ck, "remove")
       /\ IF exec[e].fenced /\ settled # "none"
          THEN PatchRun(r, SettledRun(run[r], settled))
          ELSE UNCHANGED run
       /\ leases' = Released(e)
    /\ UNCHANGED <<phase, owner, held, runnerVars, active, prep, tick,
                   overlapped, used>>

(* The spawned task forgets the run, whichever execution the entry names.   *)
ExecRemove(e) ==
    /\ exec[e].pc = "remove"
    /\ active' = [active EXCEPT ![exec[e].run] = NoExec]
    /\ SetExec(e, IdleExec)
    /\ UNCHANGED <<phase, storeVars, runnerVars, leases, prep, tick, overlapped,
                   used>>

(* The five-second heartbeat stores the copy in memory.                     *)
Heartbeat(e) ==
    /\ exec[e].pc \notin {"free", "load", "release", "remove",
                          "requeue"}
    /\ Store(exec[e].run, exec[e].ck)
    /\ UNCHANGED <<phase, run, owner, held, runnerVars, workerVars, overlapped,
                   used>>

(* A store error: in launch::execute it is a failure of the run, afterwards *)
(* `execute` itself fails and the run is requeued (requeue_after_error).    *)
ExecIoError(e) ==
    /\ exec[e].pc \notin {"free", "remove", "requeue", "judge"}
    /\ ~exec[e].fencing
    /\ used.io < MaxIoErrors
    /\ used' = [used EXCEPT !.io = @ + 1]
    /\ IF exec[e].pc \in {"load", "fail", "failpatch", "efence", "release"}
       THEN Goto(e, "requeue") /\ DropPreparation(e)
       ELSE Raise(e, "conflict")
    /\ leases' \in LeasesAfterError(exec[e].run, exec[e].pc = "switch")
    /\ UNCHANGED <<phase, storeVars, runnerVars, active, tick, overlapped>>

ExecRequeue(e) ==
    /\ exec[e].pc = "requeue"
    /\ LET r == exec[e].run
           c == IF ckpt[r].exists THEN ckpt[r] ELSE Fresh IN
       /\ Store(r, [c EXCEPT !.settled =
                      IF run[r].status \in ActiveStatuses THEN @
                      ELSE run[r].status])
       /\ PatchRun(r, Requeued(run[r]))
    /\ Goto(e, "remove")
    /\ UNCHANGED <<phase, owner, held, runnerVars, active, leases, prep, tick,
                   overlapped, used>>
----------------------------------------------------------------------------
(* The runner client, the VM and time. A VM is taken to run until a runner  *)
(* confirms its stop, the worst case for ownership.                         *)

ClientStartsVm(a) ==
    /\ a \in client
    /\ vm[a] = "none"
    /\ vm' = [vm EXCEPT ![a] = "live"]
    /\ UNCHANGED <<phase, storeVars, client, workerVars, overlapped, used>>

(* A supervisor whose manager went away stops its client.                   *)
ClientOrphaned(a) ==
    /\ a \in client
    /\ \A e \in Execs : ~(exec[e].pc = "wait" /\ exec[e].attempt = a)
    /\ client' = client \ {a}
    /\ UNCHANGED <<phase, storeVars, vm, workerVars, overlapped, used>>

RetryDue(r) ==
    /\ run[r].waiting
    /\ PatchRun(r, [run[r] EXCEPT !.waiting = FALSE])
    /\ UNCHANGED <<phase, ckpt, owner, held, runnerVars, workerVars, overlapped,
                   used>>
----------------------------------------------------------------------------
(* Requests of the owner (worker/control.rs).                               *)

(* Worker::cancel holds the active lock across its transaction.             *)
Cancel(r) ==
    /\ phase # "down"
    /\ used.cancel < MaxCancels
    /\ run[r].status \in ActiveStatuses
    /\ LET asked == [run[r] EXCEPT !.cancel = TRUE] IN
       PatchRun(r, IF active[r] = NoExec /\ ~run[r].recovering
                   THEN CancelledRun(asked) ELSE asked)
    /\ exec' = IF active[r] = NoExec THEN exec
               ELSE [exec EXCEPT ![active[r]].token = TRUE]
    /\ used' = [used EXCEPT !.cancel = @ + 1]
    /\ UNCHANGED <<phase, ckpt, owner, held, runnerVars, active, leases, prep,
                   tick, overlapped>>

(* Worker::resume and requeue.                                              *)
Resume(r) ==
    /\ phase # "down"
    /\ used.resume < MaxResumes
    /\ active[r] = NoExec
    /\ LET beforeLaunch == run[r].status \in {"failed", "cancelled"}
                             /\ ~ckpt[r].launched
           resumable == run[r].status \in ResumableStatuses
                          /\ run[r].resumable /\ ckpt[r].prepared IN
       /\ beforeLaunch \/ resumable
       /\ IF ckpt[r].exists
          THEN Store(r, [ckpt[r] EXCEPT !.settled = "none", !.cause = "none",
                           !.completed = @ /\ beforeLaunch])
          ELSE UNCHANGED ckpt
       /\ PatchRun(r, [Requeued(run[r]) EXCEPT !.cancel = FALSE, !.retry = 0,
                                               !.waiting = FALSE])
    /\ used' = [used EXCEPT !.resume = @ + 1]
    /\ UNCHANGED <<phase, owner, held, runnerVars, workerVars, overlapped>>
----------------------------------------------------------------------------
(* The manager process.                                                     *)

Shutdown ==
    /\ phase = "up"
    /\ used.stop < MaxStops
    /\ used' = [used EXCEPT !.stop = @ + 1]
    /\ phase' = "stopping"
    /\ UNCHANGED <<storeVars, runnerVars, workerVars, overlapped>>

Gone ==
    /\ phase' = "down"
    /\ active' = [r \in Runs |-> NoExec]
    /\ leases' = {}
    /\ prep' = NoExec
    /\ exec' = [e \in Execs |-> IdleExec]
    /\ tick' = IdleTick
    /\ UNCHANGED <<storeVars, runnerVars, overlapped>>

(* Worker::close waits for the pass and for every task.                     *)
Closed ==
    /\ phase = "stopping"
    /\ tick.pc = "idle"
    /\ \A e \in Execs : exec[e].pc = "free"
    /\ Gone
    /\ UNCHANGED used

Crash ==
    /\ phase # "down"
    /\ used.stop < MaxStops
    /\ used' = [used EXCEPT !.stop = @ + 1]
    /\ Gone

(* restore_after_restart *)
Restored(r) ==
    IF run[r].status = "running"
    THEN IF run[r].started /\ ~ckpt[r].exists
         THEN [run[r] EXCEPT !.status = "interrupted"]
         ELSE Requeued(run[r])
    ELSE IF run[r].status = "queued" /\ run[r].cancel
    THEN [run[r] EXCEPT !.recovering = TRUE]
    ELSE run[r]

Restart ==
    /\ phase = "down"
    /\ phase' = "up"
    /\ run' = [r \in Runs |-> Restored(r)]
    /\ UNCHANGED <<ckpt, owner, held, runnerVars, workerVars, overlapped, used>>
----------------------------------------------------------------------------
ExecStep(e) ==
    \/ ExecLoad(e) \/ ExecMarkRunning(e)
    \/ ExecPrepare(e) \/ ExecReserve(e) \/ ExecPlaced(e) \/ ExecSpawn(e)
    \/ ExecStart(e) \/ ExecExit(e) \/ ExecFenceBegin(e) \/ ExecFenced(e)
    \/ ExecFenceFailed(e) \/ ExecJudge(e) \/ ExecSwitch(e) \/ ExecFail(e)
    \/ ExecFailPatch(e) \/ ExecRelease(e) \/ ExecRemove(e) \/ ExecRequeue(e)

ExecReport(e) ==
    \/ ExecThreadStarted(e) \/ ExecTurnCompleted(e) \/ ExecTurnFailed(e)
    \/ Heartbeat(e) \/ ExecIoError(e)

RunnerStep(a) == ClientStartsVm(a) \/ ClientOrphaned(a)

OwnerStep(r) == Cancel(r) \/ Resume(r)

Next ==
    \/ TickStep
    \/ TickError
    \/ \E e \in Execs : ExecStep(e) \/ ExecReport(e)
    \/ \E a \in Attempts : RunnerStep(a)
    \/ \E r \in Runs : OwnerStep(r) \/ RetryDue(r)
    \/ Shutdown
    \/ Closed
    \/ Crash
    \/ Restart

Spec == Init /\ [][Next]_vars

(* The pass runs every second and on every wakeup, spawned executions are   *)
(* polled, and a stopped manager is started again. A fence is retried on    *)
(* every pass until the runner answers or its lease lapses. An agent may    *)
(* run, and a run may wait for an account, forever unless it is stopped     *)
(* (run_limits::budget_ms may be None).                                     *)
ExecProgress(e) ==
    /\ exec[e].pc \in {"wait", "switch"} => Stopping(e)
    /\ ExecStep(e)

Fairness ==
    /\ WF_vars(TickStep)
    /\ \A r \in Runs : SF_vars(TickFenced /\ tick.run = r)
    /\ \A e \in Execs : WF_vars(ExecProgress(e))
    /\ WF_vars(Closed)
    /\ WF_vars(Restart)

FairSpec == Spec /\ Fairness
----------------------------------------------------------------------------
(* Properties *)

LiveVm(r) == \E a \in Attempts : vm[a] = "live" /\ owner[a] = r

(* Two VMs never execute the same conversation, whatever overlaps, crashes  *)
(* or late starts happen: placement::admit refuses a run that still owns an *)
(* attempt, and recovery::fence releases one only after its runner          *)
(* confirmed the stop.                                                      *)
SingleVm ==
    \A a, b \in Attempts :
        vm[a] = "live" /\ vm[b] = "live" /\ owner[a] = owner[b] => a = b

(* Why: an attempt that was handed out and is not known to have stopped     *)
(* still blocks its run; a run never owns two such attempts; a client and a *)
(* checkpoint only ever name an attempt of their own run, so no fence stops *)
(* or releases the VM of another run.                                       *)
HeldUntilGone ==
    \A a \in Attempts : owner[a] # NoRun => a \in held \/ vm[a] = "gone"

UnownedUntouched ==
    \A a \in Attempts :
        owner[a] = NoRun => a \notin held /\ a \notin client /\ vm[a] = "none"

OneHeldPerRun == \A a, b \in held : owner[a] = owner[b] => a = b

Names(c, r) == c.runner # NoAttempt => r # NoRun /\ owner[c.runner] = r

SeenByPass ==
    tick.seen.runner # NoAttempt =>
        tick.pc = "recover" /\ owner[tick.seen.runner] = tick.run

NamesOwnRunner ==
    /\ \A r \in Runs : Names(ckpt[r], r)
    /\ \A e \in Execs :
         /\ Names(exec[e].ck, exec[e].run) /\ Names(exec[e].seen, exec[e].run)
         /\ exec[e].pc \in Attempting => owner[exec[e].attempt] = exec[e].run
    /\ SeenByPass

AttemptOwnership ==
    HeldUntilGone /\ UnownedUntouched /\ OneHeldPerRun /\ NamesOwnRunner

(* A run reads as finished only once its VM has stopped (Settled: "applied  *)
(* to the run only once fencing confirms nothing is still running"), unless *)
(* the scheduling pass handled the run beside its own execution.            *)
TerminalMeansStopped ==
    \A r \in Runs \ overlapped :
        run[r].status \notin ActiveStatuses => ~LiveVm(r)

(* The same without the exception: request_cancel says "An executing or     *)
(* recovering run is settled by its worker once it stops."                  *)
SettledOnceStopped ==
    \A r \in Runs : run[r].status \notin ActiveStatuses => ~LiveVm(r)

(* No crash leaves a started run without its checkpoint: restart never has  *)
(* to give a run up as interrupted (restore_after_restart, mark_running).   *)
NeverInterrupted == \A r \in Runs : run[r].status # "interrupted"

(* A completed turn is finalised from its checkpoint; no new execution      *)
(* starts from a checkpoint that says completed (recover, retry::schedule). *)
NoReplayOfCompletedTurn ==
    \A e \in Execs :
        exec[e].pc \in {"mark", "prepare"} /\ exec[e].run \notin overlapped
            => ~exec[e].ck.completed

(* An outcome put aside until the VM stops is lost to no stale checkpoint   *)
(* copy: only an owner's resume clears it (requeue).                        *)
SettledKept ==
    [][\A r \in Runs \ overlapped :
         ckpt[r].settled # "none" /\ ckpt'[r].settled # ckpt[r].settled
             => run[r].status \in ResumableStatuses]_vars

(* The global preparation lock is held only by a pass about to launch or by *)
(* an execution that has not placed its VM: no error path keeps it.         *)
PreparationNotLeaked ==
    /\ prep \in Execs => exec[prep].pc \in {"load", "mark", "prepare", "reserve",
                                            "placed"}
    /\ prep = Pass => tick.pc \in {"acquire", "insert"}

(* An account lease outlives its execution only when the run is still to be *)
(* recovered, where accounts.recover_run drops it. Checked without store    *)
(* errors: see LeasesAfterError for what they leave behind.                 *)
LeaseNotLeaked ==
    \A r \in leases \ overlapped :
        \/ Executions(r) # {}
        \/ run[r].recovering
        \/ tick.run = r /\ tick.pc = "insert"

(* A cancellation accepted while a run is in recovery ends that recovery    *)
(* (recover checks again in the transaction that clears the run).           *)
CancelledRecoveryEnds ==
    [][\A r \in Runs \ overlapped :
         run[r].recovering /\ run[r].cancel /\ ~run'[r].recovering
             => run'[r].status \notin ActiveStatuses]_vars

(* A run queued for recovery is settled or launched again, whatever the     *)
(* crash, the retry or the unconfirmed stop that put it there               *)
(* (recover_or_wait).                                                       *)
AwaitsRecovery(r) == run[r].status = "queued" /\ run[r].recovering

RecoveryEnds == \A r \in Runs : AwaitsRecovery(r) ~> ~AwaitsRecovery(r)

(* A shutdown ends: no execution and no pass waits for something that only  *)
(* a running manager would deliver (Worker::close).                         *)
ShutdownCompletes == phase = "stopping" ~> phase = "down"

(* docs/RESTART-RECOVERY.md: "Explicit cancellations stay stopped."         *)
CancelledStaysStopped ==
    [][\A r \in Runs : run[r].status = "cancelled" => run'[r].status # "running"]_vars

(* docs/RESTART-RECOVERY.md: a crash "follows the same recovery path", so a *)
(* recovered run is not refused its placement by its own earlier attempt.   *)
RecoveredRunMayReserve ==
    \A e \in Execs :
        exec[e].pc = "reserve" /\ exec[e].run \notin overlapped
            => ~StillOwned(exec[e].run)

(* Nothing strands a run: a restart always finds the checkpoint of a run   *)
(* that reads as running (launch.rs), and no error path leaves the         *)
(* preparation guard of the installation held (launch.rs prepare_runner).  *)
NothingStranded ==
  /\ NeverInterrupted
  /\ PreparationNotLeaked

(* What was decided stays decided: a saved outcome is not lost to a stale  *)
(* checkpoint (recovery.rs fence), and a run whose cancellation was        *)
(* accepted does not go back to the queue when its recovery ends           *)
(* (schedule.rs recover).                                                  *)
DecisionsKept ==
  /\ SettledKept
  /\ CancelledRecoveryEnds
=============================================================================

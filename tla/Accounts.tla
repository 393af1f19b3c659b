------------------------------ MODULE Accounts ------------------------------
(***************************************************************************)
(* The shared pool of coding agent accounts: accounts/mod.rs, record.rs,   *)
(* sign_in.rs and the background holder of codex_background.rs.            *)
(*                                                                         *)
(* Account records are durable. Leases, the fence `connecting', the locks  *)
(* and the sign-in tasks live in the manager's memory.  An acquisition is  *)
(* three steps, because it waits for the account lock between its choice   *)
(* and its writes; operations that hold an account lock from their first   *)
(* read to their last write are one step that requires the lock free.      *)
(*                                                                         *)
(* Usage windows are abstracted to what selection tells apart: "available" *)
(* is a current reading that is not blocked and leaves capacity for the    *)
(* model, "exhausted" an exhaustion that no reading has cleared.  The      *)
(* ranking of candidates is abstracted to any eligible account.            *)
(***************************************************************************)
EXTENDS Naturals, FiniteSets

CONSTANTS Pool,          \* account identifiers
          Holders,       \* identifiers leases are taken under
          Background,    \* the holders that are background work, not runs
          NoAccount,     \* stands for None of an Option<account id>
          Limits,        \* the values of maxConcurrentRuns the owner chooses
          Default,       \* PARALLEL_RUNS, its value in a new record
          SignIns,       \* sign-in tasks, each started at most once
          NoSignIn,
          MaxOwner,      \* bound on the owner's updates, cancellations, removals
          MaxRestarts,   \* bound on restarts of the manager
          MaxSaveFaults  \* bound on record writes that fail

ASSUME AccountConstants ==
    /\ IsFiniteSet(Holders) /\ Background \subseteq Holders
    /\ NoAccount \notin Pool \cup Holders /\ NoSignIn \notin SignIns
    /\ Limits \subseteq Nat \ {0} /\ Default \in Limits
    /\ MaxOwner \in Nat /\ MaxRestarts \in Nat /\ MaxSaveFaults \in Nat

VARIABLES accounts,    \* the stored record of each account
          leases,      \* in memory: the account each holder leases
          acquiring,   \* where each holder is in acquire / release
          selection,   \* the holder of the selection lock
          chosen,      \* the account its acquisition chose, and the record
          copy,        \* of it that was read before the account lock
          locked,      \* the holder of each account's lock
          connecting,  \* the account fenced by a sign-in
          signing,     \* signing_in: the sign-in clients see
          tasks,       \* the spawned sign-in tasks
          cancelling,  \* sign-ins a cancel request waits for
          recovering,  \* the account of each run whose recovery is pending
          spent        \* counters of the bounded inputs

vars == <<accounts, leases, acquiring, selection, chosen, copy, locked,
          connecting, signing, tasks, cancelling, recovering, spent>>

Record == [state : {"absent", "pending", "ready", "error", "removed"},
           enabled : BOOLEAN, limit : Limits, usage : {"available", "unavailable", "exhausted"}]

\* Account::new: enabled, no usage read yet.
NewRecord == [state |-> "pending", enabled |-> TRUE, limit |-> Default,
              usage |-> "unavailable"]

NewTask(a, created) == [account |-> a, created |-> created, stage |-> "authorizing"]
IdleTask(stage) == [account |-> NoAccount, created |-> FALSE, stage |-> stage]

\* No acquisition is under way.
NoCopy == [NewRecord EXCEPT !.state = "absent"]

Settings(rec) == [enabled |-> rec.enabled, limit |-> rec.limit]

------------------------------------------------------------------------------
(* What the pool reads.                                                    *)

Exists(a) == accounts[a].state \notin {"absent", "removed"}

\* active(id): the leases of the account.
Active(a) == {h \in Holders : leases[h] = a}

\* recovering(id): a run that used the account waits for its recovery.
Recovering(a) == \E h \in Holders : recovering[h] = a

\* busy(id): signing in, or recovering a run.
Busy(a) == connecting = a \/ Recovering(a)

\* SignIn::busy of the sign-in clients see.
SigningIn == signing # NoSignIn /\ tasks[signing].stage # "done"

\* schedulable: usage and state let the account take a new run.
Schedulable(rec) == rec.state = "ready" /\ rec.enabled /\ rec.usage = "available"

\* Mutant: the free slots are not counted before an account is chosen.
EligibleWhenFull(a) == Schedulable(accounts[a]) /\ connecting # a /\ ~Recovering(a)

\* eligible: accounts able to take a new run now.
Eligible(a) == /\ Schedulable(accounts[a])
               /\ Cardinality(Active(a)) < accounts[a].limit
               /\ connecting # a
               /\ ~Recovering(a)

Unlocked(a) == locked[a] = NoAccount
SelectionFree == selection = NoAccount

Init ==
    \* Accounts connected earlier, and identifiers not handed out yet.
    /\ \E connected \in SUBSET Pool :
          accounts = [a \in Pool |->
              IF a \in connected
              THEN [NewRecord EXCEPT !.state = "ready", !.usage = "available"]
              ELSE [NewRecord EXCEPT !.state = "absent"]]
    /\ leases = [h \in Holders |-> NoAccount]
    /\ acquiring = [h \in Holders |-> "idle"]
    /\ selection = NoAccount /\ chosen = NoAccount /\ copy = NoCopy
    /\ locked = [a \in Pool |-> NoAccount]
    /\ connecting = NoAccount
    /\ signing = NoSignIn
    /\ tasks = [t \in SignIns |-> IdleTask("none")]
    /\ cancelling = {}
    /\ recovering = [h \in Holders |-> NoAccount]
    /\ spent = [owner |-> 0, restarts |-> 0, saves |-> 0]

------------------------------------------------------------------------------
(* acquire.                                                                *)

\* Under the selection lock: the holder has no lease, and an eligible account
\* is copied out of the store.  The leases lock is dropped here.
AcquireSelect(h) ==
    /\ acquiring[h] = "idle" /\ leases[h] = NoAccount /\ recovering[h] = NoAccount
    /\ SelectionFree
    /\ \E a \in Pool :
          /\ Eligible(a)
          /\ chosen' = a
          /\ copy' = accounts[a]
    /\ selection' = h
    /\ acquiring' = [acquiring EXCEPT ![h] = "chosen"]
    /\ UNCHANGED <<accounts, leases, locked, connecting, signing, tasks,
                   cancelling, recovering, spent>>

\* The account lock is free: the home is prepared and the lease registered.
AcquirePrepare(h) ==
    /\ acquiring[h] = "chosen" /\ Unlocked(chosen)
    /\ locked' = [locked EXCEPT ![chosen] = h]
    /\ leases' = [leases EXCEPT ![h] = chosen]
    /\ acquiring' = [acquiring EXCEPT ![h] = "registered"]
    /\ UNCHANGED <<accounts, copy, chosen, selection, connecting, signing,
                   tasks, cancelling, recovering, spent>>

\* The home cannot be prepared: the acquisition ends without a lease.
AcquirePrepareFails(h) ==
    /\ acquiring[h] = "chosen" /\ Unlocked(chosen)
    /\ spent.saves < MaxSaveFaults /\ spent' = [spent EXCEPT !.saves = @ + 1]
    /\ acquiring' = [acquiring EXCEPT ![h] = "idle"]
    /\ selection' = NoAccount /\ chosen' = NoAccount /\ copy' = NoCopy
    /\ UNCHANGED <<accounts, leases, locked, connecting, signing, tasks,
                   cancelling, recovering>>

LeaveAcquire ==
    /\ locked' = [locked EXCEPT ![chosen] = NoAccount]
    /\ selection' = NoAccount /\ chosen' = NoAccount /\ copy' = NoCopy

\* The copy read at the selection is written back with its new last use.
AcquireSave(h) ==
    /\ acquiring[h] = "registered"
    /\ accounts' = [accounts EXCEPT ![chosen] = copy]
    /\ acquiring' = [acquiring EXCEPT ![h] = "held"]
    /\ LeaveAcquire
    /\ UNCHANGED <<leases, connecting, signing, tasks, cancelling, recovering, spent>>

\* The write fails: the caller gets an error and no lease to release.
AcquireSaveFails(h) ==
    /\ acquiring[h] = "registered"
    /\ spent.saves < MaxSaveFaults /\ spent' = [spent EXCEPT !.saves = @ + 1]
    /\ acquiring' = [acquiring EXCEPT ![h] = "idle"]
    /\ LeaveAcquire
    /\ UNCHANGED <<accounts, leases, connecting, signing, tasks, cancelling, recovering>>

\* A run reports its subscription limit; its lease is released next.
Exhausted(h) ==
    /\ acquiring[h] = "held" /\ h \notin Background
    /\ Unlocked(leases[h])
    /\ accounts' = [accounts EXCEPT ![leases[h]].usage = "exhausted"]
    /\ acquiring' = [acquiring EXCEPT ![h] = "exhausted"]
    /\ UNCHANGED <<leases, copy, chosen, selection, locked, connecting,
                   signing, tasks, cancelling, recovering, spent>>

\* release, at the end of a run, of an attempt, or of background work that
\* ended, was stopped or yielded to a queued conversation.
Release(h) ==
    /\ acquiring[h] \in {"held", "exhausted"}
    /\ Unlocked(leases[h])
    /\ leases' = [leases EXCEPT ![h] = NoAccount]
    /\ acquiring' = [acquiring EXCEPT ![h] = "idle"]
    /\ UNCHANGED <<accounts, copy, chosen, selection, locked, connecting,
                   signing, tasks, cancelling, recovering, spent>>

------------------------------------------------------------------------------
(* poll and refresh.                                                       *)

\* A refresh of one account due in a poll: usage is read and replenish clears
\* exhaustion, or the account is marked in error.
Refresh(a) ==
    /\ Exists(a) /\ accounts[a].state # "pending"
    /\ Unlocked(a) /\ ~Busy(a)
    /\ \/ accounts' = [accounts EXCEPT ![a].state = "error"]
       \/ \E usage \in {"available", "unavailable", accounts[a].usage} :
             accounts' = [accounts EXCEPT ![a].state = "ready", ![a].usage = usage]
    /\ UNCHANGED <<leases, acquiring, copy, chosen, selection, locked,
                   connecting, signing, tasks, cancelling, recovering, spent>>

------------------------------------------------------------------------------
(* The owner's requests.                                                   *)

OwnerActs == spent.owner < MaxOwner /\ spent' = [spent EXCEPT !.owner = @ + 1]

Update(a) ==
    /\ OwnerActs
    /\ Exists(a) /\ Unlocked(a) /\ connecting # a
    /\ \E enabled \in BOOLEAN, limit \in Limits :
          accounts' = [accounts EXCEPT ![a].enabled = enabled, ![a].limit = limit]
    /\ UNCHANGED <<leases, acquiring, copy, chosen, selection, locked, connecting,
                   signing, tasks, cancelling, recovering>>

\* begin: the account is fenced before its sign-in task is spawned.
Begin(a, created) ==
    /\ Unlocked(a)
    /\ \E t \in SignIns :
          /\ tasks[t].stage = "none"
          /\ tasks' = [tasks EXCEPT ![t] = NewTask(a, created)]
          /\ signing' = t
    /\ connecting' = a
    /\ UNCHANGED <<leases, acquiring, copy, chosen, selection, locked, cancelling,
                   recovering, spent>>

\* add: create within the maximum, then begin.
Add(a) ==
    /\ SelectionFree /\ ~SigningIn
    /\ accounts[a].state = "absent"
    /\ accounts' = [accounts EXCEPT ![a] = NewRecord]
    /\ Begin(a, TRUE)

Reconnect(a) ==
    /\ SelectionFree /\ ~SigningIn
    /\ Exists(a)
    /\ ~Recovering(a) /\ Active(a) = {}
    /\ Begin(a, accounts[a].state = "pending")
    /\ UNCHANGED accounts

\* cancel, first half: the sign-in is taken out of sight and told to stop.
Cancel ==
    /\ OwnerActs
    /\ signing # NoSignIn
    /\ cancelling' = cancelling \cup {signing}
    /\ signing' = NoSignIn
    /\ UNCHANGED <<accounts, leases, acquiring, copy, chosen, selection,
                   locked, connecting, tasks, recovering>>

\* Mutant: a run that waits for its recovery does not keep the account.
RemovableWhileRecovering(a) ==
    Exists(a) /\ ~(SigningIn /\ tasks[signing].account = a) /\ Active(a) = {}

\* remove under the selection and account locks.
Removable(a) ==
    /\ Exists(a)
    /\ ~(SigningIn /\ tasks[signing].account = a)
    /\ ~Recovering(a)
    /\ Active(a) = {}

Forget(a) == accounts' = [accounts EXCEPT ![a] = [NewRecord EXCEPT !.state = "removed"]]

Remove(a) ==
    /\ OwnerActs
    /\ SelectionFree /\ Unlocked(a)
    /\ Removable(a)
    /\ Forget(a)
    /\ UNCHANGED <<leases, acquiring, copy, chosen, selection, locked,
                   connecting, signing, tasks, cancelling, recovering>>

\* cancel, second half, once the task is complete: an account that never
\* finished signing in is removed, or the request fails on a conflict.
CancelEnd(t) ==
    LET a == tasks[t].account
    IN  /\ t \in cancelling /\ tasks[t].stage = "done"
        /\ cancelling' = cancelling \ {t}
        /\ IF tasks[t].created /\ accounts[a].state = "pending"
           THEN /\ SelectionFree /\ Unlocked(a)
                /\ IF Removable(a) THEN Forget(a) ELSE UNCHANGED accounts
           ELSE UNCHANGED accounts
        /\ UNCHANGED <<leases, acquiring, copy, chosen, selection, locked,
                       connecting, signing, tasks, recovering, spent>>

------------------------------------------------------------------------------
(* A sign-in task.                                                         *)

\* The driver's authorize ends: signed in, or failed, expired or cancelled.
Authorize(t) ==
    /\ tasks[t].stage = "authorizing"
    /\ \E stage \in {"verifying", "clearing"} : tasks' = [tasks EXCEPT ![t].stage = stage]
    /\ UNCHANGED <<accounts, leases, acquiring, copy, chosen, selection,
                   locked, connecting, signing, cancelling, recovering, spent>>

\* The driver's adopt, under both locks: the identity is verified and claimed
\* and the credentials replaced, or nothing changes.
Adopt(t) ==
    LET a == tasks[t].account
    IN  /\ tasks[t].stage = "verifying"
        /\ SelectionFree /\ Unlocked(a)
        /\ tasks' = [tasks EXCEPT ![t].stage = "clearing"]
        /\ \/ /\ Exists(a)
              /\ \E usage \in {"available", "unavailable"} :
                    accounts' = [accounts EXCEPT ![a].state = "ready", ![a].usage = usage]
           \/ UNCHANGED accounts
        /\ UNCHANGED <<leases, acquiring, copy, chosen, selection, locked,
                       connecting, signing, cancelling, recovering, spent>>

\* The home is deleted, the fence dropped and completion published.
ClearFence(t) ==
    /\ tasks[t].stage = "clearing"
    /\ tasks' = [tasks EXCEPT ![t].stage = "done"]
    /\ connecting' = NoAccount
    /\ UNCHANGED <<accounts, leases, acquiring, copy, chosen, selection,
                   locked, signing, cancelling, recovering, spent>>

------------------------------------------------------------------------------
(* Restart and recovery.                                                   *)

\* The manager restarts: memory is lost; runs that held an account are marked
\* for recovery, background work is forgotten, sign-ins never survive.
Restart ==
    /\ spent.restarts < MaxRestarts
    /\ spent' = [spent EXCEPT !.restarts = @ + 1]
    /\ recovering' = [h \in Holders |->
                        IF acquiring[h] \in {"held", "exhausted"} /\ h \notin Background
                        THEN leases[h] ELSE recovering[h]]
    /\ leases' = [h \in Holders |-> NoAccount]
    /\ acquiring' = [h \in Holders |-> "idle"]
    /\ selection' = NoAccount /\ chosen' = NoAccount /\ copy' = NoCopy
    /\ locked' = [a \in Pool |-> NoAccount]
    /\ connecting' = NoAccount
    /\ signing' = NoSignIn
    /\ tasks' = [t \in SignIns |->
                   IF tasks[t].stage = "none" THEN tasks[t] ELSE IdleTask("done")]
    /\ cancelling' = {}
    /\ UNCHANGED <<accounts>>

\* recover_run: what the run left is cleared and its pending recovery ends.
RecoverRun(h) ==
    /\ recovering[h] # NoAccount
    /\ Unlocked(recovering[h])
    /\ recovering' = [recovering EXCEPT ![h] = NoAccount]
    /\ leases' = [leases EXCEPT ![h] = NoAccount]
    /\ UNCHANGED <<accounts, acquiring, copy, chosen, selection, locked,
                   connecting, signing, tasks, cancelling, spent>>

HolderNext(h) == \/ AcquireSelect(h) \/ AcquirePrepare(h) \/ AcquirePrepareFails(h)
                 \/ AcquireSave(h) \/ AcquireSaveFails(h)
                 \/ Exhausted(h) \/ Release(h) \/ RecoverRun(h)

AccountNext(a) == Refresh(a) \/ Update(a) \/ Add(a) \/ Reconnect(a) \/ Remove(a)

SignInNext(t) == Authorize(t) \/ Adopt(t) \/ ClearFence(t) \/ CancelEnd(t)

Next == \/ \E h \in Holders : HolderNext(h)
        \/ \E a \in Pool : AccountNext(a)
        \/ \E t \in SignIns : SignInNext(t)
        \/ Cancel
        \/ Restart

Spec == Init /\ [][Next]_vars

------------------------------------------------------------------------------
(* Properties.                                                             *)

\* Every variable has its type.
AccountsTypeOK ==
    /\ accounts \in [Pool -> Record] /\ copy \in Record
    /\ leases \in [Holders -> Pool \cup {NoAccount}]
    /\ acquiring \in [Holders -> {"idle", "chosen", "registered", "held", "exhausted"}]
    /\ chosen \in Pool \cup {NoAccount} /\ selection \in Holders \cup {NoAccount}
    /\ locked \in [Pool -> Holders \cup {NoAccount}]
    /\ connecting \in Pool \cup {NoAccount}
    /\ signing \in SignIns \cup {NoSignIn} /\ cancelling \subseteq SignIns
    /\ tasks \in [SignIns -> [account : Pool \cup {NoAccount}, created : BOOLEAN,
                    stage : {"none", "authorizing", "verifying", "clearing", "done"}]]
    /\ recovering \in [Holders -> Pool \cup {NoAccount}]
    /\ spent \in [owner : 0..MaxOwner, restarts : 0..MaxRestarts, saves : 0..MaxSaveFaults]

\* Concurrent acquisitions never overbook an account: a lease is registered
\* only within the limit its acquisition was selected under, although the
\* leases lock is dropped between the count and the registration
\* (accounts/mod.rs, acquire).
SlotsRespected ==
    [][\A h \in Holders : leases[h] = NoAccount /\ leases'[h] # NoAccount
         => Cardinality(Active(leases'[h])) < copy.limit]_vars

\* An account is never removed under a run that uses it or that must still
\* recover with it, and the stale record an acquisition writes back never
\* brings a removed account back (accounts/mod.rs, remove and acquire).
UsedAccountsExist ==
    \A h \in Holders : /\ leases[h] # NoAccount => Exists(leases[h])
                       /\ recovering[h] # NoAccount => Exists(recovering[h])

\* A removed account stays removed, whatever acquisition, sign-in or refresh
\* was under way (accounts/mod.rs, remove).
RemovedStaysRemoved ==
    [][\A a \in Pool : accounts[a].state = "removed" => accounts'[a].state = "removed"]_vars

\* docs/AGENT-ACCOUNTS.md: "Accounts that are running something cannot be
\* reconnected or removed until their runs finish."  No lease is held on an
\* account whose sign-in is under way.
NotRunWhileSigningIn ==
    \A t \in SignIns : tasks[t].stage \in {"authorizing", "verifying"}
                         => Active(tasks[t].account) = {}

\* docs/AGENT-ACCOUNTS.md: "Pausing stops the account from being picked for
\* new runs."  The pause and the limit of an account change only by a request
\* of its owner.
SettingsKept ==
    [][\A a \in Pool : Exists(a) /\ Exists(a)' /\ Settings(accounts'[a]) # Settings(accounts[a])
         => spent'.owner # spent.owner]_vars

\* codex_background.rs: a newly registered lease is never left without an
\* owner that will release it.
LeaseHasOwner ==
    \A h \in Holders : leases[h] # NoAccount => acquiring[h] # "idle"

(* What the owner decided about an account holds for work under way: its   *)
(* limit for concurrent acquisitions, and its removal for acquisitions,    *)
(* sign-ins and refreshes that read it before (accounts/mod.rs).           *)
OwnerDecisionsHold ==
  /\ SlotsRespected
  /\ RemovedStaysRemoved
=============================================================================

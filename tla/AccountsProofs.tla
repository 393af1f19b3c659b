--------------------------- MODULE AccountsProofs ---------------------------
(***************************************************************************)
(* The pool of accounts, for any accounts, holders, sign-ins and bounds:   *)
(* types, that an account in use exists, and that the owner's limit and    *)
(* removal hold for acquisitions that began before them.                   *)
(***************************************************************************)
EXTENDS Accounts, FiniteSetTheorems, TLAPS

Task == [account : Pool \cup {NoAccount}, created : BOOLEAN,
         stage : {"none", "authorizing", "verifying", "clearing", "done"}]

(* A change of one field keeps a record's type and its other fields.       *)
LEMMA RecordPatches ==
  ASSUME NEW rec \in Record
  PROVE  /\ \A u \in {"available", "unavailable", "exhausted"} :
              /\ [rec EXCEPT !.usage = u] \in Record
              /\ [rec EXCEPT !.usage = u].state = rec.state
         /\ \A s \in {"absent", "pending", "ready", "error", "removed"} :
              /\ [rec EXCEPT !.state = s] \in Record
              /\ [rec EXCEPT !.state = s].state = s
  BY Zenon DEF Record

LEMMA SettingsPatch ==
  ASSUME NEW rec \in Record, NEW e \in BOOLEAN, NEW n \in Limits
  PROVE  /\ [rec EXCEPT !.enabled = e, !.limit = n] \in Record
         /\ [rec EXCEPT !.enabled = e, !.limit = n].state = rec.state
  BY Zenon DEF Record

LEMMA ReadyPatch ==
  ASSUME NEW rec \in Record, NEW u \in {"available", "unavailable", "exhausted"}
  PROVE  /\ [[rec EXCEPT !.state = "ready"] EXCEPT !.usage = u] \in Record
         /\ [[rec EXCEPT !.state = "ready"] EXCEPT !.usage = u].state = "ready"
<1>1. PICK r \in Record : r = [rec EXCEPT !.state = "ready"] /\ r.state = "ready"
  BY RecordPatches, Zenon
<1>2. [r EXCEPT !.usage = u] \in Record /\ [r EXCEPT !.usage = u].state = "ready"
  BY <1>1, RecordPatches, Zenon
<1> QED
  BY <1>1, <1>2

LEMMA NewRecords ==
  /\ NewRecord \in Record /\ NoCopy \in Record
  /\ [NewRecord EXCEPT !.state = "removed"] \in Record
  /\ [NewRecord EXCEPT !.state = "removed"].state = "removed"
  /\ [NewRecord EXCEPT !.state = "absent"] \in Record
  /\ [NewRecord EXCEPT !.state = "ready", !.usage = "available"] \in Record
  /\ NewRecord.state = "pending" /\ NoCopy.state = "absent"
<1>1. NewRecord \in Record /\ NewRecord.state = "pending"
  BY AccountConstants, Zenon DEF NewRecord, Record
<1> QED
  BY <1>1, Zenon DEF NoCopy, Record

(* A step that writes one record.                                          *)
LEMMA OneRecord ==
  ASSUME accounts \in [Pool -> Record], NEW a \in Pool, NEW rec \in Record,
         accounts' = [accounts EXCEPT ![a] = rec]
  PROVE  /\ accounts' \in [Pool -> Record]
         /\ accounts'[a] = rec
         /\ \A b \in Pool \ {a} : accounts'[b] = accounts[b]
  BY Zenon

\* The steps of a refresh, an update and a sign-in, as writes of one record.
LEMMA FieldWrites ==
  ASSUME accounts \in [Pool -> Record], NEW a \in Pool, NEW s, NEW u, NEW e, NEW n
  PROVE  /\ [accounts EXCEPT ![a].state = s] = [accounts EXCEPT ![a] = [accounts[a] EXCEPT !.state = s]]
         /\ [accounts EXCEPT ![a].usage = u] = [accounts EXCEPT ![a] = [accounts[a] EXCEPT !.usage = u]]
         /\ [accounts EXCEPT ![a].state = s, ![a].usage = u] =
              [accounts EXCEPT ![a] = [[accounts[a] EXCEPT !.state = s] EXCEPT !.usage = u]]
         /\ [accounts EXCEPT ![a].enabled = e, ![a].limit = n] =
              [accounts EXCEPT ![a] = [accounts[a] EXCEPT !.enabled = e, !.limit = n]]
  BY Zenon
----------------------------------------
(* The inductive invariant.                                                *)

\* Where a holder is in its acquisition agrees with the selection lock, its
\* lease and its recovery.
HoldersSound ==
  \A h \in Holders :
    /\ acquiring[h] \in {"chosen", "registered"} => selection = h /\ chosen \in Pool
    /\ acquiring[h] = "chosen" => leases[h] = NoAccount
    /\ acquiring[h] = "registered" => leases[h] = chosen
    /\ acquiring[h] \in {"held", "exhausted"} => leases[h] \in Pool
    /\ recovering[h] # NoAccount => acquiring[h] = "idle" /\ leases[h] = NoAccount

\* The slot counted at the selection is still free: leases only go away until
\* the holder of the selection lock registers its own.
RoomKept ==
  \A h \in Holders : acquiring[h] = "chosen" => Cardinality(Active(chosen)) < copy.limit

\* The account of an acquisition, and the copy it will write back, exist.
ChoiceSound ==
  /\ selection = NoAccount <=> chosen = NoAccount
  /\ chosen # NoAccount => copy.state = "ready" /\ Exists(chosen)

TasksSound ==
  \A t \in SignIns :
    tasks[t].created \/ tasks[t].stage \in {"authorizing", "verifying"} => tasks[t].account \in Pool

AccountsInv ==
  AccountsTypeOK /\ HoldersSound /\ RoomKept /\ ChoiceSound /\ TasksSound /\ UsedAccountsExist

LEMMA AccountsInitially == Init => AccountsInv
<1> SUFFICES ASSUME Init PROVE AccountsInv
  OBVIOUS
<1>1. accounts \in [Pool -> Record]
  BY NewRecords, Zenon DEF Init
<1>2. \A s \in {"none", "done"} : IdleTask(s) \in Task /\ IdleTask(s).stage = s
                                 /\ ~IdleTask(s).created
  BY Zenon DEF IdleTask, Task
<1>3. tasks \in [SignIns -> Task] /\ TasksSound
  BY <1>2, Zenon DEF Init, TasksSound
<1>4. spent \in [owner : 0..MaxOwner, restarts : 0..MaxRestarts, saves : 0..MaxSaveFaults]
  BY AccountConstants DEF Init
<1>5. AccountsTypeOK
  BY <1>1, <1>3, <1>4, NewRecords DEF Init, AccountsTypeOK, Task
<1>6. HoldersSound /\ RoomKept /\ ChoiceSound /\ UsedAccountsExist
  BY DEF Init, HoldersSound, RoomKept, ChoiceSound, UsedAccountsExist
<1> QED
  BY <1>3, <1>5, <1>6 DEF AccountsInv

(* What a step does to the records: a removed account stays removed, and   *)
(* an account disappears only when nothing uses or has chosen it.          *)
RecordsKept ==
  /\ accounts' \in [Pool -> Record]
  /\ \A b \in Pool : accounts[b].state = "removed" => accounts'[b].state = "removed"
  /\ \A b \in Pool : Exists(b) /\ ~Exists(b)' =>
       SelectionFree /\ Removable(b) /\ UNCHANGED <<leases, recovering, chosen, selection>>

LEMMA OneRecordKept ==
  ASSUME accounts \in [Pool -> Record], NEW a \in Pool, NEW rec \in Record,
         accounts' = [accounts EXCEPT ![a] = rec],
         accounts[a].state # "removed" \/ rec.state = "removed",
         Exists(a) => rec.state \notin {"absent", "removed"}
  PROVE  RecordsKept
<1>1. /\ accounts' \in [Pool -> Record] /\ accounts'[a] = rec
      /\ \A b \in Pool \ {a} : accounts'[b] = accounts[b]
  BY OneRecord
<1>2. \A b \in Pool : accounts[b].state = "removed" => accounts'[b].state = "removed"
  BY <1>1
<1>3. \A b \in Pool : Exists(b) => Exists(b)'
  BY <1>1 DEF Exists
<1> QED
  BY <1>1, <1>2, <1>3 DEF RecordsKept

LEMMA NoRecordKept ==
  ASSUME accounts \in [Pool -> Record], accounts' = accounts
  PROVE  RecordsKept
  BY DEF RecordsKept, Exists

LEMMA ForgetKept ==
  ASSUME accounts \in [Pool -> Record], NEW a \in Pool, Forget(a), Removable(a), SelectionFree,
         UNCHANGED <<leases, recovering, chosen, selection>>
  PROVE  RecordsKept
<1>1. /\ accounts' \in [Pool -> Record] /\ accounts'[a].state = "removed"
      /\ \A b \in Pool \ {a} : accounts'[b] = accounts[b]
  BY OneRecord, NewRecords DEF Forget
<1>2. \A b \in Pool \ {a} : Exists(b) => Exists(b)'
  BY <1>1 DEF Exists
<1> QED
  BY <1>1, <1>2 DEF RecordsKept

LEMMA RecordsStep == ASSUME AccountsInv, Next PROVE RecordsKept
<1>0. /\ accounts \in [Pool -> Record] /\ copy \in Record /\ HoldersSound /\ ChoiceSound
      /\ TasksSound /\ \A t \in SignIns : tasks[t] \in Task
  BY DEF AccountsInv, AccountsTypeOK, Task
<1>1. ASSUME NEW h \in Holders, HolderNext(h) PROVE RecordsKept
  <2>1. CASE AcquireSave(h)
    <3>1. chosen \in Pool /\ copy.state = "ready" /\ Exists(chosen)
          /\ accounts' = [accounts EXCEPT ![chosen] = copy]
      BY <1>0, <2>1, AccountConstants DEF AcquireSave, HoldersSound, ChoiceSound
    <3>2. accounts[chosen].state # "removed"
      BY <3>1 DEF Exists
    <3> QED
      BY <1>0, <3>1, <3>2, OneRecordKept
  <2>2. CASE Exhausted(h)
    <3>1. leases[h] \in Pool /\ accounts' = [accounts EXCEPT ![leases[h]].usage = "exhausted"]
      BY <1>0, <2>2 DEF Exhausted, HoldersSound
    <3>2. accounts' = [accounts EXCEPT ![leases[h]] = [accounts[leases[h]] EXCEPT !.usage = "exhausted"]]
      BY <1>0, <3>1, FieldWrites, Zenon
    <3>3. /\ [accounts[leases[h]] EXCEPT !.usage = "exhausted"] \in Record
          /\ [accounts[leases[h]] EXCEPT !.usage = "exhausted"].state = accounts[leases[h]].state
      BY <1>0, <3>1, RecordPatches, Zenon
    <3> QED
      BY <1>0, <3>1, <3>2, <3>3, OneRecordKept, Zenon DEF Exists
  <2>3. CASE ~AcquireSave(h) /\ ~Exhausted(h)
    <3>1. accounts' = accounts
      BY <1>1, <2>3, Zenon DEF HolderNext, AcquireSelect, AcquirePrepare, AcquirePrepareFails,
         AcquireSaveFails, Release, RecoverRun
    <3> QED
      BY <1>0, <3>1, NoRecordKept
  <2> QED
    BY <2>1, <2>2, <2>3
<1>2. ASSUME NEW a \in Pool, AccountNext(a) PROVE RecordsKept
  <2>0. accounts[a] \in Record
    BY <1>0
  <2>1. CASE Refresh(a)
    <3>1. Exists(a)
      BY <2>1 DEF Refresh
    <3>2. accounts[a].state # "removed"
      BY <3>1 DEF Exists
    <3>3. CASE accounts' = [accounts EXCEPT ![a].state = "error"]
      <4>1. accounts' = [accounts EXCEPT ![a] = [accounts[a] EXCEPT !.state = "error"]]
        BY <1>0, <3>3, FieldWrites, Zenon
      <4>2. /\ [accounts[a] EXCEPT !.state = "error"] \in Record
            /\ [accounts[a] EXCEPT !.state = "error"].state = "error"
        BY <2>0, RecordPatches, Zenon
      <4> QED
        BY <1>0, <3>2, <4>1, <4>2, OneRecordKept
    <3>4. ASSUME NEW u \in {"available", "unavailable", accounts[a].usage},
                 accounts' = [accounts EXCEPT ![a].state = "ready", ![a].usage = u]
          PROVE  RecordsKept
      <4> DEFINE rec == [[accounts[a] EXCEPT !.state = "ready"] EXCEPT !.usage = u]
      <4>1. accounts' = [accounts EXCEPT ![a] = rec]
        BY <1>0, <3>4, FieldWrites, Zenon
      <4>2. u \in {"available", "unavailable", "exhausted"}
        BY <2>0 DEF Record
      <4>3. rec \in Record /\ rec.state = "ready"
        BY <2>0, <4>2, ReadyPatch
      <4> QED
        BY <1>0, <3>2, <4>1, <4>3, OneRecordKept
    <3> QED
      BY <2>1, <3>3, <3>4 DEF Refresh
  <2>2. CASE Update(a)
    <3>1. Exists(a)
      BY <2>2 DEF Update
    <3>2. PICK e \in BOOLEAN, n \in Limits :
            accounts' = [accounts EXCEPT ![a].enabled = e, ![a].limit = n]
      BY <2>2, Zenon DEF Update
    <3>3. PICK rec \in Record : /\ rec = [accounts[a] EXCEPT !.enabled = e, !.limit = n]
                                /\ rec.state = accounts[a].state
      BY <2>0, SettingsPatch, Zenon
    <3>4. accounts' = [accounts EXCEPT ![a] = rec]
      BY <1>0, <3>2, <3>3, FieldWrites, Zenon
    <3> QED
      BY <1>0, <3>1, <3>3, <3>4, OneRecordKept, Zenon DEF Exists
  <2>3. CASE Add(a)
    <3>1. accounts[a].state = "absent" /\ accounts' = [accounts EXCEPT ![a] = NewRecord]
      BY <2>3, Zenon DEF Add
    <3> QED
      BY <1>0, <3>1, NewRecords, OneRecordKept
  <2>4. CASE Reconnect(a)
    BY <1>0, <2>4, NoRecordKept DEF Reconnect
  <2>5. CASE Remove(a)
    BY <1>0, <2>5, ForgetKept DEF Remove
  <2> QED
    BY <1>2, <2>1, <2>2, <2>3, <2>4, <2>5 DEF AccountNext
<1>3. ASSUME NEW t \in SignIns, SignInNext(t) PROVE RecordsKept
  <2> DEFINE a == tasks[t].account
  <2>1. CASE Adopt(t)
    <3>1. a \in Pool
      BY <1>0, <2>1 DEF Adopt, TasksSound
    <3>2. accounts[a] \in Record
      BY <1>0, <3>1
    <3>3. ASSUME Exists(a), NEW u \in {"available", "unavailable"},
                 accounts' = [accounts EXCEPT ![a].state = "ready", ![a].usage = u]
          PROVE  RecordsKept
      <4> DEFINE rec == [[accounts[a] EXCEPT !.state = "ready"] EXCEPT !.usage = u]
      <4>1. accounts' = [accounts EXCEPT ![a] = rec]
        BY <1>0, <3>1, <3>3, FieldWrites, Zenon
      <4>2. rec \in Record /\ rec.state = "ready"
        BY <3>2, ReadyPatch
      <4>3. accounts[a].state # "removed"
        BY <3>3 DEF Exists
      <4> QED
        BY <1>0, <3>1, <4>1, <4>2, <4>3, OneRecordKept
    <3>4. CASE UNCHANGED accounts
      BY <1>0, <3>4, NoRecordKept
    <3> QED
      BY <2>1, <3>3, <3>4 DEF Adopt
  <2>2. CASE CancelEnd(t)
    <3>1. CASE UNCHANGED accounts
      BY <1>0, <3>1, NoRecordKept
    <3>2. CASE ~UNCHANGED accounts
      <4>1. /\ tasks[t].created /\ Forget(a) /\ Removable(a) /\ SelectionFree
            /\ UNCHANGED <<leases, recovering, chosen, selection>>
        BY <2>2, <3>2, Zenon DEF CancelEnd
      <4>2. a \in Pool
        BY <1>0, <4>1 DEF TasksSound
      <4> QED
        BY <1>0, <4>1, <4>2, ForgetKept
    <3> QED
      BY <3>1, <3>2
  <2>3. CASE Authorize(t) \/ ClearFence(t)
    BY <1>0, <2>3, NoRecordKept DEF Authorize, ClearFence
  <2> QED
    BY <1>3, <2>1, <2>2, <2>3 DEF SignInNext
<1>4. CASE Cancel \/ Restart
  BY <1>0, <1>4, NoRecordKept DEF Cancel, Restart
<1> QED
  BY <1>1, <1>2, <1>3, <1>4 DEF Next

----------------------------------------
(* The invariant is kept, part by part.                                    *)

LEMMA TypesStep == ASSUME AccountsInv, Next PROVE AccountsTypeOK'
<1>0. AccountsTypeOK /\ accounts' \in [Pool -> Record] /\ NoCopy \in Record
  BY RecordsStep, NewRecords DEF AccountsInv, RecordsKept
<1> DEFINE Spent == [owner : 0..MaxOwner, restarts : 0..MaxRestarts, saves : 0..MaxSaveFaults]
<1>1. spent' \in Spent
  <2>1. CASE UNCHANGED spent
    BY <1>0, <2>1 DEF AccountsTypeOK
  <2>2. CASE spent.owner < MaxOwner /\ spent' = [spent EXCEPT !.owner = @ + 1]
    BY <1>0, <2>2, AccountConstants DEF AccountsTypeOK
  <2>3. CASE spent.restarts < MaxRestarts /\ spent' = [spent EXCEPT !.restarts = @ + 1]
    BY <1>0, <2>3, AccountConstants DEF AccountsTypeOK
  <2>4. CASE spent.saves < MaxSaveFaults /\ spent' = [spent EXCEPT !.saves = @ + 1]
    BY <1>0, <2>4, AccountConstants DEF AccountsTypeOK
  <2> QED
    BY <2>1, <2>2, <2>3, <2>4, Zenon DEF Next, HolderNext, AccountNext, SignInNext, AcquireSelect,
       AcquirePrepare, AcquirePrepareFails, AcquireSave, AcquireSaveFails, Exhausted, Release,
       RecoverRun, Refresh, Update, Add, Reconnect, Begin, Remove, OwnerActs, Authorize, Adopt,
       ClearFence, CancelEnd, Cancel, Restart
<1>2. tasks' \in [SignIns -> Task]
  <2>0. tasks \in [SignIns -> Task]
    BY <1>0 DEF AccountsTypeOK, Task
  <2>1. CASE UNCHANGED tasks
    BY <2>0, <2>1
  <2>2. ASSUME NEW t \in SignIns, NEW s \in {"verifying", "clearing", "done"},
               tasks' = [tasks EXCEPT ![t].stage = s]
        PROVE  tasks' \in [SignIns -> Task]
    BY <2>0, <2>2, Zenon DEF Task
  <2>3. ASSUME NEW t \in SignIns, NEW a \in Pool, NEW c \in BOOLEAN,
               tasks' = [tasks EXCEPT ![t] = NewTask(a, c)]
        PROVE  tasks' \in [SignIns -> Task]
    <3>1. NewTask(a, c) \in Task
      BY Zenon DEF NewTask, Task
    <3> QED
      BY <2>0, <2>3, <3>1, Zenon
  <2>4. CASE Restart
    <3>1. IdleTask("done") \in Task
      BY Zenon DEF IdleTask, Task
    <3> QED
      BY <2>0, <2>4, <3>1, Zenon DEF Restart
  <2>5. ASSUME NEW a \in Pool, Add(a) \/ Reconnect(a) PROVE tasks' \in [SignIns -> Task]
    <3>1. (accounts[a].state = "pending") \in BOOLEAN /\ TRUE \in BOOLEAN
      OBVIOUS
    <3> QED
      BY <2>3, <2>5, <3>1, Zenon DEF Add, Reconnect, Begin
  <2>6. ASSUME NEW t \in SignIns, Authorize(t) \/ Adopt(t) \/ ClearFence(t)
        PROVE  tasks' \in [SignIns -> Task]
    BY <2>2, <2>6, Zenon DEF Authorize, Adopt, ClearFence
  <2> QED
    BY <2>1, <2>4, <2>5, <2>6, Zenon DEF Next, HolderNext, AccountNext, SignInNext, AcquireSelect,
       AcquirePrepare, AcquirePrepareFails, AcquireSave, AcquireSaveFails, Exhausted, Release,
       RecoverRun, Refresh, Update, Remove, CancelEnd, Cancel
<1> DEFINE Held == /\ copy \in Record
                   /\ leases \in [Holders -> Pool \cup {NoAccount}]
                   /\ acquiring \in [Holders -> {"idle", "chosen", "registered", "held", "exhausted"}]
                   /\ chosen \in Pool \cup {NoAccount} /\ selection \in Holders \cup {NoAccount}
                   /\ locked \in [Pool -> Holders \cup {NoAccount}]
                   /\ recovering \in [Holders -> Pool \cup {NoAccount}]
           Joining == /\ connecting \in Pool \cup {NoAccount}
                      /\ signing \in SignIns \cup {NoSignIn} /\ cancelling \subseteq SignIns
<1>3. Held'
  <2> USE <1>0 DEF AccountsTypeOK
  <2>1. ASSUME NEW h \in Holders, HolderNext(h) PROVE Held'
    <3>1. CASE AcquireSelect(h)
      BY <3>1 DEF AcquireSelect
    <3>2. CASE AcquirePrepare(h)
      BY <3>2 DEF AcquirePrepare
    <3>3. CASE AcquirePrepareFails(h)
      BY <3>3 DEF AcquirePrepareFails
    <3>4. CASE AcquireSave(h)
      BY <3>4 DEF AcquireSave, LeaveAcquire
    <3>5. CASE AcquireSaveFails(h)
      BY <3>5 DEF AcquireSaveFails, LeaveAcquire
    <3>6. CASE Exhausted(h)
      BY <3>6 DEF Exhausted
    <3>7. CASE Release(h)
      BY <3>7 DEF Release
    <3>8. CASE RecoverRun(h)
      BY <3>8 DEF RecoverRun
    <3> QED
      BY <2>1, <3>1, <3>2, <3>3, <3>4, <3>5, <3>6, <3>7, <3>8 DEF HolderNext
  <2>2. CASE Restart
    BY <2>2 DEF Restart
  <2>3. CASE UNCHANGED <<copy, leases, acquiring, chosen, selection, locked, recovering>>
    BY <2>3
  <2> QED
    BY <2>1, <2>2, <2>3 DEF Next, AccountNext, SignInNext, Refresh, Update, Add, Reconnect, Begin,
       Remove, Authorize, Adopt, ClearFence, CancelEnd, Cancel
<1>4. Joining'
  <2> USE <1>0 DEF AccountsTypeOK
  <2>1. CASE \E h \in Holders : HolderNext(h)
    BY <2>1 DEF HolderNext, AcquireSelect, AcquirePrepare, AcquirePrepareFails, AcquireSave,
       AcquireSaveFails, Exhausted, Release, RecoverRun
  <2>2. ASSUME NEW a \in Pool, AccountNext(a) PROVE Joining'
    BY <2>2 DEF AccountNext, Refresh, Update, Add, Reconnect, Begin, Remove
  <2>3. ASSUME NEW t \in SignIns, SignInNext(t) PROVE Joining'
    BY <2>3 DEF SignInNext, Authorize, Adopt, ClearFence, CancelEnd
  <2>4. CASE Cancel \/ Restart
    BY <2>4 DEF Cancel, Restart
  <2> QED
    BY <2>1, <2>2, <2>3, <2>4 DEF Next
<1> QED
  BY <1>0, <1>1, <1>2, <1>3, <1>4 DEF AccountsTypeOK, Task

LEMMA HoldersStep == ASSUME AccountsInv, Next PROVE HoldersSound'
<1>0. AccountsTypeOK /\ HoldersSound /\ ChoiceSound /\ NoAccount \notin Pool /\ NoAccount \notin Holders
  BY AccountConstants DEF AccountsInv
<1>1. ASSUME NEW h \in Holders, HolderNext(h) PROVE HoldersSound'
  <2> USE <1>0 DEF AccountsTypeOK, HoldersSound
  <2>1. CASE AcquireSelect(h)
    <3>1. \A g \in Holders : acquiring[g] \notin {"chosen", "registered"}
      BY <2>1 DEF AcquireSelect, SelectionFree
    <3> QED
      BY <2>1, <3>1 DEF AcquireSelect
  <2>2. CASE AcquirePrepare(h)
    BY <2>2 DEF AcquirePrepare
  <2>3. CASE AcquirePrepareFails(h)
    <3>1. \A g \in Holders \ {h} : acquiring[g] \notin {"chosen", "registered"}
      BY <2>3 DEF AcquirePrepareFails
    <3> QED
      BY <2>3, <3>1 DEF AcquirePrepareFails
  <2>4. CASE AcquireSave(h) \/ AcquireSaveFails(h)
    <3>1. \A g \in Holders \ {h} : acquiring[g] \notin {"chosen", "registered"}
      BY <2>4 DEF AcquireSave, AcquireSaveFails
    <3> QED
      BY <2>4, <3>1 DEF AcquireSave, AcquireSaveFails, LeaveAcquire
  <2>5. CASE Exhausted(h)
    BY <2>5 DEF Exhausted
  <2>6. CASE Release(h)
    BY <2>6 DEF Release
  <2>7. CASE RecoverRun(h)
    BY <2>7 DEF RecoverRun
  <2> QED
    BY <1>1, <2>1, <2>2, <2>3, <2>4, <2>5, <2>6, <2>7 DEF HolderNext
<1>2. CASE Restart
  BY <1>0, <1>2 DEF AccountsTypeOK, HoldersSound, Restart
<1>3. CASE UNCHANGED <<leases, acquiring, chosen, selection, recovering>>
  BY <1>0, <1>3 DEF HoldersSound
<1> QED
  BY <1>1, <1>2, <1>3 DEF Next, AccountNext, SignInNext, Refresh, Update, Add, Reconnect, Begin,
     Remove, Authorize, Adopt, ClearFence, CancelEnd, Cancel

LEMMA ActiveShrinks ==
  ASSUME NEW a \in Pool, Active(a)' \subseteq Active(a)
  PROVE  /\ Cardinality(Active(a)') \in Nat /\ Cardinality(Active(a)) \in Nat
         /\ Cardinality(Active(a)') <= Cardinality(Active(a))
<1>1. IsFiniteSet(Holders) /\ Active(a) \subseteq Holders
  BY AccountConstants DEF Active
<1>2. IsFiniteSet(Active(a))
  BY <1>1, FS_Subset
<1> QED
  BY <1>2, FS_Subset, FS_CardinalityType

LEMMA RoomStep == ASSUME AccountsInv, Next PROVE RoomKept'
<1>0. /\ AccountsTypeOK /\ HoldersSound /\ ChoiceSound /\ RoomKept
      /\ NoAccount \notin Pool /\ NoAccount \notin Holders
  BY AccountConstants DEF AccountsInv
<1>1. SUFFICES ASSUME NEW g \in Holders, acquiring'[g] = "chosen"
               PROVE  Cardinality(Active(chosen)') < copy'.limit
  BY DEF RoomKept
\* Until it registers, nothing of an acquisition changes but that leases end.
<1>2. ASSUME chosen' = chosen, copy' = copy, acquiring[g] = "chosen",
             \A h \in Holders : leases'[h] = leases[h] \/ leases'[h] = NoAccount
      PROVE  Cardinality(Active(chosen)') < copy'.limit
  <2>1. chosen \in Pool /\ Cardinality(Active(chosen)) < copy.limit /\ copy.limit \in Nat
    BY <1>0, <1>2, AccountConstants DEF HoldersSound, RoomKept, AccountsTypeOK, Record
  <2>2. Active(chosen)' \subseteq Active(chosen)
    BY <1>0, <1>2, <2>1 DEF Active
  <2> QED
    BY <1>2, <2>1, <2>2, ActiveShrinks
<1>3. ASSUME NEW h \in Holders, HolderNext(h) PROVE Cardinality(Active(chosen)') < copy'.limit
  <2>1. CASE AcquireSelect(h)
    <3>1. PICK a \in Pool : Eligible(a) /\ chosen' = a /\ copy' = accounts[a]
      BY <2>1 DEF AcquireSelect
    <3>2. Active(a)' = Active(a)
      BY <2>1 DEF AcquireSelect, Active
    <3> QED
      BY <3>1, <3>2 DEF Eligible, Active
  <2>2. CASE AcquirePrepare(h) \/ AcquirePrepareFails(h) \/ AcquireSave(h) \/ AcquireSaveFails(h)
    <3>1. acquiring'[g] = acquiring[g] /\ g # h
      BY <1>0, <1>1, <2>2 DEF AccountsTypeOK, AcquirePrepare, AcquirePrepareFails,
         AcquireSave, AcquireSaveFails
    <3>2. acquiring[g] # "chosen"
      BY <1>0, <2>2, <3>1 DEF HoldersSound, AcquirePrepare, AcquirePrepareFails,
         AcquireSave, AcquireSaveFails
    <3> QED
      BY <1>1, <3>1, <3>2
  <2>3. CASE Exhausted(h) \/ Release(h) \/ RecoverRun(h)
    <3>1. /\ chosen' = chosen /\ copy' = copy /\ acquiring[g] = "chosen"
          /\ \A k \in Holders : leases'[k] = leases[k] \/ leases'[k] = NoAccount
      BY <1>0, <1>1, <2>3 DEF AccountsTypeOK, Exhausted, Release, RecoverRun
    <3> QED
      BY <1>2, <3>1
  <2> QED
    BY <1>3, <2>1, <2>2, <2>3 DEF HolderNext
<1>4. CASE Restart
  BY <1>1, <1>4 DEF Restart
<1>5. CASE UNCHANGED <<leases, acquiring, chosen, copy>>
  BY <1>1, <1>2, <1>5
<1> QED
  BY <1>3, <1>4, <1>5 DEF Next, AccountNext, SignInNext, Refresh, Update, Add, Reconnect, Begin,
     Remove, Authorize, Adopt, ClearFence, CancelEnd, Cancel

LEMMA ChoiceStep == ASSUME AccountsInv, Next PROVE ChoiceSound'
<1>0. /\ AccountsTypeOK /\ HoldersSound /\ ChoiceSound /\ RecordsKept
      /\ NoAccount \notin Pool /\ NoAccount \notin Holders
  BY AccountConstants, RecordsStep DEF AccountsInv
<1>1. ASSUME UNCHANGED <<chosen, selection, copy>> PROVE ChoiceSound'
  <2>1. ASSUME chosen # NoAccount PROVE Exists(chosen)'
    <3>1. chosen \in Pool /\ Exists(chosen) /\ ~SelectionFree
      BY <1>0, <2>1 DEF AccountsTypeOK, ChoiceSound, SelectionFree
    <3> QED
      BY <1>0, <1>1, <3>1 DEF RecordsKept, Exists
  <2> QED
    BY <1>0, <1>1, <2>1 DEF ChoiceSound, Exists
<1>2. ASSUME chosen' = NoAccount, selection' = NoAccount PROVE ChoiceSound'
  BY <1>2 DEF ChoiceSound
<1>3. ASSUME NEW h \in Holders, AcquireSelect(h) PROVE ChoiceSound'
  BY <1>0, <1>3 DEF AcquireSelect, ChoiceSound, Eligible, Schedulable, Exists
<1>4. ASSUME NEW h \in Holders, HolderNext(h) PROVE ChoiceSound'
  BY <1>1, <1>2, <1>3, <1>4 DEF HolderNext, AcquirePrepare, AcquirePrepareFails,
     AcquireSave, AcquireSaveFails, LeaveAcquire, Exhausted, Release, RecoverRun
<1> QED
  BY <1>1, <1>2, <1>4 DEF Next, AccountNext, SignInNext, Refresh, Update, Add, Reconnect, Begin,
     Remove, Authorize, Adopt, ClearFence, CancelEnd, Cancel, Restart

LEMMA TasksStep == ASSUME AccountsInv, Next PROVE TasksSound'
<1>0. tasks \in [SignIns -> Task] /\ TasksSound
  BY DEF AccountsInv, AccountsTypeOK, Task
<1>1. CASE UNCHANGED tasks
  BY <1>0, <1>1 DEF TasksSound
<1>2. ASSUME NEW t \in SignIns, NEW s \in {"verifying", "clearing", "done"},
             tasks' = [tasks EXCEPT ![t].stage = s],
             tasks[t].stage = "authorizing" \/ s # "verifying"
      PROVE  TasksSound'
  <2>1. /\ tasks'[t].account = tasks[t].account /\ tasks'[t].created = tasks[t].created
        /\ tasks'[t].stage = s
    BY <1>0, <1>2, Zenon DEF Task
  <2>2. \A u \in SignIns \ {t} : tasks'[u] = tasks[u]
    BY <1>0, <1>2, Zenon
  <2> QED
    BY <1>0, <1>2, <2>1, <2>2, Zenon DEF TasksSound
<1>3. ASSUME NEW t \in SignIns, NEW a \in Pool, NEW c, tasks' = [tasks EXCEPT ![t] = NewTask(a, c)]
      PROVE  TasksSound'
  <2>1. tasks'[t].account = a
    BY <1>0, <1>3, Zenon DEF NewTask
  <2>2. \A u \in SignIns \ {t} : tasks'[u] = tasks[u]
    BY <1>0, <1>3, Zenon
  <2> QED
    BY <1>0, <2>1, <2>2, Zenon DEF TasksSound
<1>4. CASE Restart
  <2>1. ~IdleTask("done").created /\ IdleTask("done").stage = "done"
    BY Zenon DEF IdleTask
  <2> QED
    BY <1>0, <1>4, <2>1, Zenon DEF TasksSound, Restart
<1>5. ASSUME NEW a \in Pool, Add(a) \/ Reconnect(a) PROVE TasksSound'
  <2>1. \E t \in SignIns, c \in BOOLEAN : tasks' = [tasks EXCEPT ![t] = NewTask(a, c)]
    <3>1. CASE Add(a)
      BY <3>1, Zenon DEF Add, Begin
    <3>2. CASE Reconnect(a)
      BY <3>2, Zenon DEF Reconnect, Begin
    <3> QED
      BY <1>5, <3>1, <3>2
  <2> QED
    BY <1>3, <2>1, Zenon
<1>6. ASSUME NEW t \in SignIns, Authorize(t) \/ Adopt(t) \/ ClearFence(t) PROVE TasksSound'
  <2>1. PICK s \in {"verifying", "clearing", "done"} :
          /\ tasks' = [tasks EXCEPT ![t].stage = s]
          /\ tasks[t].stage = "authorizing" \/ s # "verifying"
    BY <1>6 DEF Authorize, Adopt, ClearFence
  <2> QED
    BY <1>2, <2>1
<1> QED
  BY <1>1, <1>4, <1>5, <1>6, Zenon DEF Next, HolderNext, AccountNext, SignInNext, AcquireSelect,
     AcquirePrepare, AcquirePrepareFails, AcquireSave, AcquireSaveFails, Exhausted, Release,
     RecoverRun, Refresh, Update, Remove, CancelEnd, Cancel

LEMMA UsedStep == ASSUME AccountsInv, Next PROVE UsedAccountsExist'
<1>0. /\ AccountsTypeOK /\ HoldersSound /\ ChoiceSound /\ UsedAccountsExist /\ RecordsKept
      /\ NoAccount \notin Pool
  BY AccountConstants, RecordsStep DEF AccountsInv
\* An account that a holder uses after the step existed before it.
<1>1. ASSUME \A h \in Holders :
               /\ leases'[h] # NoAccount => leases'[h] \in Pool /\ Exists(leases'[h])
               /\ recovering'[h] # NoAccount => recovering'[h] \in Pool /\ Exists(recovering'[h])
      PROVE  UsedAccountsExist'
  <2> SUFFICES ASSUME NEW h \in Holders, NEW a \in Pool, Exists(a), leases'[h] = a \/ recovering'[h] = a
               PROVE  Exists(a)'
    BY <1>1 DEF UsedAccountsExist, Exists
  <2>1. CASE Exists(a)'
    BY <2>1
  <2>2. CASE ~Exists(a)'
    <3>1. Removable(a) /\ leases' = leases /\ recovering' = recovering
      BY <1>0, <2>2 DEF RecordsKept
    <3> QED
      BY <3>1 DEF Removable, Active, Recovering
  <2> QED
    BY <2>1, <2>2
<1>2. CASE UNCHANGED <<leases, recovering>>
  <2>1. \A h \in Holders :
          /\ leases'[h] # NoAccount => leases'[h] \in Pool /\ Exists(leases'[h])
          /\ recovering'[h] # NoAccount => recovering'[h] \in Pool /\ Exists(recovering'[h])
    BY <1>0, <1>2 DEF AccountsTypeOK, UsedAccountsExist
  <2> QED
    BY <1>1, <2>1
<1>3. ASSUME NEW h \in Holders, HolderNext(h) PROVE UsedAccountsExist'
  <2>1. CASE AcquirePrepare(h)
    <3>1. chosen \in Pool /\ Exists(chosen)
      BY <1>0, <2>1 DEF AcquirePrepare, HoldersSound, ChoiceSound
    <3>2. \A g \in Holders :
            /\ leases'[g] # NoAccount => leases'[g] \in Pool /\ Exists(leases'[g])
            /\ recovering'[g] # NoAccount => recovering'[g] \in Pool /\ Exists(recovering'[g])
      BY <1>0, <2>1, <3>1 DEF AccountsTypeOK, UsedAccountsExist, AcquirePrepare
    <3> QED
      BY <1>1, <3>2
  <2>2. CASE Release(h) \/ RecoverRun(h)
    <3>1. \A g \in Holders :
            /\ leases'[g] # NoAccount => leases'[g] \in Pool /\ Exists(leases'[g])
            /\ recovering'[g] # NoAccount => recovering'[g] \in Pool /\ Exists(recovering'[g])
      BY <1>0, <2>2 DEF AccountsTypeOK, UsedAccountsExist, Release, RecoverRun
    <3> QED
      BY <1>1, <3>1
  <2> QED
    BY <1>2, <1>3, <2>1, <2>2 DEF HolderNext, AcquireSelect, AcquirePrepareFails, AcquireSave,
       AcquireSaveFails, Exhausted
<1>4. CASE Restart
  <2>1. \A g \in Holders :
          /\ leases'[g] # NoAccount => leases'[g] \in Pool /\ Exists(leases'[g])
          /\ recovering'[g] # NoAccount => recovering'[g] \in Pool /\ Exists(recovering'[g])
    BY <1>0, <1>4 DEF AccountsTypeOK, HoldersSound, UsedAccountsExist, Restart
  <2> QED
    BY <1>1, <2>1
<1> QED
  BY <1>2, <1>3, <1>4 DEF Next, AccountNext, SignInNext, Refresh, Update, Add, Reconnect, Begin,
     Remove, Authorize, Adopt, ClearFence, CancelEnd, Cancel

LEMMA AccountsInductive == AccountsInv /\ [Next]_vars => AccountsInv'
<1>1. ASSUME AccountsInv, Next PROVE AccountsInv'
  BY <1>1, TypesStep, HoldersStep, RoomStep, ChoiceStep, TasksStep, UsedStep DEF AccountsInv
<1>2. ASSUME AccountsInv, UNCHANGED vars PROVE AccountsInv'
  BY <1>2 DEF AccountsInv, AccountsTypeOK, HoldersSound, RoomKept, ChoiceSound, TasksSound,
     UsedAccountsExist, Exists, Active, vars
<1> QED
  BY <1>1, <1>2

----------------------------------------
(* Types, for every pool.                                                  *)
THEOREM AccountsTypes == Spec => []AccountsTypeOK
<1>1. AccountsInv => AccountsTypeOK
  BY DEF AccountsInv
<1> QED
  BY <1>1, AccountsInitially, AccountsInductive, PTL DEF Spec

(* An account is never removed under a run that uses it or must still      *)
(* recover with it, nor brought back by a stale copy (accounts/mod.rs).    *)
THEOREM UsedAccountsKept == Spec => []UsedAccountsExist
<1>1. AccountsInv => UsedAccountsExist
  BY DEF AccountsInv
<1> QED
  BY <1>1, AccountsInitially, AccountsInductive, PTL DEF Spec

LEMMA SlotStep ==
  ASSUME AccountsInv, Next, NEW h \in Holders, leases[h] = NoAccount, leases'[h] # NoAccount
  PROVE  Cardinality(Active(leases'[h])) < copy.limit
<1>0. AccountsTypeOK /\ HoldersSound /\ RoomKept
  BY DEF AccountsInv
<1>1. ASSUME NEW g \in Holders, AcquirePrepare(g) PROVE Cardinality(Active(leases'[h])) < copy.limit
  <2>1. g = h /\ leases'[h] = chosen /\ acquiring[h] = "chosen"
    BY <1>0, <1>1 DEF AccountsTypeOK, AcquirePrepare
  <2> QED
    BY <1>0, <2>1 DEF RoomKept
<1>2. ASSUME NEW g \in Holders, HolderNext(g) PROVE AcquirePrepare(g)
  BY <1>0, <1>2 DEF AccountsTypeOK, HolderNext, AcquireSelect, AcquirePrepareFails, AcquireSave,
     AcquireSaveFails, Exhausted, Release, RecoverRun
<1> QED
  BY <1>1, <1>2 DEF Next, AccountNext, SignInNext, Refresh, Update, Add, Reconnect, Begin,
     Remove, Authorize, Adopt, ClearFence, CancelEnd, Cancel, Restart

(* The limit and the removal of an account hold for every acquisition,     *)
(* sign-in and refresh under way: the lock that an acquisition keeps from  *)
(* its count to its registration makes the count good, and no stale record *)
(* revives a removed account (accounts/mod.rs, acquire and remove).        *)
THEOREM OwnerDecisionsKept == Spec => OwnerDecisionsHold
<1>1. AccountsInv /\ [Next]_vars =>
        [\A h \in Holders : leases[h] = NoAccount /\ leases'[h] # NoAccount
           => Cardinality(Active(leases'[h])) < copy.limit]_vars
  BY SlotStep
<1>2. AccountsInv /\ [Next]_vars =>
        [\A a \in Pool : accounts[a].state = "removed" => accounts'[a].state = "removed"]_vars
  BY RecordsStep DEF RecordsKept
<1> QED
  BY <1>1, <1>2, AccountsInitially, AccountsInductive, PTL
  DEF Spec, OwnerDecisionsHold, SlotsRespected, RemovedStaysRemoved
=============================================================================

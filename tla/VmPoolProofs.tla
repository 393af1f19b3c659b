---------------------------- MODULE VmPoolProofs ----------------------------
(***************************************************************************)
(* What the pool of a node keeps, for any number of conversations,         *)
(* prepared disks, reservations and attempts (VmPool.tla): a slot for each *)
(* reservation, one VM for each disk, claims that no restart undoes, and   *)
(* retained VMs whose writes nobody else may end.                          *)
(*                                                                         *)
(* The first part are the lemmas about queues and free slots, the second   *)
(* the inductive invariant, the third what steps of the same kind keep;    *)
(* then one lemma for each action, and the theorems.                       *)
(***************************************************************************)
EXTENDS VmPool, TLAPS, FiniteSetTheorems, SequenceTheorems, WellFoundedInduction

\* A nonempty set of numbers has a least one, which Min is.
LEMMA LeastNumber ==
  ASSUME NEW T, T \subseteq Nat, T # {}
  PROVE  Min(T) \in T /\ \A y \in T : Min(T) <= y
<1>1. PICK x \in T : \A y \in T : ~(<<y, x>> \in OpToRel(<, Nat))
  BY WFMin, NatLessThanWellFounded, Zenon
<1>2. \A y \in T : ~(y < x)
  BY <1>1 DEF OpToRel
<1>3. x \in T /\ \A y \in T : x <= y
  BY <1>2
<1> QED  BY <1>3 DEF Min

\* Removing a value from a queue keeps the order of the others, and of a
\* queue without repetitions it removes every occurrence.
LEMMA Removed ==
  ASSUME NEW S, NEW s \in Seq(S), NEW i
  PROVE  /\ Without(s, i) \in Seq(S)
         /\ Len(Without(s, i)) <= Len(s)
         /\ \A n \in DOMAIN Without(s, i) : \E m \in DOMAIN s : Without(s, i)[n] = s[m]
         /\ (\A n, m \in DOMAIN s : n # m => s[n] # s[m]) =>
              /\ \A n \in DOMAIN Without(s, i) : Without(s, i)[n] # i
              /\ \A n, m \in DOMAIN Without(s, i) :
                   n # m => Without(s, i)[n] # Without(s, i)[m]
<1>1. CASE ~\E k \in 1 .. Len(s) : s[k] = i
  <2>1. Without(s, i) = s
    BY <1>1 DEF Without, RemoveFirst
  <2> QED  BY <2>1, <1>1
<1>2. CASE \E k \in 1 .. Len(s) : s[k] = i
  <2> DEFINE N == {k \in 1 .. Len(s) : s[k] = i}
             h == SubSeq(s, 1, Min(N) - 1)
             t == SubSeq(s, Min(N) + 1, Len(s))
  <2>1. N # {} /\ N \subseteq Nat
    BY <1>2
  <2>2. Min(N) \in 1 .. Len(s) /\ s[Min(N)] = i
    BY <2>1, LeastNumber
  <2>3. Without(s, i) = h \o t
    BY <1>2, <2>1 DEF Without, RemoveFirst, RemoveAt, SelectInSeq
  <2>4. PICK k \in 1 .. Len(s) : k = Min(N)
    BY <2>2
  <2> HIDE DEF N
  <2>5. /\ h \in Seq(S) /\ Len(h) = k - 1
        /\ \A n \in 1 .. k - 1 : h[n] = s[n]
    <3>1. \A n \in 1 .. k - 1 : s[n] \in S
      OBVIOUS
    <3>2. k - 1 \in Int
      OBVIOUS
    <3> QED  BY <2>4, <3>1, <3>2, SubSeqProperties
  <2>6. /\ t \in Seq(S) /\ Len(t) = Len(s) - k
        /\ \A n \in 1 .. Len(s) - k : t[n] = s[n + k]
    <3>1. \A n \in k + 1 .. Len(s) : s[n] \in S
      OBVIOUS
    <3>2. k + 1 \in Int /\ Len(s) \in Int
      OBVIOUS
    <3>3. /\ t \in Seq(S) /\ Len(t) = IF k + 1 <= Len(s) THEN Len(s) - (k + 1) + 1 ELSE 0
          /\ \A n \in 1 .. Len(s) - (k + 1) + 1 : t[n] = s[(k + 1) + n - 1]
      BY <2>4, <3>1, <3>2, SubSeqProperties
    <3> QED  BY <3>3, SMTT(30)
  <2> HIDE DEF h, t
  <2>7. /\ h \o t \in Seq(S) /\ Len(h \o t) = Len(s) - 1
        /\ \A n \in 1 .. Len(s) - 1 : (h \o t)[n] = IF n < k THEN s[n] ELSE s[n + 1]
    <3>1. /\ h \o t \in Seq(S) /\ Len(h \o t) = Len(h) + Len(t)
          /\ \A n \in 1 .. Len(h) + Len(t) :
               (h \o t)[n] = IF n <= Len(h) THEN h[n] ELSE t[n - Len(h)]
      BY <2>5, <2>6, ConcatProperties
    <3> QED  BY <3>1, <2>5, <2>6
  <2>8. PICK w \in Seq(S) : w = h \o t
    BY <2>7
  <2>9. DOMAIN w = 1 .. Len(s) - 1 /\ Len(w) = Len(s) - 1
    BY <2>7, <2>8
  <2>10. \A n \in DOMAIN w : \E m \in DOMAIN s :
           w[n] = s[m] /\ m = (IF n < k THEN n ELSE n + 1)
    BY <2>7, <2>8, <2>9, SMTT(30)
  <2>11. s[k] = i
    BY <2>2, <2>4
  <2>12. (\A n, m \in DOMAIN s : n # m => s[n] # s[m]) =>
           /\ \A n \in DOMAIN w : w[n] # i
           /\ \A n, m \in DOMAIN w : n # m => w[n] # w[m]
    BY <2>10, <2>11, <2>9, SMTT(30)
  <2>13. Without(s, i) = w
    BY <2>3, <2>8
  <2>14. w \in Seq(S) /\ Len(w) <= Len(s)
    BY <2>8, <2>9
  <2>15. \A n \in DOMAIN w : \E m \in DOMAIN s : w[n] = s[m]
    BY <2>10
  <2> QED  BY <2>12, <2>13, <2>14, <2>15, Zenon
<1> QED  BY <1>1, <1>2

\* The first of some entries of a queue is one of them.
LEMMA OldestIsOne ==
  ASSUME NEW N, N \subseteq DOMAIN retained, retained \in Seq(Res), N # {}
  PROVE  \E n \in N : Oldest(N) = retained[n]
<1>1. N \subseteq Nat
  OBVIOUS
<1> QED  BY <1>1, LeastNumber DEF Oldest

----------------------------------------
(* The inductive invariant: types, the fields of a reservation, what an    *)
(* attempt knows of its reservation, the queues and the admission lock,    *)
(* slots, claims of directories, and the locks of the disks.               *)
ResStates == {"free", "preparing", "ready", "granted", "used", "retained", "closing"}
VmStates == {"none", "running", "paused", "dead"}
AttStates == {"new", "reserving", "granted", "starting", "assigning", "booting",
              "running", "done", "suspended", "retaining", "closing", "exited"}

Reservations ==
  [st : ResStates, slot : Slots \cup {Nil}, run : Runs \cup {Nil}, env : Envs \cup {Nil},
   vm : VmStates, budget : Budgets \cup {Nil}, resumed : BOOLEAN, prepared : BOOLEAN,
   doomed : BOOLEAN]
Records == [st : AttStates, res : Res \cup {Nil}, cancelled : BOOLEAN]
Captures == [st : {"none", "sealing", "hashing"}, by : Res \cup {Nil}, clean : BOOLEAN]

DisksTyped ==
  /\ pointer \in [Runs -> Envs \cup {Nil}]
  /\ label \in [Envs -> Runs \cup {Nil}]
  /\ made \subseteq Envs /\ plain \subseteq Runs
  /\ owner \in [Runs -> 0 .. MaxRes + 1]

VmsTyped ==
  /\ budget \in Budgets /\ occupied \subseteq Slots
  /\ res \in [Res -> Reservations]
  /\ preparing \in Res \cup {Nil}
  /\ att \in [Attempts -> Records]
  /\ stopped \subseteq Attempts
  /\ cap \in [Runs -> Captures]
  /\ halt \in BOOLEAN

(* A reservation's fields go together.                                     *)
Shaped(x) ==
  /\ x.st = "free" => x = NoRes
  /\ x.st # "free" => x.slot \in Slots
  /\ x.st = "preparing" => x.run = Nil /\ x.env # Nil /\ ~x.prepared /\ ~x.resumed
  /\ x.st = "ready" => x.run = Nil /\ x.prepared /\ ~x.resumed
  /\ x.st = "retained" => x.run # Nil /\ x.vm \in {"paused", "dead"}
                          /\ ~x.resumed /\ ~x.prepared
  /\ x.prepared => x.run = Nil /\ x.env # Nil
Shapes == \A i \in Res : Shaped(res[i])

(* What an attempt in each state knows of its reservation.                 *)
Serves(r, p, x) ==
  /\ p.st \in {"granted", "starting"} =>
       /\ x.st = "granted"
       /\ x.resumed => x.run = r /\ x.vm \in {"paused", "dead"}
       /\ ~x.resumed => x.run = Nil /\ (x.prepared \/ x.vm = "none")
  /\ p.st \in {"assigning", "booting"} => x.st = "granted" /\ x.run = r
  /\ p.st = "assigning" => x.env # Nil
  /\ p.st = "booting" => x.vm = "none"
  /\ p.st \in {"running", "done", "suspended", "retaining"} => x.st = "used" /\ x.run = r
  /\ p.st \in {"suspended", "retaining"} => x.vm = "paused"
  /\ p.st = "closing" => x.st = "closing"

Unattached == {"new", "reserving", "exited"}
Attached ==
  \A a \in Attempts :
     /\ att[a].st \in Unattached => att[a].res = Nil
     /\ att[a].res = Nil => att[a].st \in Unattached \cup {"closing"}
     /\ att[a].res # Nil => Serves(RunOf(a), att[a], res[att[a].res])

OwnReservation ==
  \A a, b \in Attempts : a # b /\ att[a].res # Nil => att[b].res # att[a].res

Queue(s, st) ==
  /\ s \in Seq(Res)
  /\ \A n \in DOMAIN s : res[s[n]].st = st
  /\ \A n, m \in DOMAIN s : n # m => s[n] # s[m]
Queued ==
  /\ Queue(retained, "retained") /\ Queue(ready, "ready")
  /\ preparing # Nil => res[preparing].st \in {"preparing", "closing"}

AdmissionHeld ==
  /\ DOMAIN adm = {"op", "who", "pc", "victim"}
  /\ adm.op = "reserve" => adm.who \in Attempts /\ att[adm.who].st = "reserving"
  /\ adm.op = "retain" => adm.who \in Attempts /\ att[adm.who].st = "retaining"
  /\ adm.op = "configure" => adm.who \in Budgets

Assigning(r) == \E a \in Attempts : RunOf(a) = r /\ att[a].st = "assigning"
ClaimsSound ==
  /\ \A r \in Runs : pointer[r] # Nil =>
       /\ pointer[r] \in made
       /\ label[pointer[r]] = r \/ (label[pointer[r]] = Nil /\ Assigning(r))
  /\ \A r, q \in Runs : r # q /\ pointer[r] # Nil => pointer[q] # pointer[r]
  /\ \A e \in Envs : label[e] # Nil => pointer[label[e]] = e

(* A claim under way: the pointer is written, the label is not.            *)
ClaimsUnderWay ==
  \A a \in Attempts : att[a].st = "assigning" => pointer[RunOf(a)] = res[att[a].res].env

Spare(i) == res[i].run = Nil /\ res[i].env # Nil
SparesUnclaimed ==
  /\ \A i \in Res : Spare(i) =>
       /\ res[i].env \in made /\ label[res[i].env] = Nil
       /\ \A r \in Runs : pointer[r] # res[i].env
  /\ \A i, j \in Res : i # j /\ Spare(i) /\ Spare(j) => res[i].env # res[j].env

LocksHeld == \A i \in Res : res[i].run # Nil => owner[res[i].run] = i

PoolInv ==
  /\ DisksTyped /\ VmsTyped /\ Shapes /\ Attached /\ OwnReservation /\ Queued
  /\ AdmissionHeld /\ SlotsAccounted /\ ClaimsSound /\ ClaimsUnderWay /\ SparesUnclaimed /\ LocksHeld
  /\ CapturesStillDisk /\ StoppedNeverStarts
----------------------------------------
(* What steps of the same kind keep.                                       *)

\* Constants: no directory and no conversation is Nil.
LEMMA NilApart ==
  /\ Nil \notin Runs /\ Nil \notin Envs /\ Nil \notin Res
  /\ MaxRes \in Nat \ {0} /\ Budgets \subseteq 1 .. MaxRes
  /\ \A a \in Attempts : RunOf(a) \in Runs
BY PoolConstants DEF Nil, Res, Attempts, RunOf

\* A step after which every reservation has the slot, the conversation and
\* the directory it had, and a paused VM that may be captured stays still.
Quiet ==
  /\ \A i \in Res :
       /\ res'[i].slot = res[i].slot /\ res'[i].run = res[i].run
       /\ res'[i].env = res[i].env
       /\ res'[i].st = "free" <=> res[i].st = "free"
       /\ res[i].vm \in {"paused", "dead"} =>
            res'[i].vm \in {"paused", "dead"} \/ Uncaptured(i)
  /\ UNCHANGED <<diskVars, occupied, cap>>
  /\ \A a \in Attempts :
       /\ att'[a].st = "assigning" <=> att[a].st = "assigning"
       /\ att[a].st = "assigning" => att'[a].res = att[a].res

\* The same for attempts: none becomes active, none forgets a cancellation.
NoneStarts ==
  /\ \A a \in Attempts : Active(a)' => Active(a) /\ (att[a].cancelled => att'[a].cancelled)
  /\ stopped' = stopped

Disks == DisksTyped /\ SlotsAccounted /\ ClaimsSound /\ ClaimsUnderWay /\ SparesUnclaimed
         /\ LocksHeld /\ CapturesStillDisk

\* Slots, claims, locks and captures are unaffected by a quiet step.
LEMMA QuietKeeps ==
  ASSUME PoolInv, Quiet
  PROVE  Disks'
<1>0. /\ \A i \in Res :
           /\ res'[i].slot = res[i].slot /\ res'[i].run = res[i].run
           /\ res'[i].env = res[i].env
           /\ res'[i].st = "free" <=> res[i].st = "free"
      /\ pointer' = pointer /\ label' = label /\ made' = made /\ plain' = plain
      /\ owner' = owner /\ occupied' = occupied /\ cap' = cap
  BY DEF Quiet, diskVars
<1>1. DisksTyped'
  BY <1>0 DEF PoolInv, DisksTyped
<1>2. SlotsAccounted'
  BY <1>0 DEF PoolInv, SlotsAccounted, Live
<1>3. ClaimsSound'
  <2>1. \A r : Assigning(r) => Assigning(r)'
    BY DEF Quiet, Assigning
  <2> QED  BY <1>0, <2>1 DEF PoolInv, ClaimsSound
<1>4. ClaimsUnderWay'
  <2>1. \A a \in Attempts : att[a].st = "assigning" => att[a].res \in Res
    BY DEF PoolInv, Attached, VmsTyped, Records, Unattached
  <2> QED  BY <1>0, <2>1 DEF PoolInv, ClaimsUnderWay, Quiet
<1>5. SparesUnclaimed'
  BY <1>0 DEF PoolInv, SparesUnclaimed, Spare
<1>6. LocksHeld'
  BY <1>0 DEF PoolInv, LocksHeld
<1>7. CapturesStillDisk'
  <2> SUFFICES ASSUME NEW r \in Runs, cap[r].st = "sealing", cap[r].by # Nil
               PROVE  res'[cap[r].by].run = r /\ res'[cap[r].by].vm \in {"paused", "dead"}
    BY <1>0 DEF CapturesStillDisk
  <2>1. cap[r].by \in Res
    BY DEF PoolInv, VmsTyped, Captures
  <2>2. res[cap[r].by].run = r /\ res[cap[r].by].vm \in {"paused", "dead"}
    BY DEF PoolInv, CapturesStillDisk
  <2>3. ~Uncaptured(cap[r].by)
    BY DEF Uncaptured
  <2> QED  BY <1>0, <2>1, <2>2, <2>3 DEF Quiet
<1> QED  BY <1>1, <1>2, <1>3, <1>4, <1>5, <1>6, <1>7 DEF Disks

\* The same for stops.
LEMMA NoneStartsKeeps ==
  ASSUME StoppedNeverStarts, NoneStarts
  PROVE  StoppedNeverStarts'
BY DEF StoppedNeverStarts, NoneStarts

\* The parts of the invariant again.
LEMMA PoolInvParts ==
  ASSUME Disks, VmsTyped, Shapes, Attached, OwnReservation, Queued, AdmissionHeld,
         StoppedNeverStarts
  PROVE  PoolInv
BY DEF PoolInv, Disks

\* A reservation that waits in a queue, is prepared or is free serves no
\* attempt.
LEMMA NotAttached ==
  ASSUME PoolInv, NEW i \in Res, res[i].st \notin {"granted", "used", "closing"},
         NEW a \in Attempts
  PROVE  att[a].res # i
<1> SUFFICES ASSUME att[a].res = i PROVE FALSE
  OBVIOUS
<1>1. att[a].res # Nil /\ att[a].st \notin Unattached /\ Serves(RunOf(a), att[a], res[i])
  BY NilApart DEF PoolInv, Attached
<1>2. att[a].st \in AttStates
  BY DEF PoolInv, VmsTyped, Records
<1> QED  BY <1>1, <1>2 DEF Serves, Unattached, AttStates

\* A queue is unaffected when no reservation of it changes its state.
LEMMA QueueStays ==
  ASSUME NEW s, NEW st, Queue(s, st), NEW i \in Res, res \in [Res -> Reservations],
         res[i].st # st, NEW y, res' = [res EXCEPT ![i] = y]
  PROVE  /\ s \in Seq(Res)
         /\ \A n \in DOMAIN s : res'[s[n]].st = st
         /\ \A n, m \in DOMAIN s : n # m => s[n] # s[m]
BY DEF Queue

\* A reservation leaves a queue, whichever state it takes.
LEMMA QueueLeft ==
  ASSUME NEW s, NEW st, Queue(s, st), NEW i \in Res, res \in [Res -> Reservations],
         NEW y, res' = [res EXCEPT ![i] = y]
  PROVE  /\ Without(s, i) \in Seq(Res) /\ Len(Without(s, i)) <= Len(s)
         /\ \A n \in DOMAIN Without(s, i) : res'[Without(s, i)[n]].st = st
         /\ \A n, m \in DOMAIN Without(s, i) : n # m => Without(s, i)[n] # Without(s, i)[m]
         /\ \A n \in DOMAIN Without(s, i) : Without(s, i)[n] # i
<1>1. s \in Seq(Res) /\ \A n, m \in DOMAIN s : n # m => s[n] # s[m]
  BY DEF Queue
<1>2. PICK w \in Seq(Res) : w = Without(s, i)
  BY <1>1, Removed
<1>3. /\ Len(w) <= Len(s)
      /\ \A n \in DOMAIN w : \E m \in DOMAIN s : w[n] = s[m]
      /\ \A n \in DOMAIN w : w[n] # i
      /\ \A n, m \in DOMAIN w : n # m => w[n] # w[m]
  BY <1>1, <1>2, Removed
<1>4. \A n \in DOMAIN w : res'[w[n]].st = st
  BY <1>1, <1>3 DEF Queue
<1> QED  BY <1>2, <1>3, <1>4, Zenon

\* A step of an attempt and of its own reservation.
LEMMA OwnStep ==
  ASSUME PoolInv, NEW a \in Attempts, NEW i \in Res, att[a].res = i,
         NEW q \in Records, NEW y \in Reservations,
         att[a].st \notin {"reserving", "retaining"}, res[i].st \in {"granted", "used"},
         res' = [res EXCEPT ![i] = y], att' = [att EXCEPT ![a] = q],
         retained' = retained, ready' = ready, preparing' = preparing, adm' = adm,
         Shaped(y),
         \/ q.res = i /\ q.st \notin Unattached /\ Serves(RunOf(a), q, y)
         \/ q.res = Nil /\ q.st \in Unattached \cup {"closing"}
  PROVE  /\ Shapes' /\ Attached' /\ OwnReservation' /\ Queued' /\ AdmissionHeld'
         /\ res' \in [Res -> Reservations] /\ att' \in [Attempts -> Records]
<1>0. /\ res \in [Res -> Reservations] /\ att \in [Attempts -> Records]
      /\ preparing \in Res \cup {Nil}
  BY DEF PoolInv, VmsTyped
<1>1. res' \in [Res -> Reservations] /\ att' \in [Attempts -> Records]
  BY <1>0
<1>2. /\ \A j \in Res : res'[j] = IF j = i THEN y ELSE res[j]
      /\ \A b \in Attempts : att'[b] = IF b = a THEN q ELSE att[b]
  BY <1>0
<1>3. Shapes'
  BY <1>2 DEF PoolInv, Shapes
<1>4. \A b \in Attempts : b # a => att[b].res # i
  BY NilApart DEF PoolInv, OwnReservation
<1>5. \A b \in Attempts : att[b].res \in Res \cup {Nil}
  BY <1>0 DEF Records
<1>6. Attached'
  <2> SUFFICES ASSUME NEW b \in Attempts
               PROVE  /\ att'[b].st \in Unattached => att'[b].res = Nil
                      /\ att'[b].res = Nil => att'[b].st \in Unattached \cup {"closing"}
                      /\ att'[b].res # Nil => Serves(RunOf(b), att'[b], res'[att'[b].res])
    BY DEF Attached
  <2>1. CASE b = a
    BY <2>1, <1>2, NilApart
  <2>2. CASE b # a
    <3>1. att'[b] = att[b] /\ (att[b].res # Nil => res'[att[b].res] = res[att[b].res])
      BY <2>2, <1>2, <1>4, <1>5
    <3> QED  BY <3>1 DEF PoolInv, Attached
  <2> QED  BY <2>1, <2>2
<1>7. OwnReservation'
  <2>1. \A b \in Attempts : att'[b].res = att[b].res \/ (b = a /\ q.res = Nil /\ att'[b].res = Nil)
    BY <1>2
  <2> QED  BY <2>1 DEF PoolInv, OwnReservation
<1>8. Queued'
  <2>1. Queue(retained, "retained")' /\ Queue(ready, "ready")'
    BY <1>0, QueueStays DEF PoolInv, Queued, Queue
  <2>2. preparing # Nil => res'[preparing].st \in {"preparing", "closing"}
    BY <1>0, <1>2 DEF PoolInv, Queued
  <2> QED  BY <2>1, <2>2 DEF PoolInv, Queued
<1>9. AdmissionHeld'
  BY <1>2 DEF PoolInv, AdmissionHeld
<1> QED  BY <1>1, <1>3, <1>6, <1>7, <1>8, <1>9

\* The same, when the step moves neither a slot, a directory nor a disk.
LEMMA OwnQuiet ==
  ASSUME PoolInv, NEW a \in Attempts, NEW i \in Res, att[a].res = i,
         NEW q \in Records, NEW y \in Reservations,
         att[a].st \notin {"reserving", "retaining"}, res[i].st \in {"granted", "used"},
         res' = [res EXCEPT ![i] = y], att' = [att EXCEPT ![a] = q],
         retained' = retained, ready' = ready, preparing' = preparing, adm' = adm,
         Shaped(y),
         \/ q.res = i /\ q.st \notin Unattached /\ Serves(RunOf(a), q, y)
         \/ q.res = Nil /\ q.st \in Unattached \cup {"closing"},
         y.st # "free", y.slot = res[i].slot, y.run = res[i].run, y.env = res[i].env,
         res[i].vm \in {"paused", "dead"} => y.vm \in {"paused", "dead"} \/ Uncaptured(i),
         att[a].st # "assigning", q.st # "assigning",
         Active(a) \/ q.st \in {"new", "reserving", "granted", "exited"},
         att[a].cancelled => q.cancelled \/ q.st \in {"new", "reserving", "granted", "exited"},
         UNCHANGED <<diskVars, occupied, cap, budget, stopped, halt>>
  PROVE  PoolInv'
<1>0. /\ res \in [Res -> Reservations] /\ att \in [Attempts -> Records]
  BY DEF PoolInv, VmsTyped
<1>1. /\ Shapes' /\ Attached' /\ OwnReservation' /\ Queued' /\ AdmissionHeld'
      /\ res' \in [Res -> Reservations] /\ att' \in [Attempts -> Records]
  BY OwnStep
<1>2. /\ \A j \in Res : res'[j] = IF j = i THEN y ELSE res[j]
      /\ \A b \in Attempts : att'[b] = IF b = a THEN q ELSE att[b]
  BY <1>0
<1>3. Quiet
  BY <1>2 DEF Quiet
<1>4. NoneStarts
  BY <1>2 DEF NoneStarts, Active
<1>5. VmsTyped'
  <2>1. preparing' \in Res \cup {Nil} /\ stopped' \subseteq Attempts /\ budget' \in Budgets
        /\ occupied' \subseteq Slots /\ cap' \in [Runs -> Captures] /\ halt' \in BOOLEAN
    BY DEF PoolInv, VmsTyped
  <2> QED  BY <1>1, <2>1 DEF VmsTyped
<1>6. Disks' /\ StoppedNeverStarts'
  BY <1>3, <1>4, QuietKeeps, NoneStartsKeeps DEF PoolInv
<1> QED  BY <1>1, <1>5, <1>6 DEF PoolInv, Disks

\* A step of attempts alone keeps what is said of reservations.
LEMMA AttemptsMove ==
  ASSUME PoolInv, att' \in [Attempts -> Records], stopped' \subseteq Attempts,
         UNCHANGED <<diskVars, poolVars, cap>>, halt' \in BOOLEAN,
         \A a \in Attempts :
           /\ att'[a].st = "assigning" <=> att[a].st = "assigning"
           /\ att'[a].st = "assigning" => att'[a].res = att[a].res,
         Attached', OwnReservation', AdmissionHeld', StoppedNeverStarts'
  PROVE  PoolInv'
<1>0. /\ res' = res /\ retained' = retained /\ ready' = ready /\ preparing' = preparing
      /\ occupied' = occupied /\ budget' = budget /\ cap' = cap
  BY DEF poolVars
<1>1. Quiet
  BY <1>0 DEF Quiet
<1>2. VmsTyped'
  BY <1>0 DEF PoolInv, VmsTyped
<1>3. Shapes' /\ Queued'
  BY <1>0 DEF PoolInv, Shapes, Queued, Queue
<1>4. Disks'
  BY <1>1, QuietKeeps
<1> QED  BY <1>2, <1>3, <1>4 DEF PoolInv, Disks

\* A step of one attempt alone.
LEMMA OneAttempt ==
  ASSUME PoolInv, NEW a \in Attempts, NEW q \in Records, att' = [att EXCEPT ![a] = q],
         UNCHANGED <<diskVars, poolVars, cap, halt>>, stopped' \subseteq Attempts,
         q.st = "assigning" <=> att[a].st = "assigning",
         \/ /\ q.res = att[a].res /\ q.res # Nil /\ q.st \notin Unattached
            /\ Serves(RunOf(a), q, res[q.res])
         \/ q.res = Nil /\ q.st \in Unattached \cup {"closing"},
         AdmissionHeld', StoppedNeverStarts'
  PROVE  PoolInv'
<1>0. att \in [Attempts -> Records] /\ res' = res /\ halt' \in BOOLEAN
  BY DEF PoolInv, VmsTyped, poolVars
<1>1. att' \in [Attempts -> Records] /\ \A b \in Attempts : att'[b] = IF b = a THEN q ELSE att[b]
  BY <1>0
<1>2. Attached'
  <2> SUFFICES ASSUME NEW b \in Attempts
               PROVE  /\ att'[b].st \in Unattached => att'[b].res = Nil
                      /\ att'[b].res = Nil => att'[b].st \in Unattached \cup {"closing"}
                      /\ att'[b].res # Nil => Serves(RunOf(b), att'[b], res'[att'[b].res])
    BY DEF Attached
  <2>1. CASE b = a
    BY <2>1, <1>0, <1>1
  <2>2. CASE b # a
    BY <2>2, <1>0, <1>1 DEF PoolInv, Attached
  <2> QED  BY <2>1, <2>2
<1>3. OwnReservation'
  BY <1>1 DEF PoolInv, OwnReservation
<1>4. \A b \in Attempts :
        /\ att'[b].st = "assigning" <=> att[b].st = "assigning"
        /\ att'[b].st = "assigning" => att'[b].res = att[b].res
  BY <1>1 DEF Unattached
<1> QED
  BY <1>0, <1>1, <1>2, <1>3, <1>4, AttemptsMove

\* The fields of an attempt and of its reservation in each state.
LEMMA AttemptFields ==
  ASSUME PoolInv, NEW a \in Attempts
  PROVE  /\ att[a] \in Records /\ att[a].st \in AttStates /\ RunOf(a) \in Runs
         /\ att[a].st \in Unattached => att[a].res = Nil
         /\ att[a].st \notin Unattached \cup {"closing"} =>
              /\ att[a].res \in Res /\ res[att[a].res] \in Reservations
              /\ Serves(RunOf(a), att[a], res[att[a].res]) /\ Shaped(res[att[a].res])
BY NilApart DEF PoolInv, VmsTyped, Records, Attached, Unattached, Shapes

\* A new attempt is NewAttempt or one that exited, and it may be cancelled.
LEMMA AttemptRecords ==
  ASSUME NEW p \in Records
  PROVE  /\ NewAttempt \in Records /\ [NewAttempt EXCEPT !.st = "exited"] \in Records
         /\ \A s \in AttStates : /\ [p EXCEPT !.st = s] \in Records
                                 /\ [p EXCEPT !.st = s].st = s
                                 /\ [p EXCEPT !.st = s].res = p.res
                                 /\ [p EXCEPT !.st = s].cancelled = p.cancelled
         /\ [p EXCEPT !.cancelled = TRUE] \in Records
         /\ [p EXCEPT !.cancelled = TRUE].st = p.st
         /\ [p EXCEPT !.cancelled = TRUE].res = p.res
         /\ [p EXCEPT !.cancelled = TRUE].cancelled
         /\ NewAttempt.st = "new" /\ NewAttempt.res = Nil
         /\ [NewAttempt EXCEPT !.st = "exited"].st = "exited"
         /\ [NewAttempt EXCEPT !.st = "exited"].res = Nil
<1>1. p.st \in AttStates /\ p.res \in Res \cup {Nil}
  BY DEF Records
<1>2. /\ NewAttempt \in Records /\ [NewAttempt EXCEPT !.st = "exited"] \in Records
  BY DEF Records, AttStates, NewAttempt
<1>3. /\ NewAttempt.st = "new" /\ NewAttempt.res = Nil
      /\ [NewAttempt EXCEPT !.st = "exited"].st = "exited"
      /\ [NewAttempt EXCEPT !.st = "exited"].res = Nil
  BY DEF NewAttempt
<1>4. \A s \in AttStates : /\ [p EXCEPT !.st = s] \in Records
                           /\ [p EXCEPT !.st = s].st = s
                           /\ [p EXCEPT !.st = s].res = p.res
                           /\ [p EXCEPT !.st = s].cancelled = p.cancelled
  BY DEF Records
<1>5. /\ [p EXCEPT !.cancelled = TRUE] \in Records
      /\ [p EXCEPT !.cancelled = TRUE].st = p.st
      /\ [p EXCEPT !.cancelled = TRUE].res = p.res
      /\ [p EXCEPT !.cancelled = TRUE].cancelled
  BY DEF Records
<1> QED  BY <1>2, <1>3, <1>4, <1>5

\* The end of an attempt that has its reservation.
LEMMA EndKeeps ==
  ASSUME PoolInv, NEW a \in Attempts, Active(a), End(a),
         att[a].st \notin {"retaining", "assigning", "closing"},
         UNCHANGED <<diskVars, occupied, retained, ready, preparing, adm, budget, cap,
                     stopped, halt>>
  PROVE  PoolInv'
<1> DEFINE i == att[a].res
           q == [att[a] EXCEPT !.st = "closing"]
           y == [res[i] EXCEPT !.st = "closing", !.doomed = TRUE]
<1>1. /\ i \in Res /\ res[i] \in Reservations /\ Serves(RunOf(a), att[a], res[i])
      /\ Shaped(res[i]) /\ att[a] \in Records /\ att[a].st \in AttStates
  BY AttemptFields DEF Active, Unattached, AttStates
<1>2. PICK x \in Reservations : x = res[i]
  BY <1>1
<1>3. x.st \in {"granted", "used"}
  BY <1>1, <1>2 DEF Serves, Active, AttStates
<1>4. y \in Reservations /\ y.st = "closing" /\ y.slot = x.slot /\ y.run = x.run
      /\ y.env = x.env /\ y.vm = x.vm /\ y.prepared = x.prepared
  BY <1>2 DEF Reservations, ResStates
<1>5. q \in Records /\ q.st = "closing" /\ q.res = i /\ q.cancelled = att[a].cancelled
  BY <1>1, AttemptRecords DEF AttStates
<1>6. res' = [res EXCEPT ![i] = y] /\ att' = [att EXCEPT ![a] = q]
  <2>1. res \in [Res -> Reservations]
    BY DEF PoolInv, VmsTyped
  <2> QED  BY <2>1 DEF End, Closing
<1> HIDE DEF y, q
<1>7. Shaped(y) /\ Serves(RunOf(a), q, y)
  BY <1>1, <1>2, <1>3, <1>4, <1>5 DEF Shaped, Serves
<1>8. i = att[a].res
  OBVIOUS
<1> HIDE DEF i
<1> QED
  BY <1>1, <1>2, <1>3, <1>4, <1>5, <1>6, <1>7, <1>8, OwnQuiet DEF Unattached, Active

\* Executions that end: told to stop, refused the disk, failed or lost.
LEMMA EndingsKeep ==
  ASSUME PoolInv, NEW a \in Attempts,
         \/ ExecuteStopped(a) \/ DiskInUse(a) \/ BootFails(a) \/ GuestLost(a)
         \/ NotRetained(a) \/ GuestExits(a, FALSE)
  PROVE  PoolInv'
BY EndKeeps DEF ExecuteStopped, DiskInUse, BootFails, GuestLost, NotRetained, GuestExits,
                Active, diskVars

\* A preparation that is cancelled keeps its reservation until it notices;
\* attempts may be cancelled at the same time.
LEMMA PreemptKeeps ==
  ASSUME PoolInv, res' = Preempted, att' \in [Attempts -> Records],
         \A a \in Attempts : /\ att'[a].st = att[a].st /\ att'[a].res = att[a].res
                             /\ att[a].cancelled => att'[a].cancelled,
         UNCHANGED <<diskVars, budget, occupied, retained, ready, preparing, cap, stopped>>,
         halt' \in BOOLEAN, AdmissionHeld'
  PROVE  PoolInv'
<1>0. res \in [Res -> Reservations] /\ preparing \in Res \cup {Nil} /\ att \in [Attempts -> Records]
  BY DEF PoolInv, VmsTyped
<1>1. /\ res' \in [Res -> Reservations]
      /\ \A i \in Res :
           /\ res'[i].st = res[i].st /\ res'[i].slot = res[i].slot /\ res'[i].run = res[i].run
           /\ res'[i].env = res[i].env /\ res'[i].vm = res[i].vm
           /\ res'[i].resumed = res[i].resumed /\ res'[i].prepared = res[i].prepared
           /\ res[i].st = "free" => res'[i] = res[i]
  <2>1. CASE preparing = Nil
    BY <1>0, <2>1 DEF Preempted
  <2>2. CASE preparing # Nil
    <3> DEFINE y == [res[preparing] EXCEPT !.doomed = TRUE]
    <3>1. res' = [res EXCEPT ![preparing] = y] /\ preparing \in Res
      BY <1>0, <2>2 DEF Preempted
    <3>2. PICK x \in Reservations : x = res[preparing]
      BY <1>0, <3>1
    <3>3. /\ y \in Reservations
          /\ y.st = x.st /\ y.slot = x.slot /\ y.run = x.run /\ y.env = x.env
          /\ y.vm = x.vm /\ y.resumed = x.resumed /\ y.prepared = x.prepared
      BY <3>2 DEF Reservations
    <3>4. x.st # "free"
      BY <2>2, <3>2 DEF PoolInv, Queued
    <3> HIDE DEF y
    <3> QED  BY <1>0, <3>1, <3>2, <3>3, <3>4
  <2> QED  BY <2>1, <2>2
<1>2. Shapes'
  <2> SUFFICES ASSUME NEW i \in Res PROVE Shaped(res'[i])
    BY DEF Shapes
  <2>1. CASE res[i].st = "free"
    BY <1>1, <2>1 DEF PoolInv, Shapes
  <2>2. CASE res[i].st # "free"
    BY <1>1, <2>2 DEF PoolInv, Shapes, Shaped
  <2> QED  BY <2>1, <2>2
<1>3. Attached'
  <2> SUFFICES ASSUME NEW a \in Attempts
               PROVE  /\ att'[a].st \in Unattached => att'[a].res = Nil
                      /\ att'[a].res = Nil => att'[a].st \in Unattached \cup {"closing"}
                      /\ att'[a].res # Nil => Serves(RunOf(a), att'[a], res'[att'[a].res])
    BY DEF Attached
  <2>1. att[a].res \in Res \cup {Nil}
    BY <1>0 DEF Records
  <2>2. att[a].res # Nil => Serves(RunOf(a), att[a], res[att[a].res])
    BY DEF PoolInv, Attached
  <2>3. att[a].res # Nil => Serves(RunOf(a), att'[a], res'[att[a].res])
    BY <1>1, <2>1, <2>2 DEF Serves
  <2> QED  BY <2>3 DEF PoolInv, Attached
<1>4. OwnReservation'
  BY DEF PoolInv, OwnReservation
<1>5. Queued'
  <2>1. Queue(retained, "retained")' /\ Queue(ready, "ready")'
    BY <1>1 DEF PoolInv, Queued, Queue
  <2>2. preparing # Nil => res'[preparing].st \in {"preparing", "closing"}
    BY <1>0, <1>1 DEF PoolInv, Queued
  <2> QED  BY <2>1, <2>2 DEF Queued
<1>6. Quiet
  BY <1>1 DEF Quiet
<1>7. NoneStarts
  BY DEF NoneStarts, Active
<1>8. VmsTyped'
  <2>1. preparing' \in Res \cup {Nil} /\ stopped' \subseteq Attempts /\ budget' \in Budgets
        /\ occupied' \subseteq Slots /\ cap' \in [Runs -> Captures]
    BY DEF PoolInv, VmsTyped
  <2> QED  BY <1>1, <2>1 DEF VmsTyped
<1>9. Disks' /\ StoppedNeverStarts'
  BY <1>6, <1>7, QuietKeeps, NoneStartsKeeps DEF PoolInv
<1> QED
  BY <1>2, <1>3, <1>4, <1>5, <1>8, <1>9 DEF PoolInv, Disks

----------------------------------------
(* One lemma for each action, or for actions of the same kind.             *)

\* An attempt asks for a start.
LEMMA StartKeeps ==
  ASSUME PoolInv, NEW a \in Attempts, Start(a)
  PROVE  PoolInv'
<1> DEFINE q == [att[a] EXCEPT !.st = "reserving"]
<1>1. q \in Records /\ q.st = "reserving" /\ q.res = Nil
  <2>1. att[a] \in Records /\ att[a].res = Nil
    BY AttemptFields DEF Start, Unattached
  <2>2. "reserving" \in AttStates
    BY DEF AttStates
  <2> QED  BY <2>1, <2>2, AttemptRecords
<1>2. att \in [Attempts -> Records]
  BY DEF PoolInv, VmsTyped
<1>3. att' = [att EXCEPT ![a] = q] /\ att[a].st = "new"
  BY DEF Start
<1> HIDE DEF q
<1>4. \A b \in Attempts : att'[b] = IF b = a THEN q ELSE att[b]
  BY <1>2, <1>3
<1>5. NoneStarts
  BY <1>1, <1>4 DEF NoneStarts, Active, Start
<1>6. StoppedNeverStarts'
  BY <1>5, NoneStartsKeeps DEF PoolInv
<1>7. AdmissionHeld'
  BY <1>3, <1>4 DEF PoolInv, AdmissionHeld, Start
<1>8. UNCHANGED <<diskVars, poolVars, cap, halt>> /\ stopped' \subseteq Attempts
  BY DEF Start, PoolInv, VmsTyped
<1> QED
  BY <1>1, <1>3, <1>6, <1>7, <1>8, OneAttempt DEF Unattached

\* An attempt that waits is refused.
LEMMA RefuseKeeps ==
  ASSUME PoolInv, NEW a \in Attempts, att[a].st = "reserving", Refuse(a),
         UNCHANGED <<diskVars, poolVars, cap, halt, stopped>>
  PROVE  PoolInv'
<1>1. att \in [Attempts -> Records] /\ NewAttempt \in Records
  BY AttemptRecords DEF PoolInv, VmsTyped
<1>2. att' = [att EXCEPT ![a] = NewAttempt] /\ adm' = NoAdm
  BY DEF Refuse
<1>3. NewAttempt.st = "new" /\ NewAttempt.res = Nil
  BY DEF NewAttempt
<1>4. \A b \in Attempts : att'[b] = IF b = a THEN NewAttempt ELSE att[b]
  BY <1>1, <1>2
<1>5. NoneStarts
  BY <1>3, <1>4 DEF NoneStarts, Active
<1>6. AdmissionHeld'
  BY <1>2 DEF AdmissionHeld, NoAdm
<1>7. stopped' \subseteq Attempts /\ StoppedNeverStarts'
  BY <1>5, NoneStartsKeeps DEF PoolInv, VmsTyped
<1> QED
  BY <1>1, <1>2, <1>3, <1>6, <1>7, OneAttempt DEF Unattached

\* The admission of a start: the lock is taken, a preparation preempted.
LEMMA AdmitKeeps ==
  ASSUME PoolInv, NEW a \in Attempts, Admit(a)
  PROVE  PoolInv'
<1>1. CASE halt
  BY <1>1, RefuseKeeps DEF Admit, poolVars
<1>2. CASE ~halt
  <2>1. /\ res' = Preempted /\ att' = att /\ att[a].st = "reserving"
        /\ adm' = [NoAdm EXCEPT !.op = "reserve", !.who = a, !.pc = "room"]
    BY <1>2 DEF Admit
  <2>2. AdmissionHeld'
    BY <2>1 DEF AdmissionHeld, NoAdm
  <2>3. att' \in [Attempts -> Records] /\ halt' \in BOOLEAN
    BY <2>1 DEF PoolInv, VmsTyped, Admit
  <2>4. UNCHANGED <<diskVars, budget, occupied, retained, ready, preparing, cap, stopped>>
    BY DEF Admit
  <2> QED  BY <2>1, <2>2, <2>3, <2>4, PreemptKeeps
<1> QED  BY <1>1, <1>2

\* A step of an attempt that has its reservation, of which only the state
\* and the VM change.
LEMMA RunningStep ==
  ASSUME PoolInv, NEW a \in Attempts, att[a].st \notin Unattached \cup {"closing", "retaining",
                                                                       "assigning"},
         NEW s \in AttStates, s \notin Unattached \cup {"closing", "assigning"},
         NEW y \in Reservations,
         res' = [res EXCEPT ![att[a].res] = y], att' = [att EXCEPT ![a].st = s],
         y.st # "free", y.slot = res[att[a].res].slot, y.run = res[att[a].res].run,
         y.env = res[att[a].res].env, Shaped(y), Serves(RunOf(a), [att[a] EXCEPT !.st = s], y),
         res[att[a].res].vm \in {"paused", "dead"} =>
            y.vm \in {"paused", "dead"} \/ Uncaptured(att[a].res),
         Active(a) \/ s = "granted",
         UNCHANGED <<diskVars, occupied, cap, budget, stopped, halt, retained, ready, preparing,
                     adm>>
  PROVE  PoolInv'
<1> DEFINE i == att[a].res
           q == [att[a] EXCEPT !.st = s]
<1>1. /\ i \in Res /\ res[i] \in Reservations /\ Serves(RunOf(a), att[a], res[i])
      /\ att[a] \in Records /\ att[a].st \in AttStates
  BY AttemptFields
<1>2. res[i].st \in {"granted", "used"}
  BY <1>1 DEF Serves, AttStates, Unattached
<1>3. q \in Records /\ q.st = s /\ q.res = i /\ q.cancelled = att[a].cancelled
  BY <1>1, AttemptRecords
<1>4. att' = [att EXCEPT ![a] = q]
  OBVIOUS
<1>5. att[a].st \notin {"reserving", "retaining"} /\ att[a].st # "assigning" /\ q.st # "assigning"
      /\ (Active(a) \/ q.st \in {"new", "reserving", "granted", "exited"})
  BY <1>3 DEF Unattached
<1>6. i = att[a].res /\ Serves(RunOf(a), q, y)
  OBVIOUS
<1>7. q.st \notin Unattached /\ (att[a].cancelled => q.cancelled)
  BY <1>3
<1>8. retained' = retained /\ ready' = ready /\ preparing' = preparing /\ adm' = adm
      /\ UNCHANGED <<diskVars, occupied, cap, budget, stopped, halt>>
  OBVIOUS
<1> HIDE DEF q
<1> QED
  BY <1>1, <1>2, <1>3, <1>4, <1>5, <1>6, <1>7, <1>8, OwnQuiet

\* The closing record of a reservation.
LEMMA ClosingRecord ==
  ASSUME PoolInv, NEW i \in Res, res[i].st # "free"
  PROVE  \E y \in Reservations :
           /\ Closing(i) = [res EXCEPT ![i] = y]
           /\ y.st = "closing" /\ y.slot = res[i].slot /\ y.run = res[i].run
           /\ y.env = res[i].env /\ y.vm = res[i].vm /\ Shaped(y)
<1> DEFINE y == [res[i] EXCEPT !.st = "closing", !.doomed = TRUE]
<1>1. res \in [Res -> Reservations] /\ Shaped(res[i])
  BY DEF PoolInv, VmsTyped, Shapes
<1>2. PICK x \in Reservations : x = res[i]
  BY <1>1
<1>3. /\ y \in Reservations /\ y.st = "closing" /\ y.slot = x.slot /\ y.run = x.run
      /\ y.env = x.env /\ y.vm = x.vm /\ y.prepared = x.prepared
  BY <1>2 DEF Reservations, ResStates
<1>4. Closing(i) = [res EXCEPT ![i] = y]
  BY <1>1 DEF Closing
<1> HIDE DEF y
<1>5. Shaped(y)
  BY <1>1, <1>2, <1>3 DEF Shaped
<1> QED  BY <1>2, <1>3, <1>4, <1>5

\* The registration repeats the checks of the start under the lock.
LEMMA RegisterKeeps ==
  ASSUME PoolInv, NEW a \in Attempts, Register(a)
  PROVE  PoolInv'
<1>0. /\ att[a].st = "granted"
      /\ UNCHANGED <<diskVars, budget, occupied, retained, ready, preparing, adm, stopped,
                     cap, halt>>
  BY DEF Register
<1> DEFINE i == att[a].res
<1>1. /\ i \in Res /\ res[i] \in Reservations /\ Serves(RunOf(a), att[a], res[i])
      /\ att[a] \in Records
  BY <1>0, AttemptFields DEF Unattached
<1>2. res[i].st = "granted"
  BY <1>0, <1>1 DEF Serves
<1>3. CASE halt \/ a \in stopped \/ RunActive(RunOf(a))
  <2>1. att' = [att EXCEPT ![a] = NewAttempt] /\ res' = Closing(i)
    BY <1>3 DEF Register
  <2>2. PICK y \in Reservations :
           /\ Closing(i) = [res EXCEPT ![i] = y]
           /\ y.st = "closing" /\ y.slot = res[i].slot /\ y.run = res[i].run
           /\ y.env = res[i].env /\ y.vm = res[i].vm /\ Shaped(y)
    BY <1>1, <1>2, ClosingRecord
  <2>3. NewAttempt \in Records /\ NewAttempt.st = "new" /\ NewAttempt.res = Nil
    BY <1>1, AttemptRecords
  <2>4. res' = [res EXCEPT ![i] = y]
    BY <2>1, <2>2
  <2>5. NewAttempt.st \in Unattached
    BY <2>3 DEF Unattached
  <2>6. retained' = retained /\ ready' = ready /\ preparing' = preparing /\ adm' = adm
    BY <1>0
  <2> QED
    BY <1>0, <1>1, <1>2, <2>1, <2>2, <2>3, <2>4, <2>5, <2>6, OwnQuiet
<1>4. CASE ~(halt \/ a \in stopped \/ RunActive(RunOf(a)))
  <2> DEFINE q == [att[a] EXCEPT !.st = "starting"]
  <2>1. att' = [att EXCEPT ![a] = q] /\ res' = res
    BY <1>4 DEF Register
  <2>2. q \in Records /\ q.st = "starting" /\ q.res = i
    <3>1. "starting" \in AttStates
      BY DEF AttStates
    <3> QED  BY <1>1, <3>1, AttemptRecords
  <2> HIDE DEF q
  <2>3. att \in [Attempts -> Records]
    BY DEF PoolInv, VmsTyped
  <2>4. \A b \in Attempts : att'[b] = IF b = a THEN q ELSE att[b]
    BY <2>1, <2>3
  <2>5. Serves(RunOf(a), q, res[i]) /\ q.st \notin Unattached
    BY <1>0, <1>1, <2>2 DEF Serves, Unattached
  <2>6. StoppedNeverStarts'
    <3>1. stopped' = stopped /\ a \notin stopped
      BY <1>0, <1>4
    <3>2. \A b \in Attempts : RunOf(b) = RunOf(a) => ~Active(b)
      BY <1>4 DEF RunActive
    <3>3. \A b \in Attempts \ {a} : (Active(b)' <=> Active(b)) /\ att'[b].cancelled = att[b].cancelled
      BY <2>4 DEF Active
    <3> QED  BY <3>1, <3>2, <3>3 DEF PoolInv, StoppedNeverStarts
  <2>7. AdmissionHeld'
    BY <1>0, <2>4 DEF PoolInv, AdmissionHeld
  <2>8. UNCHANGED <<diskVars, poolVars, cap, halt>> /\ stopped' \subseteq Attempts
    BY <1>0, <2>1 DEF poolVars, PoolInv, VmsTyped
  <2>9. q.res # Nil /\ q.res = att[a].res /\ Serves(RunOf(a), q, res[q.res])
    BY <1>1, <2>2, <2>5, NilApart
  <2> QED
    BY <1>0, <2>1, <2>2, <2>5, <2>6, <2>7, <2>8, <2>9, OneAttempt
<1> QED  BY <1>3, <1>4

\* The VM of an attempt boots.
LEMMA BootKeeps ==
  ASSUME PoolInv, NEW a \in Attempts, Boot(a)
  PROVE  PoolInv'
<1> DEFINE i == att[a].res
           y == [res[i] EXCEPT !.st = "used", !.vm = "running"]
           q == [att[a] EXCEPT !.st = "running"]
<1>1. att[a].st = "booting" /\ att' = [att EXCEPT ![a].st = "running"]
  BY DEF Boot
<1>2. /\ i \in Res /\ res[i] \in Reservations /\ Serves(RunOf(a), att[a], res[i])
      /\ att[a] \in Records /\ Shaped(res[i]) /\ RunOf(a) \in Runs
  BY <1>1, AttemptFields DEF Unattached
<1>3. res' = [res EXCEPT ![i] = y]
  <2>1. res \in [Res -> Reservations]
    BY DEF PoolInv, VmsTyped
  <2> QED  BY <2>1 DEF Boot
<1>4. PICK x \in Reservations : x = res[i]
  BY <1>2
<1>5. /\ y \in Reservations /\ y.st = "used" /\ y.slot = x.slot /\ y.run = x.run
      /\ y.env = x.env /\ y.prepared = x.prepared
  BY <1>4 DEF Reservations, ResStates, VmStates
<1>6. "running" \in AttStates /\ "running" \notin Unattached \cup {"closing", "assigning"}
      /\ Active(a) /\ att[a].st \notin Unattached \cup {"closing", "retaining", "assigning"}
  BY <1>1 DEF AttStates, Unattached, Active
<1>7. q.st = "running" /\ q.res = i
  BY <1>2, <1>6, AttemptRecords
<1>8. res[i].vm = "none"
  BY <1>1, <1>2 DEF Serves
<1> HIDE DEF y, q
<1>9. Shaped(y) /\ Serves(RunOf(a), q, y) /\ y.st # "free"
  BY <1>1, <1>2, <1>4, <1>5, <1>7, NilApart DEF Shaped, Serves
<1>10. UNCHANGED <<diskVars, occupied, cap, budget, stopped, halt, retained, ready, preparing,
                   adm>>
  BY DEF Boot
<1>11. Serves(RunOf(a), [att[a] EXCEPT !.st = "running"], y)
  BY <1>9 DEF q
<1> QED
  BY <1>1, <1>2, <1>3, <1>4, <1>5, <1>6, <1>8, <1>9, <1>10, <1>11, RunningStep

\* The guest reports success.
LEMMA SuccessKeeps ==
  ASSUME PoolInv, NEW a \in Attempts, GuestExits(a, TRUE)
  PROVE  PoolInv'
<1> DEFINE i == att[a].res
           q == [att[a] EXCEPT !.st = "done"]
<1>1. att[a].st = "running" /\ att' = [att EXCEPT ![a].st = "done"] /\ res' = res
  BY DEF GuestExits
<1>2. /\ i \in Res /\ res[i] \in Reservations /\ Serves(RunOf(a), att[a], res[i])
      /\ att[a] \in Records /\ Shaped(res[i])
  BY <1>1, AttemptFields DEF Unattached
<1>3. res' = [res EXCEPT ![i] = res[i]]
  <2>1. res \in [Res -> Reservations]
    BY DEF PoolInv, VmsTyped
  <2> QED  BY <1>1, <2>1
<1>4. "done" \in AttStates /\ "done" \notin Unattached \cup {"closing", "assigning"}
      /\ Active(a) /\ att[a].st \notin Unattached \cup {"closing", "retaining", "assigning"}
  BY <1>1 DEF AttStates, Unattached, Active
<1>5. q.st = "done" /\ q.res = i
  BY <1>2, <1>4, AttemptRecords
<1> HIDE DEF q
<1>6. Serves(RunOf(a), q, res[i]) /\ res[i].st # "free"
  BY <1>1, <1>2, <1>5 DEF Serves
<1>7. Serves(RunOf(a), [att[a] EXCEPT !.st = "done"], res[i])
  BY <1>6 DEF q
<1>8. UNCHANGED <<diskVars, occupied, cap, budget, stopped, halt, retained, ready, preparing,
                   adm>>
  BY DEF GuestExits
<1> QED
  BY <1>1, <1>2, <1>3, <1>4, <1>6, <1>7, <1>8, RunningStep

\* A VM is paused to be retained.
LEMMA SuspendKeeps ==
  ASSUME PoolInv, NEW a \in Attempts, Suspend(a)
  PROVE  PoolInv'
<1> DEFINE i == att[a].res
           y == [res[i] EXCEPT !.vm = "paused"]
           q == [att[a] EXCEPT !.st = "suspended"]
<1>1. att[a].st = "done" /\ att' = [att EXCEPT ![a].st = "suspended"]
  BY DEF Suspend
<1>2. /\ i \in Res /\ res[i] \in Reservations /\ Serves(RunOf(a), att[a], res[i])
      /\ att[a] \in Records /\ Shaped(res[i]) /\ RunOf(a) \in Runs
  BY <1>1, AttemptFields DEF Unattached
<1>3. res' = [res EXCEPT ![i] = y]
  <2>1. res \in [Res -> Reservations]
    BY DEF PoolInv, VmsTyped
  <2> QED  BY <2>1 DEF Suspend
<1>4. PICK x \in Reservations : x = res[i]
  BY <1>2
<1>5. /\ y \in Reservations /\ y.st = x.st /\ y.slot = x.slot /\ y.run = x.run
      /\ y.env = x.env /\ y.prepared = x.prepared /\ y.vm = "paused"
  BY <1>4 DEF Reservations, ResStates, VmStates
<1>6. "suspended" \in AttStates /\ "suspended" \notin Unattached \cup {"closing", "assigning"}
      /\ Active(a) /\ att[a].st \notin Unattached \cup {"closing", "retaining", "assigning"}
  BY <1>1 DEF AttStates, Unattached, Active
<1>7. q.st = "suspended" /\ q.res = i
  BY <1>2, <1>6, AttemptRecords
<1> HIDE DEF y, q
<1>9. Shaped(y) /\ Serves(RunOf(a), q, y) /\ y.st # "free"
  BY <1>1, <1>2, <1>4, <1>5, <1>7, NilApart DEF Shaped, Serves
<1>10. UNCHANGED <<diskVars, occupied, cap, budget, stopped, halt, retained, ready, preparing,
                   adm>>
  BY DEF Suspend
<1>11. Serves(RunOf(a), [att[a] EXCEPT !.st = "suspended"], y)
  BY <1>9 DEF q
<1> QED
  BY <1>1, <1>2, <1>3, <1>4, <1>5, <1>6, <1>9, <1>10, <1>11, RunningStep

\* The attempt that waits for the retention of its VM holds the lock.
LEMMA RetainAdmitKeeps ==
  ASSUME PoolInv, NEW a \in Attempts, RetainAdmit(a)
  PROVE  PoolInv'
<1> DEFINE i == att[a].res
           q == [att[a] EXCEPT !.st = "retaining"]
<1>1. /\ att[a].st = "suspended" /\ att' = [att EXCEPT ![a] = q]
      /\ adm' = [NoAdm EXCEPT !.op = "retain", !.who = a, !.pc = "fit"]
      /\ UNCHANGED <<diskVars, poolVars, stopped, cap, halt>>
  BY DEF RetainAdmit
<1>2. /\ i \in Res /\ Serves(RunOf(a), att[a], res[i]) /\ att[a] \in Records
  BY <1>1, AttemptFields DEF Unattached
<1>3. q \in Records /\ q.st = "retaining" /\ q.res = i /\ q.cancelled = att[a].cancelled
  <2>1. "retaining" \in AttStates
    BY DEF AttStates
  <2> QED  BY <1>2, <2>1, AttemptRecords
<1> HIDE DEF q
<1>4. \A b \in Attempts : att'[b] = IF b = a THEN q ELSE att[b]
  BY <1>1 DEF PoolInv, VmsTyped
<1>5. Serves(RunOf(a), q, res[i]) /\ q.st \notin Unattached /\ i # Nil
  BY <1>1, <1>2, <1>3, NilApart DEF Serves, Unattached
<1>6. NoneStarts
  BY <1>1, <1>3, <1>4 DEF NoneStarts, Active
<1>7. AdmissionHeld'
  BY <1>1, <1>3, <1>4 DEF AdmissionHeld, NoAdm
<1>8. StoppedNeverStarts' /\ stopped' \subseteq Attempts
  BY <1>1, <1>6, NoneStartsKeeps DEF PoolInv, VmsTyped
<1> QED
  BY <1>1, <1>3, <1>5, <1>7, <1>8, OneAttempt

\* The exit is recorded when the reservation is gone.
LEMMA RecordExitKeeps ==
  ASSUME PoolInv, NEW a \in Attempts, RecordExit(a)
  PROVE  PoolInv'
<1> DEFINE q == [NewAttempt EXCEPT !.st = "exited"]
<1>1. /\ att[a].st = "closing" /\ att' = [att EXCEPT ![a] = q] /\ adm' = adm
      /\ UNCHANGED <<diskVars, poolVars, stopped, cap, halt>>
  BY DEF RecordExit
<1>2. q \in Records /\ q.st = "exited" /\ q.res = Nil
  BY AttemptFields, AttemptRecords
<1> HIDE DEF q
<1>3. \A b \in Attempts : att'[b] = IF b = a THEN q ELSE att[b]
  BY <1>1 DEF PoolInv, VmsTyped
<1>4. NoneStarts
  BY <1>1, <1>2, <1>3 DEF NoneStarts, Active
<1>5. AdmissionHeld'
  BY <1>1, <1>2, <1>3 DEF PoolInv, AdmissionHeld
<1>6. StoppedNeverStarts' /\ stopped' \subseteq Attempts
  BY <1>1, <1>4, NoneStartsKeeps DEF PoolInv, VmsTyped
<1> QED
  BY <1>1, <1>2, <1>5, <1>6, OneAttempt DEF Unattached

\* A start that is dropped leaves the lock, and its reservation closes.
LEMMA StartDroppedKeeps ==
  ASSUME PoolInv, NEW a \in Attempts, StartDropped(a)
  PROVE  PoolInv'
<1>0. /\ att[a].st \in {"reserving", "granted"} /\ att' = [att EXCEPT ![a] = NewAttempt]
      /\ adm' = IF adm.op = "reserve" /\ adm.who = a THEN NoAdm ELSE adm
      /\ res' = IF att[a].st = "granted" THEN Closing(att[a].res) ELSE res
      /\ UNCHANGED <<diskVars, budget, occupied, retained, ready, preparing, stopped, cap, halt>>
  BY DEF StartDropped
<1>1. /\ att \in [Attempts -> Records] /\ att[a] \in Records /\ NewAttempt \in Records
      /\ NewAttempt.st = "new" /\ NewAttempt.res = Nil
  BY AttemptRecords DEF PoolInv, VmsTyped
<1>2. \A b \in Attempts : att'[b] = IF b = a THEN NewAttempt ELSE att[b]
  BY <1>0, <1>1
<1>3. CASE att[a].st = "granted"
  <2> DEFINE i == att[a].res
  <2>1. /\ i \in Res /\ res[i] \in Reservations /\ Serves(RunOf(a), att[a], res[i])
    BY <1>3, AttemptFields DEF Unattached
  <2>2. res[i].st = "granted"
    BY <1>3, <2>1 DEF Serves
  <2>3. PICK y \in Reservations :
           /\ Closing(i) = [res EXCEPT ![i] = y]
           /\ y.st = "closing" /\ y.slot = res[i].slot /\ y.run = res[i].run
           /\ y.env = res[i].env /\ y.vm = res[i].vm /\ Shaped(y)
    BY <2>1, <2>2, ClosingRecord
  <2>4. res' = [res EXCEPT ![i] = y]
    BY <1>0, <1>3, <2>3
  <2>5. NewAttempt.st \in Unattached
    BY <1>1 DEF Unattached
  <2>6. adm' = adm
    BY <1>0, <1>3 DEF PoolInv, AdmissionHeld
  <2>7. /\ retained' = retained /\ ready' = ready /\ preparing' = preparing
        /\ UNCHANGED <<diskVars, occupied, cap, budget, stopped, halt>>
    BY <1>0
  <2> QED  BY <1>0, <1>1, <1>3, <2>1, <2>2, <2>3, <2>4, <2>5, <2>6, <2>7, OwnQuiet
<1>4. CASE att[a].st = "reserving"
  <2>1. res' = res /\ UNCHANGED <<diskVars, poolVars, cap, halt>>
    BY <1>0, <1>4 DEF poolVars
  <2>2. AdmissionHeld'
    <3>1. CASE adm' = NoAdm
      BY <3>1 DEF AdmissionHeld, NoAdm
    <3>2. CASE adm' = adm /\ ~(adm.op = "reserve" /\ adm.who = a)
      BY <1>2, <1>4, <3>2, <1>0 DEF PoolInv, AdmissionHeld
    <3> QED  BY <1>0, <3>1, <3>2
  <2>3. NoneStarts
    BY <1>0, <1>1, <1>2 DEF NoneStarts, Active
  <2>4. StoppedNeverStarts' /\ stopped' \subseteq Attempts
    BY <1>0, <2>3, NoneStartsKeeps DEF PoolInv, VmsTyped
  <2> QED  BY <1>0, <1>1, <1>4, <2>1, <2>2, <2>4, OneAttempt DEF Unattached
<1> QED  BY <1>0, <1>3, <1>4

\* The exit is recorded while the reservation is torn down without it.
LEMMA UnsealedKeeps ==
  ASSUME PoolInv, NEW a \in Attempts, Unsealed(a)
  PROVE  PoolInv'
<1> DEFINE i == att[a].res
           q == [NewAttempt EXCEPT !.st = "exited"]
<1>0. /\ att[a].st \in {"done", "suspended"} /\ att' = [att EXCEPT ![a] = q]
      /\ res' = Closing(i)
      /\ UNCHANGED <<diskVars, budget, occupied, retained, ready, preparing, adm, stopped,
                     cap, halt>>
  BY DEF Unsealed
<1>1. /\ i \in Res /\ res[i] \in Reservations /\ Serves(RunOf(a), att[a], res[i])
  BY <1>0, AttemptFields DEF Unattached
<1>2. res[i].st = "used"
  BY <1>0, <1>1 DEF Serves
<1>3. q \in Records /\ q.st = "exited" /\ q.res = Nil
  BY AttemptFields, AttemptRecords
<1>4. PICK y \in Reservations :
         /\ Closing(i) = [res EXCEPT ![i] = y]
         /\ y.st = "closing" /\ y.slot = res[i].slot /\ y.run = res[i].run
         /\ y.env = res[i].env /\ y.vm = res[i].vm /\ Shaped(y)
  BY <1>1, <1>2, ClosingRecord
<1>5. res' = [res EXCEPT ![i] = y] /\ i = att[a].res
  BY <1>0, <1>4
<1>6. /\ retained' = retained /\ ready' = ready /\ preparing' = preparing /\ adm' = adm
      /\ UNCHANGED <<diskVars, occupied, cap, budget, stopped, halt>>
  BY <1>0
<1> HIDE DEF q, i
<1>7. q.st \in Unattached /\ q.st # "assigning"
  BY <1>3 DEF Unattached
<1> QED  BY <1>0, <1>1, <1>2, <1>3, <1>4, <1>5, <1>6, <1>7, OwnQuiet

\* An attempt is cancelled; it may be active or not.
LEMMA CancelKeeps ==
  ASSUME PoolInv, NEW a \in Attempts, Active(a), att' = [att EXCEPT ![a].cancelled = TRUE],
         UNCHANGED <<diskVars, poolVars, adm, cap, halt>>, stopped' \in {stopped, stopped \cup {a}}
  PROVE  PoolInv'
<1> DEFINE q == [att[a] EXCEPT !.cancelled = TRUE]
<1>1. /\ att[a] \in Records /\ RunOf(a) \in Runs /\ att \in [Attempts -> Records]
      /\ att' = [att EXCEPT ![a] = q]
  BY AttemptFields DEF PoolInv, VmsTyped
<1>2. q \in Records /\ q.st = att[a].st /\ q.res = att[a].res /\ q.cancelled
  BY <1>1, AttemptRecords
<1> HIDE DEF q
<1>3. \A b \in Attempts : att'[b] = IF b = a THEN q ELSE att[b]
  BY <1>1
<1>4. AdmissionHeld'
  BY <1>2, <1>3 DEF PoolInv, AdmissionHeld
<1>5. StoppedNeverStarts' /\ stopped' \subseteq Attempts
  BY <1>2, <1>3 DEF PoolInv, StoppedNeverStarts, Active, VmsTyped
<1>6. \/ q.res # Nil /\ q.st \notin Unattached /\ Serves(RunOf(a), q, res[q.res])
      \/ q.res = Nil /\ q.st \in Unattached \cup {"closing"}
  <2>1. /\ att[a].st \in Unattached => att[a].res = Nil
        /\ att[a].res = Nil => att[a].st \in Unattached \cup {"closing"}
        /\ att[a].res # Nil => Serves(RunOf(a), att[a], res[att[a].res])
    BY DEF PoolInv, Attached
  <2>2. att[a].res # Nil => Serves(RunOf(a), q, res[q.res])
    BY <1>2, <2>1 DEF Serves
  <2> QED  BY <1>2, <2>1, <2>2
<1> QED
  BY <1>1, <1>2, <1>4, <1>5, <1>6, OneAttempt

\* A stop, and a lost lease.
LEMMA StopKeeps ==
  ASSUME PoolInv, NEW a \in Attempts, Stop(a) \/ LeaseLost(a)
  PROVE  PoolInv'
<1>1. CASE Active(a)
  BY <1>1, CancelKeeps DEF Stop, LeaseLost
<1>2. CASE ~Active(a)
  <2>1. /\ att' = att /\ stopped' = stopped \cup {a} /\ adm' = adm
        /\ UNCHANGED <<diskVars, poolVars, cap, halt>>
    BY <1>2 DEF Stop, LeaseLost
  <2>2. /\ Attached' /\ OwnReservation' /\ AdmissionHeld'
    BY <2>1 DEF PoolInv, Attached, OwnReservation, AdmissionHeld, poolVars
  <2>3. StoppedNeverStarts' /\ stopped' \subseteq Attempts
    BY <1>2, <2>1 DEF PoolInv, StoppedNeverStarts, Active, VmsTyped
  <2>4. att' \in [Attempts -> Records] /\ halt' \in BOOLEAN
    BY <2>1 DEF PoolInv, VmsTyped
  <2> QED  BY <2>1, <2>2, <2>3, <2>4, AttemptsMove
<1> QED  BY <1>1, <1>2

\* The shutdown cancels the attempts and the preparation.
LEMMA HaltKeeps ==
  ASSUME PoolInv, Halt
  PROVE  PoolInv'
<1>1. /\ att' = [a \in Attempts |-> IF Active(a) THEN [att[a] EXCEPT !.cancelled = TRUE]
                                    ELSE att[a]]
      /\ res' = Preempted /\ halt' = TRUE /\ adm' = adm
      /\ UNCHANGED <<diskVars, budget, occupied, retained, ready, preparing, cap, stopped>>
  BY DEF Halt
<1>2. \A a \in Attempts :
        /\ att'[a] \in Records /\ att'[a].st = att[a].st /\ att'[a].res = att[a].res
        /\ att[a].cancelled => att'[a].cancelled
  BY <1>1, AttemptFields, AttemptRecords
<1>3. att' \in [Attempts -> Records]
  BY <1>1, <1>2
<1>4. AdmissionHeld'
  BY <1>1, <1>2 DEF PoolInv, AdmissionHeld
<1> QED  BY <1>1, <1>2, <1>3, <1>4, PreemptKeeps

----------------------------------------
(* Retained and prepared VMs.                                              *)

\* A step of a reservation that serves no attempt.
LEMMA IdleStep ==
  ASSUME PoolInv, NEW i \in Res, NEW y \in Reservations,
         res[i].st \in {"preparing", "ready", "retained"},
         res' = [res EXCEPT ![i] = y], att' = att,
         Shaped(y), y.st # "free", y.slot = res[i].slot, y.run = res[i].run,
         y.env = res[i].env,
         res[i].vm \in {"paused", "dead"} => y.vm \in {"paused", "dead"} \/ Uncaptured(i),
         UNCHANGED <<diskVars, budget, occupied, cap, stopped, halt>>,
         preparing' \in Res \cup {Nil}, Queued', AdmissionHeld'
  PROVE  PoolInv'
<1>0. res \in [Res -> Reservations]
  BY DEF PoolInv, VmsTyped
<1>1. res' \in [Res -> Reservations] /\ \A j \in Res : res'[j] = IF j = i THEN y ELSE res[j]
  BY <1>0
<1>2. Shapes'
  BY <1>1 DEF PoolInv, Shapes
<1>3. Attached'
  <2>1. \A a \in Attempts : att[a].res # i
    BY NotAttached
  <2>2. \A a \in Attempts : att[a].res \in Res \cup {Nil}
    BY DEF PoolInv, VmsTyped, Records
  <2>3. \A a \in Attempts : att[a].res # Nil => res'[att[a].res] = res[att[a].res]
    BY <1>1, <2>1, <2>2
  <2> QED  BY <2>3 DEF PoolInv, Attached
<1>4. OwnReservation'
  BY DEF PoolInv, OwnReservation
<1>5. Quiet
  BY <1>1 DEF Quiet
<1>6. NoneStarts
  BY DEF NoneStarts, Active
<1>7. VmsTyped'
  BY <1>1 DEF PoolInv, VmsTyped
<1>8. Disks' /\ StoppedNeverStarts'
  BY <1>5, <1>6, QuietKeeps, NoneStartsKeeps DEF PoolInv
<1> QED
  BY <1>2, <1>3, <1>4, <1>7, <1>8 DEF PoolInv, Disks

\* The queues after one reservation has left them, or was in neither.
LEMMA QueuesAfter ==
  ASSUME PoolInv, NEW i \in Res, NEW y, res' = [res EXCEPT ![i] = y],
         \/ retained' = Without(retained, i)
         \/ retained' = retained /\ res[i].st # "retained",
         \/ ready' = Without(ready, i)
         \/ ready' = ready /\ res[i].st # "ready"
         \/ ready # <<>> /\ i = Head(ready) /\ ready' = Tail(ready),
         preparing' = preparing, preparing # i \/ y.st \in {"preparing", "closing"}
  PROVE  Queued'
<1>0. res \in [Res -> Reservations] /\ preparing \in Res \cup {Nil}
      /\ Queue(retained, "retained") /\ Queue(ready, "ready")
  BY DEF PoolInv, VmsTyped, Queued
<1>1. Queue(retained, "retained")'
  <2>1. CASE retained' = Without(retained, i)
    <3>1. /\ Without(retained, i) \in Seq(Res)
          /\ \A n \in DOMAIN Without(retained, i) : res'[Without(retained, i)[n]].st = "retained"
          /\ \A n, m \in DOMAIN Without(retained, i) :
               n # m => Without(retained, i)[n] # Without(retained, i)[m]
      BY <1>0, QueueLeft
    <3> QED  BY <2>1, <3>1 DEF Queue
  <2>2. CASE retained' = retained /\ res[i].st # "retained"
    BY <1>0, <2>2, QueueStays DEF Queue
  <2> QED  BY <2>1, <2>2
<1>2. Queue(ready, "ready")'
  <2>1. CASE ready' = Without(ready, i)
    <3>1. /\ Without(ready, i) \in Seq(Res)
          /\ \A n \in DOMAIN Without(ready, i) : res'[Without(ready, i)[n]].st = "ready"
          /\ \A n, m \in DOMAIN Without(ready, i) :
               n # m => Without(ready, i)[n] # Without(ready, i)[m]
      BY <1>0, QueueLeft
    <3> QED  BY <2>1, <3>1 DEF Queue
  <2>2. CASE ready' = ready /\ res[i].st # "ready"
    BY <1>0, <2>2, QueueStays DEF Queue
  <2>3. CASE ready # <<>> /\ i = Head(ready) /\ ready' = Tail(ready)
    <3>1. ready \in Seq(Res)
      BY <1>0 DEF Queue
    <3>2. /\ Tail(ready) \in Seq(Res) /\ i = ready[1] /\ Len(ready) > 0
          /\ DOMAIN Tail(ready) = 1 .. Len(ready) - 1
          /\ \A n \in 1 .. Len(ready) - 1 : Tail(ready)[n] = ready[n + 1]
      BY <2>3, <3>1
    <3>3. \A n \in 1 .. Len(ready) - 1 : ready[n + 1] # i /\ res[ready[n + 1]].st = "ready"
                                         /\ ready[n + 1] \in Res
      BY <1>0, <3>1, <3>2 DEF Queue
    <3>4. \A n \in 1 .. Len(ready) - 1 : res'[Tail(ready)[n]].st = "ready"
      BY <1>0, <3>2, <3>3
    <3>5. \A n, m \in 1 .. Len(ready) - 1 : n # m => Tail(ready)[n] # Tail(ready)[m]
      BY <1>0, <3>1, <3>2 DEF Queue
    <3> QED  BY <2>3, <3>2, <3>4, <3>5 DEF Queue
  <2> QED  BY <2>1, <2>2, <2>3
<1>3. preparing # Nil => res'[preparing].st \in {"preparing", "closing"}
  BY <1>0 DEF PoolInv, Queued
<1> QED  BY <1>1, <1>2, <1>3 DEF Queued

\* The end of a queue.
LEMMA QueueGrows ==
  ASSUME NEW s \in Seq(Res), NEW st, NEW i \in Res,
         \A n \in DOMAIN s : res'[s[n]].st = st /\ s[n] # i,
         \A n, m \in DOMAIN s : n # m => s[n] # s[m], res'[i].st = st
  PROVE  /\ Append(s, i) \in Seq(Res) /\ Len(Append(s, i)) = Len(s) + 1
         /\ \A n \in DOMAIN Append(s, i) : res'[Append(s, i)[n]].st = st
         /\ \A n, m \in DOMAIN Append(s, i) : n # m => Append(s, i)[n] # Append(s, i)[m]
<1>1. /\ Append(s, i) \in Seq(Res) /\ Len(Append(s, i)) = Len(s) + 1
      /\ DOMAIN Append(s, i) = 1 .. Len(s) + 1
      /\ \A n \in 1 .. Len(s) + 1 : Append(s, i)[n] = IF n <= Len(s) THEN s[n] ELSE i
  OBVIOUS
<1>2. \A n \in 1 .. Len(s) : n \in DOMAIN s
  OBVIOUS
<1>3. \A n \in 1 .. Len(s) + 1 : n = Len(s) + 1 \/ n \in 1 .. Len(s)
  OBVIOUS
<1>4. \A n \in 1 .. Len(s) + 1 : res'[Append(s, i)[n]].st = st
  BY <1>1, <1>2, <1>3
<1>5. \A n, m \in 1 .. Len(s) + 1 : n # m => Append(s, i)[n] # Append(s, i)[m]
  BY <1>1, <1>2, <1>3
<1> QED  BY <1>1, <1>4, <1>5

\* A VM is retired: it leaves its queue and closes.
LEMMA RetireKeeps ==
  ASSUME PoolInv, NEW i \in Res, res[i].st \in {"ready", "retained"}, res' = Closing(i),
         \/ retained' = Without(retained, i)
         \/ retained' = retained /\ res[i].st # "retained",
         \/ ready' = Without(ready, i)
         \/ ready' = ready /\ res[i].st # "ready",
         UNCHANGED <<diskVars, budget, occupied, preparing, cap, stopped, halt, att>>,
         AdmissionHeld'
  PROVE  PoolInv'
<1>1. PICK y \in Reservations :
           /\ Closing(i) = [res EXCEPT ![i] = y]
           /\ y.st = "closing" /\ y.slot = res[i].slot /\ y.run = res[i].run
           /\ y.env = res[i].env /\ y.vm = res[i].vm /\ Shaped(y)
  BY ClosingRecord
<1>2. res' = [res EXCEPT ![i] = y]
  BY <1>1
<1>3. preparing' = preparing /\ preparing' \in Res \cup {Nil} /\ att' = att
  BY DEF PoolInv, VmsTyped
<1>4. Queued'
  BY <1>1, <1>2, <1>3, QueuesAfter
<1>5. UNCHANGED <<diskVars, budget, occupied, cap, stopped, halt>>
  OBVIOUS
<1>6. y.st # "free" /\ res[i].st \in {"preparing", "ready", "retained"}
  BY <1>1
<1> QED
  BY <1>1, <1>2, <1>3, <1>4, <1>5, <1>6, IdleStep

\* The lock stays with its holder, whatever is awaited next.
LEMMA HolderStays ==
  ASSUME PoolInv, NEW pc, NEW i, adm' = [adm EXCEPT !.pc = pc, !.victim = i], att' = att
  PROVE  AdmissionHeld'
<1>1. /\ DOMAIN adm' = {"op", "who", "pc", "victim"} /\ adm'.op = adm.op /\ adm'.who = adm.who
  BY DEF PoolInv, AdmissionHeld
<1> QED  BY <1>1 DEF PoolInv, AdmissionHeld

\* A step that only passes the lock on, or moves the budget.
LEMMA LockMoves ==
  ASSUME PoolInv, UNCHANGED <<diskVars, occupied, res, retained, ready, preparing, att, stopped,
                              cap, halt>>,
         budget' \in Budgets, AdmissionHeld'
  PROVE  PoolInv'
<1>1. Quiet /\ NoneStarts
  BY DEF Quiet, NoneStarts, Active
<1>2. VmsTyped'
  BY DEF PoolInv, VmsTyped
<1>3. Shapes' /\ Attached' /\ OwnReservation' /\ Queued'
  BY DEF PoolInv, Shapes, Attached, OwnReservation, Queued, Queue
<1>4. Disks' /\ StoppedNeverStarts'
  BY <1>1, QuietKeeps, NoneStartsKeeps DEF PoolInv
<1> QED  BY <1>2, <1>3, <1>4 DEF PoolInv, Disks

\* What the queues hold.
LEMMA QueueMembers ==
  ASSUME PoolInv
  PROVE  /\ \A N \in SUBSET DOMAIN retained : N # {} =>
              Oldest(N) \in Res /\ res[Oldest(N)].st = "retained"
              /\ \E n \in N : Oldest(N) = retained[n]
         /\ ready # <<>> => Head(ready) \in Res /\ res[Head(ready)].st = "ready"
         /\ Unpending \subseteq DOMAIN retained
<1>1. Queue(retained, "retained") /\ Queue(ready, "ready")
  BY DEF PoolInv, Queued
<1>2. ASSUME NEW N \in SUBSET DOMAIN retained, N # {}
      PROVE  Oldest(N) \in Res /\ res[Oldest(N)].st = "retained"
             /\ \E n \in N : Oldest(N) = retained[n]
  <2>1. PICK n \in N : Oldest(N) = retained[n]
    BY <1>1, <1>2, OldestIsOne DEF Queue
  <2>2. retained[n] \in Res /\ res[retained[n]].st = "retained"
    BY <1>1, <2>1 DEF Queue
  <2> QED  BY <2>1, <2>2
<1>3. ready # <<>> => Head(ready) \in Res /\ res[Head(ready)].st = "ready"
  BY <1>1 DEF Queue
<1> QED  BY <1>2, <1>3 DEF Unpending

\* A reservation is granted to the attempt that holds the lock.
LEMMA GrantAttaches ==
  ASSUME PoolInv, NEW a \in Attempts, att[a].st = "reserving", NEW i \in Res,
         \A b \in Attempts : att[b].res # i, NEW y \in Reservations,
         res' = [res EXCEPT ![i] = y], Grant(a, i), y.st = "granted",
         y.resumed => y.run = RunOf(a) /\ y.vm \in {"paused", "dead"},
         ~y.resumed => y.run = Nil /\ (y.prepared \/ y.vm = "none"), stopped' = stopped
  PROVE  /\ Attached' /\ OwnReservation' /\ AdmissionHeld' /\ StoppedNeverStarts'
         /\ att' \in [Attempts -> Records]
         /\ \A b \in Attempts : /\ att'[b].st = "assigning" <=> att[b].st = "assigning"
                                /\ att[b].st = "assigning" => att'[b].res = att[b].res
<1> DEFINE q == [att[a] EXCEPT !.st = "granted", !.res = i]
<1>0. att \in [Attempts -> Records] /\ res \in [Res -> Reservations]
  BY DEF PoolInv, VmsTyped
<1>1. att' = [att EXCEPT ![a] = q] /\ adm' = NoAdm
  BY <1>0 DEF Grant
<1>2. q \in Records /\ q.st = "granted" /\ q.res = i
  <2>1. PICK p \in Records : p = att[a]
    BY <1>0
  <2>2. "granted" \in AttStates
    BY DEF AttStates
  <2> QED  BY <2>1, <2>2 DEF Records
<1> HIDE DEF q
<1>3. /\ att' \in [Attempts -> Records]
      /\ \A b \in Attempts : att'[b] = IF b = a THEN q ELSE att[b]
  BY <1>0, <1>1, <1>2
<1>4. \A j \in Res : res'[j] = IF j = i THEN y ELSE res[j]
  BY <1>0
<1>5. Attached'
  <2> SUFFICES ASSUME NEW b \in Attempts
               PROVE  /\ att'[b].st \in Unattached => att'[b].res = Nil
                      /\ att'[b].res = Nil => att'[b].st \in Unattached \cup {"closing"}
                      /\ att'[b].res # Nil => Serves(RunOf(b), att'[b], res'[att'[b].res])
    BY DEF Attached
  <2>1. CASE b = a
    <3>1. Serves(RunOf(a), q, y)
      BY <1>2 DEF Serves
    <3>2. q.st \notin Unattached /\ i # Nil
      BY <1>2, NilApart DEF Unattached
    <3> QED  BY <2>1, <1>2, <1>3, <1>4, <3>1, <3>2
  <2>2. CASE b # a
    <3>1. att[b].res \in Res \cup {Nil} /\ att[b].res # i
      BY <1>0 DEF Records
    <3>2. att'[b] = att[b] /\ (att[b].res # Nil => res'[att[b].res] = res[att[b].res])
      BY <2>2, <1>3, <1>4, <3>1
    <3> QED  BY <3>2 DEF PoolInv, Attached
  <2> QED  BY <2>1, <2>2
<1>6. OwnReservation'
  BY <1>2, <1>3 DEF PoolInv, OwnReservation
<1>7. AdmissionHeld'
  BY <1>1 DEF AdmissionHeld, NoAdm
<1>8. NoneStarts
  BY <1>2, <1>3 DEF NoneStarts, Active
<1>9. StoppedNeverStarts'
  BY <1>8, NoneStartsKeeps DEF PoolInv
<1>10. \A b \in Attempts : /\ att'[b].st = "assigning" <=> att[b].st = "assigning"
                           /\ att[b].st = "assigning" => att'[b].res = att[b].res
  BY <1>2, <1>3
<1> QED  BY <1>3, <1>5, <1>6, <1>7, <1>9, <1>10

\* A retained or prepared VM is granted.
LEMMA GrantIdle ==
  ASSUME PoolInv, NEW a \in Attempts, att[a].st = "reserving", NEW i \in Res,
         res[i].st \in {"ready", "retained"}, NEW y \in Reservations,
         res' = [res EXCEPT ![i] = y], Grant(a, i), y.st = "granted", Shaped(y),
         y.slot = res[i].slot, y.run = res[i].run, y.env = res[i].env, y.vm = res[i].vm,
         y.resumed => y.run = RunOf(a) /\ y.vm \in {"paused", "dead"},
         ~y.resumed => y.run = Nil /\ (y.prepared \/ y.vm = "none"),
         UNCHANGED <<diskVars, budget, occupied, preparing, stopped, cap, halt>>, Queued'
  PROVE  PoolInv'
<1>0. res \in [Res -> Reservations]
  BY DEF PoolInv, VmsTyped
<1>1. \A b \in Attempts : att[b].res # i
  BY NotAttached
<1>2. /\ Attached' /\ OwnReservation' /\ AdmissionHeld' /\ StoppedNeverStarts'
      /\ att' \in [Attempts -> Records]
      /\ \A b \in Attempts : /\ att'[b].st = "assigning" <=> att[b].st = "assigning"
                             /\ att[b].st = "assigning" => att'[b].res = att[b].res
  BY <1>1, GrantAttaches
<1>3. res' \in [Res -> Reservations] /\ \A j \in Res : res'[j] = IF j = i THEN y ELSE res[j]
  BY <1>0
<1>4. Shapes'
  BY <1>3 DEF PoolInv, Shapes
<1>5. Quiet
  BY <1>2, <1>3 DEF Quiet
<1>6. VmsTyped'
  BY <1>2, <1>3 DEF PoolInv, VmsTyped
<1>7. Disks'
  BY <1>5, QuietKeeps
<1> QED
  BY <1>2, <1>4, <1>6, <1>7 DEF PoolInv, Disks

\* Room for a start is made, by an eviction or without one.
LEMMA MakeRoomKeeps ==
  ASSUME PoolInv, NEW p, MakeRoom(p)
  PROVE  PoolInv'
<1>1. /\ UNCHANGED <<diskVars, budget, occupied, preparing, stopped, cap, halt>>
  BY DEF MakeRoom
<1>2. CASE \E i \in {Oldest(Unpending)} : Unpending # {} /\ Retire(i, adm.pc)
  <2>1. PICK i \in Res : /\ res[i].st = "retained" /\ Retire(i, adm.pc)
    BY <1>2, QueueMembers
  <2>2. AdmissionHeld' /\ att' = att
    BY <2>1, HolderStays DEF Retire, Await
  <2> QED  BY <1>1, <2>1, <2>2, RetireKeeps DEF Retire
<1>3. CASE \E i \in {Head(ready)} : ready # <<>> /\ Retire(i, adm.pc)
  <2>1. PICK i \in Res : /\ res[i].st = "ready" /\ Retire(i, adm.pc)
    BY <1>3, QueueMembers
  <2>2. AdmissionHeld' /\ att' = att
    BY <2>1, HolderStays DEF Retire, Await
  <2> QED  BY <1>1, <2>1, <2>2, RetireKeeps DEF Retire
<1>4. CASE \E pc \in {"own", "slot"} : Go(pc) /\ UNCHANGED <<res, retained, ready>>
  <2>1. AdmissionHeld' /\ att' = att
    BY <1>4, HolderStays DEF Go
  <2>2. budget' \in Budgets
    BY <1>1 DEF PoolInv, VmsTyped
  <2> QED  BY <1>1, <1>4, <2>1, <2>2, LockMoves
<1> QED
  BY <1>2, <1>3, <1>4 DEF MakeRoom


\* A refusal; the retained VM of the conversation may have changed its place.
LEMMA RefusedKeeps ==
  ASSUME PoolInv, NEW a \in Attempts, att[a].st = "reserving", Refuse(a),
         res' = res, ready' = ready, Queue(retained, "retained")',
         UNCHANGED <<diskVars, budget, occupied, preparing, stopped, cap, halt>>
  PROVE  PoolInv'
<1>1. att \in [Attempts -> Records] /\ NewAttempt \in Records
  BY AttemptRecords DEF PoolInv, VmsTyped
<1>2. /\ NewAttempt.st = "new" /\ NewAttempt.res = Nil
      /\ adm' = NoAdm
      /\ \A b \in Attempts : att'[b] = IF b = a THEN NewAttempt ELSE att[b]
  BY <1>1 DEF Refuse, NewAttempt
<1>3. NoneStarts
  BY <1>2 DEF NoneStarts, Active
<1>4. Quiet
  BY <1>2 DEF Quiet
<1>5. Attached' /\ OwnReservation'
  BY <1>2, NilApart DEF PoolInv, Attached, OwnReservation, Unattached
<1>6. AdmissionHeld'
  BY <1>2 DEF AdmissionHeld, NoAdm
<1>7. Shapes' /\ Queued'
  BY DEF PoolInv, Shapes, Queued, Queue
<1>8. att' \in [Attempts -> Records]
  BY <1>1 DEF Refuse
<1>9. VmsTyped'
  BY <1>8 DEF PoolInv, VmsTyped
<1>10. Disks' /\ StoppedNeverStarts'
  BY <1>3, <1>4, QuietKeeps, NoneStartsKeeps DEF PoolInv
<1> QED  BY <1>5, <1>6, <1>7, <1>9, <1>10 DEF PoolInv, Disks

\* A start that is cut takes the VM it holds with it.
LEMMA CutKeeps ==
  ASSUME PoolInv, NEW a \in Attempts, att[a].st = "reserving", Refuse(a),
         NEW i \in Res, res[i].st \in {"ready", "retained"}, res' = Closing(i),
         \/ retained' = Without(retained, i)
         \/ retained' = retained /\ res[i].st # "retained",
         \/ ready' = ready /\ res[i].st # "ready"
         \/ ready # <<>> /\ i = Head(ready) /\ ready' = Tail(ready),
         UNCHANGED <<diskVars, budget, occupied, preparing, stopped, cap, halt>>
  PROVE  PoolInv'
<1>1. PICK y \in Reservations :
           /\ Closing(i) = [res EXCEPT ![i] = y]
           /\ y.st = "closing" /\ y.slot = res[i].slot /\ y.run = res[i].run
           /\ y.env = res[i].env /\ y.vm = res[i].vm /\ Shaped(y)
  BY ClosingRecord
<1>2. res' = [res EXCEPT ![i] = y] /\ res \in [Res -> Reservations]
  BY <1>1 DEF PoolInv, VmsTyped
<1>3. res' \in [Res -> Reservations] /\ \A j \in Res : res'[j] = IF j = i THEN y ELSE res[j]
  BY <1>2
<1>4. att \in [Attempts -> Records] /\ NewAttempt \in Records
      /\ NewAttempt.st = "new" /\ NewAttempt.res = Nil
  BY AttemptRecords DEF PoolInv, VmsTyped
<1>5. /\ att' \in [Attempts -> Records] /\ adm' = NoAdm
      /\ \A b \in Attempts : att'[b] = IF b = a THEN NewAttempt ELSE att[b]
  BY <1>4 DEF Refuse
<1>6. Queued' /\ Shapes'
  <2>1. preparing' = preparing
    OBVIOUS
  <2> QED  BY <1>1, <1>2, <1>3, <2>1, QueuesAfter DEF PoolInv, Shapes
<1>7. Attached'
  <2> SUFFICES ASSUME NEW b \in Attempts
               PROVE  /\ att'[b].st \in Unattached => att'[b].res = Nil
                      /\ att'[b].res = Nil => att'[b].st \in Unattached \cup {"closing"}
                      /\ att'[b].res # Nil => Serves(RunOf(b), att'[b], res'[att'[b].res])
    BY DEF Attached
  <2>1. CASE b = a
    BY <2>1, <1>4, <1>5 DEF Unattached
  <2>2. CASE b # a
    <3>1. att[b].res \in Res \cup {Nil} /\ att[b].res # i
      BY <1>4, NotAttached DEF Records
    <3>2. att'[b] = att[b] /\ (att[b].res # Nil => res'[att[b].res] = res[att[b].res])
      BY <2>2, <1>3, <1>5, <3>1
    <3> QED  BY <3>2 DEF PoolInv, Attached
  <2> QED  BY <2>1, <2>2
<1>8. OwnReservation' /\ AdmissionHeld'
  BY <1>4, <1>5 DEF PoolInv, OwnReservation, AdmissionHeld, NoAdm
<1>9. Quiet
  BY <1>1, <1>3, <1>4, <1>5 DEF Quiet
<1>10. NoneStarts
  BY <1>4, <1>5 DEF NoneStarts, Active
<1>11. VmsTyped'
  BY <1>3, <1>5 DEF PoolInv, VmsTyped
<1>12. Disks' /\ StoppedNeverStarts'
  BY <1>9, <1>10, QuietKeeps, NoneStartsKeeps DEF PoolInv
<1> QED  BY <1>6, <1>7, <1>8, <1>11, <1>12 DEF PoolInv, Disks

\* The holder of the lock for a start is the attempt that waits.
LEMMA StartHolder ==
  ASSUME PoolInv, NEW pc, Working("reserve", pc)
  PROVE  adm.who \in Attempts /\ att[adm.who].st = "reserving"
BY DEF PoolInv, AdmissionHeld, Working

\* A conversation's own VM: resumed, kept with a refusal, retired, or ended
\* with the start.
LEMMA TakeOwnKeeps ==
  ASSUME PoolInv, NEW fits, NEW cut, TakeOwn(fits, cut)
  PROVE  PoolInv'
<1>0. UNCHANGED <<diskVars, budget, occupied, preparing, stopped, cap, halt>>
  BY DEF TakeOwn
<1>1. PICK a \in Attempts : a = adm.who /\ att[a].st = "reserving"
  BY StartHolder DEF TakeOwn
<1>2. CASE RetainedOf(RunOf(a)) = {}
  <2>1. Go("spare") /\ UNCHANGED <<res, retained, ready>>
    BY <1>1, <1>2 DEF TakeOwn
  <2>2. AdmissionHeld' /\ att' = att
    BY <2>1, HolderStays DEF Go
  <2>3. budget' \in Budgets
    BY <1>0 DEF PoolInv, VmsTyped
  <2> QED  BY <1>0, <2>1, <2>2, <2>3, LockMoves
<1>3. CASE RetainedOf(RunOf(a)) # {}
  <2>1. PICK i \in Res : i = CHOOSE j \in RetainedOf(RunOf(a)) : TRUE
    BY <1>3 DEF RetainedOf
  <2>2. res[i].st = "retained" /\ res[i].run = RunOf(a)
    BY <1>3, <2>1 DEF RetainedOf
  <2>3. PICK x \in Reservations : x = res[i] /\ Shaped(x)
    BY DEF PoolInv, VmsTyped, Shapes
  <2>4. \/ /\ res' = [res EXCEPT ![i].st = "granted", ![i].resumed = TRUE]
           /\ retained' = Without(retained, i) /\ Grant(a, i) /\ ready' = ready
        \/ /\ retained' = Append(Without(retained, i), i)
           /\ Refuse(a) /\ res' = res /\ ready' = ready
        \/ Retire(i, "spare")
        \/ /\ res' = Closing(i) /\ retained' = Without(retained, i)
           /\ Refuse(a) /\ ready' = ready
    BY <1>1, <1>3, <2>1, Zenon DEF TakeOwn
  <2>5. CASE /\ res' = [res EXCEPT ![i].st = "granted", ![i].resumed = TRUE]
             /\ retained' = Without(retained, i) /\ Grant(a, i) /\ ready' = ready
    <3> DEFINE y == [res[i] EXCEPT !.st = "granted", !.resumed = TRUE]
    <3>1. res' = [res EXCEPT ![i] = y]
      BY <2>5 DEF PoolInv, VmsTyped
    <3>2. /\ y \in Reservations /\ y.st = "granted" /\ y.slot = x.slot /\ y.run = x.run
          /\ y.env = x.env /\ y.vm = x.vm /\ y.prepared = x.prepared /\ y.resumed
      BY <2>3 DEF Reservations, ResStates
    <3> HIDE DEF y
    <3>3. Shaped(y) /\ y.vm \in {"paused", "dead"}
      BY <2>2, <2>3, <3>2 DEF Shaped
    <3>4. Queued'
      <4>1. res[i].st # "ready" /\ preparing' = preparing /\ preparing # i
        BY <1>0, <2>2, NilApart DEF PoolInv, Queued
      <4> QED  BY <2>5, <3>1, <4>1, QueuesAfter
    <3>5. res[i].st \in {"ready", "retained"} /\ Grant(a, i)
      BY <2>2, <2>5
    <3> QED
      BY <1>0, <1>1, <2>2, <2>3, <3>1, <3>2, <3>3, <3>4, <3>5, GrantIdle
  <2>6. CASE /\ retained' = Append(Without(retained, i), i)
             /\ Refuse(a) /\ res' = res /\ ready' = ready
    <3>1. Queue(retained, "retained")
      BY DEF PoolInv, Queued
    <3>2. res' = [res EXCEPT ![i] = res[i]] /\ res \in [Res -> Reservations]
      BY <2>6 DEF PoolInv, VmsTyped
    <3>3. PICK w \in Seq(Res) : w = Without(retained, i)
      BY <3>1, Removed DEF Queue
    <3>4. /\ \A n \in DOMAIN w : res'[w[n]].st = "retained" /\ w[n] # i
          /\ \A n, m \in DOMAIN w : n # m => w[n] # w[m]
      <4>1. /\ \A n \in DOMAIN Without(retained, i) : res'[Without(retained, i)[n]].st = "retained"
            /\ \A n, m \in DOMAIN Without(retained, i) :
                 n # m => Without(retained, i)[n] # Without(retained, i)[m]
            /\ \A n \in DOMAIN Without(retained, i) : Without(retained, i)[n] # i
        BY <3>1, <3>2, QueueLeft
      <4> QED  BY <3>3, <4>1, Zenon
    <3>5. /\ Append(w, i) \in Seq(Res)
          /\ \A n \in DOMAIN Append(w, i) : res'[Append(w, i)[n]].st = "retained"
          /\ \A n, m \in DOMAIN Append(w, i) : n # m => Append(w, i)[n] # Append(w, i)[m]
      <4>1. res'[i].st = "retained"
        BY <2>2, <2>6
      <4> QED  BY <3>4, <4>1, QueueGrows
    <3>6. Queue(retained, "retained")'
      BY <2>6, <3>3, <3>5 DEF Queue
    <3> QED  BY <1>0, <1>1, <2>6, <3>6, RefusedKeeps
  <2>7. CASE Retire(i, "spare")
    <3>1. AdmissionHeld' /\ att' = att
      BY <2>7, HolderStays DEF Retire, Await
    <3> QED  BY <1>0, <2>2, <2>7, <3>1, RetireKeeps DEF Retire
  <2>8. CASE /\ res' = Closing(i) /\ retained' = Without(retained, i)
             /\ Refuse(a) /\ ready' = ready
    BY <1>0, <1>1, <2>2, <2>8, CutKeeps
  <2> QED  BY <2>4, <2>5, <2>6, <2>7, <2>8
<1> QED  BY <1>2, <1>3


\* A spare for a new disk, one that is retired under pressure, or one that
\* ends with the start.
LEMMA TakeSpareKeeps ==
  ASSUME PoolInv, NEW e, NEW p, NEW cut, TakeSpare(e, p, cut)
  PROVE  PoolInv'
<1>0. UNCHANGED <<diskVars, budget, occupied, preparing, stopped, cap, halt>>
  BY DEF TakeSpare
<1>1. PICK a \in Attempts : a = adm.who /\ att[a].st = "reserving"
  BY StartHolder DEF TakeSpare
<1>2. CASE Go("room2") /\ UNCHANGED <<res, retained, ready>>
  <2>1. AdmissionHeld' /\ att' = att
    BY <1>2, HolderStays DEF Go
  <2>2. budget' \in Budgets
    BY <1>0 DEF PoolInv, VmsTyped
  <2> QED  BY <1>0, <1>2, <2>1, <2>2, LockMoves
<1>3. CASE ready # <<>> /\ Retire(Head(ready), "room2")
  <2>1. PICK i \in Res : i = Head(ready) /\ res[i].st = "ready"
    BY <1>3, QueueMembers
  <2>2. Retire(i, "room2")
    BY <1>3, <2>1
  <2>3. AdmissionHeld' /\ att' = att
    BY <2>2, HolderStays DEF Retire, Await
  <2> QED  BY <1>0, <2>1, <2>2, <2>3, RetireKeeps DEF Retire
<1>4. CASE /\ ready # <<>> /\ ready' = Tail(ready)
           /\ res' = [res EXCEPT ![Head(ready)].st = "granted"]
           /\ Grant(a, Head(ready)) /\ retained' = retained
  <2>1. PICK i \in Res : i = Head(ready) /\ res[i].st = "ready"
    BY <1>4, QueueMembers
  <2>2. PICK x \in Reservations : x = res[i] /\ Shaped(x)
    BY DEF PoolInv, VmsTyped, Shapes
  <2> DEFINE y == [res[i] EXCEPT !.st = "granted"]
  <2>3. res' = [res EXCEPT ![i] = y]
    BY <1>4, <2>1 DEF PoolInv, VmsTyped
  <2>4. /\ y \in Reservations /\ y.st = "granted" /\ y.slot = x.slot /\ y.run = x.run
        /\ y.env = x.env /\ y.vm = x.vm /\ y.prepared = x.prepared /\ y.resumed = x.resumed
    BY <2>2 DEF Reservations, ResStates
  <2> HIDE DEF y
  <2>5. Shaped(y) /\ ~y.resumed /\ y.run = Nil /\ y.prepared
    BY <2>1, <2>2, <2>4 DEF Shaped
  <2>6. Queued'
    <3>1. preparing' = preparing /\ preparing # i
      BY <1>0, <2>1, NilApart DEF PoolInv, Queued
    <3> QED  BY <1>4, <2>1, <2>3, <3>1, QueuesAfter
  <2>7. Grant(a, i) /\ res[i].st \in {"ready", "retained"}
    BY <1>4, <2>1
  <2> QED
    BY <1>0, <1>1, <2>1, <2>2, <2>3, <2>4, <2>5, <2>6, <2>7, GrantIdle
<1>5. CASE /\ ready # <<>> /\ ready' = Tail(ready) /\ res' = Closing(Head(ready))
           /\ Refuse(a) /\ retained' = retained
  <2>1. PICK i \in Res : i = Head(ready) /\ res[i].st = "ready"
    BY <1>5, QueueMembers
  <2>2. res' = Closing(i) /\ res[i].st \in {"ready", "retained"} /\ res[i].st # "retained"
    BY <1>5, <2>1
  <2> QED  BY <1>0, <1>1, <1>5, <2>1, <2>2, CutKeeps
<1> QED  BY <1>1, <1>2, <1>3, <1>4, <1>5, Zenon DEF TakeSpare

----------------------------------------
(* New reservations.                                                       *)

\* Below the budget there is a slot and a reservation that are free.
LEMMA FreeCapacity ==
  ASSUME PoolInv, Available
  PROVE  /\ FreeSlot \in Slots \ occupied
         /\ FreeRes \in Res /\ res[FreeRes].st = "free"
<1>0. MaxRes \in Nat /\ budget \in 1 .. MaxRes /\ occupied \subseteq 1 .. MaxRes
  BY NilApart DEF PoolInv, VmsTyped, Slots
<1>1. /\ IsFiniteSet(1 .. MaxRes) /\ Cardinality(1 .. MaxRes) = MaxRes
  BY <1>0, FS_Interval
<1>2. IsFiniteSet(occupied) /\ Cardinality(occupied) \in Nat /\ Cardinality(occupied) < MaxRes
  <2>1. IsFiniteSet(occupied)
    BY <1>0, <1>1, FS_Subset
  <2>2. Cardinality(occupied) \in Nat
    BY <2>1, FS_CardinalityType
  <2> QED  BY <1>0, <2>1, <2>2 DEF Available
<1>3. FreeSlot \in Slots \ occupied
  <2>1. Slots \ occupied # {}
    <3>1. occupied # 1 .. MaxRes
      BY <1>1, <1>2
    <3> QED  BY <1>0, <3>1 DEF Slots
  <2>2. Slots \ occupied \subseteq Nat
    BY <1>0 DEF Slots
  <2>3. \E k \in Slots \ occupied : \A j \in Slots \ occupied : k <= j
    BY <2>1, <2>2, LeastNumber
  <2> QED  BY <2>3 DEF FreeSlot
<1>4. \E i \in Res : res[i].st = "free"
  <2> SUFFICES ASSUME \A i \in Res : res[i].st # "free" PROVE FALSE
    OBVIOUS
  <2> DEFINE f == [i \in Res |-> res[i].slot]
  <2>1. f \in Injection(Res, occupied)
    <3>1. \A i \in Res : res[i].slot \in occupied
      BY DEF PoolInv, SlotsAccounted, Live
    <3>2. \A i, j \in Res : i # j => res[i].slot # res[j].slot
      BY DEF PoolInv, SlotsAccounted, Live
    <3> QED  BY <3>1, <3>2 DEF Injection, IsInjective
  <2>2. Cardinality(Res) <= Cardinality(occupied)
    <3>1. IsFiniteSet(Res)
      BY <1>1 DEF Res
    <3> HIDE DEF f
    <3> QED  BY <1>2, <2>1, <3>1, FS_Injection
  <2> QED  BY <1>0, <1>1, <1>2, <2>2 DEF Res
<1>5. FreeRes \in Res /\ res[FreeRes].st = "free"
  BY <1>4 DEF FreeRes
<1> QED  BY <1>3, <1>5

\* A reservation takes a free slot, with a new directory or with none.
LEMMA ReservedDisks ==
  ASSUME PoolInv, NEW i \in Res, res[i].st = "free", NEW k \in Slots \ occupied,
         NEW y \in Reservations, y.st # "free", y.slot = k, y.run = Nil,
         res' = [res EXCEPT ![i] = y], occupied' = occupied \cup {k},
         \/ y.env = Nil /\ made' = made
         \/ /\ y.env \in Envs /\ made' = made \cup {y.env} /\ y.env \notin made
            /\ label[y.env] = Nil /\ \A r \in Runs : pointer[r] # y.env,
         UNCHANGED <<pointer, label, plain, owner, cap>>,
         \A b \in Attempts : /\ att'[b].st = "assigning" <=> att[b].st = "assigning"
                             /\ att[b].st = "assigning" => att'[b].res = att[b].res
  PROVE  Disks' /\ res' \in [Res -> Reservations]
<1>0. res \in [Res -> Reservations] /\ Nil \notin Runs /\ Nil \notin Envs /\ k \in Slots
  BY NilApart DEF PoolInv, VmsTyped
<1>1. /\ res' \in [Res -> Reservations]
      /\ \A j \in Res : res'[j] = IF j = i THEN y ELSE res[j]
  BY <1>0
<1>2. res[i] = NoRes /\ res[i].run = Nil /\ res[i].env = Nil
  <2>1. res[i] = NoRes
    BY DEF PoolInv, Shapes, Shaped
  <2> QED  BY <2>1 DEF NoRes
<1>3. DisksTyped'
  BY DEF PoolInv, DisksTyped
<1>4. SlotsAccounted'
  <2>1. \A j \in Res : Live(j) => res[j].slot \in occupied
    BY DEF PoolInv, SlotsAccounted
  <2>2. \A o \in occupied : \E j \in Res : Live(j) /\ res[j].slot = o
    BY DEF PoolInv, SlotsAccounted
  <2>3. \A j \in Res : Live(j)' <=> Live(j) \/ j = i
    BY <1>1 DEF Live
  <2>4. ~Live(i)
    BY DEF Live
  <2>5. \A j \in Res : Live(j)' => res'[j].slot \in occupied'
    BY <1>1, <2>1, <2>3
  <2>6. \A o \in occupied' : \E j \in Res : Live(j)' /\ res'[j].slot = o
    BY <1>1, <2>2, <2>3, <2>4
  <2>7. \A h, j \in Res : h # j /\ Live(h)' /\ Live(j)' => res'[h].slot # res'[j].slot
    <3>1. \A h, j \in Res : h # j /\ Live(h) /\ Live(j) => res[h].slot # res[j].slot
      BY DEF PoolInv, SlotsAccounted
    <3> QED  BY <1>0, <1>1, <2>1, <2>3, <3>1
  <2> QED  BY <2>5, <2>6, <2>7 DEF SlotsAccounted, Live
<1>5. ClaimsSound'
  <2>1. \A r : Assigning(r) => Assigning(r)'
    BY DEF Assigning
  <2> QED  BY <2>1 DEF PoolInv, ClaimsSound
<1>6. ClaimsUnderWay'
  <2>1. \A a \in Attempts : att[a].st = "assigning" => att[a].res \in Res /\ att[a].res # i
    BY NotAttached, AttemptFields DEF Unattached
  <2> QED  BY <1>1, <2>1 DEF PoolInv, ClaimsUnderWay
<1>7. SparesUnclaimed'
  <2>1. \A j \in Res : j # i => (Spare(j)' <=> Spare(j)) /\ res'[j].env = res[j].env
    BY <1>1 DEF Spare
  <2>2. Spare(i)' => y.env # Nil
    BY <1>1 DEF Spare
  <2>3. \A j \in Res : j # i /\ Spare(j) => res[j].env \in made
    BY DEF PoolInv, SparesUnclaimed
  <2> QED  BY <1>1, <2>1, <2>2, <2>3 DEF PoolInv, SparesUnclaimed
<1>8. LocksHeld'
  BY <1>1 DEF PoolInv, LocksHeld
<1>9. CapturesStillDisk'
  <2>1. \A r \in Runs : cap[r].by \in Res \cup {Nil}
    BY DEF PoolInv, VmsTyped, Captures
  <2> QED  BY <1>0, <1>1, <1>2, <2>1 DEF PoolInv, CapturesStillDisk
<1> QED
  BY <1>1, <1>3, <1>4, <1>5, <1>6, <1>7, <1>8, <1>9 DEF Disks

\* Slots::reserve.
LEMMA ReserveSlotKeeps ==
  ASSUME PoolInv, NEW p, ReserveSlot(p)
  PROVE  PoolInv'
<1>0. UNCHANGED <<diskVars, budget, retained, ready, preparing, stopped, cap, halt>>
  BY DEF ReserveSlot
<1>1. PICK a \in Attempts : a = adm.who /\ att[a].st = "reserving"
  BY StartHolder DEF ReserveSlot
<1>2. CASE Refuse(a) /\ UNCHANGED <<res, occupied>>
  <2>1. UNCHANGED <<diskVars, poolVars, cap, halt, stopped>>
    BY <1>0, <1>2 DEF poolVars
  <2> QED  BY <1>1, <1>2, <2>1, RefuseKeeps
<1>3. CASE /\ Available /\ occupied' = occupied \cup {FreeSlot}
           /\ res' = [res EXCEPT ![FreeRes] = [NoRes EXCEPT !.st = "granted", !.slot = FreeSlot]]
           /\ Grant(a, FreeRes)
  <2>1. PICK i \in Res : i = FreeRes /\ res[i].st = "free"
    BY <1>3, FreeCapacity
  <2>2. PICK k \in Slots \ occupied : k = FreeSlot
    BY <1>3, FreeCapacity
  <2> DEFINE y == [NoRes EXCEPT !.st = "granted", !.slot = k]
  <2>3. /\ y \in Reservations /\ y.st = "granted" /\ y.slot = k /\ y.run = Nil /\ y.env = Nil
        /\ y.vm = "none" /\ ~y.resumed /\ ~y.prepared
    BY DEF NoRes, Reservations, ResStates, VmStates
  <2>4. res' = [res EXCEPT ![i] = y] /\ occupied' = occupied \cup {k} /\ Grant(a, i)
    BY <1>3, <2>1, <2>2
  <2> HIDE DEF y
  <2>5. Shaped(y)
    BY <2>3 DEF Shaped
  <2>6. \A b \in Attempts : att[b].res # i
    BY <2>1, NotAttached
  <2>7. /\ Attached' /\ OwnReservation' /\ AdmissionHeld' /\ StoppedNeverStarts'
        /\ att' \in [Attempts -> Records]
        /\ \A b \in Attempts : /\ att'[b].st = "assigning" <=> att[b].st = "assigning"
                               /\ att[b].st = "assigning" => att'[b].res = att[b].res
    BY <1>0, <1>1, <2>3, <2>4, <2>6, GrantAttaches
  <2>8. Disks' /\ res' \in [Res -> Reservations]
    <3>1. /\ UNCHANGED <<pointer, label, plain, owner, cap>> /\ made' = made
      BY <1>0 DEF diskVars
    <3> QED  BY <2>1, <2>3, <2>4, <2>7, <3>1, ReservedDisks
  <2>9. Queued'
    <3>1. res[i].st # "retained" /\ res[i].st # "ready" /\ preparing # i
      BY <2>1, NilApart DEF PoolInv, Queued
    <3> QED  BY <1>0, <2>4, <3>1, QueuesAfter
  <2>10. Shapes'
    BY <2>4, <2>5 DEF PoolInv, VmsTyped, Shapes
  <2>11. VmsTyped'
    BY <1>0, <2>4, <2>7, <2>8 DEF PoolInv, VmsTyped
  <2> QED
    BY <2>7, <2>8, <2>9, <2>10, <2>11 DEF PoolInv, Disks
<1> QED  BY <1>1, <1>2, <1>3, Zenon DEF ReserveSlot

\* A prepared VM is the next spare, or its preparation ends.
LEMMA PrepareKeeps ==
  ASSUME PoolInv, NEW i \in Res, NEW good \in BOOLEAN, Prepare(i, good)
  PROVE  PoolInv'
<1>0. /\ UNCHANGED <<diskVars, budget, occupied, cap, stopped, halt>> /\ att' = att
      /\ res[i].st = "preparing" /\ retained' = retained /\ adm' = adm
  BY DEF Prepare
<1>1. PICK x \in Reservations : x = res[i] /\ Shaped(x)
  BY DEF PoolInv, VmsTyped, Shapes
<1>2. AdmissionHeld'
  BY <1>0 DEF PoolInv, AdmissionHeld
<1>3. Uncaptured(i)
  <2>1. res[i].run = Nil
    BY <1>0, <1>1 DEF Shaped
  <2> QED  BY <2>1, NilApart DEF PoolInv, CapturesStillDisk, Uncaptured
<1>4. CASE /\ res' = [res EXCEPT ![i].st = "ready", ![i].vm = "running", ![i].prepared = TRUE]
           /\ ready' = Append(ready, i) /\ preparing' = Nil
  <2> DEFINE y == [res[i] EXCEPT !.st = "ready", !.vm = "running", !.prepared = TRUE]
  <2>1. res' = [res EXCEPT ![i] = y] /\ res \in [Res -> Reservations]
    BY <1>4 DEF PoolInv, VmsTyped
  <2>2. /\ y \in Reservations /\ y.st = "ready" /\ y.slot = x.slot /\ y.run = x.run
        /\ y.env = x.env /\ y.prepared /\ y.resumed = x.resumed
    BY <1>1 DEF Reservations, ResStates, VmStates
  <2> HIDE DEF y
  <2>3. Shaped(y)
    BY <1>0, <1>1, <2>2 DEF Shaped
  <2>4. Queue(ready, "ready")'
    <3>1. ready \in Seq(Res) /\ \A n, m \in DOMAIN ready : n # m => ready[n] # ready[m]
      BY DEF PoolInv, Queued, Queue
    <3>2. \A n \in DOMAIN ready : ready[n] # i /\ res[ready[n]].st = "ready" /\ ready[n] \in Res
      BY <1>0 DEF PoolInv, Queued, Queue
    <3>3. \A n \in DOMAIN ready : res'[ready[n]].st = "ready" /\ ready[n] # i
      BY <2>1, <3>2
    <3>4. res'[i].st = "ready"
      BY <2>1, <2>2
    <3>5. /\ Append(ready, i) \in Seq(Res)
          /\ \A n \in DOMAIN Append(ready, i) : res'[Append(ready, i)[n]].st = "ready"
          /\ \A n, m \in DOMAIN Append(ready, i) : n # m => Append(ready, i)[n] # Append(ready, i)[m]
      BY <3>1, <3>3, <3>4, QueueGrows
    <3> QED  BY <1>4, <3>5 DEF Queue
  <2>5. Queued'
    <3>1. Queue(retained, "retained")'
      BY <1>0, <2>1, QueueStays DEF PoolInv, Queued, Queue
    <3> QED  BY <1>4, <2>4, <3>1 DEF Queued
  <2>6. preparing' \in Res \cup {Nil} /\ y.st # "free"
    BY <1>4, <2>2
  <2> QED
    BY <1>0, <1>1, <1>2, <1>3, <2>1, <2>2, <2>3, <2>5, <2>6, IdleStep
<1>5. CASE res' = Closing(i) /\ UNCHANGED <<ready, preparing>>
  <2>1. PICK y \in Reservations :
           /\ Closing(i) = [res EXCEPT ![i] = y]
           /\ y.st = "closing" /\ y.slot = res[i].slot /\ y.run = res[i].run
           /\ y.env = res[i].env /\ y.vm = res[i].vm /\ Shaped(y)
    BY <1>0, ClosingRecord
  <2>2. res' = [res EXCEPT ![i] = y] /\ preparing' \in Res \cup {Nil}
    BY <1>5, <2>1 DEF PoolInv, VmsTyped
  <2>3. Queued'
    BY <1>0, <1>5, <2>1, <2>2, QueuesAfter
  <2>4. y.st # "free" /\ res[i].st \in {"preparing", "ready", "retained"}
    BY <1>0, <2>1
  <2> QED
    BY <1>0, <1>2, <2>1, <2>2, <2>3, <2>4, IdleStep
<1> QED  BY <1>4, <1>5 DEF Prepare

\* The VMM of a retained VM exits.
LEMMA VmExitsKeeps ==
  ASSUME PoolInv, NEW i \in Res, VmExits(i)
  PROVE  PoolInv'
<1>0. /\ UNCHANGED <<diskVars, budget, occupied, cap, stopped, halt>> /\ att' = att
      /\ res[i].st = "retained" /\ retained' = retained /\ ready' = ready /\ adm' = adm
      /\ preparing' = preparing /\ res' = [res EXCEPT ![i].vm = "dead"]
  BY DEF VmExits
<1>1. PICK x \in Reservations : x = res[i] /\ Shaped(x)
  BY DEF PoolInv, VmsTyped, Shapes
<1> DEFINE y == [res[i] EXCEPT !.vm = "dead"]
<1>2. res' = [res EXCEPT ![i] = y] /\ res \in [Res -> Reservations]
  BY <1>0 DEF PoolInv, VmsTyped
<1>3. /\ y \in Reservations /\ y.st = x.st /\ y.slot = x.slot /\ y.run = x.run
      /\ y.env = x.env /\ y.prepared = x.prepared /\ y.resumed = x.resumed /\ y.vm = "dead"
  BY <1>1 DEF Reservations, VmStates
<1> HIDE DEF y
<1>4. Shaped(y) /\ y.st # "free"
  BY <1>0, <1>1, <1>3 DEF Shaped
<1>5. \A j \in Res : res'[j].st = res[j].st
  BY <1>1, <1>2, <1>3
<1>6. Queued'
  <2>1. Queue(retained, "retained")' /\ Queue(ready, "ready")'
    BY <1>0, <1>5 DEF PoolInv, Queued, Queue
  <2>2. preparing # Nil => res'[preparing].st \in {"preparing", "closing"}
    BY <1>5 DEF PoolInv, VmsTyped, Queued
  <2> QED  BY <1>0, <2>1, <2>2 DEF Queued
<1>7. AdmissionHeld' /\ preparing' \in Res \cup {Nil}
  BY <1>0 DEF PoolInv, VmsTyped, AdmissionHeld
<1>8. res[i].st \in {"preparing", "ready", "retained"} /\ y.vm \in {"paused", "dead"}
  BY <1>0, <1>3
<1> QED
  BY <1>0, <1>1, <1>2, <1>3, <1>4, <1>6, <1>7, <1>8, IdleStep

\* A spare is prepared in a slot of its own.
LEMMA MaintainReadyKeeps ==
  ASSUME PoolInv, NEW e \in Envs, MaintainReady(e)
  PROVE  PoolInv'
<1>0. /\ UNCHANGED <<pointer, label, plain, owner, budget, retained, ready, adm, att,
                     stopped, cap, halt>>
      /\ Available /\ e \notin made /\ label[e] = Nil /\ (\A r \in Runs : pointer[r] # e)
      /\ occupied' = occupied \cup {FreeSlot} /\ made' = made \cup {e} /\ preparing' = FreeRes
      /\ res' = [res EXCEPT ![FreeRes] = [NoRes EXCEPT !.st = "preparing", !.slot = FreeSlot,
                                            !.env = e, !.budget = budget]]
  BY DEF MaintainReady
<1>1. PICK i \in Res : i = FreeRes /\ res[i].st = "free"
  BY <1>0, FreeCapacity
<1>2. PICK k \in Slots \ occupied : k = FreeSlot
  BY <1>0, FreeCapacity
<1> DEFINE y == [NoRes EXCEPT !.st = "preparing", !.slot = k, !.env = e, !.budget = budget]
<1>3. /\ y \in Reservations /\ y.st = "preparing" /\ y.slot = k /\ y.run = Nil /\ y.env = e
      /\ ~y.resumed /\ ~y.prepared
  BY DEF NoRes, Reservations, ResStates, VmStates, PoolInv, VmsTyped
<1>4. res' = [res EXCEPT ![i] = y] /\ occupied' = occupied \cup {k} /\ preparing' = i
  BY <1>0, <1>1, <1>2
<1> HIDE DEF y
<1>5. Shaped(y)
  BY <1>3, NilApart DEF Shaped
<1>6. res \in [Res -> Reservations] /\ \A b \in Attempts : att[b].res # i /\ att[b].res \in Res \cup {Nil}
  BY <1>1, NotAttached DEF PoolInv, VmsTyped, Records
<1>7. \A j \in Res : res'[j] = IF j = i THEN y ELSE res[j]
  BY <1>4, <1>6
<1>8. Disks' /\ res' \in [Res -> Reservations]
  <2>1. \A b \in Attempts : /\ att'[b].st = "assigning" <=> att[b].st = "assigning"
                            /\ att[b].st = "assigning" => att'[b].res = att[b].res
    BY <1>0
  <2>2. /\ y.env \in Envs /\ made' = made \cup {y.env} /\ y.env \notin made
        /\ label[y.env] = Nil /\ \A r \in Runs : pointer[r] # y.env
    BY <1>0, <1>3
  <2>3. y.st # "free" /\ UNCHANGED <<pointer, label, plain, owner, cap>>
    BY <1>0, <1>3
  <2> QED  BY <1>1, <1>3, <1>4, <2>1, <2>2, <2>3, ReservedDisks
<1>9. Shapes' /\ VmsTyped'
  BY <1>0, <1>4, <1>5, <1>7, <1>8 DEF PoolInv, VmsTyped, Shapes
<1>10. Attached' /\ OwnReservation' /\ AdmissionHeld' /\ StoppedNeverStarts'
  <2>1. \A b \in Attempts : att[b].res # Nil => res'[att[b].res] = res[att[b].res]
    BY <1>6, <1>7
  <2>2. NoneStarts
    BY <1>0 DEF NoneStarts, Active
  <2>3. StoppedNeverStarts'
    BY <2>2, NoneStartsKeeps DEF PoolInv
  <2> QED
    BY <1>0, <2>1, <2>3 DEF PoolInv, Attached, OwnReservation, AdmissionHeld
<1>11. Queued'
  <2>1. Queue(retained, "retained")' /\ Queue(ready, "ready")'
    BY <1>0, <1>1, <1>4, <1>6, QueueStays DEF PoolInv, Queued, Queue
  <2>2. preparing' # Nil => res'[preparing'].st \in {"preparing", "closing"}
    BY <1>3, <1>4, <1>7
  <2> QED  BY <2>1, <2>2 DEF Queued
<1> QED
  BY <1>8, <1>9, <1>10, <1>11 DEF PoolInv, Disks

----------------------------------------
(* The monitor, changes of the budget, evictions and the shutdown.         *)

\* A preparation is preempted by a change of the budget or by pressure.
LEMMA RetireIdleKeeps ==
  ASSUME PoolInv, NEW op \in {"configure", "cool"}, NEW who, RetireIdle(op, who)
  PROVE  PoolInv'
<1>1. /\ res' = Preempted /\ att' = att /\ halt' = halt
      /\ adm' = [NoAdm EXCEPT !.op = op, !.who = who, !.pc = "retire"]
      /\ UNCHANGED <<diskVars, budget, occupied, retained, ready, preparing, cap, stopped>>
      /\ op = "configure" => who \in Budgets
  BY DEF RetireIdle
<1>2. AdmissionHeld'
  BY <1>1 DEF AdmissionHeld, NoAdm
<1>3. att' \in [Attempts -> Records] /\ halt' \in BOOLEAN
  BY <1>1 DEF PoolInv, VmsTyped
<1> QED  BY <1>1, <1>2, <1>3, PreemptKeeps

\* Idle VMs are retired one by one, then the budget is changed.
LEMMA RetireNextKeeps ==
  ASSUME PoolInv, RetireNext
  PROVE  PoolInv'
<1>0. UNCHANGED <<diskVars, occupied, preparing, stopped, cap, halt>>
  BY DEF RetireNext
<1>1. CASE Unpending # {} /\ Retire(Oldest(Unpending), "retire") /\ budget' = budget
  <2>1. PICK i \in Res : /\ res[i].st = "retained" /\ Retire(i, "retire")
    BY <1>1, QueueMembers
  <2>2. AdmissionHeld' /\ att' = att
    BY <2>1, HolderStays DEF Retire, Await
  <2> QED  BY <1>0, <1>1, <2>1, <2>2, RetireKeeps DEF Retire
<1>2. CASE ready # <<>> /\ Retire(Head(ready), "retire") /\ budget' = budget
  <2>1. PICK i \in Res : i = Head(ready) /\ res[i].st = "ready"
    BY <1>2, QueueMembers
  <2>2. Retire(i, "retire")
    BY <1>2, <2>1
  <2>3. AdmissionHeld' /\ att' = att
    BY <2>2, HolderStays DEF Retire, Await
  <2> QED  BY <1>0, <1>2, <2>1, <2>2, <2>3, RetireKeeps DEF Retire
<1>3. CASE /\ budget' = IF adm.op = "configure" THEN adm.who ELSE budget
           /\ adm' = NoAdm /\ UNCHANGED <<res, retained, ready, att>>
  <2>1. budget' \in Budgets
    BY <1>3 DEF PoolInv, VmsTyped, AdmissionHeld
  <2>2. AdmissionHeld'
    BY <1>3 DEF AdmissionHeld, NoAdm
  <2> QED  BY <1>0, <1>3, <2>1, <2>2, LockMoves
<1> QED  BY <1>1, <1>2, <1>3 DEF RetireNext

\* Maintenance and eviction end.
LEMMA EndMaintenanceKeeps ==
  ASSUME PoolInv, EndMaintenance
  PROVE  PoolInv'
<1>1. /\ UNCHANGED <<diskVars, occupied, res, retained, ready, preparing, att, stopped, cap, halt>>
      /\ budget' = budget /\ adm' = NoAdm
  BY DEF EndMaintenance, poolVars
<1>2. budget' \in Budgets /\ AdmissionHeld'
  BY <1>1 DEF PoolInv, VmsTyped, AdmissionHeld, NoAdm
<1> QED  BY <1>1, <1>2, LockMoves

\* The monitor retires a VM that exited, or one whose disk is published.
LEMMA MaintainRetainedKeeps ==
  ASSUME PoolInv, MaintainRetained
  PROVE  PoolInv'
<1>1. PICK some \in {Exited, Unpending} :
        /\ some # {}
        /\ adm' = [NoAdm EXCEPT !.op = "monitor", !.pc = "end", !.victim = Oldest(some)]
        /\ res' = Closing(Oldest(some)) /\ retained' = Without(retained, Oldest(some))
  BY Zenon DEF MaintainRetained
<1>2. UNCHANGED <<diskVars, budget, occupied, preparing, cap, stopped, halt, att>> /\ ready' = ready
  BY Zenon DEF MaintainRetained
<1>3. some \in SUBSET DOMAIN retained
  BY <1>1 DEF Exited, Unpending
<1>4. PICK i \in Res : i = Oldest(some) /\ res[i].st = "retained"
  BY <1>1, <1>3, QueueMembers
<1>5. AdmissionHeld'
  BY <1>1 DEF AdmissionHeld, NoAdm
<1> QED  BY <1>1, <1>2, <1>4, <1>5, RetireKeeps

\* A deletion or a prune evicts the VM of a conversation.
LEMMA EvictKeeps ==
  ASSUME PoolInv, NEW r \in Runs, Evict(r)
  PROVE  PoolInv'
<1> DEFINE v == CHOOSE j \in RetainedOf(r) : TRUE
<1>1. v \in Res /\ res[v].st = "retained"
  <2>1. RetainedOf(r) # {}
    BY DEF Evict
  <2>2. v \in RetainedOf(r)
    BY <2>1
  <2> QED  BY <2>2 DEF RetainedOf
<1>2. PICK i \in Res : i = v /\ res[i].st = "retained"
  BY <1>1
<1>3. /\ adm' = [NoAdm EXCEPT !.op = "evict", !.pc = "end", !.victim = i]
      /\ res' = Closing(i) /\ retained' = Without(retained, i) /\ ready' = ready
      /\ UNCHANGED <<diskVars, budget, occupied, preparing, cap, stopped, halt, att>>
  BY <1>2 DEF Evict
<1> HIDE DEF v
<1>4. AdmissionHeld'
  BY <1>3 DEF AdmissionHeld, NoAdm
<1> QED  BY <1>2, <1>3, <1>4, RetireKeeps

\* At shutdown every idle VM is retired, without the lock.
LEMMA DrainKeeps ==
  ASSUME PoolInv, Drain
  PROVE  PoolInv'
<1>1. /\ retained \in Seq(Res) /\ ready \in Seq(Res)
      /\ \A n \in DOMAIN retained : res[retained[n]].st = "retained"
      /\ \A n \in DOMAIN ready : res[ready[n]].st = "ready"
  BY DEF PoolInv, Queued, Queue
<1>2. Head(retained \o ready) \in Res
      /\ res[Head(retained \o ready)].st \in {"ready", "retained"}
  <2>1. retained \o ready # <<>>
    BY DEF Drain
  <2>2. /\ retained \o ready \in Seq(Res)
        /\ Len(retained \o ready) = Len(retained) + Len(ready)
        /\ \A n \in 1 .. Len(retained) + Len(ready) :
             (retained \o ready)[n] = IF n <= Len(retained) THEN retained[n]
                                      ELSE ready[n - Len(retained)]
    BY <1>1, ConcatProperties
  <2>3. PICK w \in Seq(Res) : w = retained \o ready
    BY <2>2
  <2>4. w # <<>> /\ Len(w) = Len(retained) + Len(ready) /\ Head(w) = w[1] /\ Len(w) > 0
    BY <2>1, <2>2, <2>3
  <2>5. CASE Len(retained) > 0
    <3>1. w[1] = retained[1] /\ 1 \in DOMAIN retained
      BY <1>1, <2>2, <2>3, <2>4, <2>5
    <3> QED  BY <1>1, <2>3, <2>4, <3>1
  <2>6. CASE ~(Len(retained) > 0)
    <3>1. Len(retained) = 0
      BY <1>1, <2>6
    <3>2. w[1] = ready[1] /\ 1 \in DOMAIN ready
      BY <1>1, <2>2, <2>3, <2>4, <3>1
    <3> QED  BY <1>1, <2>3, <2>4, <3>2
  <2> QED  BY <2>5, <2>6
<1>3. PICK i \in Res : i = Head(retained \o ready) /\ res[i].st \in {"ready", "retained"}
  BY <1>2
<1>4. /\ res' = Closing(i) /\ retained' = Without(retained, i) /\ ready' = Without(ready, i)
      /\ UNCHANGED <<diskVars, budget, occupied, preparing, cap, stopped, halt, att>>
      /\ adm' = adm
  BY <1>3 DEF Drain
<1>5. AdmissionHeld'
  BY <1>4 DEF PoolInv, AdmissionHeld
<1> QED  BY <1>3, <1>4, <1>5, RetireKeeps

----------------------------------------
(* Retention.                                                              *)

\* A published VM makes room for one more.
LEMMA RetainEvictKeeps ==
  ASSUME PoolInv, RetainEvict
  PROVE  PoolInv'
<1>0. /\ UNCHANGED <<diskVars, budget, occupied, preparing, stopped, cap, halt>>
      /\ Unpending # {} /\ Retire(Oldest(Unpending), "fit")
  BY DEF RetainEvict
<1>1. PICK i \in Res : /\ res[i].st = "retained" /\ Retire(i, "fit")
  BY <1>0, QueueMembers
<1>2. AdmissionHeld' /\ att' = att
  BY <1>1, HolderStays DEF Retire, Await
<1> QED  BY <1>0, <1>1, <1>2, RetireKeeps DEF Retire

\* The attempt that waited for the retention of its VM leaves it.
LEMMA RetainedStep ==
  ASSUME PoolInv, NEW a \in Attempts, att[a].st = "retaining", NEW i \in Res, att[a].res = i,
         NEW y \in Reservations, NEW q \in Records,
         res' = [res EXCEPT ![i] = y], att' = [att EXCEPT ![a] = q], adm' = NoAdm,
         Shaped(y), y.st # "free", y.slot = res[i].slot, y.run = res[i].run,
         y.env = res[i].env, y.vm = res[i].vm,
         \/ q.res = i /\ q.st = "closing" /\ y.st = "closing" /\ q.cancelled = att[a].cancelled
         \/ q.res = Nil /\ q.st = "exited",
         UNCHANGED <<diskVars, budget, occupied, preparing, cap, stopped, halt>>, Queued'
  PROVE  PoolInv'
<1>0. res \in [Res -> Reservations] /\ att \in [Attempts -> Records]
  BY DEF PoolInv, VmsTyped
<1>1. /\ res' \in [Res -> Reservations] /\ att' \in [Attempts -> Records]
      /\ \A j \in Res : res'[j] = IF j = i THEN y ELSE res[j]
      /\ \A b \in Attempts : att'[b] = IF b = a THEN q ELSE att[b]
  BY <1>0
<1>2. Shapes'
  BY <1>1 DEF PoolInv, Shapes
<1>3. \A b \in Attempts : att[b].res \in Res \cup {Nil} /\ (b # a => att[b].res # i)
  BY <1>0, NilApart DEF PoolInv, OwnReservation, Records
<1>4. Attached'
  <2> SUFFICES ASSUME NEW b \in Attempts
               PROVE  /\ att'[b].st \in Unattached => att'[b].res = Nil
                      /\ att'[b].res = Nil => att'[b].st \in Unattached \cup {"closing"}
                      /\ att'[b].res # Nil => Serves(RunOf(b), att'[b], res'[att'[b].res])
    BY DEF Attached
  <2>1. CASE b = a
    <3>1. q.st = "closing" /\ y.st = "closing" => Serves(RunOf(a), q, y)
      BY DEF Serves
    <3> QED  BY <2>1, <1>1, <3>1, NilApart DEF Unattached
  <2>2. CASE b # a
    <3>1. att'[b] = att[b] /\ (att[b].res # Nil => res'[att[b].res] = res[att[b].res])
      BY <2>2, <1>1, <1>3
    <3> QED  BY <3>1 DEF PoolInv, Attached
  <2> QED  BY <2>1, <2>2
<1>5. OwnReservation'
  BY <1>1 DEF PoolInv, OwnReservation
<1>6. Quiet
  <2>1. \A j \in Res : /\ res'[j].slot = res[j].slot /\ res'[j].run = res[j].run
                       /\ res'[j].env = res[j].env /\ res'[j].vm = res[j].vm
    BY <1>1
  <2>2. res[i].st # "free"
    <3>1. Serves(RunOf(a), att[a], res[i])
      BY NilApart DEF PoolInv, Attached
    <3> QED  BY <3>1 DEF Serves
  <2>3. \A j \in Res : res'[j].st = "free" <=> res[j].st = "free"
    BY <1>1, <2>2
  <2>4. \A b \in Attempts : /\ att'[b].st = "assigning" <=> att[b].st = "assigning"
                            /\ att[b].st = "assigning" => att'[b].res = att[b].res
    BY <1>1
  <2> QED  BY <2>1, <2>3, <2>4 DEF Quiet
<1>7. NoneStarts
  BY <1>1 DEF NoneStarts, Active
<1>8. AdmissionHeld'
  BY DEF AdmissionHeld, NoAdm
<1>9. VmsTyped'
  BY <1>1 DEF PoolInv, VmsTyped
<1>10. Disks' /\ StoppedNeverStarts'
  BY <1>6, <1>7, QuietKeeps, NoneStartsKeeps DEF PoolInv
<1> QED
  BY <1>2, <1>4, <1>5, <1>8, <1>9, <1>10 DEF PoolInv, Disks

\* The VM is kept when it fits, and closed when nothing can be evicted for it.
LEMMA RetainInsertKeeps ==
  ASSUME PoolInv, RetainInsert
  PROVE  PoolInv'
<1>1. PICK a \in Attempts : a = adm.who /\ att[a].st = "retaining"
  BY DEF RetainInsert, Working, PoolInv, AdmissionHeld
<1>2. att[a].res \in Res /\ Serves(RunOf(a), att[a], res[att[a].res]) /\ RunOf(a) \in Runs
  BY <1>1, AttemptFields DEF Unattached
<1>3. PICK i \in Res : i = att[a].res
  BY <1>2
<1>4. PICK x \in Reservations : x = res[i] /\ Shaped(x)
  BY DEF PoolInv, VmsTyped, Shapes
<1>5. x.st = "used" /\ x.run = RunOf(a) /\ x.vm = "paused"
  BY <1>1, <1>2, <1>3, <1>4 DEF Serves
<1>6. /\ UNCHANGED <<diskVars, budget, occupied, preparing, cap, stopped, halt>>
      /\ ready' = ready /\ adm' = NoAdm
      /\ \/ /\ retained' = Append(retained, i)
            /\ res' = [res EXCEPT ![i].st = "retained", ![i].resumed = FALSE,
                                  ![i].prepared = FALSE]
            /\ att' = [att EXCEPT ![a] = [NewAttempt EXCEPT !.st = "exited"]]
         \/ End(a) /\ retained' = retained
  BY <1>1, <1>3, Zenon DEF RetainInsert
<1>7. preparing' = preparing /\ preparing # i /\ res[i].st # "ready" /\ res[i].st # "retained"
  <2>1. preparing # Nil => res[preparing].st \in {"preparing", "closing"}
    BY DEF PoolInv, Queued
  <2>2. res[i].st = "used" /\ i # Nil /\ preparing' = preparing
    BY <1>4, <1>5, <1>6, NilApart
  <2> QED  BY <2>1, <2>2
<1>8. CASE /\ retained' = Append(retained, i)
           /\ res' = [res EXCEPT ![i].st = "retained", ![i].resumed = FALSE,
                                 ![i].prepared = FALSE]
           /\ att' = [att EXCEPT ![a] = [NewAttempt EXCEPT !.st = "exited"]]
  <2> DEFINE y == [res[i] EXCEPT !.st = "retained", !.resumed = FALSE, !.prepared = FALSE]
             q == [NewAttempt EXCEPT !.st = "exited"]
  <2>1. res' = [res EXCEPT ![i] = y] /\ att' = [att EXCEPT ![a] = q] /\ res \in [Res -> Reservations]
    BY <1>8 DEF PoolInv, VmsTyped
  <2>2. /\ y \in Reservations /\ y.st = "retained" /\ y.slot = x.slot /\ y.run = x.run
        /\ y.env = x.env /\ y.vm = x.vm /\ ~y.prepared /\ ~y.resumed
    BY <1>4 DEF Reservations, ResStates
  <2>3. q \in Records /\ q.st = "exited" /\ q.res = Nil
    BY AttemptFields, AttemptRecords
  <2> HIDE DEF y, q
  <2>4. Shaped(y)
    BY <1>2, <1>4, <1>5, <2>2, NilApart DEF Shaped
  <2>5. Queue(retained, "retained")'
    <3>1. retained \in Seq(Res) /\ \A n, m \in DOMAIN retained : n # m => retained[n] # retained[m]
      BY DEF PoolInv, Queued, Queue
    <3>2. \A n \in DOMAIN retained : retained[n] # i /\ res[retained[n]].st = "retained"
                                     /\ retained[n] \in Res
      BY <1>7 DEF PoolInv, Queued, Queue
    <3>3. \A n \in DOMAIN retained : res'[retained[n]].st = "retained" /\ retained[n] # i
      BY <2>1, <3>2
    <3>4. res'[i].st = "retained"
      BY <2>1, <2>2
    <3>5. /\ Append(retained, i) \in Seq(Res)
          /\ \A n \in DOMAIN Append(retained, i) : res'[Append(retained, i)[n]].st = "retained"
          /\ \A n, m \in DOMAIN Append(retained, i) :
               n # m => Append(retained, i)[n] # Append(retained, i)[m]
      BY <3>1, <3>3, <3>4, QueueGrows
    <3> QED  BY <1>8, <3>5 DEF Queue
  <2>6. Queued'
    <3>1. Queue(ready, "ready")'
      BY <1>6, <1>7, <2>1, QueueStays DEF PoolInv, Queued, Queue
    <3>2. preparing # Nil => res'[preparing].st \in {"preparing", "closing"}
      <4>1. preparing \in Res \cup {Nil}
            /\ (preparing # Nil => res[preparing].st \in {"preparing", "closing"})
        BY DEF PoolInv, VmsTyped, Queued
      <4> QED  BY <1>7, <2>1, <4>1
    <3> QED  BY <1>7, <2>5, <3>1, <3>2 DEF Queued
  <2> QED
    BY <1>1, <1>3, <1>4, <1>6, <2>1, <2>2, <2>3, <2>4, <2>6, RetainedStep, Zenon
<1>9. CASE End(a) /\ retained' = retained
  <2>1. PICK y \in Reservations :
           /\ Closing(i) = [res EXCEPT ![i] = y]
           /\ y.st = "closing" /\ y.slot = res[i].slot /\ y.run = res[i].run
           /\ y.env = res[i].env /\ y.vm = res[i].vm /\ Shaped(y)
    BY <1>4, <1>5, ClosingRecord
  <2> DEFINE q == [att[a] EXCEPT !.st = "closing"]
  <2>2. res' = [res EXCEPT ![i] = y] /\ att' = [att EXCEPT ![a] = q]
    BY <1>3, <1>9, <2>1 DEF End
  <2>3. q \in Records /\ q.st = "closing" /\ q.res = i /\ q.cancelled = att[a].cancelled
    <3>1. att[a] \in Records /\ "closing" \in AttStates
      BY AttemptFields DEF AttStates
    <3> QED  BY <1>3, <3>1, AttemptRecords
  <2> HIDE DEF q
  <2>4. Queued'
    BY <1>6, <1>7, <1>9, <2>2, QueuesAfter
  <2>5. y.st # "free" /\ i = att[a].res
    BY <1>3, <2>1
  <2> QED
    BY <1>1, <1>6, <2>1, <2>2, <2>3, <2>4, <2>5, RetainedStep, Zenon
<1> QED  BY <1>6, <1>8, <1>9

----------------------------------------
(* The disk of an attempt.                                                 *)

\* A step of an attempt with its own reservation that takes, claims or gives
\* up a disk, in the slot it has.
LEMMA OwnDisk ==
  ASSUME PoolInv, NEW a \in Attempts, NEW i \in Res, att[a].res = i,
         NEW q \in Records, NEW y \in Reservations, att[a].st \in {"starting", "assigning"},
         q.st \in {"starting", "assigning", "booting", "running"}, q.res = i,
         q.cancelled = att[a].cancelled,
         res' = [res EXCEPT ![i] = y], att' = [att EXCEPT ![a] = q],
         UNCHANGED <<budget, occupied, retained, ready, preparing, adm, cap, stopped, halt>>,
         Shaped(y), Serves(RunOf(a), q, y), y.st # "free", y.slot = res[i].slot,
         Uncaptured(i) \/ (y.run = res[i].run /\ y.vm = res[i].vm),
         DisksTyped', ClaimsSound', ClaimsUnderWay', SparesUnclaimed', LocksHeld'
  PROVE  PoolInv'
<1>0. res \in [Res -> Reservations] /\ att \in [Attempts -> Records] /\ i # Nil
  BY NilApart DEF PoolInv, VmsTyped
<1>1. res[i].st = "granted"
  BY <1>0 DEF PoolInv, Attached, Serves
<1>2. /\ Shapes' /\ Attached' /\ OwnReservation' /\ Queued' /\ AdmissionHeld'
      /\ res' \in [Res -> Reservations] /\ att' \in [Attempts -> Records]
  <2>1. q.st \notin Unattached /\ att[a].st \notin {"reserving", "retaining"}
    BY DEF Unattached
  <2> QED  BY <1>1, <2>1, OwnStep
<1>3. /\ \A j \in Res : res'[j] = IF j = i THEN y ELSE res[j]
      /\ \A b \in Attempts : att'[b] = IF b = a THEN q ELSE att[b]
  BY <1>0
<1>4. SlotsAccounted'
  <2>1. \A j \in Res : res'[j].slot = res[j].slot /\ (Live(j)' <=> Live(j))
    BY <1>1, <1>3 DEF Live
  <2> QED  BY <2>1 DEF PoolInv, SlotsAccounted
<1>5. CapturesStillDisk'
  <2> SUFFICES ASSUME NEW r \in Runs, cap[r].st = "sealing", cap[r].by # Nil
               PROVE  res'[cap[r].by].run = r /\ res'[cap[r].by].vm \in {"paused", "dead"}
    BY DEF CapturesStillDisk
  <2>1. cap[r].by \in Res
    BY DEF PoolInv, VmsTyped, Captures
  <2>2. res[cap[r].by].run = r /\ res[cap[r].by].vm \in {"paused", "dead"}
    BY DEF PoolInv, CapturesStillDisk
  <2>3. cap[r].by = i => ~Uncaptured(i)
    BY DEF Uncaptured
  <2> QED  BY <1>3, <2>1, <2>2, <2>3
<1>6. NoneStarts
  BY <1>3 DEF NoneStarts, Active
<1>7. StoppedNeverStarts'
  BY <1>6, NoneStartsKeeps DEF PoolInv
<1>8. VmsTyped'
  BY <1>2 DEF PoolInv, VmsTyped
<1> QED
  BY <1>2, <1>4, <1>5, <1>7, <1>8 DEF PoolInv

\* A disk of another conversation is not captured.
LEMMA UnusedUncaptured ==
  ASSUME PoolInv, NEW i \in Res, res[i].run = Nil
  PROVE  Uncaptured(i)
BY NilApart DEF PoolInv, CapturesStillDisk, Uncaptured

\* The records of claims that are under way stay when neither they nor the
\* pointers of their conversations move.
LEMMA OtherClaims ==
  ASSUME PoolInv, NEW a \in Attempts, NEW b \in Attempts, b # a, att[b].st = "assigning"
  PROVE  /\ att[b].res \in Res /\ att[b].res # att[a].res
         /\ pointer[RunOf(b)] = res[att[b].res].env /\ pointer[RunOf(b)] # Nil
<1>1. att[b].res \in Res /\ Serves(RunOf(b), att[b], res[att[b].res])
  BY AttemptFields DEF Unattached
<1>2. att[b].res # att[a].res
  BY <1>1, NilApart DEF PoolInv, OwnReservation
<1>3. res[att[b].res].env # Nil
  BY <1>1 DEF Serves
<1> QED  BY <1>1, <1>2, <1>3 DEF PoolInv, ClaimsUnderWay

\* A retained VM is resumed, replaced after a change of the budget, or found
\* dead.
LEMMA ResumeIdleKeeps ==
  ASSUME PoolInv, NEW a \in Attempts, ResumeIdle(a)
  PROVE  PoolInv'
<1>1. PICK i \in Res : i = att[a].res
  BY AttemptFields DEF ResumeIdle, Unattached
<1>2. att[a].st = "starting" /\ res[i].resumed /\ Uncaptured(i)
  BY <1>1 DEF ResumeIdle
<1>3. /\ UNCHANGED <<pointer, label, made, plain, budget, occupied, retained, ready, preparing,
                     adm, stopped, cap, halt>>
  BY DEF ResumeIdle
<1>4. /\ att[a] \in Records /\ Serves(RunOf(a), att[a], res[i]) /\ Shaped(res[i])
      /\ res[i] \in Reservations /\ RunOf(a) \in Runs
  BY <1>1, <1>2, AttemptFields DEF Unattached
<1>5. res[i].st = "granted" /\ res[i].run = RunOf(a) /\ res[i].slot \in Slots
  BY <1>2, <1>4 DEF Serves, Shaped
<1>6. \/ /\ res' = [res EXCEPT ![i] = [NoRes EXCEPT !.st = "granted", !.slot = res[i].slot]]
         /\ owner' = [owner EXCEPT ![RunOf(a)] =
                        IF cap[RunOf(a)].by = i THEN CaptureHolder ELSE Nil]
         /\ att' = att
      \/ /\ res' = [res EXCEPT ![i].st = "used", ![i].vm = "running"]
         /\ att' = [att EXCEPT ![a].st = "running"] /\ owner' = owner
      \/ End(a) /\ owner' = owner
  BY <1>1 DEF ResumeIdle
<1>7. CASE /\ res' = [res EXCEPT ![i] = [NoRes EXCEPT !.st = "granted", !.slot = res[i].slot]]
           /\ owner' = [owner EXCEPT ![RunOf(a)] =
                          IF cap[RunOf(a)].by = i THEN CaptureHolder ELSE Nil]
           /\ att' = att
  <2> DEFINE y == [NoRes EXCEPT !.st = "granted", !.slot = res[i].slot]
  <2>1. /\ y \in Reservations /\ y.st = "granted" /\ y.slot = res[i].slot /\ y.run = Nil
        /\ y.env = Nil /\ y.vm = "none" /\ ~y.resumed /\ ~y.prepared
    BY <1>5 DEF NoRes, Reservations, ResStates, VmStates
  <2>2. res' = [res EXCEPT ![i] = y] /\ att' = [att EXCEPT ![a] = att[a]]
    BY <1>7 DEF PoolInv, VmsTyped
  <2> HIDE DEF y
  <2>3. Shaped(y) /\ Serves(RunOf(a), att[a], y)
    BY <1>2, <1>5, <2>1 DEF Shaped, Serves
  <2>4. \A j \in Res : res'[j] = IF j = i THEN y ELSE res[j]
    BY <2>2 DEF PoolInv, VmsTyped
  <2>5. \A r \in Runs : owner'[r] = owner[r] \/ r = RunOf(a)
    BY <1>7 DEF PoolInv, DisksTyped
  <2>6. DisksTyped'
    BY <1>3, <1>7, NilApart DEF PoolInv, DisksTyped, CaptureHolder, Nil
  <2>7. ClaimsSound'
    BY <1>3, <1>7 DEF PoolInv, ClaimsSound, Assigning
  <2>8. ClaimsUnderWay'
    <3>1. \A b \in Attempts : att[b].st = "assigning" =>
             att[b].res \in Res /\ att[b].res # i /\ pointer[RunOf(b)] = res[att[b].res].env
      BY <1>1, <1>2, OtherClaims
    <3> QED  BY <1>3, <1>7, <2>4, <3>1 DEF ClaimsUnderWay
  <2>9. SparesUnclaimed'
    BY <1>3, <2>1, <2>4 DEF PoolInv, SparesUnclaimed, Spare
  <2>10. LocksHeld'
    <3>1. \A j \in Res : j # i /\ res[j].run # Nil => owner[res[j].run] = j /\ res[j].run # RunOf(a)
      BY <1>4, <1>5, NilApart DEF PoolInv, LocksHeld
    <3>2. \A j \in Res : res[j].run \in Runs \cup {Nil}
      BY DEF PoolInv, VmsTyped, Reservations
    <3> QED  BY <2>1, <2>4, <2>5, <3>1, <3>2 DEF LocksHeld
  <2>11. att[a].st \in {"starting", "assigning"} /\ att[a].res = i /\ y.st # "free"
    BY <1>1, <1>2, <2>1
  <2>12. att[a].st \in {"starting", "assigning", "booting", "running"}
    BY <1>2
  <2>13. UNCHANGED <<budget, occupied, retained, ready, preparing, adm, cap, stopped, halt>>
    BY <1>3
  <2> QED
    BY <1>2, <1>4, <2>1, <2>2, <2>3, <2>6, <2>7, <2>8, <2>9, <2>10, <2>11, <2>12, <2>13, OwnDisk
<1>8. CASE /\ res' = [res EXCEPT ![i].st = "used", ![i].vm = "running"]
           /\ att' = [att EXCEPT ![a].st = "running"] /\ owner' = owner
  <2> DEFINE y == [res[i] EXCEPT !.st = "used", !.vm = "running"]
             q == [att[a] EXCEPT !.st = "running"]
  <2>1. res' = [res EXCEPT ![att[a].res] = y]
    BY <1>1, <1>8 DEF PoolInv, VmsTyped
  <2>2. PICK x \in Reservations : x = res[i]
    BY <1>4
  <2>3. /\ y \in Reservations /\ y.st = "used" /\ y.slot = x.slot /\ y.run = x.run
        /\ y.env = x.env /\ y.prepared = x.prepared
    BY <2>2 DEF Reservations, ResStates, VmStates
  <2>4. "running" \in AttStates /\ "running" \notin Unattached \cup {"closing", "assigning"}
        /\ Active(a) /\ att[a].st \notin Unattached \cup {"closing", "retaining", "assigning"}
    BY <1>2 DEF AttStates, Unattached, Active
  <2>5. q.st = "running"
    BY <1>4, <2>4, AttemptRecords
  <2> HIDE DEF y, q
  <2>6. Shaped(y) /\ Serves(RunOf(a), q, y) /\ y.st # "free"
    BY <1>4, <1>5, <2>2, <2>3, <2>5 DEF Shaped, Serves
  <2>7. Serves(RunOf(a), [att[a] EXCEPT !.st = "running"], y)
    BY <2>6 DEF q
  <2>8. UNCHANGED <<diskVars, occupied, cap, budget, stopped, halt, retained, ready, preparing,
                    adm>>
    BY <1>3, <1>8 DEF diskVars
  <2>9. /\ y.slot = res[att[a].res].slot /\ y.run = res[att[a].res].run
        /\ y.env = res[att[a].res].env /\ Uncaptured(att[a].res)
    BY <1>1, <1>2, <2>2, <2>3
  <2> QED
    BY <1>8, <2>1, <2>3, <2>4, <2>6, <2>7, <2>8, <2>9, RunningStep
<1>9. CASE End(a) /\ owner' = owner
  <2>1. Active(a) /\ att[a].st \notin {"retaining", "assigning", "closing"}
    BY <1>2 DEF Active
  <2>2. UNCHANGED <<diskVars, occupied, retained, ready, preparing, adm, budget, cap,
                    stopped, halt>>
    BY <1>3, <1>9 DEF diskVars
  <2> QED  BY <1>9, <2>1, <2>2, EndKeeps
<1> QED  BY <1>6, <1>7, <1>8, <1>9

\* The first record of a claim: the conversation points at the directory.
LEMMA ClaimSpareKeeps ==
  ASSUME PoolInv, NEW a \in Attempts, ClaimSpare(a)
  PROVE  PoolInv'
<1>1. PICK i \in Res : i = att[a].res
  BY AttemptFields DEF ClaimSpare, Unattached
<1>2. PICK r \in Runs : r = RunOf(a)
  BY AttemptFields
<1>3. PICK e \in Envs \cup {Nil} : e = res[i].env
  BY DEF PoolInv, VmsTyped, Reservations
<1>4. /\ att[a].st = "starting" /\ res[i].prepared /\ pointer[r] = Nil /\ owner[r] = Nil
      /\ owner' = [owner EXCEPT ![r] = i] /\ pointer' = [pointer EXCEPT ![r] = e]
      /\ res' = [res EXCEPT ![i].run = r, ![i].prepared = FALSE]
      /\ att' = [att EXCEPT ![a].st = "assigning"]
      /\ UNCHANGED <<label, made, plain, budget, occupied, retained, ready, preparing, adm,
                     stopped, cap, halt>>
  BY <1>1, <1>2, <1>3 DEF ClaimSpare, ReservePointer, FreshDisk
<1>5. /\ att[a] \in Records /\ Serves(r, att[a], res[i]) /\ Shaped(res[i])
      /\ res[i] \in Reservations
  BY <1>1, <1>2, <1>4, AttemptFields DEF Unattached
<1>6. PICK x \in Reservations : x = res[i]
  BY <1>5
<1>7. x.st = "granted" /\ x.run = Nil /\ e # Nil /\ ~x.resumed /\ x.slot \in Slots
  BY <1>2, <1>3, <1>4, <1>5, <1>6, NilApart DEF Serves, Shaped
<1>8. /\ e \in made /\ label[e] = Nil /\ e \in Envs
      /\ \A z \in Runs : pointer[z] # e
      /\ \A j \in Res : j # i /\ Spare(j) => res[j].env # e
  BY <1>3, <1>6, <1>7 DEF PoolInv, SparesUnclaimed, Spare
<1> DEFINE y == [res[i] EXCEPT !.run = r, !.prepared = FALSE]
           q == [att[a] EXCEPT !.st = "assigning"]
<1>9. res' = [res EXCEPT ![i] = y] /\ att' = [att EXCEPT ![a] = q]
  BY <1>4 DEF PoolInv, VmsTyped
<1>10. /\ y \in Reservations /\ y.st = "granted" /\ y.slot = x.slot /\ y.run = r /\ y.env = e
       /\ ~y.prepared
  BY <1>3, <1>6, <1>7 DEF Reservations
<1>11. q \in Records /\ q.st = "assigning" /\ q.res = i /\ q.cancelled = att[a].cancelled
  <2>1. "assigning" \in AttStates
    BY DEF AttStates
  <2> QED  BY <1>1, <1>5, <2>1, AttemptRecords
<1> HIDE DEF y, q
<1>12. Shaped(y) /\ Serves(r, q, y)
  BY <1>7, <1>10, <1>11, NilApart DEF Shaped, Serves
<1>13. /\ \A j \in Res : res'[j] = IF j = i THEN y ELSE res[j]
       /\ \A b \in Attempts : att'[b] = IF b = a THEN q ELSE att[b]
       /\ \A z \in Runs : /\ pointer'[z] = IF z = r THEN e ELSE pointer[z]
                          /\ owner'[z] = IF z = r THEN i ELSE owner[z]
  BY <1>4, <1>9 DEF PoolInv, VmsTyped, DisksTyped
<1>14. DisksTyped'
  BY <1>4, NilApart DEF PoolInv, DisksTyped, Res
<1>15. ClaimsSound'
  <2>1. \A z \in Runs : Assigning(z) => Assigning(z)'
    BY <1>4, <1>13 DEF Assigning
  <2>2. Assigning(r)'
    BY <1>2, <1>11, <1>13 DEF Assigning
  <2>3. \A z \in Runs : pointer'[z] # Nil =>
           /\ pointer'[z] \in made'
           /\ label'[pointer'[z]] = z \/ (label'[pointer'[z]] = Nil /\ Assigning(z)')
    BY <1>4, <1>8, <1>13, <2>1, <2>2 DEF PoolInv, ClaimsSound
  <2>4. \A z, w \in Runs : z # w /\ pointer'[z] # Nil => pointer'[w] # pointer'[z]
    <3>1. \A z, w \in Runs : z # w /\ pointer[z] # Nil => pointer[w] # pointer[z]
      BY DEF PoolInv, ClaimsSound
    <3> QED  BY <1>8, <1>13, <3>1
  <2>5. \A f \in Envs : label'[f] # Nil => pointer'[label'[f]] = f
    <3>1. \A f \in Envs : label[f] # Nil => label[f] \in Runs /\ pointer[label[f]] = f /\ f # Nil
      BY NilApart DEF PoolInv, DisksTyped, ClaimsSound
    <3>2. \A f \in Envs : label[f] # Nil => label[f] # r
      BY <1>4, <3>1
    <3> QED  BY <1>4, <1>13, <3>1, <3>2
  <2> QED  BY <2>3, <2>4, <2>5 DEF ClaimsSound
<1>16. ClaimsUnderWay'
  <2> SUFFICES ASSUME NEW b \in Attempts, att'[b].st = "assigning"
               PROVE  pointer'[RunOf(b)] = res'[att'[b].res].env
    BY DEF ClaimsUnderWay
  <2>1. CASE b = a
    BY <2>1, <1>2, <1>10, <1>11, <1>13
  <2>2. CASE b # a
    <3>1. att[b].st = "assigning" /\ att'[b] = att[b] /\ RunOf(b) \in Runs
      BY <2>2, <1>13, AttemptFields
    <3>2. /\ att[b].res \in Res /\ att[b].res # i /\ pointer[RunOf(b)] = res[att[b].res].env
          /\ pointer[RunOf(b)] # Nil
      BY <2>2, <3>1, <1>1, OtherClaims
    <3>3. RunOf(b) # r
      BY <1>4, <3>2
    <3> QED  BY <1>13, <3>1, <3>2, <3>3
  <2> QED  BY <2>1, <2>2
<1>17. SparesUnclaimed'
  <2>1. \A j \in Res : Spare(j)' => Spare(j) /\ j # i /\ res'[j].env = res[j].env
    BY <1>10, <1>13, NilApart DEF Spare
  <2>2. \A j \in Res : Spare(j)' =>
           /\ res'[j].env \in made' /\ label'[res'[j].env] = Nil
           /\ \A z \in Runs : pointer'[z] # res'[j].env
    <3>1. \A j \in Res : Spare(j) =>
            /\ res[j].env \in made /\ label[res[j].env] = Nil
            /\ \A z \in Runs : pointer[z] # res[j].env
      BY DEF PoolInv, SparesUnclaimed
    <3>2. \A j \in Res : Spare(j)' => \A z \in Runs : pointer'[z] # res'[j].env
      BY <1>8, <1>13, <2>1, <3>1
    <3>3. \A j \in Res : Spare(j)' => res'[j].env \in made' /\ label'[res'[j].env] = Nil
      <4>1. made' = made /\ label' = label
        BY <1>4
      <4> QED  BY <2>1, <3>1, <4>1
    <3> QED  BY <3>2, <3>3
  <2>3. \A h, j \in Res : h # j /\ Spare(h)' /\ Spare(j)' => res'[h].env # res'[j].env
    BY <2>1 DEF PoolInv, SparesUnclaimed
  <2> QED  BY <2>2, <2>3 DEF SparesUnclaimed
<1>18. LocksHeld'
  <2>1. \A j \in Res : res[j].run # Nil => owner[res[j].run] = j /\ j # Nil /\ res[j].run \in Runs
    BY NilApart DEF PoolInv, LocksHeld, VmsTyped, Reservations
  <2>2. \A j \in Res : res[j].run # Nil => res[j].run # r
    BY <1>4, <2>1
  <2> QED  BY <1>10, <1>13, <2>1, <2>2 DEF LocksHeld
<1>19. Uncaptured(i)
  BY <1>6, <1>7, UnusedUncaptured
<1>20. /\ att[a].st \in {"starting", "assigning"} /\ att[a].res = i /\ y.st # "free"
       /\ q.st \in {"starting", "assigning", "booting", "running"} /\ y.slot = res[i].slot
       /\ UNCHANGED <<budget, occupied, retained, ready, preparing, adm, cap, stopped, halt>>
       /\ Serves(RunOf(a), q, y)
  BY <1>1, <1>2, <1>4, <1>6, <1>10, <1>11, <1>12
<1> QED
  BY <1>9, <1>10, <1>11, <1>12, <1>14, <1>15, <1>16, <1>17, <1>18, <1>19, <1>20, OwnDisk

\* The second record of a claim: the directory names the conversation.
LEMMA RecordClaimKeeps ==
  ASSUME PoolInv, NEW a \in Attempts, RecordClaim(a)
  PROVE  PoolInv'
<1>1. PICK i \in Res : i = att[a].res
  BY AttemptFields DEF RecordClaim, Unattached
<1>2. PICK r \in Runs : r = RunOf(a)
  BY AttemptFields
<1>3. PICK e \in Envs \cup {Nil} : e = res[i].env
  BY DEF PoolInv, VmsTyped, Reservations
<1>4. /\ att[a].st = "assigning"
      /\ label' = [label EXCEPT ![e] = r]
      /\ res' = [res EXCEPT ![i].st = "used"]
      /\ att' = [att EXCEPT ![a].st = "running"]
      /\ UNCHANGED <<pointer, made, plain, owner, budget, occupied, retained, ready, preparing,
                     adm, stopped, cap, halt>>
  BY <1>1, <1>2, <1>3 DEF RecordClaim, RecordOwner
<1>5. /\ att[a] \in Records /\ Serves(r, att[a], res[i]) /\ Shaped(res[i])
      /\ res[i] \in Reservations
  BY <1>1, <1>2, <1>4, AttemptFields DEF Unattached
<1>6. PICK x \in Reservations : x = res[i]
  BY <1>5
<1>7. x.st = "granted" /\ x.run = r /\ e # Nil /\ x.slot \in Slots /\ pointer[r] = e
  BY <1>1, <1>2, <1>3, <1>4, <1>5, <1>6 DEF Serves, Shaped, PoolInv, ClaimsUnderWay
<1> DEFINE y == [res[i] EXCEPT !.st = "used"]
           q == [att[a] EXCEPT !.st = "running"]
<1>9. res' = [res EXCEPT ![i] = y] /\ att' = [att EXCEPT ![a] = q]
  BY <1>4 DEF PoolInv, VmsTyped
<1>10. /\ y \in Reservations /\ y.st = "used" /\ y.slot = x.slot /\ y.run = r /\ y.env = e
       /\ y.prepared = x.prepared /\ y.vm = x.vm
  BY <1>3, <1>6, <1>7 DEF Reservations, ResStates
<1>11. q \in Records /\ q.st = "running" /\ q.res = i /\ q.cancelled = att[a].cancelled
  <2>1. "running" \in AttStates
    BY DEF AttStates
  <2> QED  BY <1>1, <1>5, <2>1, AttemptRecords
<1> HIDE DEF y, q
<1>12. Shaped(y) /\ Serves(r, q, y)
  BY <1>5, <1>6, <1>7, <1>10, <1>11, NilApart DEF Shaped, Serves
<1>13. /\ \A j \in Res : res'[j] = IF j = i THEN y ELSE res[j]
       /\ \A b \in Attempts : att'[b] = IF b = a THEN q ELSE att[b]
       /\ \A f \in Envs : label'[f] = IF f = e THEN r ELSE label[f]
  BY <1>4, <1>9 DEF PoolInv, VmsTyped, DisksTyped
<1>14. DisksTyped'
  BY <1>4 DEF PoolInv, DisksTyped
<1>15. ClaimsSound'
  <2>1. \A z \in Runs : z # r /\ Assigning(z) => Assigning(z)'
    BY <1>2, <1>4, <1>13 DEF Assigning
  <2>2. \A z \in Runs : z # r => pointer[z] # e
    BY <1>7 DEF PoolInv, ClaimsSound
  <2>3. \A z \in Runs : pointer[z] \in Envs \cup {Nil}
    BY DEF PoolInv, DisksTyped
  <2>4. \A z \in Runs : pointer'[z] # Nil =>
           /\ pointer'[z] \in made'
           /\ label'[pointer'[z]] = z \/ (label'[pointer'[z]] = Nil /\ Assigning(z)')
    <3>1. \A z \in Runs : pointer[z] # Nil =>
           /\ pointer[z] \in made
           /\ label[pointer[z]] = z \/ (label[pointer[z]] = Nil /\ Assigning(z))
      BY DEF PoolInv, ClaimsSound
    <3> QED  BY <1>4, <1>7, <1>13, <2>1, <2>2, <2>3, <3>1
  <2>5. \A f \in Envs : label'[f] # Nil => pointer'[label'[f]] = f
    BY <1>4, <1>7, <1>13 DEF PoolInv, ClaimsSound
  <2>6. \A z, w \in Runs : z # w /\ pointer'[z] # Nil => pointer'[w] # pointer'[z]
    BY <1>4 DEF PoolInv, ClaimsSound
  <2> QED  BY <2>4, <2>5, <2>6 DEF ClaimsSound
<1>16. ClaimsUnderWay'
  <2> SUFFICES ASSUME NEW b \in Attempts, att'[b].st = "assigning"
               PROVE  pointer'[RunOf(b)] = res'[att'[b].res].env
    BY DEF ClaimsUnderWay
  <2>1. b # a /\ att[b].st = "assigning" /\ att'[b] = att[b]
    BY <1>11, <1>13
  <2>2. att[b].res \in Res /\ att[b].res # i /\ pointer[RunOf(b)] = res[att[b].res].env
    BY <2>1, <1>1, OtherClaims
  <2> QED  BY <1>4, <1>13, <2>1, <2>2
<1>17. SparesUnclaimed'
  <2>1. \A j \in Res : Spare(j)' => Spare(j) /\ j # i /\ res'[j].env = res[j].env
    BY <1>10, <1>13, NilApart DEF Spare
  <2>2. \A j \in Res : Spare(j) =>
           /\ res[j].env \in made /\ label[res[j].env] = Nil
           /\ \A z \in Runs : pointer[z] # res[j].env
    BY DEF PoolInv, SparesUnclaimed
  <2>3. \A j \in Res : Spare(j) => res[j].env # e /\ res[j].env \in Envs
    BY <1>7, <2>2 DEF PoolInv, DisksTyped
  <2>4. \A j \in Res : Spare(j)' =>
           /\ res'[j].env \in made' /\ label'[res'[j].env] = Nil
           /\ \A z \in Runs : pointer'[z] # res'[j].env
    BY <1>4, <1>13, <2>1, <2>2, <2>3
  <2>5. \A h, j \in Res : h # j /\ Spare(h)' /\ Spare(j)' => res'[h].env # res'[j].env
    BY <2>1 DEF PoolInv, SparesUnclaimed
  <2> QED  BY <2>4, <2>5 DEF SparesUnclaimed
<1>18. LocksHeld'
  BY <1>4, <1>6, <1>7, <1>10, <1>13 DEF PoolInv, LocksHeld
<1>20. /\ att[a].st \in {"starting", "assigning"} /\ att[a].res = i /\ y.st # "free"
       /\ q.st \in {"starting", "assigning", "booting", "running"} /\ y.slot = res[i].slot
       /\ UNCHANGED <<budget, occupied, retained, ready, preparing, adm, cap, stopped, halt>>
       /\ Serves(RunOf(a), q, y) /\ y.run = res[i].run /\ y.vm = res[i].vm
  BY <1>1, <1>2, <1>4, <1>6, <1>7, <1>10, <1>11, <1>12
<1> QED
  BY <1>9, <1>10, <1>11, <1>12, <1>14, <1>15, <1>16, <1>17, <1>18, <1>20, OwnDisk

\* A spare that no longer fits is given up, its slot is used cold.
LEMMA DropSpareKeeps ==
  ASSUME PoolInv, NEW a \in Attempts, DropSpare(a)
  PROVE  PoolInv'
<1>1. PICK i \in Res : i = att[a].res
  BY AttemptFields DEF DropSpare, Unattached
<1>2. PICK r \in Runs : r = RunOf(a)
  BY AttemptFields
<1>3. PICK e \in Envs \cup {Nil} : e = res[i].env
  BY DEF PoolInv, VmsTyped, Reservations
<1>4. /\ att[a].st = "starting" /\ res[i].prepared /\ made' = made \ {e} /\ att' = att
      /\ res' = [res EXCEPT ![i] = [NoRes EXCEPT !.st = "granted", !.slot = res[i].slot]]
      /\ UNCHANGED <<pointer, label, plain, owner, budget, occupied, retained, ready, preparing,
                     adm, stopped, cap, halt>>
  BY <1>1, <1>3 DEF DropSpare
<1>5. /\ att[a] \in Records /\ Serves(r, att[a], res[i]) /\ Shaped(res[i])
      /\ res[i] \in Reservations
  BY <1>1, <1>2, <1>4, AttemptFields DEF Unattached
<1>6. PICK x \in Reservations : x = res[i]
  BY <1>5
<1>7. x.st = "granted" /\ x.run = Nil /\ e # Nil /\ x.slot \in Slots
  BY <1>2, <1>3, <1>4, <1>5, <1>6, NilApart DEF Serves, Shaped
<1>8. /\ \A z \in Runs : pointer[z] # e
      /\ \A j \in Res : j # i /\ Spare(j) => res[j].env # e
  BY <1>3, <1>6, <1>7 DEF PoolInv, SparesUnclaimed, Spare
<1> DEFINE y == [NoRes EXCEPT !.st = "granted", !.slot = res[i].slot]
<1>9. res' = [res EXCEPT ![i] = y] /\ att' = [att EXCEPT ![a] = att[a]]
  BY <1>4 DEF PoolInv, VmsTyped
<1>10. /\ y \in Reservations /\ y.st = "granted" /\ y.slot = x.slot /\ y.run = Nil /\ y.env = Nil
       /\ ~y.prepared /\ ~y.resumed /\ y.vm = "none"
  <2>1. res[i].slot \in Slots /\ res[i].slot = x.slot
    BY <1>6, <1>7
  <2>2. /\ y \in Reservations /\ y.st = "granted" /\ y.slot = res[i].slot /\ y.run = Nil
        /\ y.env = Nil /\ ~y.prepared /\ ~y.resumed /\ y.vm = "none"
    BY <2>1 DEF NoRes, Reservations, ResStates, VmStates
  <2> QED  BY <2>1, <2>2
<1> HIDE DEF y
<1>12. Shaped(y) /\ Serves(r, att[a], y)
  BY <1>4, <1>7, <1>10 DEF Shaped, Serves
<1>13. \A j \in Res : res'[j] = IF j = i THEN y ELSE res[j]
  BY <1>9 DEF PoolInv, VmsTyped
<1>14. DisksTyped'
  BY <1>4 DEF PoolInv, DisksTyped
<1>15. ClaimsSound'
  BY <1>4, <1>8 DEF PoolInv, ClaimsSound, Assigning
<1>16. ClaimsUnderWay'
  <2>1. \A b \in Attempts : att[b].st = "assigning" =>
           att[b].res \in Res /\ att[b].res # i /\ pointer[RunOf(b)] = res[att[b].res].env
    BY <1>1, <1>4, OtherClaims
  <2> QED  BY <1>4, <1>13, <2>1 DEF ClaimsUnderWay
<1>17. SparesUnclaimed'
  <2>1. \A j \in Res : Spare(j)' => Spare(j) /\ j # i /\ res'[j].env = res[j].env
    BY <1>10, <1>13 DEF Spare
  <2> QED  BY <1>4, <1>8, <2>1 DEF PoolInv, SparesUnclaimed
<1>18. LocksHeld'
  <2>1. \A j \in Res : res'[j].run # Nil => res'[j].run = res[j].run
    BY <1>10, <1>13
  <2> QED  BY <1>4, <2>1 DEF PoolInv, LocksHeld
<1>19. Uncaptured(i)
  BY <1>6, <1>7, UnusedUncaptured
<1>20. /\ att[a].st \in {"starting", "assigning"} /\ att[a].res = i /\ y.st # "free"
       /\ att[a].st \in {"starting", "assigning", "booting", "running"} /\ y.slot = res[i].slot
       /\ UNCHANGED <<budget, occupied, retained, ready, preparing, adm, cap, stopped, halt>>
       /\ Serves(RunOf(a), att[a], y)
  BY <1>1, <1>2, <1>4, <1>6, <1>10, <1>12
<1> QED
  BY <1>5, <1>9, <1>10, <1>12, <1>14, <1>15, <1>16, <1>17, <1>18, <1>19, <1>20, OwnDisk

\* A start takes the lock of its disk.
LEMMA TakeOwnershipKeeps ==
  ASSUME PoolInv, NEW a \in Attempts, TakeOwnership(a)
  PROVE  PoolInv'
<1>1. PICK i \in Res : i = att[a].res
  BY AttemptFields DEF TakeOwnership, Unattached
<1>2. PICK r \in Runs : r = RunOf(a)
  BY AttemptFields
<1>4. /\ att[a].st = "starting" /\ ~res[i].resumed /\ ~res[i].prepared /\ owner[r] = Nil
      /\ owner' = [owner EXCEPT ![r] = i]
      /\ plain' = IF pointer[r] = Nil THEN plain \cup {r} ELSE plain
      /\ res' = [res EXCEPT ![i].run = r, ![i].env = pointer[r], ![i].budget = budget]
      /\ att' = [att EXCEPT ![a].st = "booting"]
      /\ UNCHANGED <<pointer, label, made, budget, occupied, retained, ready, preparing, adm,
                     stopped, cap, halt>>
  BY <1>1, <1>2 DEF TakeOwnership
<1>5. /\ att[a] \in Records /\ Serves(r, att[a], res[i]) /\ Shaped(res[i])
      /\ res[i] \in Reservations
  BY <1>1, <1>2, <1>4, AttemptFields DEF Unattached
<1>6. PICK x \in Reservations : x = res[i]
  BY <1>5
<1>7. x.st = "granted" /\ x.run = Nil /\ x.slot \in Slots /\ x.vm = "none" /\ ~x.prepared
  BY <1>4, <1>5, <1>6 DEF Serves, Shaped
<1> DEFINE y == [res[i] EXCEPT !.run = r, !.env = pointer[r], !.budget = budget]
           q == [att[a] EXCEPT !.st = "booting"]
<1>9. res' = [res EXCEPT ![i] = y] /\ att' = [att EXCEPT ![a] = q]
  BY <1>4 DEF PoolInv, VmsTyped
<1>10. /\ y \in Reservations /\ y.st = "granted" /\ y.slot = x.slot /\ y.run = r
       /\ ~y.prepared /\ y.vm = "none"
  <2>1. pointer[r] \in Envs \cup {Nil} /\ budget \in Budgets
    BY DEF PoolInv, DisksTyped, VmsTyped
  <2> QED  BY <1>6, <1>7, <2>1 DEF Reservations
<1>11. q \in Records /\ q.st = "booting" /\ q.res = i /\ q.cancelled = att[a].cancelled
  <2>1. "booting" \in AttStates
    BY DEF AttStates
  <2> QED  BY <1>1, <1>5, <2>1, AttemptRecords
<1> HIDE DEF y, q
<1>12. Shaped(y) /\ Serves(r, q, y)
  BY <1>7, <1>10, <1>11, NilApart DEF Shaped, Serves
<1>13. /\ \A j \in Res : res'[j] = IF j = i THEN y ELSE res[j]
       /\ \A b \in Attempts : att'[b] = IF b = a THEN q ELSE att[b]
       /\ \A z \in Runs : owner'[z] = IF z = r THEN i ELSE owner[z]
  BY <1>4, <1>9 DEF PoolInv, VmsTyped, DisksTyped
<1>14. DisksTyped'
  BY <1>4, NilApart DEF PoolInv, DisksTyped, Res
<1>15. ClaimsSound'
  <2>1. \A z \in Runs : Assigning(z) => Assigning(z)'
    BY <1>4, <1>13 DEF Assigning
  <2> QED  BY <1>4, <2>1 DEF PoolInv, ClaimsSound
<1>16. ClaimsUnderWay'
  <2> SUFFICES ASSUME NEW b \in Attempts, att'[b].st = "assigning"
               PROVE  pointer'[RunOf(b)] = res'[att'[b].res].env
    BY DEF ClaimsUnderWay
  <2>1. b # a /\ att[b].st = "assigning" /\ att'[b] = att[b]
    BY <1>11, <1>13
  <2>2. att[b].res \in Res /\ att[b].res # i /\ pointer[RunOf(b)] = res[att[b].res].env
    BY <2>1, <1>1, OtherClaims
  <2> QED  BY <1>4, <1>13, <2>1, <2>2
<1>17. SparesUnclaimed'
  <2>1. \A j \in Res : Spare(j)' => Spare(j) /\ j # i /\ res'[j].env = res[j].env
    BY <1>10, <1>13, NilApart DEF Spare
  <2>2. \A j \in Res : Spare(j)' =>
           /\ res'[j].env \in made' /\ label'[res'[j].env] = Nil
           /\ \A z \in Runs : pointer'[z] # res'[j].env
    <3>1. made' = made /\ label' = label /\ pointer' = pointer
      BY <1>4
    <3> QED  BY <2>1, <3>1 DEF PoolInv, SparesUnclaimed
  <2>3. \A h, j \in Res : h # j /\ Spare(h)' /\ Spare(j)' => res'[h].env # res'[j].env
    BY <2>1 DEF PoolInv, SparesUnclaimed
  <2> QED  BY <2>2, <2>3 DEF SparesUnclaimed
<1>18. LocksHeld'
  <2>1. \A j \in Res : res[j].run # Nil => owner[res[j].run] = j /\ j # Nil /\ res[j].run \in Runs
    BY NilApart DEF PoolInv, LocksHeld, VmsTyped, Reservations
  <2>2. \A j \in Res : res[j].run # Nil => res[j].run # r
    BY <1>4, <2>1
  <2> QED  BY <1>10, <1>13, <2>1, <2>2 DEF LocksHeld
<1>19. Uncaptured(i)
  BY <1>6, <1>7, UnusedUncaptured
<1>20. /\ att[a].st \in {"starting", "assigning"} /\ att[a].res = i /\ y.st # "free"
       /\ q.st \in {"starting", "assigning", "booting", "running"} /\ y.slot = res[i].slot
       /\ UNCHANGED <<budget, occupied, retained, ready, preparing, adm, cap, stopped, halt>>
       /\ Serves(RunOf(a), q, y)
  BY <1>1, <1>2, <1>4, <1>6, <1>10, <1>11, <1>12
<1> QED
  BY <1>9, <1>10, <1>11, <1>12, <1>14, <1>15, <1>16, <1>17, <1>18, <1>19, <1>20, OwnDisk

\* A VM is down: its slot, its lock and a directory nobody claimed are free.
LEMMA TeardownKeeps ==
  ASSUME PoolInv, NEW i \in Res, Teardown(i)
  PROVE  PoolInv'
<1>0. /\ res \in [Res -> Reservations] /\ att \in [Attempts -> Records]
      /\ owner \in [Runs -> 0 .. MaxRes + 1] /\ i # Nil
  BY NilApart DEF PoolInv, VmsTyped, DisksTyped
<1>1. /\ res[i].st = "closing" /\ Uncaptured(i)
      /\ owner' = [r \in Runs |-> IF owner[r] # i THEN owner[r]
                                  ELSE IF cap[r].by = i THEN CaptureHolder ELSE Nil]
      /\ made' = IF res[i].env \in made /\ res[i].run = Nil THEN made \ {res[i].env} ELSE made
      /\ occupied' = occupied \ {res[i].slot}
      /\ res' = [res EXCEPT ![i] = NoRes]
      /\ preparing' = IF preparing = i THEN Nil ELSE preparing
      /\ att' = [a \in Attempts |-> IF att[a].res = i THEN [att[a] EXCEPT !.res = Nil] ELSE att[a]]
      /\ UNCHANGED <<pointer, label, plain, budget, retained, ready, adm, stopped, cap, halt>>
  BY Zenon DEF Teardown, Released
<1>2. /\ NoRes \in Reservations /\ Shaped(NoRes) /\ NoRes.st = "free" /\ NoRes.run = Nil
      /\ NoRes.env = Nil
  BY DEF NoRes, Reservations, ResStates, VmStates, Shaped
<1>3. /\ res' \in [Res -> Reservations]
      /\ \A j \in Res : res'[j] = IF j = i THEN NoRes ELSE res[j]
  BY <1>0, <1>1, <1>2
<1>4. \A a \in Attempts : att[a].res = i => att[a].st = "closing"
  <2> SUFFICES ASSUME NEW a \in Attempts, att[a].res = i PROVE att[a].st = "closing"
    OBVIOUS
  <2>1. att[a].st \in AttStates /\ att[a].st \notin Unattached /\ Serves(RunOf(a), att[a], res[i])
    BY <1>0, AttemptFields DEF PoolInv, Attached
  <2> QED  BY <1>1, <2>1 DEF Serves, AttStates, Unattached
<1>5. \A a \in Attempts :
        /\ att'[a] \in Records /\ att'[a].st = att[a].st /\ att'[a].cancelled = att[a].cancelled
        /\ att'[a].res = IF att[a].res = i THEN Nil ELSE att[a].res
        /\ att[a].res \in Res \cup {Nil}
  <2> SUFFICES ASSUME NEW a \in Attempts
               PROVE  /\ att'[a] \in Records /\ att'[a].st = att[a].st
                      /\ att'[a].cancelled = att[a].cancelled
                      /\ att'[a].res = IF att[a].res = i THEN Nil ELSE att[a].res
                      /\ att[a].res \in Res \cup {Nil}
    OBVIOUS
  <2>1. PICK p \in Records : p = att[a]
    BY <1>0
  <2>2. att'[a] = IF p.res = i THEN [p EXCEPT !.res = Nil] ELSE p
    BY <1>1, <2>1
  <2>3. p.res \in Res \cup {Nil}
    BY DEF Records
  <2>4. /\ [p EXCEPT !.res = Nil] \in Records /\ [p EXCEPT !.res = Nil].st = p.st
        /\ [p EXCEPT !.res = Nil].cancelled = p.cancelled /\ [p EXCEPT !.res = Nil].res = Nil
    BY DEF Records
  <2> QED  BY <2>1, <2>2, <2>3, <2>4
<1>6. att' \in [Attempts -> Records]
  BY <1>1, <1>5
<1>7. Shapes'
  BY <1>2, <1>3 DEF PoolInv, Shapes
<1>8. Attached'
  <2> SUFFICES ASSUME NEW a \in Attempts
               PROVE  /\ att'[a].st \in Unattached => att'[a].res = Nil
                      /\ att'[a].res = Nil => att'[a].st \in Unattached \cup {"closing"}
                      /\ att'[a].res # Nil => Serves(RunOf(a), att'[a], res'[att'[a].res])
    BY DEF Attached
  <2>1. CASE att[a].res = i
    BY <2>1, <1>4, <1>5 DEF Unattached
  <2>2. CASE att[a].res # i
    <3>1. att'[a] = att[a] /\ (att[a].res # Nil => res'[att[a].res] = res[att[a].res])
      BY <2>2, <1>1, <1>3, <1>5
    <3> QED  BY <3>1 DEF PoolInv, Attached
  <2> QED  BY <2>1, <2>2
<1>9. OwnReservation'
  BY <1>5 DEF PoolInv, OwnReservation
<1>10. Queued'
  <2>1. Queue(retained, "retained")' /\ Queue(ready, "ready")'
    BY <1>0, <1>1, QueueStays DEF PoolInv, Queued, Queue
  <2>2. preparing' # Nil => res'[preparing'].st \in {"preparing", "closing"}
    BY <1>1, <1>3 DEF PoolInv, VmsTyped, Queued
  <2> QED  BY <2>1, <2>2 DEF Queued
<1>11. AdmissionHeld'
  BY <1>1, <1>5 DEF PoolInv, AdmissionHeld
<1>12. SlotsAccounted'
  <2>1. \A j \in Res : Live(j)' <=> Live(j) /\ j # i
    BY <1>2, <1>3 DEF Live
  <2>2. Live(i)
    BY <1>1 DEF Live
  <2>3. /\ occupied = {res[j].slot : j \in {j \in Res : Live(j)}}
        /\ \A h, j \in Res : h # j /\ Live(h) /\ Live(j) => res[h].slot # res[j].slot
    BY DEF PoolInv, SlotsAccounted
  <2>4. \A j \in Res : Live(j)' => res'[j].slot \in occupied'
    BY <1>1, <1>3, <2>1, <2>2, <2>3
  <2>5. \A o \in occupied' : \E j \in Res : Live(j)' /\ res'[j].slot = o
    BY <1>1, <1>3, <2>1, <2>3
  <2>6. \A h, j \in Res : h # j /\ Live(h)' /\ Live(j)' => res'[h].slot # res'[j].slot
    BY <1>3, <2>1, <2>3
  <2> QED  BY <2>4, <2>5, <2>6 DEF SlotsAccounted, Live
<1>13. \A e \in made \ made' : \A r \in Runs : pointer[r] # e
  <2>1. \A e \in made : e # Nil
    BY NilApart DEF PoolInv, DisksTyped
  <2> QED  BY <1>1, <2>1 DEF PoolInv, SparesUnclaimed, Spare
<1>14. ClaimsSound'
  <2>1. \A r \in Runs : Assigning(r)' <=> Assigning(r)
    BY <1>5 DEF Assigning
  <2> QED  BY <1>1, <1>13, <2>1 DEF PoolInv, ClaimsSound
<1>15. ClaimsUnderWay'
  <2>1. \A a \in Attempts : att[a].st = "assigning" => att[a].res \in Res /\ att[a].res # i
    BY <1>4, AttemptFields DEF Unattached
  <2> QED  BY <1>1, <1>3, <1>5, <2>1 DEF PoolInv, ClaimsUnderWay
<1>16. SparesUnclaimed'
  <2>1. \A j \in Res : Spare(j)' => Spare(j) /\ j # i /\ res'[j].env = res[j].env
    BY <1>2, <1>3 DEF Spare
  <2>2. \A j \in Res : Spare(j) /\ j # i => res[j].env \in made'
    <3>1. \A j \in Res : Spare(j) => res[j].env \in made
      BY DEF PoolInv, SparesUnclaimed
    <3>2. CASE Spare(i)
      BY <1>1, <3>1, <3>2 DEF PoolInv, SparesUnclaimed
    <3>3. CASE ~Spare(i)
      <4>1. made' = made
        <5>1. res[i].run = Nil => res[i].env = Nil
          BY <3>3 DEF Spare
        <5>2. Nil \notin made
          BY NilApart DEF PoolInv, DisksTyped
        <5> QED  BY <1>1, <5>1, <5>2
      <4> QED  BY <3>1, <4>1
    <3> QED  BY <3>2, <3>3
  <2>3. \A j \in Res : Spare(j)' => label'[res'[j].env] = Nil
                                    /\ \A r \in Runs : pointer'[r] # res'[j].env
    BY <1>1, <2>1 DEF PoolInv, SparesUnclaimed
  <2>4. \A h, j \in Res : h # j /\ Spare(h)' /\ Spare(j)' => res'[h].env # res'[j].env
    BY <2>1 DEF PoolInv, SparesUnclaimed
  <2> QED  BY <2>1, <2>2, <2>3, <2>4 DEF SparesUnclaimed
<1>17. LocksHeld'
  <2>1. \A j \in Res : res[j].run # Nil => owner[res[j].run] = j /\ res[j].run \in Runs
    BY <1>0 DEF PoolInv, LocksHeld, Reservations
  <2> QED  BY <1>1, <1>2, <1>3, <2>1 DEF LocksHeld
<1>18. CapturesStillDisk'
  <2>1. \A r \in Runs : cap[r].by \in Res \cup {Nil}
    BY DEF PoolInv, VmsTyped, Captures
  <2>2. \A r \in Runs : cap[r].st = "sealing" => cap[r].by # i
    BY <1>1 DEF Uncaptured
  <2> QED  BY <1>1, <1>3, <2>1, <2>2 DEF PoolInv, CapturesStillDisk
<1>19. DisksTyped'
  BY <1>0, <1>1, NilApart DEF PoolInv, DisksTyped, CaptureHolder, Nil
<1>20. VmsTyped'
  BY <1>1, <1>3, <1>6 DEF PoolInv, VmsTyped
<1>21. StoppedNeverStarts'
  <2>1. NoneStarts
    BY <1>1, <1>5 DEF NoneStarts, Active
  <2> QED  BY <2>1, NoneStartsKeeps DEF PoolInv
<1> QED
  BY <1>7, <1>8, <1>9, <1>10, <1>11, <1>12, <1>14, <1>15, <1>16, <1>17, <1>18, <1>19, <1>20,
     <1>21 DEF PoolInv

----------------------------------------
(* Captures, writes and deletions.                                         *)

\* A step that leaves every VM, attempt and claim alone.
LEMMA CaptureStep ==
  ASSUME PoolInv, UNCHANGED <<pointer, label, made, poolVars, adm, att, halt>>,
         cap' \in [Runs -> Captures], DisksTyped', LocksHeld', CapturesStillDisk',
         stopped' \subseteq Attempts, StoppedNeverStarts'
  PROVE  PoolInv'
<1>1. /\ res' = res /\ retained' = retained /\ ready' = ready /\ preparing' = preparing
      /\ occupied' = occupied /\ budget' = budget
  BY DEF poolVars
<1>2. VmsTyped' /\ Shapes' /\ Attached' /\ OwnReservation' /\ Queued' /\ AdmissionHeld'
  BY <1>1 DEF PoolInv, VmsTyped, Shapes, Attached, OwnReservation, Queued, Queue, AdmissionHeld
<1>3. SlotsAccounted' /\ ClaimsSound' /\ ClaimsUnderWay' /\ SparesUnclaimed'
  BY <1>1 DEF PoolInv, SlotsAccounted, Live, ClaimsSound, Assigning, ClaimsUnderWay,
              SparesUnclaimed, Spare
<1> QED  BY <1>2, <1>3 DEF PoolInv

\* The guest writes: a capture under way is not of the last writes.
LEMMA WriteKeeps ==
  ASSUME PoolInv, NEW a \in Attempts, Write(a)
  PROVE  PoolInv'
<1>1. /\ cap' = [cap EXCEPT ![RunOf(a)].clean = FALSE] /\ stopped' = stopped
      /\ UNCHANGED <<diskVars, poolVars, adm, att, halt>>
  BY DEF Write
<1>2. cap \in [Runs -> Captures] /\ RunOf(a) \in Runs
  BY NilApart DEF PoolInv, VmsTyped
<1>3. PICK c \in Captures : c = cap[RunOf(a)]
  BY <1>2
<1>4. [c EXCEPT !.clean = FALSE] \in Captures /\ [c EXCEPT !.clean = FALSE].st = c.st
      /\ [c EXCEPT !.clean = FALSE].by = c.by
  BY DEF Captures
<1>5. cap' \in [Runs -> Captures] /\ \A r \in Runs : cap'[r].st = cap[r].st /\ cap'[r].by = cap[r].by
  BY <1>1, <1>2, <1>3, <1>4
<1>6. DisksTyped' /\ LocksHeld' /\ CapturesStillDisk'
  BY <1>1, <1>5 DEF PoolInv, DisksTyped, LocksHeld, CapturesStillDisk, diskVars, poolVars
<1>7. stopped' \subseteq Attempts /\ StoppedNeverStarts'
  BY <1>1 DEF PoolInv, VmsTyped, StoppedNeverStarts, Active
<1>8. UNCHANGED <<pointer, label, made, poolVars, adm, att, halt>>
  BY <1>1 DEF diskVars
<1> QED  BY <1>5, <1>6, <1>7, <1>8, CaptureStep

\* The capture of a disk begins, is sealed and is published.
LEMMA CaptureKeeps ==
  ASSUME PoolInv, NEW r \in Runs, Capture(r)
  PROVE  PoolInv'
<1>0. /\ cap \in [Runs -> Captures] /\ owner \in [Runs -> 0 .. MaxRes + 1]
      /\ Nil \notin Res /\ MaxRes \in Nat
  BY NilApart DEF PoolInv, VmsTyped, DisksTyped
<1>1. UNCHANGED <<pointer, label, made, plain, poolVars, adm, att, stopped, halt>>
  BY DEF Capture, CaptureRetained, CaptureStopped, Seal, Published, diskVars
<1>2. PICK c \in Captures : c = cap[r]
  BY <1>0
<1>3. \A j \in Res : res[j].run # Nil => owner[res[j].run] = j /\ res[j].run \in Runs
  BY DEF PoolInv, LocksHeld, VmsTyped, Reservations
<1>4. /\ cap' \in [Runs -> Captures] /\ owner' \in [Runs -> 0 .. MaxRes + 1]
      /\ \A z \in Runs : cap'[z].st = "sealing" /\ cap'[z].by # Nil =>
            \/ cap'[z] = cap[z]
            \/ z = r /\ cap'[z].by \in RetainedOf(r)
      /\ \A z \in Runs : owner[z] \in Res => owner'[z] = owner[z]
  <2>1. CASE CaptureRetained(r)
    <3>1. PICK i \in RetainedOf(r) : cap' = [cap EXCEPT ![r] = [NoCap EXCEPT !.st = "sealing", !.by = i]]
      BY <2>1 DEF CaptureRetained
    <3> DEFINE d == [NoCap EXCEPT !.st = "sealing", !.by = i]
    <3>2. d \in Captures /\ d.by = i
      BY DEF RetainedOf, NoCap, Captures
    <3>3. cap' = [cap EXCEPT ![r] = d]
      BY <3>1
    <3> HIDE DEF d
    <3>4. owner' = owner
      BY <2>1 DEF CaptureRetained, diskVars
    <3> QED  BY <1>0, <3>2, <3>3, <3>4
  <2>2. CASE CaptureStopped(r)
    <3> DEFINE d == [NoCap EXCEPT !.st = "sealing"]
    <3>1. owner[r] = Nil /\ owner' = [owner EXCEPT ![r] = CaptureHolder]
          /\ cap' = [cap EXCEPT ![r] = d]
      BY <2>2 DEF CaptureStopped
    <3>2. d \in Captures /\ d.by = Nil
      BY DEF NoCap, Captures
    <3> HIDE DEF d
    <3>3. CaptureHolder \in 0 .. MaxRes + 1
      BY <1>0 DEF CaptureHolder
    <3> QED  BY <1>0, <3>1, <3>2, <3>3
  <2>3. CASE Seal(r)
    <3>1. [c EXCEPT !.st = "hashing", !.clean = TRUE] \in Captures
          /\ [c EXCEPT !.st = "hashing", !.clean = TRUE].st = "hashing"
      BY DEF Captures
    <3>2. cap' = [cap EXCEPT ![r] = [c EXCEPT !.st = "hashing", !.clean = TRUE]] /\ owner' = owner
      BY <1>0, <1>2, <2>3 DEF Seal, diskVars
    <3> QED  BY <1>0, <3>1, <3>2
  <2>4. CASE Published(r)
    <3>1. NoCap \in Captures /\ NoCap.st = "none"
      BY DEF NoCap, Captures
    <3>2. /\ cap' = [cap EXCEPT ![r] = NoCap]
          /\ owner' = IF owner[r] = CaptureHolder THEN [owner EXCEPT ![r] = Nil] ELSE owner
      BY <2>4 DEF Published
    <3>3. CaptureHolder \notin Res /\ Nil \in 0 .. MaxRes + 1
      BY <1>0 DEF CaptureHolder, Res, Nil
    <3> QED  BY <1>0, <3>1, <3>2, <3>3
  <2> QED  BY <2>1, <2>2, <2>3, <2>4 DEF Capture
<1>5. DisksTyped' /\ LocksHeld'
  <2>1. res' = res
    BY <1>1 DEF poolVars
  <2> QED  BY <1>1, <1>3, <1>4, <2>1 DEF PoolInv, DisksTyped, LocksHeld
<1>6. CapturesStillDisk'
  <2>1. res' = res
    BY <1>1 DEF poolVars
  <2>2. \A i \in RetainedOf(r) : res[i].run = r /\ res[i].vm \in {"paused", "dead"}
    BY DEF PoolInv, Shapes, Shaped, RetainedOf
  <2> QED  BY <1>4, <2>1, <2>2 DEF PoolInv, CapturesStillDisk
<1>7. stopped' \subseteq Attempts /\ StoppedNeverStarts'
  BY <1>1 DEF PoolInv, VmsTyped, StoppedNeverStarts, Active
<1> QED  BY <1>1, <1>4, <1>5, <1>6, <1>7, CaptureStep

\* A disk that nobody holds is deleted, and its attempts are fenced.
LEMMA DeleteDiskKeeps ==
  ASSUME PoolInv, NEW r \in Runs, DeleteDisk(r)
  PROVE  PoolInv'
<1>1. /\ plain' = plain \ {r} /\ ~RunActive(r)
      /\ stopped' = stopped \cup {a \in Attempts : RunOf(a) = r /\ att[a].st # "new"}
      /\ UNCHANGED <<pointer, label, made, owner, poolVars, adm, att, cap, halt>>
  BY DEF DeleteDisk
<1>2. DisksTyped' /\ LocksHeld' /\ CapturesStillDisk'
  BY <1>1 DEF PoolInv, DisksTyped, LocksHeld, CapturesStillDisk, poolVars
<1>3. StoppedNeverStarts'
  BY <1>1 DEF PoolInv, StoppedNeverStarts, Active, RunActive
<1>4. cap' \in [Runs -> Captures] /\ stopped' \subseteq Attempts
  BY <1>1 DEF PoolInv, VmsTyped
<1> QED  BY <1>1, <1>2, <1>3, <1>4, CaptureStep

----------------------------------------
(* The restart of the controller.                                          *)

\* The restart finds the claims as they were, completed: a pointer is never
\* changed, a label follows its pointer, and what no record claims is gone.
LEMMA RecoveredClaims ==
  ASSUME PoolInv, Recover
  PROVE  /\ pointer' = pointer
         /\ \A e \in Envs : \/ label'[e] \in Runs /\ pointer[label'[e]] = e
                            \/ label'[e] = Nil /\ \A r \in Runs : pointer[r] # e
         /\ \A r \in Runs : pointer[r] # Nil => pointer[r] \in made'
         /\ DisksTyped' /\ owner' = [r \in Runs |-> Nil]
<1>1. /\ made' = {e \in made : Claimed(e)} /\ owner' = [r \in Runs |-> Nil] /\ plain' = plain
      /\ label' = [e \in Envs |->
           IF \E r \in Runs : pointer[r] = e THEN CHOOSE r \in Runs : pointer[r] = e
           ELSE label[e]]
      /\ pointer' = [r \in Runs |->
           IF pointer[r] = Nil /\ \E e \in Envs : label[e] = r
           THEN CHOOSE e \in Envs : label[e] = r ELSE pointer[r]]
  BY DEF Recover
<1>2. /\ pointer \in [Runs -> Envs \cup {Nil}] /\ label \in [Envs -> Runs \cup {Nil}]
      /\ made \subseteq Envs /\ plain \subseteq Runs /\ Nil \notin Runs /\ Nil \notin Envs
      /\ MaxRes \in Nat
  BY NilApart DEF PoolInv, DisksTyped
<1>3. \A r \in Runs : ~(pointer[r] = Nil /\ \E e \in Envs : label[e] = r)
  BY <1>2 DEF PoolInv, ClaimsSound
<1>4. pointer' = pointer
  <2>1. \A r \in Runs : pointer'[r] = pointer[r]
    BY <1>1, <1>3
  <2> QED  BY <1>1, <1>2, <2>1
<1>5. ASSUME NEW e \in Envs
      PROVE  \/ label'[e] \in Runs /\ pointer[label'[e]] = e
             \/ label'[e] = Nil /\ \A r \in Runs : pointer[r] # e
  <2>1. CASE \E r \in Runs : pointer[r] = e
    <3>1. label'[e] = CHOOSE r \in Runs : pointer[r] = e
      BY <1>1, <2>1
    <3> QED  BY <2>1, <3>1
  <2>2. CASE ~\E r \in Runs : pointer[r] = e
    <3>1. label'[e] = label[e]
      BY <1>1, <2>2
    <3>2. label[e] # Nil => pointer[label[e]] = e /\ label[e] \in Runs
      BY <1>2 DEF PoolInv, ClaimsSound
    <3> QED  BY <2>2, <3>1, <3>2
  <2> QED  BY <2>1, <2>2
<1>6. \A r \in Runs : pointer[r] # Nil => pointer[r] \in made'
  BY <1>1 DEF PoolInv, ClaimsSound, Claimed
<1>7. DisksTyped'
  <2>1. label' \in [Envs -> Runs \cup {Nil}]
    BY <1>1, <1>5
  <2>2. owner' \in [Runs -> 0 .. MaxRes + 1]
    BY <1>1, <1>2 DEF Nil
  <2> QED  BY <1>1, <1>2, <1>4, <2>1, <2>2 DEF DisksTyped
<1> QED  BY <1>1, <1>4, <1>5, <1>6, <1>7

\* A restart of the runner forgets reservations and captures, never an attempt.
LEMMA RestartKeeps ==
  ASSUME PoolInv, Restart
  PROVE  PoolInv'
<1>1. /\ occupied' = {} /\ res' = [i \in Res |-> NoRes] /\ retained' = <<>> /\ ready' = <<>>
      /\ preparing' = Nil /\ adm' = NoAdm /\ cap' = [r \in Runs |-> NoCap] /\ halt' = FALSE
      /\ att' = [a \in Attempts |-> IF Active(a) THEN [NewAttempt EXCEPT !.st = "exited"]
                                    ELSE IF att[a].st \in {"reserving", "granted"}
                                    THEN NewAttempt ELSE att[a]]
      /\ budget' = budget /\ stopped' = stopped /\ Recover
  BY DEF Restart
<1>2. /\ pointer' = pointer
      /\ \A e \in Envs : \/ label'[e] \in Runs /\ pointer[label'[e]] = e
                         \/ label'[e] = Nil /\ \A r \in Runs : pointer[r] # e
      /\ \A r \in Runs : pointer[r] # Nil => pointer[r] \in made'
      /\ DisksTyped' /\ owner' = [r \in Runs |-> Nil]
  BY <1>1, RecoveredClaims
<1>3. /\ NoRes \in Reservations /\ Shaped(NoRes) /\ NoRes.st = "free" /\ NoRes.run = Nil
  BY DEF NoRes, Reservations, ResStates, VmStates, Shaped
<1>4. \A a \in Attempts : att'[a] \in Records /\ att'[a].st \in {"new", "exited"} /\ att'[a].res = Nil
  <2> SUFFICES ASSUME NEW a \in Attempts
               PROVE  att'[a] \in Records /\ att'[a].st \in {"new", "exited"} /\ att'[a].res = Nil
    OBVIOUS
  <2>1. att[a] \in Records /\ (att[a].st \in Unattached => att[a].res = Nil)
    BY AttemptFields
  <2>2. att'[a] = IF Active(a) THEN [NewAttempt EXCEPT !.st = "exited"]
                  ELSE IF att[a].st \in {"reserving", "granted"} THEN NewAttempt ELSE att[a]
    BY <1>1
  <2>3. /\ NewAttempt \in Records /\ [NewAttempt EXCEPT !.st = "exited"] \in Records
        /\ NewAttempt.st = "new" /\ NewAttempt.res = Nil
        /\ [NewAttempt EXCEPT !.st = "exited"].st = "exited"
        /\ [NewAttempt EXCEPT !.st = "exited"].res = Nil
    BY <2>1, AttemptRecords
  <2> QED  BY <2>1, <2>2, <2>3 DEF Active, Unattached
<1>5. VmsTyped'
  <2>1. NoCap \in Captures
    BY DEF NoCap, Captures
  <2>2. att' \in [Attempts -> Records]
    BY <1>1, <1>4
  <2> QED  BY <1>1, <1>3, <2>1, <2>2 DEF PoolInv, VmsTyped
<1>6. Shapes' /\ Attached' /\ OwnReservation'
  BY <1>1, <1>3, <1>4 DEF Shapes, Attached, OwnReservation, Unattached
<1>7. Queued' /\ AdmissionHeld'
  BY <1>1 DEF Queued, Queue, AdmissionHeld, NoAdm
<1>8. SlotsAccounted'
  BY <1>1, <1>3 DEF SlotsAccounted, Live
<1>9. ClaimsSound'
  <2>1. \A e \in Envs \cup {Nil} : \A r \in Runs : pointer[r] \in Envs \cup {Nil}
    BY DEF PoolInv, DisksTyped
  <2>2. \A r \in Runs : pointer[r] # Nil => label'[pointer[r]] = r
    <3>1. \A r, q \in Runs : r # q /\ pointer[r] # Nil => pointer[q] # pointer[r]
      BY DEF PoolInv, ClaimsSound
    <3> QED  BY <1>2, <2>1, <3>1
  <2> QED  BY <1>2, <2>2, NilApart DEF PoolInv, ClaimsSound
<1>10. ClaimsUnderWay'
  BY <1>4 DEF ClaimsUnderWay
<1>11. SparesUnclaimed' /\ LocksHeld' /\ CapturesStillDisk'
  <2>1. /\ \A i \in Res : res'[i].run = Nil /\ res'[i].env = Nil
        /\ \A r \in Runs : cap'[r].st = "none"
    BY <1>1 DEF NoRes, NoCap
  <2> QED  BY <2>1 DEF SparesUnclaimed, Spare, LocksHeld, CapturesStillDisk
<1>12. StoppedNeverStarts'
  BY <1>4 DEF StoppedNeverStarts, Active
<1> QED
  BY <1>2, <1>5, <1>6, <1>7, <1>8, <1>9, <1>10, <1>11, <1>12 DEF PoolInv

----------------------------------------
(* The invariant.                                                          *)

\* An empty node satisfies it.
LEMMA InitPool ==
  ASSUME Init
  PROVE  PoolInv
<1>1. /\ pointer = [r \in Runs |-> Nil] /\ label = [e \in Envs |-> Nil] /\ made = {} /\ plain = {}
      /\ owner = [r \in Runs |-> Nil] /\ budget \in Budgets /\ occupied = {}
      /\ res = [i \in Res |-> NoRes] /\ retained = <<>> /\ ready = <<>> /\ preparing = Nil
      /\ adm = NoAdm /\ att = [a \in Attempts |-> NewAttempt] /\ stopped = {}
      /\ cap = [r \in Runs |-> NoCap] /\ halt = FALSE
  BY DEF Init, DisksInit
<1>2. /\ NoRes \in Reservations /\ Shaped(NoRes) /\ NoRes.st = "free" /\ NoRes.run = Nil
      /\ NoRes.env = Nil
  BY DEF NoRes, Reservations, ResStates, VmStates, Shaped
<1>3. NewAttempt \in Records /\ NewAttempt.st = "new" /\ NewAttempt.res = Nil
  BY DEF NewAttempt, Records, AttStates
<1>4. NoCap \in Captures /\ NoCap.st = "none"
  BY DEF NoCap, Captures
<1>5. DisksTyped
  BY <1>1, NilApart DEF DisksTyped, Nil
<1>6. VmsTyped
  BY <1>1, <1>2, <1>3, <1>4 DEF VmsTyped
<1>7. Shapes /\ Attached /\ OwnReservation
  BY <1>1, <1>2, <1>3 DEF Shapes, Attached, OwnReservation, Unattached
<1>8. Queued /\ AdmissionHeld
  BY <1>1 DEF Queued, Queue, AdmissionHeld, NoAdm
<1>9. SlotsAccounted
  BY <1>1, <1>2 DEF SlotsAccounted, Live
<1>10. ClaimsSound /\ ClaimsUnderWay
  BY <1>1, <1>3 DEF ClaimsSound, ClaimsUnderWay
<1>11. SparesUnclaimed /\ LocksHeld /\ CapturesStillDisk
  BY <1>1, <1>2, <1>4 DEF SparesUnclaimed, Spare, LocksHeld, CapturesStillDisk
<1>12. StoppedNeverStarts
  BY <1>1, <1>3 DEF StoppedNeverStarts, Active
<1> QED
  BY <1>5, <1>6, <1>7, <1>8, <1>9, <1>10, <1>11, <1>12 DEF PoolInv

\* Every step keeps it.
LEMMA NextPool ==
  ASSUME PoolInv, [Next]_vars
  PROVE  PoolInv'
<1>1. CASE Admission
  BY <1>1, RetireNextKeeps, EndMaintenanceKeeps, RetainEvictKeeps, RetainInsertKeeps,
     MakeRoomKeeps, ReserveSlotKeeps, TakeSpareKeeps, TakeOwnKeeps DEF Admission
<1>2. CASE Maintenance
  BY <1>2, MaintainRetainedKeeps, DrainKeeps, MaintainReadyKeeps, PrepareKeeps, RetireIdleKeeps
     DEF Maintenance
<1>3. CASE Outside
  BY <1>3, StartKeeps, StopKeeps, RetireIdleKeeps, EvictKeeps, DeleteDiskKeeps, VmExitsKeeps,
     HaltKeeps, RestartKeeps DEF Outside
<1>4. CASE \E i \in Res : Teardown(i)
  BY <1>4, TeardownKeeps
<1>5. CASE \E a \in Attempts : Admit(a) \/ Execution(a) \/ Guest(a)
  <2> SUFFICES ASSUME NEW a \in Attempts, Admit(a) \/ Execution(a) \/ Guest(a)
               PROVE  PoolInv'
    BY <1>5
  <2>1. CASE Admit(a)
    BY <2>1, AdmitKeeps
  <2>2. CASE Execution(a)
    BY <2>2, RegisterKeeps, EndingsKeep, ResumeIdleKeeps, ClaimSpareKeeps, RecordClaimKeeps,
       DropSpareKeeps, TakeOwnershipKeeps, BootKeeps, SuspendKeeps, RetainAdmitKeeps,
       RecordExitKeeps, StartDroppedKeeps DEF Execution
  <2>3. CASE Guest(a)
    BY <2>3, WriteKeeps, EndingsKeep, SuccessKeeps, UnsealedKeeps DEF Guest
  <2> QED  BY <2>1, <2>2, <2>3
<1>6. CASE \E r \in Runs : Capture(r)
  BY <1>6, CaptureKeeps
<1>7. CASE vars' = vars
  <2>1. UNCHANGED <<diskVars, poolVars, adm, att, stopped, cap, halt>>
    BY <1>7 DEF vars
  <2>2. UNCHANGED <<pointer, label, made, owner, plain>>
    BY <2>1 DEF diskVars
  <2>3. DisksTyped' /\ LocksHeld' /\ CapturesStillDisk' /\ StoppedNeverStarts'
    BY <2>1, <2>2 DEF PoolInv, DisksTyped, LocksHeld, CapturesStillDisk, StoppedNeverStarts,
                      Active, poolVars
  <2>4. cap' \in [Runs -> Captures] /\ stopped' \subseteq Attempts
    BY <2>1 DEF PoolInv, VmsTyped
  <2> QED  BY <2>1, <2>2, <2>3, <2>4, CaptureStep
<1> QED
  BY <1>1, <1>2, <1>3, <1>4, <1>5, <1>6, <1>7, Zenon DEF Next

\* The invariant holds of every behaviour of the pool.
LEMMA PoolAlways == Spec => []PoolInv
<1>1. Init => PoolInv
  BY InitPool
<1>2. PoolInv /\ [Next]_vars => PoolInv'
  BY NextPool
<1> QED  BY <1>1, <1>2, PTL DEF Spec

----------------------------------------
(* What follows for every node.                                            *)

\* The slots of the budget that are marked as occupied are those of the
\* reservations that exist, one each, through refusals, preemption, failed
\* boots, evictions and restarts (pool.rs, Slots::reserve; host.rs, finish).
THEOREM EverySlotAccounted == Spec => []SlotsAccounted
<1>1. PoolInv => SlotsAccounted
  BY DEF PoolInv
<1> QED  BY <1>1, PoolAlways, PTL

\* The disk of a conversation is in one VM at a time, and a capture reads it
\* only while that VM stands still (environment.rs, the ownership lock;
\* pool/retained.rs).
THEOREM OneVmForEachDisk == Spec => []DiskExclusive
<1>1. PoolInv => DiskExclusive
  BY DEF PoolInv, LocksHeld, DiskExclusive, DiskHasOneVm
<1> QED  BY <1>1, PoolAlways, PTL

\* An attempt told to stop starts no VM, two attempts are never active in one
\* workspace, and a claimed directory keeps its conversation, wherever the
\* claim was interrupted (runner/broker.rs, start; environment.rs, assign).
THEOREM StopsAndClaimsFinal == Spec => []StopsAndClaimsHold
<1>1. ASSUME PoolInv PROVE StopsAndClaimsHold
  <2>1. \A r \in Runs : Assigning(r) => RunActive(r)
    BY DEF Assigning, RunActive, Active
  <2>2. ClaimsPermanent
    <3>1. /\ \A r \in Runs : pointer[r] # Nil => pointer[r] \in made
          /\ \A r, q \in Runs : r # q /\ pointer[r] # Nil => pointer[q] # pointer[r]
      BY <1>1 DEF PoolInv, ClaimsSound
    <3>2. ASSUME NEW r \in Runs, pointer[r] # Nil, ~RunActive(r) PROVE Resolves(r)
      <4>1. ~Assigning(r)
        BY <2>1, <3>2
      <4>2. label[pointer[r]] = r \/ (label[pointer[r]] = Nil /\ Assigning(r))
        BY <1>1, <3>2 DEF PoolInv, ClaimsSound
      <4> QED  BY <4>1, <4>2 DEF Resolves
    <3> QED  BY <3>1, <3>2 DEF ClaimsPermanent
  <2> QED  BY <1>1, <2>2 DEF PoolInv, StopsAndClaimsHold
<1> QED  BY <1>1, PoolAlways, PTL

----------------------------------------
(* Retained VMs with unpublished writes.                                   *)

\* What a step may do to a retained VM whose disk holds unpublished writes.
Kept ==
  \A i \in Res : res[i].st = "retained" /\ Pending(i) /\ res'[i].st # "retained" =>
     \/ OwnStart(i) /\ adm' = NoAdm
     \/ res[i].vm = "dead" \/ halt
     \/ res' = [j \in Res |-> NoRes]

\* A step of another reservation.
LEMMA OthersKept ==
  ASSUME PoolInv, NEW i \in Res, res[i].st # "retained" \/ ~Pending(i), NEW y,
         res' = [res EXCEPT ![i] = y]
  PROVE  Kept
<1>1. \A j \in Res : j # i => res'[j] = res[j]
  BY DEF PoolInv, VmsTyped
<1> QED  BY <1>1 DEF Kept

\* The reservation of an attempt is not retained.
LEMMA OwnKept ==
  ASSUME PoolInv, NEW a \in Attempts, att[a].st \notin Unattached \cup {"closing"}, NEW y,
         res' = [res EXCEPT ![att[a].res] = y]
  PROVE  Kept
<1>1. att[a].res \in Res /\ Serves(RunOf(a), att[a], res[att[a].res]) /\ att[a].st \in AttStates
  BY AttemptFields
<1>2. res[att[a].res].st # "retained"
  BY <1>1 DEF Serves, AttStates, Unattached
<1>3. PICK i \in Res : i = att[a].res
  BY <1>1
<1> QED  BY <1>2, <1>3, OthersKept

\* A step that leaves the reservations alone keeps them.
LEMMA UnchangedKept ==
  ASSUME res' = res
  PROVE  Kept
BY DEF Kept

\* The steps of an attempt.
LEMMA ExecutionKept ==
  ASSUME PoolInv, NEW a \in Attempts, Execution(a) \/ Guest(a)
  PROVE  Kept
<1>1. CASE res' = res
  BY <1>1, UnchangedKept
<1>2. CASE res' # res
  <2>1. att[a].st \notin Unattached \cup {"closing"}
    BY <1>2, ZenonT(30) DEF Execution, Guest, Register, ExecuteStopped, ResumeIdle, ClaimSpare, RecordClaim,
       DropSpare, TakeOwnership, DiskInUse, Boot, Suspend, NotRetained, RetainAdmit, RecordExit,
       StartDropped, Unsealed, Write, BootFails, GuestLost, GuestExits, poolVars, Unattached
  <2>2. \E y : res' = [res EXCEPT ![att[a].res] = y]
    <3>1. res \in [Res -> Reservations]
      BY DEF PoolInv, VmsTyped
    <3>2. CASE End(a) \/ Register(a) \/ StartDropped(a) \/ Unsealed(a)
      <4>1. res' = Closing(att[a].res)
        BY <1>2, <3>2, Zenon DEF End, Register, StartDropped, Unsealed
      <4> QED  BY <4>1, <3>1 DEF Closing
    <3>3. CASE ~(End(a) \/ Register(a) \/ StartDropped(a) \/ Unsealed(a))
      BY <1>2, <3>3, ZenonT(30) DEF Execution, Guest, ExecuteStopped, ResumeIdle, ClaimSpare,
         RecordClaim, DropSpare, TakeOwnership, DiskInUse, Boot, Suspend, NotRetained,
         RetainAdmit, RecordExit, Write, BootFails, GuestLost, GuestExits, poolVars
    <3> QED  BY <3>2, <3>3
  <2> QED  BY <2>1, <2>2, OwnKept, Zenon
<1> QED  BY <1>1, <1>2

\* A preemption changes no state.
LEMMA PreemptedKept ==
  ASSUME PoolInv, res' = Preempted
  PROVE  Kept
<1>1. CASE preparing = Nil
  BY <1>1, UnchangedKept DEF Preempted
<1>2. CASE preparing # Nil
  <2>1. preparing \in Res /\ res[preparing].st # "retained"
    BY <1>2 DEF PoolInv, VmsTyped, Queued
  <2>2. res' = [res EXCEPT ![preparing] = [res[preparing] EXCEPT !.doomed = TRUE]]
    BY <1>2, <2>1 DEF Preempted, PoolInv, VmsTyped
  <2> QED  BY <2>1, <2>2, OthersKept
<1> QED  BY <1>1, <1>2

\* Whom the holder of the admission lock retires.
LEMMA RetiredKept ==
  ASSUME PoolInv, NEW i \in Res, res[i].st # "retained" \/ ~Pending(i), res' = Closing(i)
  PROVE  Kept
<1>1. res' = [res EXCEPT ![i] = [res[i] EXCEPT !.st = "closing", !.doomed = TRUE]]
  BY DEF Closing, PoolInv, VmsTyped
<1> QED  BY <1>1, OthersKept

\* What the queues offer for eviction or adoption are reservations that qualify.
LEMMA UnpendingMembers ==
  ASSUME PoolInv
  PROVE  /\ Unpending # {} => Oldest(Unpending) \in Res /\ ~Pending(Oldest(Unpending))
         /\ Exited # {} => Oldest(Exited) \in Res /\ res[Oldest(Exited)].vm = "dead"
         /\ ready # <<>> => Head(ready) \in Res /\ res[Head(ready)].st # "retained"
<1>1. Unpending \in SUBSET DOMAIN retained /\ Exited \in SUBSET DOMAIN retained
  BY DEF Unpending, Exited
<1>2. Unpending # {} => Oldest(Unpending) \in Res /\ \E n \in Unpending : Oldest(Unpending) = retained[n]
  BY <1>1, QueueMembers
<1>3. Exited # {} => Oldest(Exited) \in Res /\ \E n \in Exited : Oldest(Exited) = retained[n]
  BY <1>1, QueueMembers
<1>4. ready # <<>> => Head(ready) \in Res /\ res[Head(ready)].st # "retained"
  BY QueueMembers
<1>5. Unpending # {} => ~Pending(Oldest(Unpending))
  BY <1>2 DEF Unpending
<1>6. Exited # {} => res[Oldest(Exited)].vm = "dead"
  BY <1>3 DEF Exited
<1> QED  BY <1>2, <1>3, <1>4, <1>5, <1>6

\* The steps of the holder of the admission lock.
LEMMA AdmissionKept ==
  ASSUME PoolInv, Admission
  PROVE  Kept
<1>1. CASE \E pc : Unpending # {} /\ Retire(Oldest(Unpending), pc)
  BY <1>1, UnpendingMembers, RetiredKept DEF Retire
<1>2. CASE \E pc : ready # <<>> /\ Retire(Head(ready), pc)
  BY <1>2, UnpendingMembers, RetiredKept DEF Retire
<1>3. CASE res' = res
  BY <1>3, UnchangedKept
<1>4. CASE \E p : ReserveSlot(p)
  <2>1. PICK p : ReserveSlot(p)
    BY <1>4
  <2>2. res' = res \/ (Available /\ res' = [res EXCEPT ![FreeRes] = [NoRes EXCEPT !.st = "granted",
                                                                       !.slot = FreeSlot]])
    BY <2>1, Zenon DEF ReserveSlot
  <2>3. Available => FreeRes \in Res /\ res[FreeRes].st = "free"
    BY FreeCapacity
  <2> QED  BY <2>2, <2>3, UnchangedKept, OthersKept
<1>5. CASE \E e, p, cut : TakeSpare(e, p, cut)
  <2>1. PICK e, p, cut : TakeSpare(e, p, cut)
    BY <1>5
  <2>2. \/ res' = res
        \/ ready # <<>> /\ Retire(Head(ready), "room2")
        \/ ready # <<>> /\ res' = Closing(Head(ready))
        \/ ready # <<>> /\ res' = [res EXCEPT ![Head(ready)].st = "granted"]
    BY <2>1, Zenon DEF TakeSpare
  <2>3. CASE ready # <<>> /\ res' = [res EXCEPT ![Head(ready)].st = "granted"]
    <3>1. Head(ready) \in Res /\ res[Head(ready)].st # "retained"
      BY <2>3, UnpendingMembers
    <3>2. res' = [res EXCEPT ![Head(ready)] = [res[Head(ready)] EXCEPT !.st = "granted"]]
      BY <2>3, <3>1 DEF PoolInv, VmsTyped
    <3> QED  BY <3>1, <3>2, OthersKept
  <2>4. CASE ready # <<>> /\ res' = Closing(Head(ready))
    BY <2>4, UnpendingMembers, RetiredKept
  <2> QED  BY <1>2, <1>3, <2>2, <2>3, <2>4
<1>6. CASE \E c, cut : TakeOwn(c, cut)
  <2>1. PICK c, cut : TakeOwn(c, cut)
    BY <1>6
  <2>2. RetainedOf(RunOf(adm.who)) # {} =>
           (CHOOSE j \in RetainedOf(RunOf(adm.who)) : TRUE) \in RetainedOf(RunOf(adm.who))
    BY Zenon
  <2>3. \/ res' = res
        \/ \E i \in RetainedOf(RunOf(adm.who)) :
              /\ \E y : res' = [res EXCEPT ![i] = y]
              /\ adm' = NoAdm
        \/ \E i \in Res : ~Pending(i) /\ Retire(i, "spare")
    <3>1. \/ res' = res
          \/ \E i \in RetainedOf(RunOf(adm.who)) :
                /\ \/ res' = [res EXCEPT ![i].st = "granted", ![i].resumed = TRUE]
                   \/ res' = Closing(i)
                /\ adm' = NoAdm
          \/ \E i \in RetainedOf(RunOf(adm.who)) : ~Pending(i) /\ Retire(i, "spare")
      BY <2>1, <2>2, Zenon DEF TakeOwn, Grant, Refuse
    <3>2. ASSUME NEW i \in RetainedOf(RunOf(adm.who)),
                 \/ res' = [res EXCEPT ![i].st = "granted", ![i].resumed = TRUE]
                 \/ res' = Closing(i)
          PROVE  \E y : res' = [res EXCEPT ![i] = y]
      <4>1. i \in Res /\ res \in [Res -> Reservations]
        BY DEF PoolInv, VmsTyped, RetainedOf
      <4>2. CASE res' = [res EXCEPT ![i].st = "granted", ![i].resumed = TRUE]
        <5>1. res' = [res EXCEPT ![i] = [res[i] EXCEPT !.st = "granted", !.resumed = TRUE]]
          BY <4>1, <4>2
        <5> QED  BY <5>1
      <4>3. CASE res' = Closing(i)
        <5>1. res' = [res EXCEPT ![i] = [res[i] EXCEPT !.st = "closing", !.doomed = TRUE]]
          BY <4>1, <4>3 DEF Closing
        <5> QED  BY <5>1
      <4> QED  BY <3>2, <4>2, <4>3
    <3>3. RetainedOf(RunOf(adm.who)) \subseteq Res
      BY DEF RetainedOf
    <3> QED  BY <3>1, <3>2, <3>3
  <2>4. CASE \E i \in RetainedOf(RunOf(adm.who)) : (\E y : res' = [res EXCEPT ![i] = y])
                                                   /\ adm' = NoAdm
    <3>1. PICK i \in RetainedOf(RunOf(adm.who)) : (\E y : res' = [res EXCEPT ![i] = y])
                                                  /\ adm' = NoAdm
      BY <2>4
    <3>2. i \in Res /\ res[i].run = RunOf(adm.who) /\ res \in [Res -> Reservations]
      BY DEF PoolInv, VmsTyped, RetainedOf
    <3>3. \A j \in Res : j # i => res'[j] = res[j]
      BY <3>1, <3>2
    <3>4. OwnStart(i)
      BY <2>1, <3>2 DEF OwnStart, TakeOwn, Working
    <3> QED  BY <3>1, <3>3, <3>4 DEF Kept
  <2>5. CASE \E i \in Res : ~Pending(i) /\ Retire(i, "spare")
    BY <2>5, RetiredKept DEF Retire
  <2> QED  BY <2>3, <2>4, <2>5, UnchangedKept
<1>7. CASE RetainInsert
  <2>1. PICK a \in Attempts : a = adm.who /\ att[a].st = "retaining"
    BY <1>7 DEF RetainInsert, Working, PoolInv, AdmissionHeld
  <2>2. att[a].st \notin Unattached \cup {"closing"} /\ res \in [Res -> Reservations]
    BY <2>1 DEF Unattached, PoolInv, VmsTyped
  <2>3. \E y : res' = [res EXCEPT ![att[a].res] = y]
    BY <1>7, <2>1, <2>2, Zenon DEF RetainInsert, End, Closing
  <2> QED  BY <2>2, <2>3, OwnKept
<1> QED
  BY <1>1, <1>2, <1>3, <1>4, <1>5, <1>6, <1>7
     DEF Admission, RetireNext, EndMaintenance, RetainEvict, MakeRoom, Go, poolVars

\* The steps of the monitor, of the shutdown and of preparations.
LEMMA MaintenanceKept ==
  ASSUME PoolInv, Maintenance
  PROVE  Kept
<1>1. CASE MaintainRetained
  <2>1. \/ Exited # {} /\ res' = Closing(Oldest(Exited))
        \/ Unpending # {} /\ res' = Closing(Oldest(Unpending))
    BY <1>1 DEF MaintainRetained
  <2>2. CASE Exited # {} /\ res' = Closing(Oldest(Exited))
    <3>1. PICK i \in Res : i = Oldest(Exited) /\ res[i].vm = "dead"
      BY <2>2, UnpendingMembers
    <3>2. \A j \in Res : j # i => res'[j] = res[j]
      BY <2>2, <3>1 DEF Closing, PoolInv, VmsTyped
    <3> QED  BY <3>1, <3>2 DEF Kept
  <2> QED  BY <2>1, <2>2, UnpendingMembers, RetiredKept
<1>2. CASE Drain
  BY <1>2 DEF Drain, Kept
<1>3. CASE \E e \in Envs : MaintainReady(e)
  <2>1. PICK e \in Envs : MaintainReady(e)
    BY <1>3
  <2>2. FreeRes \in Res /\ res[FreeRes].st = "free"
    BY <2>1, FreeCapacity DEF MaintainReady
  <2> QED  BY <2>1, <2>2, OthersKept DEF MaintainReady
<1>4. CASE \E i \in Res, good \in BOOLEAN : Prepare(i, good)
  <2>1. PICK i \in Res, good \in BOOLEAN : Prepare(i, good)
    BY <1>4
  <2>2. res[i].st = "preparing"
    BY <2>1 DEF Prepare
  <2>3. \/ res' = Closing(i)
        \/ res' = [res EXCEPT ![i] = [res[i] EXCEPT !.st = "ready", !.vm = "running",
                                                    !.prepared = TRUE]]
    BY <2>1 DEF Prepare, PoolInv, VmsTyped
  <2> QED  BY <2>2, <2>3, RetiredKept, OthersKept
<1>5. CASE RetireIdle("cool", Nil)
  BY <1>5, PreemptedKept DEF RetireIdle
<1> QED  BY <1>1, <1>2, <1>3, <1>4, <1>5 DEF Maintenance

\* Requests from outside: an eviction is refused while writes are pending.
LEMMA OutsideKept ==
  ASSUME PoolInv, Outside
  PROVE  Kept
<1>1. CASE \E r \in Runs : Evict(r)
  <2>1. PICK r \in Runs : Evict(r)
    BY <1>1
  <2>2. PICK i \in RetainedOf(r) : i = CHOOSE j \in RetainedOf(r) : TRUE
    BY <2>1 DEF Evict
  <2>3. i \in Res /\ ~Pending(i) /\ res' = Closing(i)
    BY <2>1, <2>2 DEF Evict, RetainedOf
  <2> QED  BY <2>3, RetiredKept
<1>2. CASE \E i \in Res : VmExits(i)
  <2>1. PICK i \in Res : VmExits(i)
    BY <1>2
  <2>2. res' = [res EXCEPT ![i].vm = "dead"] /\ res \in [Res -> Reservations]
    BY <2>1 DEF VmExits, PoolInv, VmsTyped
  <2>3. PICK x \in Reservations : x = res[i]
    BY <2>2
  <2>4. [x EXCEPT !.vm = "dead"].st = x.st
    BY DEF Reservations
  <2>5. \A j \in Res : res'[j].st = res[j].st
    BY <2>2, <2>3, <2>4
  <2> QED  BY <2>5 DEF Kept
<1>3. CASE Halt \/ \E b \in Budgets : RetireIdle("configure", b)
  BY <1>3, PreemptedKept DEF Halt, RetireIdle
<1>4. CASE Restart
  BY <1>4 DEF Restart, Kept
<1>5. CASE res' = res
  BY <1>5, UnchangedKept
<1> QED
  BY <1>1, <1>2, <1>3, <1>4, <1>5
     DEF Outside, Start, Stop, LeaseLost, DeleteDisk, poolVars

\* A retained VM whose disk holds unpublished writes is ended neither by the
\* demand of another conversation nor by a smaller budget: its process exited,
\* or the controller stops, or a start of its own conversation has it, which
\* returns with it or is cut (pool.rs, make_room and reserve;
\* pool/retained.rs, maintain_retained and retire_idle).
THEOREM UnpublishedVmsKept == Spec => UnpublishedKept
<1>1. ASSUME PoolInv, [Next]_vars PROVE Kept
  <2>1. CASE \E i \in Res : Teardown(i)
    <3>1. PICK i \in Res : Teardown(i)
      BY <2>1
    <3>2. res[i].st = "closing" /\ res' = [res EXCEPT ![i] = NoRes]
      BY <3>1, Zenon DEF Teardown, Released
    <3> QED  BY <1>1, <3>2, OthersKept
  <2>2. CASE \E a \in Attempts : Admit(a)
    BY <1>1, <2>2, UnchangedKept, PreemptedKept DEF Admit
  <2>3. CASE res' = res
    BY <2>3, UnchangedKept
  <2> QED
    BY <1>1, <2>1, <2>2, <2>3, AdmissionKept, MaintenanceKept, OutsideKept, ExecutionKept
       DEF Next, Capture, CaptureRetained, CaptureStopped, Seal, Published, poolVars, vars
<1>2. PoolInv /\ [Next]_vars =>
        [\A i \in Res :
           res[i].st = "retained" /\ Pending(i) /\ res'[i].st # "retained" =>
             \/ OwnStart(i) /\ adm' = NoAdm
             \/ res[i].vm = "dead" \/ halt
             \/ res' = [j \in Res |-> NoRes]]_vars
  BY <1>1 DEF Kept
<1> QED  BY <1>2, PoolAlways, PTL DEF Spec, UnpublishedKept
=============================================================================

----------------------------- MODULE NodeProofs -----------------------------
(***************************************************************************)
(* Proofs about nodes: the control of a guest's CPUs, file systems and     *)
(* journal (GuestControl), the calls of the manager to a node (NodeRelay), *)
(* and the placement of conversations on the nodes (Fleet).                *)
(***************************************************************************)
EXTENDS GuestControl, NodeRelay, Fleet, TLAPS, SequenceTheorems, FiniteSetTheorems,
        WellFoundedInduction

(***************************************************************************)
(* The control of a guest.                                                 *)
(***************************************************************************)
(* The types of the control of a guest.                                    *)
States == {"running", "paused"}
Waiters == {"capture", "monitor", "nobody"}
Requests == States \X Waiters
CapturePcs == {"idle", "seal", "pause", "wake", "freeze", "woken", "freezing", "quiet",
               "resume", "resumed", "unlock", "thaw"}

(* The host and the guest.                                                 *)
HostTypes ==
  /\ cpu \in States
  /\ api \in Seq(Requests)
  /\ flag \in BOOLEAN /\ pending \in BOOLEAN
  /\ control \in {"free", "monitor", "capture"}
  /\ mon \in {"idle", "pausing", "resuming", "confirmed"}
  /\ thaws \in 0 .. MaxThaws
  /\ fs \in {"thawed", "frozen"} /\ fsop \in {"none", "asked", "orphan"}
  /\ timer \in BOOLEAN
  /\ writer \in BOOLEAN /\ lease \in {"held", "lost", "fenced"} /\ stop \in BOOLEAN
  /\ left \in 0 .. MaxMishaps
CaptureTypes ==
  capt \in [pc : CapturePcs, flush : BOOLEAN, emergency : BOOLEAN, frozen : BOOLEAN,
            overtaken : BOOLEAN]
DiskTypes ==
  disk \in [low : BOOLEAN, pressure : BOOLEAN, dirty : BOOLEAN, more : BOOLEAN,
            late : BOOLEAN, since : {"zero", "counting", "elapsed"},
            waiting : BOOLEAN, fault : BOOLEAN]
PointTypes ==
  point \in [label : {"none", "crash", "filesystem"}, quiet : BOOLEAN,
             frozen : BOOLEAN, overtaken : BOOLEAN]
ControlTypes == HostTypes /\ CaptureTypes /\ DiskTypes /\ PointTypes

(* An attempt whose lease is lost is being stopped.                        *)
Stopping == lease # "held" => stop

(* The control lock is held by the monitor while it waits, and by a        *)
(* capture until it unlocks.                                               *)
LockHeld ==
  /\ control = "monitor" <=> mon # "idle"
  /\ control = "capture" <=> capt.pc \notin {"idle", "thaw"}

(* Behind the request somebody waits for, only the pause of a lost lease   *)
(* is queued.                                                              *)
Behind(n) == \A m \in (n + 1) .. Len(api) : api[m] = <<"paused", "nobody">>
CaptureWaits ==
  \A n \in 1 .. Len(api) : api[n][2] = "capture" =>
    /\ capt.pc \in DOMAIN Wanted
    /\ api[n][1] = Wanted[capt.pc]
    /\ Behind(n)
MonitorWaits ==
  \A n \in 1 .. Len(api) : api[n][2] = "monitor" =>
    mon \in {"pausing", "resuming"} /\ Behind(n)

(* When a pause is confirmed the CPUs are paused and nothing queued        *)
(* resumes them.                                                           *)
PausedForSeal ==
  At("quiet") => cpu = "paused" /\ \A n \in 1 .. Len(api) : api[n][1] = "paused"

(* A capture that is not crash-consistent has its file systems frozen from *)
(* its freeze to its seal, unless a detached thaw overtook it.             *)
FrozenForSeal ==
  capt.pc \in {"pause", "quiet"} /\ ~capt.emergency =>
    capt.frozen /\ fsop = "none" /\ (fs = "frozen" \/ capt.overtaken)
FreezeAwaited == fsop = "asked" => At("freezing")
SealsUnflushed == At("seal") => ~capt.flush

(* The inductive invariant.                                                *)
ControlInv ==
  /\ ControlTypes /\ Stopping /\ LockHeld
  /\ CaptureWaits /\ MonitorWaits /\ PausedForSeal
  /\ FrozenForSeal /\ FreezeAwaited /\ SealsUnflushed
  /\ SealedQuiet /\ FencedStaysPaused

(* A mishap leaves fewer of them.                                          *)
LEMMA MishapsLeft ==
  ASSUME ControlConstants, left \in 0 .. MaxMishaps, Mishap \/ UNCHANGED left
  PROVE  left' \in 0 .. MaxMishaps
  BY DEF ControlConstants, Mishap

(* What happens to the journal, to a guest write and to the last point     *)
(* alone concerns neither the CPUs nor a capture.                          *)
LEMMA JournalKeeps ==
  ASSUME ControlInv, UNCHANGED <<vmVars, hostVars, fsVars, lease, stop>>, DiskTypes',
         writer' \in BOOLEAN, left' \in 0 .. MaxMishaps, point' \in {point, NoPoint}
  PROVE  ControlInv'
<1> USE DEF ControlInv, ControlTypes, vmVars, hostVars, fsVars
<1>1. HostTypes' /\ CaptureTypes'
  BY DEF HostTypes, CaptureTypes
<1>2. PointTypes' /\ SealedQuiet'
  <2>1. CASE point' = point
    BY <2>1 DEF PointTypes, SealedQuiet
  <2>2. CASE point' = NoPoint
    BY <2>2 DEF PointTypes, SealedQuiet, NoPoint
  <2> QED BY <2>1, <2>2
<1>3. Stopping' /\ LockHeld' /\ FencedStaysPaused'
  BY DEF Stopping, LockHeld, FencedStaysPaused
<1>4. CaptureWaits' /\ MonitorWaits' /\ PausedForSeal'
  BY DEF CaptureWaits, MonitorWaits, PausedForSeal, Behind, At
<1>5. FrozenForSeal' /\ FreezeAwaited' /\ SealsUnflushed'
  BY DEF FrozenForSeal, FreezeAwaited, SealsUnflushed, At
<1> QED BY <1>1, <1>2, <1>3, <1>4, <1>5

(* The VMM serves the first request, and whoever waits for it goes on.     *)
LEMMA ServeApiKeeps == ASSUME ControlConstants, ControlInv, ServeApi PROVE ControlInv'
<1> USE DEF ControlInv, ControlTypes
<1>a. api \in Seq(Requests) /\ api # <<>>
  BY DEF HostTypes, ServeApi
<1>b. /\ api' = Tail(api) /\ Tail(api) \in Seq(Requests)
      /\ Len(api) \in Nat /\ Len(api) > 0
      /\ Head(api) = api[1] /\ Head(api) \in Requests
      /\ Len(Tail(api)) = Len(api) - 1
      /\ \A n \in 1 .. Len(Tail(api)) : Tail(api)[n] = api[n + 1]
  BY <1>a DEF ServeApi
<1>c. PICK first \in Requests : first = api[1]
  BY <1>b
<1>d. PICK rest \in Seq(Requests) : rest = Tail(api)
  BY <1>b
<1>e. /\ api' = rest /\ cpu' = first[1]
      /\ Len(rest) \in Nat /\ Len(api) = Len(rest) + 1
      /\ \A n \in 1 .. Len(rest) : rest[n] = api[n + 1]
      /\ \A n \in 1 .. Len(rest) : rest[n] \in Requests
      /\ first[1] \in States /\ first[2] \in Waiters
      /\ UNCHANGED <<flag, pending, control, thaws, fs, fsop, timer, disk, writer, lease,
                     stop, point, left>>
      /\ IF first[2] = "nobody" THEN UNCHANGED <<mon, capt>> ELSE Settled(first[2])
  BY <1>b, <1>c, <1>d DEF ServeApi, Requests, fsVars
<1>f. ASSUME first[2] # "nobody"
      PROVE  \A n \in 1 .. Len(rest) : rest[n] = <<"paused", "nobody">>
  <2>1. Behind(1)
    BY <1>b, <1>c, <1>e, <1>f DEF CaptureWaits, MonitorWaits, Waiters
  <2> QED BY <2>1, <1>b, <1>e DEF Behind
<1>g. ASSUME first[2] = "capture"
      PROVE  /\ capt.pc \in {"wake", "pause", "resume"} /\ first[1] = Wanted[capt.pc]
             /\ capt' = [capt EXCEPT !.pc = After[capt.pc]] /\ mon' = mon
  BY <1>b, <1>c, <1>e, <1>g DEF CaptureWaits, Settled, Wanted
<1>h. ASSUME first[2] = "monitor"
      PROVE  mon \in {"pausing", "resuming"} /\ mon' = "confirmed" /\ capt' = capt
  BY <1>b, <1>c, <1>e, <1>h DEF MonitorWaits, Settled
<1>i. first[2] \in {"capture", "monitor", "nobody"}
  BY <1>e DEF Waiters
<1>1. HostTypes'
  BY <1>d, <1>e, <1>g, <1>h, <1>i DEF HostTypes
<1>2. CaptureTypes'
  <2>1. CASE first[2] = "capture"
    BY <2>1, <1>g DEF CaptureTypes, CapturePcs, After
  <2>2. CASE first[2] # "capture"
    BY <2>2, <1>e, <1>h, <1>i DEF CaptureTypes
  <2> QED BY <2>1, <2>2
<1>3. DiskTypes' /\ PointTypes' /\ Stopping'
  BY <1>e DEF DiskTypes, PointTypes, Stopping
<1>4. LockHeld'
  <2>1. CASE first[2] = "capture"
    BY <2>1, <1>e, <1>g DEF LockHeld, CaptureTypes, CapturePcs, After
  <2>2. CASE first[2] # "capture"
    BY <2>2, <1>e, <1>h, <1>i DEF LockHeld
  <2> QED BY <2>1, <2>2
<1>5. ASSUME first[2] = "nobody"
      PROVE  CaptureWaits' /\ MonitorWaits'
  <2>1. ASSUME NEW n \in 1 .. Len(rest)
        PROVE  /\ rest[n] = api[n + 1] /\ n + 1 \in 1 .. Len(api)
               /\ Behind(n + 1) => \A m \in (n + 1) .. Len(rest) : rest[m] = <<"paused", "nobody">>
    BY <1>e, <2>1 DEF Behind
  <2> QED BY <2>1, <1>5, <1>e DEF CaptureWaits, MonitorWaits, Behind
<1>6. ASSUME first[2] # "nobody"
      PROVE  CaptureWaits' /\ MonitorWaits'
  BY <1>6, <1>e, <1>f DEF CaptureWaits, MonitorWaits
<1>7. PausedForSeal'
  <2>1. CASE first[2] = "capture"
    BY <2>1, <1>e, <1>f, <1>g DEF PausedForSeal, CaptureTypes, After, Wanted, At
  <2>2. CASE first[2] # "capture"
    BY <2>2, <1>b, <1>c, <1>e, <1>h, <1>i DEF PausedForSeal, At
  <2> QED BY <2>1, <2>2
<1>8. FrozenForSeal' /\ FreezeAwaited' /\ SealsUnflushed'
  <2>1. CASE first[2] = "capture"
    BY <2>1, <1>e, <1>g DEF FrozenForSeal, FreezeAwaited, SealsUnflushed, CaptureTypes, After, At
  <2>2. CASE first[2] # "capture"
    BY <2>2, <1>e, <1>h, <1>i DEF FrozenForSeal, FreezeAwaited, SealsUnflushed, At
  <2> QED BY <2>1, <2>2
<1>9. SealedQuiet'
  BY <1>e DEF SealedQuiet
<1>10. FencedStaysPaused'
  <2>1. CASE rest = <<>>
    BY <2>1, <1>b, <1>c, <1>d, <1>e DEF FencedStaysPaused
  <2>2. CASE rest # <<>>
    <3>1. Len(rest) \in 1 .. Len(rest)
      BY <2>2, <1>d, <1>e
    <3> QED BY <3>1, <2>2, <1>b, <1>e DEF FencedStaysPaused
  <2> QED BY <2>1, <2>2
<1> QED BY <1>1, <1>2, <1>3, <1>4, <1>5, <1>6, <1>7, <1>8, <1>9, <1>10

(* The monitor asks for a state when none of the requests queued is waited *)
(* for.                                                                    *)
LEMMA MonitorKeeps == ASSUME ControlConstants, ControlInv, Monitor PROVE ControlInv'
<1> USE DEF ControlInv, ControlTypes
<1>1. DiskTypes'
  BY DEF DiskTypes, Monitor
<1>2. /\ mon = "idle" /\ control = "free" /\ ~stop /\ lease = "held"
      /\ UNCHANGED <<cpu, flag, pending, capt, thaws, fs, fsop, timer, writer, lease, stop,
                     point, left>>
  BY DEF Monitor, fsVars
<1>3. CaptureTypes' /\ PointTypes' /\ Stopping' /\ SealedQuiet' /\ FencedStaysPaused'
  BY <1>2 DEF CaptureTypes, PointTypes, Stopping, SealedQuiet, FencedStaysPaused
<1>4. FrozenForSeal' /\ FreezeAwaited' /\ SealsUnflushed'
  BY <1>2 DEF FrozenForSeal, FreezeAwaited, SealsUnflushed, At
<1>5. capt.pc \in {"idle", "thaw"}
  BY <1>2 DEF LockHeld
<1>6. \A n \in 1 .. Len(api) : api[n][2] \notin {"capture", "monitor"}
  BY <1>2, <1>5 DEF CaptureWaits, MonitorWaits, Wanted
<1>7. CASE UNCHANGED <<control, mon, api>>
  BY <1>2, <1>3, <1>4, <1>1, <1>7
     DEF HostTypes, LockHeld, CaptureWaits, MonitorWaits, Behind, PausedForSeal, At
<1>8. ASSUME NEW s \in States, NEW m \in {"pausing", "resuming"},
             control' = "monitor", mon' = m, api' = Append(api, <<s, "monitor">>)
      PROVE  ControlInv'
  <2>1. <<s, "monitor">> \in Requests
    BY DEF Requests, Waiters
  <2>2. api' \in Seq(Requests) /\ Len(api') = Len(api) + 1 /\ Len(api) \in Nat
        /\ (\A n \in 1 .. Len(api) : api'[n] = api[n]) /\ api'[Len(api) + 1] = <<s, "monitor">>
    BY <1>8, <2>1 DEF HostTypes
  <2>3. HostTypes'
    BY <1>2, <1>8, <2>2 DEF HostTypes
  <2>4. LockHeld'
    BY <1>2, <1>5, <1>8 DEF LockHeld
  <2>5. \A n \in 1 .. Len(api') : n \in 1 .. Len(api) \/ n = Len(api) + 1
    BY <2>2
  <2>6. CaptureWaits'
    BY <1>6, <2>2, <2>5 DEF CaptureWaits
  <2>7. MonitorWaits'
    BY <1>6, <1>8, <2>2, <2>5 DEF MonitorWaits, Behind
  <2>8. PausedForSeal'
    BY <1>2, <1>5 DEF PausedForSeal, At
  <2> QED BY <1>1, <1>3, <1>4, <2>3, <2>4, <2>6, <2>7, <2>8
<1>9. CASE ~UNCHANGED <<control, mon, api>>
  <2>1. PICK s \in States, m \in {"pausing", "resuming"} :
          control' = "monitor" /\ mon' = m /\ api' = Append(api, <<s, "monitor">>)
    BY <1>9 DEF Monitor, Ask, States
  <2> QED BY <2>1, <1>8
<1> QED BY <1>7, <1>9

(* The monitor records what was confirmed.                                 *)
LEMMA MonitorConfirmedKeeps ==
  ASSUME ControlConstants, ControlInv, MonitorConfirmed PROVE ControlInv'
<1> USE DEF ControlInv, ControlTypes, MonitorConfirmed, fsVars, At
<1>1. CaptureTypes' /\ DiskTypes' /\ PointTypes' /\ Stopping' /\ CaptureWaits' /\
      PausedForSeal' /\ FrozenForSeal' /\ FreezeAwaited' /\ SealsUnflushed' /\ SealedQuiet'
      /\ FencedStaysPaused'
  BY DEF CaptureTypes, DiskTypes, PointTypes, Stopping, CaptureWaits, PausedForSeal,
         FrozenForSeal, FreezeAwaited, SealsUnflushed, SealedQuiet, FencedStaysPaused,
         Behind
<1>2. HostTypes'
  BY DEF HostTypes
<1>3. LockHeld'
  BY DEF LockHeld
<1>4. MonitorWaits'
  BY DEF MonitorWaits
<1> QED BY <1>1, <1>2, <1>3, <1>4

(* Nobody waits for the answer of the monitor any more; the request stays. *)
LEMMA MonitorLostKeeps ==
  ASSUME ControlConstants, NEW g \in BOOLEAN, ControlInv, MonitorLost(g) PROVE ControlInv'
<1> USE DEF ControlInv, ControlTypes, MonitorLost, Asked, Mishap, Abandon, fsVars, At
<1>1. CaptureTypes' /\ DiskTypes' /\ PointTypes' /\ FrozenForSeal' /\ FreezeAwaited' /\
      SealsUnflushed' /\ SealedQuiet'
  BY DEF CaptureTypes, DiskTypes, PointTypes, FrozenForSeal, FreezeAwaited, SealsUnflushed,
         SealedQuiet
<1>2. HostTypes'
  BY DEF HostTypes, ControlConstants, After, Wanted, States, Waiters, Requests
<1>3. Stopping'
  BY DEF Stopping
<1>4. LockHeld'
  BY DEF LockHeld
<1>5. CaptureWaits'
  BY DEF CaptureWaits, HostTypes, CaptureTypes, LockHeld, MonitorWaits, PausedForSeal, Behind,
         After, Wanted, States, Waiters, Requests
<1>6. MonitorWaits'
  BY DEF MonitorWaits
<1>7. PausedForSeal'
  BY DEF PausedForSeal
<1>8. FencedStaysPaused'
  BY DEF FencedStaysPaused
<1> QED BY <1>1, <1>2, <1>3, <1>4, <1>5, <1>6, <1>7, <1>8

(* A lost lease stops the attempt first.                                   *)
LEMMA LeaseLostKeeps ==
  ASSUME ControlConstants, ControlInv, LeaseLost PROVE ControlInv'
<1> USE DEF ControlInv, ControlTypes, LeaseLost, Mishap, vmVars, hostVars, fsVars, At
<1>1. CaptureTypes' /\ DiskTypes' /\ PointTypes' /\ LockHeld' /\ CaptureWaits' /\
      MonitorWaits' /\ PausedForSeal' /\ FrozenForSeal' /\ FreezeAwaited' /\ SealsUnflushed'
      /\ SealedQuiet'
  BY DEF CaptureTypes, DiskTypes, PointTypes, LockHeld, CaptureWaits, MonitorWaits,
         PausedForSeal, FrozenForSeal, FreezeAwaited, SealsUnflushed, SealedQuiet, Behind
<1>2. HostTypes'
  BY DEF HostTypes
<1>3. Stopping'
  BY DEF Stopping
<1>4. FencedStaysPaused'
  BY DEF FencedStaysPaused
<1> QED BY <1>1, <1>2, <1>3, <1>4

(* The pause of a lost lease is the last request that changes the CPUs.    *)
LEMMA PauseLostKeeps ==
  ASSUME ControlConstants, ControlInv, PauseLost PROVE ControlInv'
<1> USE DEF ControlInv, ControlTypes, PauseLost, Ask, hostVars, fsVars, At
<1>1. CaptureTypes' /\ DiskTypes' /\ PointTypes' /\ LockHeld' /\ FrozenForSeal' /\
      FreezeAwaited' /\ SealsUnflushed' /\ SealedQuiet'
  BY DEF CaptureTypes, DiskTypes, PointTypes, LockHeld, FrozenForSeal, FreezeAwaited,
         SealsUnflushed, SealedQuiet
<1>2. HostTypes'
  BY DEF HostTypes, ControlConstants, After, Wanted, States, Waiters, Requests
<1>3. Stopping'
  BY DEF Stopping
<1>4. CaptureWaits'
  BY DEF CaptureWaits, HostTypes, CaptureTypes, LockHeld, MonitorWaits, PausedForSeal, Behind,
         After, Wanted, States, Waiters, Requests
<1>5. MonitorWaits'
  BY DEF MonitorWaits, HostTypes, CaptureTypes, LockHeld, CaptureWaits, PausedForSeal, Behind,
         After, Wanted, States, Waiters, Requests
<1>6. PausedForSeal'
  BY DEF PausedForSeal
<1>7. FencedStaysPaused'
  BY DEF FencedStaysPaused
<1> QED BY <1>1, <1>2, <1>3, <1>4, <1>5, <1>6, <1>7

(* A capture takes the lock that is free.                                  *)
LEMMA CaptureStartKeeps ==
  ASSUME ControlConstants, NEW f \in BOOLEAN, ControlInv, CaptureStart(f) PROVE ControlInv'
<1> USE DEF ControlInv, ControlTypes, CaptureStart, NoCapture, WaitingFor, vmVars, fsVars,
            LagPauses, At
<1>1. DiskTypes' /\ PointTypes' /\ Stopping' /\ MonitorWaits' /\ SealedQuiet' /\
      FencedStaysPaused'
  BY DEF DiskTypes, PointTypes, Stopping, MonitorWaits, SealedQuiet, FencedStaysPaused, Behind
<1>2. HostTypes'
  BY DEF HostTypes
<1>3. CaptureTypes'
  BY DEF CaptureTypes, CaptureWaits, HostTypes, After, Wanted, CapturePcs
<1>4. LockHeld'
  BY DEF LockHeld
<1>5. CaptureWaits'
  BY DEF CaptureWaits, HostTypes, CaptureTypes, After, Wanted
<1>6. PausedForSeal'
  BY DEF PausedForSeal
<1>7. FrozenForSeal'
  BY DEF FrozenForSeal
<1>8. FreezeAwaited'
  BY DEF FreezeAwaited
<1>9. SealsUnflushed'
  BY DEF SealsUnflushed
<1> QED BY <1>1, <1>2, <1>3, <1>4, <1>5, <1>6, <1>7, <1>8, <1>9

(* A capture asks for the state its stage wants.                           *)
LEMMA SettleKeeps ==
  ASSUME ControlConstants, ControlInv, Settle PROVE ControlInv'
<1> USE DEF ControlInv, ControlTypes, Settle, Asked, Ask, hostVars, fsVars, At
<1>1. CaptureTypes' /\ DiskTypes' /\ PointTypes' /\ Stopping' /\ LockHeld' /\ FrozenForSeal'
      /\ FreezeAwaited' /\ SealsUnflushed' /\ SealedQuiet'
  BY DEF CaptureTypes, DiskTypes, PointTypes, Stopping, LockHeld, FrozenForSeal,
         FreezeAwaited, SealsUnflushed, SealedQuiet
<1>2. HostTypes'
  BY DEF HostTypes, ControlConstants, After, Wanted, States, Waiters, Requests
<1>3. CaptureWaits'
  BY DEF CaptureWaits, HostTypes, CaptureTypes, LockHeld, MonitorWaits, PausedForSeal, Behind,
         After, Wanted, States, Waiters, Requests
<1>4. MonitorWaits'
  BY DEF MonitorWaits, HostTypes, CaptureTypes, LockHeld, CaptureWaits, PausedForSeal, Behind,
         After, Wanted, States, Waiters, Requests
<1>5. PausedForSeal'
  BY DEF PausedForSeal, HostTypes, CaptureTypes, After, Wanted
<1>6. FencedStaysPaused'
  BY DEF FencedStaysPaused, HostTypes, CaptureTypes, Stopping, States, Waiters, Requests
<1> QED BY <1>1, <1>2, <1>3, <1>4, <1>5, <1>6

(* A capture stops waiting, and asks again.                                *)
LEMMA SettleLostKeeps ==
  ASSUME ControlConstants, ControlInv, SettleLost PROVE ControlInv'
<1> USE DEF ControlInv, ControlTypes, SettleLost, Asked, Mishap, Abandon, hostVars, fsVars,
            At
<1>1. CaptureTypes' /\ DiskTypes' /\ PointTypes' /\ Stopping' /\ LockHeld' /\ FrozenForSeal'
      /\ FreezeAwaited' /\ SealsUnflushed' /\ SealedQuiet'
  BY DEF CaptureTypes, DiskTypes, PointTypes, Stopping, LockHeld, FrozenForSeal,
         FreezeAwaited, SealsUnflushed, SealedQuiet
<1>2. HostTypes'
  BY DEF HostTypes, ControlConstants, After, Wanted, States, Waiters, Requests
<1>3. CaptureWaits'
  BY DEF CaptureWaits
<1>4. MonitorWaits'
  BY DEF MonitorWaits, HostTypes, CaptureTypes, LockHeld, CaptureWaits, PausedForSeal, Behind,
         After, Wanted, States, Waiters, Requests
<1>5. PausedForSeal'
  BY DEF PausedForSeal
<1>6. FencedStaysPaused'
  BY DEF FencedStaysPaused
<1> QED BY <1>1, <1>2, <1>3, <1>4, <1>5, <1>6

(* A refused pause is undone, and nothing was sealed.                      *)
LEMMA PauseRefusedKeeps ==
  ASSUME ControlConstants, ControlInv, PauseRefused PROVE ControlInv'
<1> USE DEF ControlInv, ControlTypes, PauseRefused, Mishap, Abandon, Goto, NoPoint, fsVars,
            At
<1>1. DiskTypes' /\ Stopping'
  BY DEF DiskTypes, Stopping
<1>2. HostTypes'
  BY DEF HostTypes, ControlConstants, After, Wanted, States, Waiters, Requests
<1>3. CaptureTypes'
  BY DEF CaptureTypes, CaptureWaits, HostTypes, After, Wanted, CapturePcs
<1>4. PointTypes'
  BY DEF PointTypes
<1>5. LockHeld'
  BY DEF LockHeld
<1>6. CaptureWaits'
  BY DEF CaptureWaits
<1>7. MonitorWaits'
  BY DEF MonitorWaits, HostTypes, CaptureTypes, LockHeld, CaptureWaits, PausedForSeal, Behind,
         After, Wanted, States, Waiters, Requests
<1>8. PausedForSeal'
  BY DEF PausedForSeal
<1>9. FrozenForSeal'
  BY DEF FrozenForSeal
<1>10. FreezeAwaited'
  BY DEF FreezeAwaited
<1>11. SealsUnflushed'
  BY DEF SealsUnflushed
<1>12. SealedQuiet'
  BY DEF SealedQuiet
<1>13. FencedStaysPaused'
  BY DEF FencedStaysPaused
<1> QED BY <1>1, <1>2, <1>3, <1>4, <1>5, <1>6, <1>7, <1>8, <1>9, <1>10, <1>11, <1>12, <1>13

(* A capture that cannot settle stops the attempt.                         *)
LEMMA SettleFailsKeeps ==
  ASSUME ControlConstants, ControlInv, SettleFails PROVE ControlInv'
<1> USE DEF ControlInv, ControlTypes, SettleFails, Mishap, Abandon, NoCapture, NoPoint,
            fsVars, At
<1>1. DiskTypes'
  BY DEF DiskTypes
<1>2. HostTypes'
  BY DEF HostTypes, ControlConstants, After, Wanted, States, Waiters, Requests
<1>3. CaptureTypes'
  BY DEF CaptureTypes, CaptureWaits, HostTypes, After, Wanted, CapturePcs
<1>4. PointTypes'
  BY DEF PointTypes
<1>5. Stopping'
  BY DEF Stopping
<1>6. LockHeld'
  BY DEF LockHeld, HostTypes, CaptureTypes, After, Wanted
<1>7. CaptureWaits'
  BY DEF CaptureWaits
<1>8. MonitorWaits'
  BY DEF MonitorWaits, HostTypes, CaptureTypes, LockHeld, CaptureWaits, PausedForSeal, Behind,
         After, Wanted, States, Waiters, Requests
<1>9. PausedForSeal'
  BY DEF PausedForSeal
<1>10. FrozenForSeal'
  BY DEF FrozenForSeal
<1>11. FreezeAwaited'
  BY DEF FreezeAwaited, HostTypes, CaptureTypes, After, Wanted
<1>12. SealsUnflushed'
  BY DEF SealsUnflushed
<1>13. SealedQuiet'
  BY DEF SealedQuiet
<1>14. FencedStaysPaused'
  BY DEF FencedStaysPaused
<1> QED BY <1>1, <1>2, <1>3, <1>4, <1>5, <1>6, <1>7, <1>8, <1>9, <1>10, <1>11, <1>12, <1>13,
           <1>14

(* The VM runs again and is frozen next.                                   *)
LEMMA WokenKeeps ==
  ASSUME ControlConstants, ControlInv, Woken PROVE ControlInv'
<1> USE DEF ControlInv, ControlTypes, Woken, Goto, fsVars, At
<1>1. DiskTypes' /\ PointTypes' /\ Stopping' /\ MonitorWaits' /\ SealedQuiet' /\
      FencedStaysPaused'
  BY DEF DiskTypes, PointTypes, Stopping, MonitorWaits, SealedQuiet, FencedStaysPaused, Behind
<1>2. HostTypes'
  <2>1. /\ flag' = FALSE /\ cpu' = cpu /\ api' = api /\ pending' = pending /\ fs' = fs
        /\ control' = control /\ mon' = mon /\ thaws' = thaws /\ fsop' = fsop
        /\ timer' = timer /\ writer' = writer /\ lease' = lease /\ stop' = stop /\ left' = left
    OBVIOUS
  <2>2. HostTypes
    OBVIOUS
  <2> HIDE DEF ControlInv, ControlTypes, Woken, Goto, fsVars, At
  <2> QED BY <2>1, <2>2, ZenonT(40) DEF HostTypes
<1>3. CaptureTypes'
  BY DEF CaptureTypes, CaptureWaits, HostTypes, After, Wanted, CapturePcs
<1>4. LockHeld'
  BY DEF LockHeld
<1>5. CaptureWaits'
  BY DEF CaptureWaits, HostTypes, CaptureTypes, After, Wanted
<1>6. PausedForSeal'
  BY DEF PausedForSeal
<1>7. FrozenForSeal'
  BY DEF FrozenForSeal
<1>8. FreezeAwaited'
  BY DEF FreezeAwaited
<1>9. SealsUnflushed'
  BY DEF SealsUnflushed
<1> QED BY <1>1, <1>2, <1>3, <1>4, <1>5, <1>6, <1>7, <1>8, <1>9

(* The guest is asked to freeze.                                           *)
LEMMA FreezeSentKeeps ==
  ASSUME ControlConstants, ControlInv, FreezeSent PROVE ControlInv'
<1> USE DEF ControlInv, ControlTypes, FreezeSent, Goto, vmVars, At
<1>1. DiskTypes' /\ PointTypes' /\ Stopping' /\ MonitorWaits' /\ SealedQuiet' /\
      FencedStaysPaused'
  BY DEF DiskTypes, PointTypes, Stopping, MonitorWaits, SealedQuiet, FencedStaysPaused, Behind
<1>2. HostTypes'
  BY DEF HostTypes
<1>3. CaptureTypes'
  BY DEF CaptureTypes, CaptureWaits, HostTypes, After, Wanted, CapturePcs
<1>4. LockHeld'
  BY DEF LockHeld
<1>5. CaptureWaits'
  BY DEF CaptureWaits, HostTypes, CaptureTypes, After, Wanted
<1>6. PausedForSeal'
  BY DEF PausedForSeal
<1>7. FrozenForSeal'
  BY DEF FrozenForSeal
<1>8. FreezeAwaited'
  BY DEF FreezeAwaited
<1>9. SealsUnflushed'
  BY DEF SealsUnflushed
<1> QED BY <1>1, <1>2, <1>3, <1>4, <1>5, <1>6, <1>7, <1>8, <1>9

(* Without an answer of the guest the capture is crash-consistent.         *)
LEMMA FreezeUnansweredKeeps ==
  ASSUME ControlConstants, ControlInv, FreezeUnanswered PROVE ControlInv'
<1> USE DEF ControlInv, ControlTypes, FreezeUnanswered, Mishap, vmVars, At
<1>1. DiskTypes' /\ PointTypes' /\ Stopping' /\ MonitorWaits' /\ SealedQuiet' /\
      FencedStaysPaused'
  BY DEF DiskTypes, PointTypes, Stopping, MonitorWaits, SealedQuiet, FencedStaysPaused, Behind
<1>2. HostTypes'
  BY DEF HostTypes
<1>3. CaptureTypes'
  BY DEF CaptureTypes, CaptureWaits, HostTypes, After, Wanted, CapturePcs
<1>4. LockHeld'
  BY DEF LockHeld
<1>5. CaptureWaits'
  BY DEF CaptureWaits, HostTypes, CaptureTypes, After, Wanted
<1>6. PausedForSeal'
  BY DEF PausedForSeal
<1>7. FrozenForSeal'
  BY DEF FrozenForSeal
<1>8. FreezeAwaited'
  BY DEF FreezeAwaited
<1>9. SealsUnflushed'
  BY DEF SealsUnflushed
<1> QED BY <1>1, <1>2, <1>3, <1>4, <1>5, <1>6, <1>7, <1>8, <1>9

(* What is sealed as consistent is quiet and frozen.                       *)
LEMMA SealKeeps ==
  ASSUME ControlConstants, ControlInv, Seal PROVE ControlInv'
<1> USE DEF ControlInv, ControlTypes, Seal, NoPoint, Goto, vmVars, fsVars, At
<1>1. HostTypes' /\ Stopping' /\ MonitorWaits' /\ FencedStaysPaused'
  BY DEF HostTypes, Stopping, MonitorWaits, FencedStaysPaused, Behind
<1>2. CaptureTypes'
  BY DEF CaptureTypes, CaptureWaits, HostTypes, After, Wanted, CapturePcs
<1>3. DiskTypes'
  BY DEF DiskTypes
<1>4. PointTypes'
  BY DEF PointTypes, CaptureTypes
<1>5. LockHeld'
  BY DEF LockHeld
<1>6. CaptureWaits'
  BY DEF CaptureWaits, HostTypes, CaptureTypes, After, Wanted
<1>7. PausedForSeal'
  BY DEF PausedForSeal
<1>8. FrozenForSeal'
  BY DEF FrozenForSeal
<1>9. FreezeAwaited'
  BY DEF FreezeAwaited
<1>10. SealsUnflushed'
  BY DEF SealsUnflushed
<1>11. SealedQuiet'
  BY DEF SealedQuiet, HostTypes, CaptureTypes, PausedForSeal, FrozenForSeal, SealsUnflushed
<1> QED BY <1>1, <1>2, <1>3, <1>4, <1>5, <1>6, <1>7, <1>8, <1>9, <1>10, <1>11

(* The VM runs again and the lock is given back next.                      *)
LEMMA ResumedKeeps ==
  ASSUME ControlConstants, ControlInv, Resumed PROVE ControlInv'
<1> USE DEF ControlInv, ControlTypes, Resumed, Goto, fsVars, At
<1>1. DiskTypes' /\ PointTypes' /\ Stopping' /\ MonitorWaits' /\ SealedQuiet' /\
      FencedStaysPaused'
  BY DEF DiskTypes, PointTypes, Stopping, MonitorWaits, SealedQuiet, FencedStaysPaused, Behind
<1>2. HostTypes'
  <2>1. /\ flag' = FALSE /\ cpu' = cpu /\ api' = api /\ pending' = pending /\ fs' = fs
        /\ control' = control /\ mon' = mon /\ thaws' = thaws /\ fsop' = fsop
        /\ timer' = timer /\ writer' = writer /\ lease' = lease /\ stop' = stop /\ left' = left
    OBVIOUS
  <2>2. HostTypes
    OBVIOUS
  <2> HIDE DEF ControlInv, ControlTypes, Resumed, Goto, fsVars, At
  <2> QED BY <2>1, <2>2, ZenonT(40) DEF HostTypes
<1>3. CaptureTypes'
  BY DEF CaptureTypes, CaptureWaits, HostTypes, After, Wanted, CapturePcs
<1>4. LockHeld'
  BY DEF LockHeld
<1>5. CaptureWaits'
  BY DEF CaptureWaits, HostTypes, CaptureTypes, After, Wanted
<1>6. PausedForSeal'
  BY DEF PausedForSeal
<1>7. FrozenForSeal'
  BY DEF FrozenForSeal
<1>8. FreezeAwaited'
  BY DEF FreezeAwaited
<1>9. SealsUnflushed'
  BY DEF SealsUnflushed
<1> QED BY <1>1, <1>2, <1>3, <1>4, <1>5, <1>6, <1>7, <1>8, <1>9

(* The lock is given back, and a frozen guest is thawed next.              *)
LEMMA UnlockKeeps == ASSUME ControlConstants, ControlInv, Unlock PROVE ControlInv'
<1> USE DEF ControlInv, ControlTypes
<1>1. PICK c \in {"idle", "thaw"} :
        /\ capt.pc = "unlock" /\ control' = "free"
        /\ capt' \in {[capt EXCEPT !.pc = "thaw"], NoCapture} /\ capt'.pc = c
        /\ thaws' \in {thaws, thaws + 1} /\ (thaws' = thaws \/ thaws < MaxThaws)
        /\ UNCHANGED <<cpu, api, flag, pending, mon, fs, fsop, timer, disk, writer, lease,
                       stop, point, left>>
  <2>1. CASE capt.frozen /\ ~capt.emergency
    BY <2>1 DEF Unlock, At, Goto, vmVars, fsVars, CaptureTypes
  <2>2. CASE ~(capt.frozen /\ ~capt.emergency)
    BY <2>2 DEF Unlock, At, NoCapture, vmVars, fsVars
  <2> QED BY <2>1, <2>2
<1>2. HostTypes'
  BY <1>1 DEF HostTypes, ControlConstants
<1>3. CaptureTypes'
  <2>1. [capt EXCEPT !.pc = "thaw"] \in
          [pc : CapturePcs, flush : BOOLEAN, emergency : BOOLEAN, frozen : BOOLEAN,
           overtaken : BOOLEAN]
    BY DEF CaptureTypes, CapturePcs
  <2>2. NoCapture \in
          [pc : CapturePcs, flush : BOOLEAN, emergency : BOOLEAN, frozen : BOOLEAN,
           overtaken : BOOLEAN]
    BY DEF NoCapture, CapturePcs
  <2> QED BY <1>1, <2>1, <2>2 DEF CaptureTypes
<1>4. DiskTypes' /\ PointTypes' /\ Stopping' /\ SealedQuiet' /\ FencedStaysPaused'
  BY <1>1 DEF DiskTypes, PointTypes, Stopping, SealedQuiet, FencedStaysPaused
<1>5. mon = "idle" /\ mon' = "idle"
  BY <1>1 DEF LockHeld
<1>6. LockHeld'
  BY <1>1, <1>5 DEF LockHeld
<1>7. CaptureWaits' /\ MonitorWaits'
  BY <1>1 DEF CaptureWaits, MonitorWaits, Wanted, Behind
<1>8. PausedForSeal' /\ FrozenForSeal' /\ FreezeAwaited' /\ SealsUnflushed'
  BY <1>1 DEF PausedForSeal, FrozenForSeal, FreezeAwaited, SealsUnflushed, At
<1> QED BY <1>2, <1>3, <1>4, <1>6, <1>7, <1>8

(* The guest freezes; a second freeze fails and the capture goes on as     *)
(* crash-consistent.                                                       *)
LEMMA FreezeDoneKeeps == ASSUME ControlConstants, ControlInv, FreezeDone PROVE ControlInv'
<1> USE DEF ControlInv, ControlTypes
<1>1. /\ cpu = "running" /\ fsop # "none" /\ fsop' = "none"
      /\ fs' = (IF fs = "thawed" THEN "frozen" ELSE "thawed")
      /\ timer' = (fs = "thawed")
      /\ UNCHANGED <<cpu, api, flag, pending, control, mon, thaws, disk, writer, lease,
                     stop, point, left>>
  BY DEF FreezeDone, vmVars
<1>2. HostTypes'
  BY <1>1 DEF HostTypes
<1>3. DiskTypes' /\ PointTypes' /\ Stopping' /\ SealedQuiet' /\ FencedStaysPaused'
  BY <1>1 DEF DiskTypes, PointTypes, Stopping, SealedQuiet, FencedStaysPaused
<1>4. CASE fsop = "asked"
  <2>1. /\ capt.pc = "freezing"
        /\ capt' = [capt EXCEPT !.pc = "pause", !.frozen = TRUE, !.emergency = fs = "frozen",
                                !.overtaken = FALSE]
    BY <1>4 DEF FreezeDone, FreezeAwaited, At
  <2>2. /\ capt'.pc = "pause" /\ capt'.frozen = TRUE /\ capt'.emergency = (fs = "frozen")
    BY <2>1 DEF CaptureTypes
  <2>3. CaptureTypes'
    BY <2>1 DEF CaptureTypes, CapturePcs
  <2>4. LockHeld'
    BY <1>1, <2>1, <2>2 DEF LockHeld
  <2>5. \A n \in 1 .. Len(api) : api[n][2] # "capture"
    BY <2>1 DEF CaptureWaits, Wanted
  <2>6. CaptureWaits' /\ MonitorWaits'
    BY <1>1, <2>5 DEF CaptureWaits, MonitorWaits, Behind
  <2>7. PausedForSeal' /\ FreezeAwaited' /\ SealsUnflushed'
    BY <1>1, <2>2 DEF PausedForSeal, FreezeAwaited, SealsUnflushed, At
  <2>8. FrozenForSeal'
    BY <1>1, <2>2 DEF FrozenForSeal, HostTypes
  <2> QED BY <1>2, <1>3, <2>3, <2>4, <2>6, <2>7, <2>8
<1>5. CASE fsop # "asked"
  <2>1. capt' = capt
    BY <1>5 DEF FreezeDone
  <2>2. CaptureTypes' /\ LockHeld' /\ CaptureWaits' /\ MonitorWaits' /\ PausedForSeal'
    BY <1>1, <2>1 DEF CaptureTypes, LockHeld, CaptureWaits, MonitorWaits, PausedForSeal,
                      Behind, At
  <2>3. FrozenForSeal' /\ FreezeAwaited' /\ SealsUnflushed'
    BY <1>1, <2>1 DEF FrozenForSeal, FreezeAwaited, SealsUnflushed, At
  <2> QED BY <1>2, <1>3, <2>2, <2>3
<1> QED BY <1>4, <1>5

(* The guest thaws for the capture that asked.                             *)
LEMMA ThawKeeps ==
  ASSUME ControlConstants, NEW a \in BOOLEAN, ControlInv, Thaw(a) PROVE ControlInv'
<1> USE DEF ControlInv, ControlTypes
<1>1. PICK c \in {capt, NoCapture} :
        /\ capt.pc = "thaw" /\ fsop = "none" /\ fs' = "thawed" /\ timer' = FALSE
        /\ capt' = c /\ (left' = left \/ (left > 0 /\ left' = left - 1))
        /\ UNCHANGED <<cpu, api, flag, pending, control, mon, thaws, fsop, disk, writer,
                       lease, stop, point>>
  BY DEF Thaw, At, Thawed, Mishap, vmVars
<1>2. HostTypes'
  <2>1. left' \in 0 .. MaxMishaps
    BY <1>1 DEF HostTypes, ControlConstants
  <2> QED BY <1>1, <2>1 DEF HostTypes
<1>3. CaptureTypes' /\ c.pc \in {"idle", "thaw"}
  <2>1. NoCapture \in
          [pc : CapturePcs, flush : BOOLEAN, emergency : BOOLEAN, frozen : BOOLEAN,
           overtaken : BOOLEAN] /\ NoCapture.pc = "idle"
    BY DEF NoCapture, CapturePcs
  <2> QED BY <1>1, <2>1 DEF CaptureTypes
<1>4. DiskTypes' /\ PointTypes' /\ Stopping' /\ SealedQuiet' /\ FencedStaysPaused'
  BY <1>1 DEF DiskTypes, PointTypes, Stopping, SealedQuiet, FencedStaysPaused
<1>5. LockHeld'
  BY <1>1, <1>3 DEF LockHeld
<1>6. CaptureWaits' /\ MonitorWaits'
  BY <1>1 DEF CaptureWaits, MonitorWaits, Wanted, Behind
<1>7. PausedForSeal' /\ FrozenForSeal' /\ FreezeAwaited' /\ SealsUnflushed'
  BY <1>1, <1>3 DEF PausedForSeal, FrozenForSeal, FreezeAwaited, SealsUnflushed, At
<1> QED BY <1>2, <1>3, <1>4, <1>5, <1>6, <1>7

(* A detached thaw may overtake a later capture, which learns of it.       *)
LEMMA ThawLaterKeeps ==
  ASSUME ControlConstants, NEW a \in BOOLEAN, ControlInv, ThawLater(a) PROVE ControlInv'
<1> USE DEF ControlInv, ControlTypes
<1>1. /\ fsop = "none" /\ fs' = "thawed" /\ timer' = FALSE /\ thaws > 0
      /\ capt' = [capt EXCEPT !.overtaken = @ \/ capt.frozen]
      /\ thaws' \in {thaws, thaws - 1}
      /\ (left' = left \/ (left > 0 /\ left' = left - 1))
      /\ UNCHANGED <<cpu, api, flag, pending, control, mon, fsop, disk, writer,
                     lease, stop, point>>
  BY DEF ThawLater, Thawed, Mishap, vmVars
<1>2. HostTypes'
  <2>1. left' \in 0 .. MaxMishaps /\ thaws' \in 0 .. MaxThaws
    BY <1>1 DEF HostTypes, ControlConstants
  <2> QED BY <1>1, <2>1 DEF HostTypes
<1>3. /\ CaptureTypes' /\ capt'.pc = capt.pc /\ capt'.flush = capt.flush
      /\ capt'.emergency = capt.emergency /\ capt'.frozen = capt.frozen
      /\ (capt.frozen => capt'.overtaken)
  BY <1>1 DEF CaptureTypes
<1>4. DiskTypes' /\ PointTypes' /\ Stopping' /\ SealedQuiet' /\ FencedStaysPaused'
  BY <1>1 DEF DiskTypes, PointTypes, Stopping, SealedQuiet, FencedStaysPaused
<1>5. LockHeld'
  BY <1>1, <1>3 DEF LockHeld
<1>6. CaptureWaits' /\ MonitorWaits'
  BY <1>1, <1>3 DEF CaptureWaits, MonitorWaits, Wanted, Behind
<1>7. PausedForSeal' /\ FrozenForSeal' /\ FreezeAwaited' /\ SealsUnflushed'
  BY <1>1, <1>3 DEF PausedForSeal, FrozenForSeal, FreezeAwaited, SealsUnflushed, At
<1> QED BY <1>2, <1>3, <1>4, <1>5, <1>6, <1>7

(* A stopped attempt asks for no thaw.                                     *)
LEMMA ThawStoppedKeeps ==
  ASSUME ControlConstants, ControlInv, ThawStopped PROVE ControlInv'
<1> USE DEF ControlInv, ControlTypes, ThawStopped, NoCapture, vmVars, fsVars, At
<1>1. DiskTypes' /\ PointTypes' /\ Stopping' /\ MonitorWaits' /\ SealedQuiet' /\
      FencedStaysPaused'
  BY DEF DiskTypes, PointTypes, Stopping, MonitorWaits, SealedQuiet, FencedStaysPaused, Behind
<1>2. HostTypes'
  BY DEF HostTypes
<1>3. CaptureTypes'
  BY DEF CaptureTypes, CaptureWaits, HostTypes, After, Wanted, CapturePcs
<1>4. LockHeld'
  BY DEF LockHeld
<1>5. CaptureWaits'
  BY DEF CaptureWaits, HostTypes, CaptureTypes, LockHeld, MonitorWaits, PausedForSeal, Behind,
         After, Wanted, States, Waiters, Requests
<1>6. PausedForSeal'
  BY DEF PausedForSeal
<1>7. FrozenForSeal'
  BY DEF FrozenForSeal
<1>8. FreezeAwaited'
  BY DEF FreezeAwaited
<1>9. SealsUnflushed'
  BY DEF SealsUnflushed
<1> QED BY <1>1, <1>2, <1>3, <1>4, <1>5, <1>6, <1>7, <1>8, <1>9

(* The caller left; a detached thaw takes over.                            *)
LEMMA CallerGoneKeeps ==
  ASSUME ControlConstants, ControlInv, CallerGone PROVE ControlInv'
<1> USE DEF ControlInv, ControlTypes, CallerGone, NoCapture, NoPoint, vmVars, fsVars, At
<1>1. DiskTypes' /\ Stopping' /\ MonitorWaits' /\ FencedStaysPaused'
  BY DEF DiskTypes, Stopping, MonitorWaits, FencedStaysPaused, Behind
<1>2. HostTypes'
  BY DEF HostTypes
<1>3. CaptureTypes'
  BY DEF CaptureTypes, CaptureWaits, HostTypes, After, Wanted, CapturePcs
<1>4. PointTypes'
  BY DEF PointTypes
<1>5. LockHeld'
  BY DEF LockHeld
<1>6. CaptureWaits'
  BY DEF CaptureWaits, HostTypes, CaptureTypes, After, Wanted
<1>7. PausedForSeal'
  BY DEF PausedForSeal
<1>8. FrozenForSeal'
  BY DEF FrozenForSeal
<1>9. FreezeAwaited'
  BY DEF FreezeAwaited
<1>10. SealsUnflushed'
  BY DEF SealsUnflushed
<1>11. SealedQuiet'
  BY DEF SealedQuiet
<1> QED BY <1>1, <1>2, <1>3, <1>4, <1>5, <1>6, <1>7, <1>8, <1>9, <1>10, <1>11

(* The guest thaws itself, but not between a freeze and its seal.          *)
LEMMA TimerKeeps ==
  ASSUME ControlConstants, ControlInv, Timer PROVE ControlInv'
<1> USE DEF ControlInv, ControlTypes, Timer, Thawed, vmVars, hostVars, At
<1>1. CaptureTypes' /\ DiskTypes' /\ PointTypes' /\ Stopping' /\ LockHeld' /\ CaptureWaits'
      /\ MonitorWaits' /\ PausedForSeal' /\ FreezeAwaited' /\ SealsUnflushed' /\
      SealedQuiet' /\ FencedStaysPaused'
  BY DEF CaptureTypes, DiskTypes, PointTypes, Stopping, LockHeld, CaptureWaits, MonitorWaits,
         PausedForSeal, FreezeAwaited, SealsUnflushed, SealedQuiet, FencedStaysPaused,
         Behind
<1>2. HostTypes'
  BY DEF HostTypes
<1>3. FrozenForSeal'
  BY DEF FrozenForSeal
<1> QED BY <1>1, <1>2, <1>3

(* A guest writes, or waits for space.                                     *)
LEMMA WriteKeeps ==
  ASSUME ControlConstants, NEW f \in BOOLEAN, ControlInv, Write(f) PROVE ControlInv'
<1>1. DiskTypes' /\ writer' \in BOOLEAN
  BY DEF ControlInv, ControlTypes, DiskTypes, HostTypes, Write
<1>2. left' \in 0 .. MaxMishaps
  BY MishapsLeft DEF ControlInv, ControlTypes, HostTypes, Write
<1> QED BY <1>1, <1>2, JournalKeeps DEF Write

(* A write that waited is admitted.                                        *)
LEMMA WriteAdmittedKeeps ==
  ASSUME ControlConstants, ControlInv, WriteAdmitted PROVE ControlInv'
<1>1. DiskTypes' /\ writer' \in BOOLEAN
  BY DEF ControlInv, ControlTypes, DiskTypes, HostTypes, WriteAdmitted
<1>2. left' \in 0 .. MaxMishaps
  BY MishapsLeft DEF ControlInv, ControlTypes, HostTypes, WriteAdmitted
<1> QED BY <1>1, <1>2, JournalKeeps DEF WriteAdmitted

(* The journal is older than its publications should leave it.             *)
LEMMA AgesKeeps ==
  ASSUME ControlConstants, ControlInv, Ages PROVE ControlInv'
<1>1. DiskTypes' /\ writer' \in BOOLEAN
  BY DEF ControlInv, ControlTypes, DiskTypes, HostTypes, Ages
<1>2. left' \in 0 .. MaxMishaps
  BY MishapsLeft DEF ControlInv, ControlTypes, HostTypes, Ages
<1> QED BY <1>1, <1>2, JournalKeeps DEF Ages

(* The pause for the lag has lasted.                                       *)
LEMMA LagElapsesKeeps ==
  ASSUME ControlConstants, ControlInv, LagElapses PROVE ControlInv'
<1>1. DiskTypes' /\ writer' \in BOOLEAN
  BY DEF ControlInv, ControlTypes, DiskTypes, HostTypes, LagElapses
<1>2. left' \in 0 .. MaxMishaps
  BY MishapsLeft DEF ControlInv, ControlTypes, HostTypes, LagElapses
<1> QED BY <1>1, <1>2, JournalKeeps DEF LagElapses

(* A read waits for the object storage.                                    *)
LEMMA WaitsKeeps ==
  ASSUME ControlConstants, ControlInv, Waits PROVE ControlInv'
<1>1. DiskTypes' /\ writer' \in BOOLEAN
  BY DEF ControlInv, ControlTypes, DiskTypes, HostTypes, Waits
<1>2. left' \in 0 .. MaxMishaps
  BY MishapsLeft DEF ControlInv, ControlTypes, HostTypes, Waits
<1> QED BY <1>1, <1>2, JournalKeeps DEF Waits

(* The object storage answers.                                             *)
LEMMA AnswersKeeps ==
  ASSUME ControlConstants, ControlInv, Answers PROVE ControlInv'
<1>1. DiskTypes' /\ writer' \in BOOLEAN
  BY DEF ControlInv, ControlTypes, DiskTypes, HostTypes, Answers
<1>2. left' \in 0 .. MaxMishaps
  BY MishapsLeft DEF ControlInv, ControlTypes, HostTypes, Answers
<1> QED BY <1>1, <1>2, JournalKeeps DEF Answers

(* A failed read marks the disk.                                           *)
LEMMA ReadFailsKeeps ==
  ASSUME ControlConstants, ControlInv, ReadFails PROVE ControlInv'
<1>1. DiskTypes' /\ writer' \in BOOLEAN
  BY DEF ControlInv, ControlTypes, DiskTypes, HostTypes, ReadFails
<1>2. left' \in 0 .. MaxMishaps
  BY MishapsLeft DEF ControlInv, ControlTypes, HostTypes, ReadFails
<1> QED BY <1>1, <1>2, JournalKeeps DEF ReadFails

(* A published point is forgotten by the node.                             *)
LEMMA PublishPointKeeps ==
  ASSUME ControlConstants, ControlInv, PublishPoint PROVE ControlInv'
<1>1. DiskTypes' /\ writer' \in BOOLEAN
  BY DEF ControlInv, ControlTypes, DiskTypes, HostTypes, PublishPoint
<1>2. left' \in 0 .. MaxMishaps
  BY MishapsLeft DEF ControlInv, ControlTypes, HostTypes, PublishPoint
<1> QED BY <1>1, <1>2, JournalKeeps DEF PublishPoint

(* Nothing happens.                                                        *)
LEMMA StutterKeeps == ASSUME ControlInv, UNCHANGED controlVars PROVE ControlInv'
  BY DEF ControlInv, ControlTypes, HostTypes, CaptureTypes, DiskTypes, PointTypes, Stopping,
         LockHeld, CaptureWaits, MonitorWaits, Behind, PausedForSeal, FrozenForSeal,
         FreezeAwaited, SealsUnflushed, SealedQuiet, FencedStaysPaused, At, controlVars,
         vmVars, hostVars, fsVars

(* The initial state satisfies the invariant: nothing is queued and no     *)
(* capture runs.                                                           *)
LEMMA ControlStarts == ASSUME ControlConstants, ControlInit PROVE ControlInv
<1> USE DEF ControlInit
<1>1. HostTypes
  <2>1. <<>> \in Seq(Requests)
    OBVIOUS
  <2>2. 0 \in 0 .. MaxThaws /\ MaxMishaps \in 0 .. MaxMishaps
    BY DEF ControlConstants
  <2> QED BY <2>1, <2>2 DEF HostTypes, States
<1>2. CaptureTypes /\ DiskTypes /\ PointTypes
  BY DEF CaptureTypes, CapturePcs, NoCapture, DiskTypes, PointTypes, NoPoint
<1>3. Stopping /\ LockHeld /\ FrozenForSeal /\ FreezeAwaited /\ SealsUnflushed
  BY DEF Stopping, LockHeld, FrozenForSeal, FreezeAwaited, SealsUnflushed, NoCapture, At
<1>4. CaptureWaits /\ MonitorWaits /\ PausedForSeal
  BY DEF CaptureWaits, MonitorWaits, PausedForSeal, NoCapture, At
<1>5. SealedQuiet /\ FencedStaysPaused
  BY DEF SealedQuiet, FencedStaysPaused, NoPoint
<1> QED BY <1>1, <1>2, <1>3, <1>4, <1>5 DEF ControlInv, ControlTypes

(* Every step of the host, of the VMM and of the guest keeps the           *)
(* invariant.                                                              *)
LEMMA ControlStep ==
  ASSUME ControlConstants, ControlInv, [ControlNext]_controlVars PROVE ControlInv'
<1>1. CASE ServeApi \/ MonitorStep
  BY <1>1, ServeApiKeeps, MonitorKeeps, MonitorConfirmedKeeps, PauseLostKeeps DEF MonitorStep
<1>2. CASE CaptureStep
  BY <1>2, SettleKeeps, WokenKeeps, FreezeSentKeeps, SealKeeps, ResumedKeeps, UnlockKeeps,
     ThawKeeps, ThawLaterKeeps, ThawStoppedKeeps DEF CaptureStep
<1>3. CASE GiveUp
  BY <1>3, SettleFailsKeeps, FreezeUnansweredKeeps, CallerGoneKeeps DEF GiveUp
<1>4. CASE Trouble
  BY <1>4, MonitorLostKeeps, SettleLostKeeps, PauseRefusedKeeps, ThawKeeps, ThawLaterKeeps,
     LeaseLostKeeps, WaitsKeeps, ReadFailsKeeps, AgesKeeps DEF Trouble
<1>5. CASE \E f \in BOOLEAN : CaptureStart(f) \/ Write(f)
  BY <1>5, CaptureStartKeeps, WriteKeeps
<1>6. CASE FreezeDone \/ Timer \/ WriteAdmitted \/ LagElapses \/ Answers \/ PublishPoint
  BY <1>6, FreezeDoneKeeps, TimerKeeps, WriteAdmittedKeeps, LagElapsesKeeps, AnswersKeeps,
     PublishPointKeeps
<1>7. CASE UNCHANGED controlVars
  BY <1>7, StutterKeeps
<1> QED BY <1>1, <1>2, <1>3, <1>4, <1>5, <1>6, <1>7 DEF ControlNext

(* Whatever answers are lost and however late the requests are served, a   *)
(* point published as consistent was sealed on a paused VM with frozen     *)
(* file systems, and the CPUs of a VM without a lease stay paused.         *)
THEOREM PointsQuiet == ControlSpec => []QuietAndFenced
<1>1. ControlInit => ControlInv
  BY ControlConstants, ControlStarts
<1>2. ControlInv /\ [ControlNext]_controlVars => ControlInv'
  BY ControlConstants, ControlStep
<1>3. ControlInv => QuietAndFenced
  BY DEF ControlInv, QuietAndFenced
<1> QED BY <1>1, <1>2, <1>3, PTL DEF ControlSpec

----------------------------------------
(***************************************************************************)
(* The calls to a node.                                                    *)
(***************************************************************************)

(* The types of the relay.                                                 *)
Call == [kind : Kinds \cup {"none"}, seq : Nat, head : BOOLEAN, streaming : BOOLEAN]
Reader == [pc : {"none", "head", "body", "done", "failed"}, got : Seq(Nat), ok : BOOLEAN]
Task == [pc : {"none", "start", "refuse", "accept", "send", "await", "last", "upload", "over"},
         seq : Nat]
Posted == [id : Ids, seq : Nat, at : {"arrived", "reserve"}, copy : {1, 2}, ok : BOOLEAN,
           done : BOOLEAN]
Results == {"none", "arrived", "unread"}
RelayTypes ==
  /\ call \in [Ids -> Call] /\ reader \in [Ids -> Reader] /\ task \in [Ids -> Task]
  /\ chan \in [Ids -> Seq(Nat)] /\ ran \in [Ids -> Nat]
  /\ open \subseteq Ids /\ queue \in Seq(Ids) /\ post \subseteq Posted
  /\ result \in [Ids -> Results]

(* The queue holds open calls that no poll took, each once.                *)
Queued ==
  /\ \A i \in DOMAIN queue : queue[i] \in open /\ task[queue[i]].pc = "none"
  /\ \A i, j \in DOMAIN queue : i # j => queue[i] # queue[j]

(* A frame is the only one of its answer, or one of the numbered frames of *)
(* a command the controller accepted; it reserves room only for the number *)
(* that was expected or for an earlier one; and the end of a wait is       *)
(* posted after the node looked for the result.                            *)
Short(p) == p.seq = 0 /\ p.done /\ (p.ok => call[p.id].kind = "prepare")
Full(p) == /\ p.ok /\ call[p.id].kind # "prepare" /\ p.seq <= End
           /\ p.done <=> p.seq = End
FrameFits(p) ==
  /\ Short(p) \/ Full(p)
  /\ p.at = "reserve" => p.seq <= call[p.id].seq
  /\ p.seq = End /\ call[p.id].kind = "wait" => result[p.id] # "none"
  /\ task[p.id].pc # "none"
Frames == \A p \in post : FrameFits(p)

(* The task of a call runs its command once, and posts what it should.     *)
TaskFits(c, t) ==
  /\ ran[c] <= 1 /\ (t.pc \in {"none", "start"} => ran[c] = 0)
  /\ t.pc \in {"none", "start", "refuse", "accept"} => t.seq = 0
  /\ t.pc = "accept" => call[c].kind = "prepare"
  /\ t.pc \in {"send", "await", "upload"} => call[c].kind # "prepare" /\ t.seq <= End
  /\ t.pc = "upload" => call[c].streaming /\ t.seq >= 1
  /\ call[c].streaming => call[c].kind = "bulk"

(* Of an answer, the chunks read and those in the channel are the first    *)
(* ones, in order, as many as the next number to publish or to upload      *)
(* says; or the answer is a refusal, or a prepared attempt, without any.   *)
Whole(c) == reader[c].ok /\ call[c].kind # "prepare"
SentLen(c) == Len(reader[c].got) + Len(chan[c])
InOrder(c) ==
  /\ \A i \in 1 .. Len(reader[c].got) : reader[c].got[i] = i
  /\ \A i \in 1 .. Len(chan[c]) : chan[c][i] = Len(reader[c].got) + i
Unmade(c) ==
  /\ c \notin open /\ call[c] = NoCall /\ task[c] = NoTask /\ chan[c] = <<>>
  /\ reader[c] = NoReader
Waiting(c) ==
  /\ ~call[c].head /\ call[c].seq = 0 /\ ~call[c].streaming
  /\ reader[c].got = <<>> /\ chan[c] = <<>>
Receiving(c) ==
  /\ call[c].head
  /\ call[c].streaming => Whole(c)
  /\ c \in open /\ ~call[c].streaming =>
       Whole(c) /\ 1 <= call[c].seq /\ call[c].seq <= End /\ SentLen(c) = call[c].seq - 1
  /\ task[c].pc = "upload" => c \in open /\ SentLen(c) = task[c].seq - 1
  /\ Whole(c) => /\ InOrder(c) /\ SentLen(c) <= End
                 /\ SentLen(c) = End /\ call[c].kind = "wait" => result[c] # "none"
  /\ ~Whole(c) => reader[c].got = <<>> /\ chan[c] = <<End>>
Answered(c) ==
  /\ reader[c].got = IF reader[c].ok /\ call[c].kind # "prepare"
                     THEN [i \in 1 .. Chunks |-> i] ELSE <<>>
  /\ reader[c].ok /\ call[c].kind = "wait" => result[c] # "none"
CallSound(c) ==
  /\ reader[c].pc = "none" => Unmade(c)
  /\ reader[c].pc = "head" => Waiting(c)
  /\ reader[c].pc = "body" => Receiving(c)
  /\ reader[c].pc = "done" => Answered(c)
  /\ task[c].pc = "upload" => reader[c].pc \in {"body", "failed"}
  /\ c \in open => reader[c].pc \in {"head", "body"}
  /\ TaskFits(c, task[c])

(* The inductive invariant.                                                *)
RelayInv == RelayTypes /\ Queued /\ Frames /\ \A c \in Ids : CallSound(c)

(* The number of the end of an answer.                                     *)
LEMMA AnswerNumbers == Chunks \in Nat /\ End \in Nat /\ End = Chunks + 1
  BY RelayConstants DEF End

(* The invariant gives the property.                                       *)
LEMMA RelayInvHonest == RelayInv => CallsHonest
<1> SUFFICES ASSUME RelayInv PROVE CallsHonest
  OBVIOUS
<1>1. AnswerWhole
  BY DEF RelayInv, RelayTypes, Results, CallSound, Answered, AnswerWhole
<1>2. RunsOnce
  BY DEF RelayInv, CallSound, TaskFits, RunsOnce
<1>3. \A c \in open : reader[c].pc \in {"head", "body"}
  BY DEF RelayInv, RelayTypes, CallSound
<1>4. \A i \in 1 .. Len(queue) : queue[i] \in open
  BY DEF RelayInv, RelayTypes, Queued
<1> QED BY <1>1, <1>2, <1>3, <1>4 DEF CallsHonest, CallsGivenBack

(* A call that a step leaves alone stays sound.                            *)
LEMMA CallKept ==
  ASSUME RelayInv, NEW d \in Ids, call'[d] = call[d], chan'[d] = chan[d], reader'[d] = reader[d],
         task'[d] = task[d], ran'[d] = ran[d], d \in open' <=> d \in open,
         \A e \in Ids : result[e] # "none" => result'[e] # "none"
  PROVE  CallSound(d)'
<1>1. CallSound(d)
  BY DEF RelayInv
<1>2. /\ Unmade(d)' <=> Unmade(d)
      /\ Waiting(d)' <=> Waiting(d)
      /\ Whole(d)' <=> Whole(d)
      /\ InOrder(d)' <=> InOrder(d)
      /\ SentLen(d)' = SentLen(d)
  BY DEF Unmade, Waiting, Whole, InOrder, SentLen
<1>3. Receiving(d) => Receiving(d)'
  BY <1>2 DEF Receiving
<1>4. Answered(d) => Answered(d)'
  BY DEF Answered
<1>5. TaskFits(d, task[d]) => TaskFits(d, task[d])'
  BY DEF TaskFits
<1> QED BY <1>1, <1>2, <1>3, <1>4, <1>5 DEF CallSound

(* A call whose task alone moves, without starting an upload, stays sound. *)
LEMMA TaskKept ==
  ASSUME RelayInv, NEW d \in Ids, call'[d] = call[d], chan'[d] = chan[d], reader'[d] = reader[d],
         TaskFits(d, task[d])', \A e \in Ids : result[e] # "none" => result'[e] # "none",
         d \in open' => d \in open,
         reader[d].pc = "none" => task'[d] = NoTask,
         task'[d].pc = "upload" => task'[d] = task[d] /\ (d \in open => d \in open')
  PROVE  CallSound(d)'
<1>1. CallSound(d)
  BY DEF RelayInv
<1>2. /\ Waiting(d)' <=> Waiting(d)
      /\ Whole(d)' <=> Whole(d)
      /\ InOrder(d)' <=> InOrder(d)
      /\ SentLen(d)' = SentLen(d)
  BY DEF Waiting, Whole, InOrder, SentLen
<1>3. reader[d].pc = "none" => Unmade(d)'
  BY <1>1 DEF CallSound, Unmade
<1>4. Receiving(d) => Receiving(d)'
  BY <1>2 DEF Receiving
<1>5. Answered(d) => Answered(d)'
  BY DEF Answered
<1>6. task'[d].pc = "upload" => reader[d].pc \in {"body", "failed"}
  BY <1>1 DEF CallSound
<1> QED BY <1>1, <1>2, <1>3, <1>4, <1>5, <1>6 DEF CallSound

(* The frames that stay posted fit while call and result only grow.        *)
LEMMA FramesKept ==
  ASSUME RelayInv, \A e \in Ids : result[e] # "none" => result'[e] # "none",
         \A p \in post' : p \in post \/ (p \in Posted /\ FrameFits(p)'),
         \A c \in Ids : call'[c].kind = call[c].kind \/ (\A p \in post : p.id # c),
         \A c \in Ids : /\ call'[c].seq \in Nat
                        /\ call'[c].seq >= call[c].seq \/ \A p \in post : p.id # c,
         \A c \in Ids : task[c].pc # "none" => task'[c].pc # "none"
  PROVE  Frames' /\ post' \subseteq Posted
<1>1. post' \subseteq Posted
  BY DEF RelayInv, RelayTypes
<1>2. ASSUME NEW p \in post', p \in post PROVE FrameFits(p)'
  <2>1. FrameFits(p) /\ p.id \in Ids /\ p.seq \in Nat
    BY <1>2 DEF RelayInv, Frames, RelayTypes, Posted
  <2>2. call'[p.id].kind = call[p.id].kind
    BY <1>2, <2>1
  <2>3. call[p.id].seq \in Nat
    BY <2>1 DEF RelayInv, RelayTypes, Call
  <2>4. p.at = "reserve" => p.seq <= call'[p.id].seq
    BY <1>2, <2>1, <2>3 DEF FrameFits
  <2> QED BY <2>1, <2>2, <2>4 DEF FrameFits, Short, Full
<1>3. \A p \in post' : FrameFits(p)'
  BY <1>2
<1> QED BY <1>1, <1>3 DEF Frames

(* One task moves.                                                         *)
LEMMA OneTask ==
  ASSUME RelayInv, NEW c \in Ids, NEW new \in Task, task' = [task EXCEPT ![c] = new],
         UNCHANGED <<call, open, queue, chan, reader>>,
         \A e \in Ids : result[e] # "none" => result'[e] # "none",
         result' \in [Ids -> Results], ran' \in [Ids -> Nat], \A d \in Ids : d # c => ran'[d] = ran[d],
         task[c].pc # "none", new.pc # "none", new.pc = "upload" => new = task[c],
         TaskFits(c, new)',
         \A p \in post' : p \in post \/ (p \in Posted /\ FrameFits(p)')
  PROVE  RelayInv'
<1>1. task \in [Ids -> Task]
  BY DEF RelayInv, RelayTypes
<1>2. task' \in [Ids -> Task] /\ task'[c] = new /\ \A d \in Ids : d # c => task'[d] = task[d]
  BY <1>1
<1>3. Frames' /\ post' \subseteq Posted
  <2>1. \A d \in Ids : call[d].seq \in Nat
    BY DEF RelayInv, RelayTypes, Call
  <2> QED BY <1>2, <2>1, FramesKept
<1>4. Queued'
  <2>1. \A i \in DOMAIN queue : queue[i] \in Ids /\ queue[i] # c
    BY DEF RelayInv, RelayTypes, Queued
  <2> QED BY <1>2, <2>1 DEF RelayInv, Queued
<1>5. RelayTypes'
  BY <1>2, <1>3 DEF RelayInv, RelayTypes
<1>6. \A d \in Ids : d # c => CallSound(d)'
  BY <1>2, CallKept
<1>7. CallSound(c)'
  <2>1. reader[c].pc # "none"
    BY DEF RelayInv, CallSound, Unmade, NoTask
  <2>2. TaskFits(c, task[c])'
    BY <1>2 DEF TaskFits
  <2> QED BY <1>2, <2>1, <2>2, TaskKept
<1> QED BY <1>3, <1>4, <1>5, <1>6, <1>7 DEF RelayInv

(* The parts of the invariant at a call, at a task and at a frame.         *)
LEMMA RelayParts ==
  ASSUME RelayInv
  PROVE  /\ \A c \in Ids : /\ call[c] \in Call /\ task[c] \in Task /\ reader[c] \in Reader
                           /\ chan[c] \in Seq(Nat) /\ ran[c] \in Nat
                           /\ CallSound(c) /\ TaskFits(c, task[c])
         /\ \A p \in post : p \in Posted /\ p.id \in Ids /\ FrameFits(p) /\ task[p.id].pc # "none"
         /\ open \subseteq Ids
  BY DEF RelayInv, RelayTypes, CallSound, Frames, Posted, FrameFits

(* A task moves on without a new number.                                   *)
TaskStates ==
  {"none", "start", "refuse", "accept", "send", "await", "last", "upload", "over"}
TaskTo(c, pc) == task' = [task EXCEPT ![c].pc = pc]

(* Such a move, as the new value of the task.                              *)
LEMMA TaskMovesOn ==
  ASSUME RelayInv, NEW c \in Ids, NEW pc \in TaskStates, TaskTo(c, pc)
  PROVE  \E new \in Task : /\ task' = [task EXCEPT ![c] = new]
                           /\ new.pc = pc /\ new.seq = task[c].seq
<1>1. task[c] \in Task
  BY RelayParts
<1>2. PICK new \in Task : new = [task[c] EXCEPT !.pc = pc]
  BY <1>1 DEF Task, TaskStates
<1>3. new.pc = pc /\ new.seq = task[c].seq
  BY <1>1, <1>2 DEF Task
<1> QED BY <1>2, <1>3 DEF TaskTo

(* The command reaches the controller; it answers or does not.             *)
LEMMA ForwardKeeps ==
  ASSUME RelayInv, NEW c \in Ids, NEW answers \in BOOLEAN, Forward(c, answers)
  PROVE  RelayInv'
<1>1. task[c].pc = "start" /\ call[c].kind # "prepare" /\ task[c] \in Task
      /\ TaskFits(c, task[c]) /\ call[c] \in Call /\ ran[c] \in Nat
  BY RelayParts DEF Forward
<1>2. PICK new \in Task : /\ task' = [task EXCEPT ![c] = new] /\ new.seq = task[c].seq
                          /\ new.pc \in {"send", "refuse"}
  <2>1. PICK pc \in {"send", "refuse"} : TaskTo(c, pc)
    BY DEF Forward, TaskTo
  <2>2. PICK new \in Task : /\ task' = [task EXCEPT ![c] = new]
                             /\ new.pc = pc /\ new.seq = task[c].seq
    <3>1. pc \in TaskStates
      BY DEF TaskStates
    <3> QED BY <2>1, <3>1, TaskMovesOn
  <2> QED BY <2>2
<1>3. /\ ran' \in [Ids -> Nat] /\ ran'[c] = ran[c] + 1
      /\ \A d \in Ids : d # c => ran'[d] = ran[d]
  BY <1>1 DEF Forward, RelayInv, RelayTypes
<1>4. TaskFits(c, new)'
  BY <1>1, <1>2, <1>3, AnswerNumbers DEF TaskFits, Forward
<1> QED BY <1>1, <1>2, <1>3, <1>4, OneTask DEF Forward, RelayInv, RelayTypes

(* A preparation goes through its stages, and is accepted at the end.      *)
LEMMA PrepareKeeps == ASSUME RelayInv, NEW c \in Ids, Prepare(c) PROVE RelayInv'
<1>1. task[c].pc = "start" /\ call[c].kind = "prepare" /\ task[c] \in Task
      /\ TaskFits(c, task[c]) /\ call[c] \in Call /\ ran[c] \in Nat
  BY RelayParts DEF Prepare
<1>0. task \in [Ids -> Task]
  BY DEF RelayInv, RelayTypes
<1>2. PICK new \in Task : /\ task' = [task EXCEPT ![c] = new] /\ new.seq = task[c].seq
                          /\ \/ new = task[c] /\ ran' = ran
                             \/ new.pc = "accept" /\ ran' = [ran EXCEPT ![c] = @ + 1]
  <2>1. CASE UNCHANGED <<task, ran>>
    <3>1. task = [task EXCEPT ![c] = task[c]]
      BY <1>0
    <3> QED BY <1>1, <2>1, <3>1
  <2>2. CASE /\ task' = [task EXCEPT ![c].pc = "accept"]
             /\ ran' = [ran EXCEPT ![c] = @ + 1]
    BY <2>2, TaskMovesOn, ZenonT(40) DEF TaskTo, TaskStates
  <2> QED BY <2>1, <2>2 DEF Prepare
<1>3. /\ ran' \in [Ids -> Nat] /\ (ran'[c] = ran[c] \/ (ran'[c] = ran[c] + 1 /\ new.pc = "accept"))
      /\ \A d \in Ids : d # c => ran'[d] = ran[d]
  <2>1. ran \in [Ids -> Nat]
    BY DEF RelayInv, RelayTypes
  <2>2. CASE ran' = ran
    BY <2>1, <2>2
  <2>3. CASE new.pc = "accept" /\ ran' = [ran EXCEPT ![c] = @ + 1]
    BY <1>1, <2>1, <2>3
  <2> QED BY <1>2, <2>2, <2>3
<1>4. TaskFits(c, new)'
  BY <1>1, <1>2, <1>3 DEF TaskFits, Prepare, RelayInv, RelayTypes
<1> QED BY <1>1, <1>2, <1>3, <1>4, OneTask DEF Prepare, RelayInv, RelayTypes

(* A preparation that fails is refused.                                    *)
LEMMA PrepareFailsKeeps == ASSUME RelayInv, NEW c \in Ids, PrepareFails(c) PROVE RelayInv'
<1>1. task[c].pc = "start" /\ task[c] \in Task /\ TaskFits(c, task[c])
  BY RelayParts DEF PrepareFails
<1>2. PICK new \in Task : /\ task' = [task EXCEPT ![c] = new] /\ new.seq = task[c].seq
                          /\ new.pc = "refuse"
  BY TaskMovesOn, ZenonT(40) DEF TaskTo, PrepareFails, TaskStates
<1>3. TaskFits(c, new)'
  BY <1>1, <1>2 DEF TaskFits, PrepareFails
<1> QED BY <1>1, <1>2, <1>3, OneTask DEF PrepareFails, RelayInv, RelayTypes

(* What a frame says follows from its number and from how its task began;  *)
(* the end of a wait is held back until its node looked for the result.    *)
LEMMA PostKeeps == ASSUME RelayInv, NEW c \in Ids, Post(c) PROVE RelayInv'
<1>1. /\ task[c].pc \in {"refuse", "accept", "send"} /\ task[c] \in Task /\ TaskFits(c, task[c])
      /\ task[c].pc = "send" => ~(call[c].kind = "wait" /\ task[c].seq = End /\ result[c] = "none")
      /\ task[c].seq \in Nat
  BY RelayParts DEF Post, Task
<1>2. PICK new \in Task : /\ task' = [task EXCEPT ![c] = new] /\ new.seq = task[c].seq
                          /\ \/ new.pc = "await" /\ task[c].pc = "send"
                             \/ new.pc = "last" /\ task[c].pc # "send"
  <2>1. CASE task[c].pc = "send"
    <3>1. task' = [task EXCEPT ![c].pc = "await"]
      BY <2>1 DEF Post, RelayInv, RelayTypes
    <3> QED BY <2>1, <3>1, TaskMovesOn, ZenonT(40) DEF TaskTo, TaskStates
  <2>2. CASE task[c].pc # "send"
    <3>1. task' = [task EXCEPT ![c].pc = "last"]
      BY <2>2 DEF Post, RelayInv, RelayTypes
    <3> QED BY <2>2, <3>1, TaskMovesOn, ZenonT(40) DEF TaskTo, TaskStates
  <2> QED BY <2>1, <2>2
<1>3. TaskFits(c, new)'
  BY <1>1, <1>2 DEF TaskFits, Post
<1>4. PICK f \in Posted : f = Frame(c)
  <2>1. Frame(c) \in Posted
    BY <1>1 DEF Frame, Posted
  <2> QED BY <2>1
<1>5. /\ f.id = c /\ f.seq = task[c].seq /\ f.at = "arrived"
      /\ f.ok <=> task[c].pc # "refuse"
      /\ f.done <=> task[c].pc \in {"refuse", "accept"} \/ task[c].seq = End
  BY <1>4 DEF Frame
<1>6. (Short(f) \/ Full(f))'
  BY <1>1, <1>5 DEF TaskFits, Short, Full, Post
<1>7. task'[c].pc # "none"
  BY <1>2 DEF RelayInv, RelayTypes
<1>8. FrameFits(f)'
  <2>1. f.seq = End /\ call[c].kind = "wait" => result[c] # "none"
    BY <1>1, <1>5, AnswerNumbers DEF TaskFits
  <2> QED BY <1>5, <1>6, <1>7, <2>1 DEF FrameFits, Post
<1>9. \A p \in post' : p \in post \/ (p \in Posted /\ FrameFits(p)')
  <2>1. \A p \in post' : p \in post \/ p = f
    BY <1>4 DEF Post
  <2> QED BY <1>8, <2>1
<1> QED BY <1>1, <1>2, <1>3, <1>9, OneTask DEF Post, RelayInv, RelayTypes

(* The result of an attempt arrives, or cannot be read.                    *)
LEMMA ResultKeeps ==
  ASSUME RelayInv, NEW c \in Ids, NEW readable \in BOOLEAN, Result(c, readable)
  PROVE  RelayInv'
<1>1. task[c].pc = "send" /\ task[c] \in Task /\ TaskFits(c, task[c]) /\ task \in [Ids -> Task]
  BY RelayParts DEF Result, RelayInv, RelayTypes
<1>2. task' = [task EXCEPT ![c] = task[c]]
  BY <1>1 DEF Result
<1>3. TaskFits(c, task[c])'
  BY <1>1 DEF TaskFits, Result
<1>4. ran' \in [Ids -> Nat]
  BY DEF Result, RelayInv, RelayTypes
<1>5. PICK new \in Task : new = task[c]
  BY <1>1
<1>6. TaskFits(c, new)'
  BY <1>1, <1>5 DEF TaskFits, Result
<1>7. UNCHANGED <<call, open, queue, chan, reader, ran, post>>
  BY DEF Result
<1>8. /\ result' \in [Ids -> Results]
      /\ \A e \in Ids : result[e] # "none" => result'[e] # "none"
  <2>1. PICK how \in {"arrived", "unread"} : result' = [result EXCEPT ![c] = how]
    BY DEF Result
  <2> QED BY <2>1 DEF RelayInv, RelayTypes, Results
<1> QED BY <1>1, <1>2, <1>4, <1>5, <1>6, <1>7, <1>8, OneTask

(* A frame arrives twice.                                                  *)
LEMMA DuplicateKeeps == ASSUME RelayInv, NEW p \in post, Duplicate(p) PROVE RelayInv'
<1>1. p \in Posted /\ p.id \in Ids /\ FrameFits(p) /\ task[p.id].pc # "none"
  BY RelayParts
<1>2. PICK new \in Task : new = task[p.id] /\ task' = [task EXCEPT ![p.id] = new]
                          /\ TaskFits(p.id, new)
  <2>1. task \in [Ids -> Task]
    BY DEF RelayInv, RelayTypes
  <2>2. task' = [task EXCEPT ![p.id] = task[p.id]]
    BY <1>1, <2>1 DEF Duplicate
  <2> QED BY <1>1, <2>2, RelayParts
<1>3. TaskFits(p.id, new)'
  BY <1>2 DEF TaskFits, Duplicate
<1>4. PICK q \in Posted : q = [p EXCEPT !.copy = 2, !.at = "arrived"]
  BY <1>1 DEF Posted
<1>5. q.id = p.id /\ q.seq = p.seq /\ q.ok = p.ok /\ q.done = p.done /\ q.at = "arrived"
  BY <1>1, <1>4 DEF Posted
<1>6. FrameFits(q)'
  BY <1>1, <1>2, <1>5 DEF FrameFits, Short, Full, Duplicate
<1>7. \A r \in post' : r \in post \/ (r \in Posted /\ FrameFits(r)')
  BY <1>4, <1>6 DEF Duplicate
<1>8. ran' \in [Ids -> Nat]
  BY DEF Duplicate, RelayInv, RelayTypes
<1> QED BY <1>1, <1>2, <1>3, <1>7, <1>8, OneTask DEF Duplicate, RelayInv, RelayTypes

(* The answer to a post moves its task on, unless it answers a copy.       *)
LEMMA PostAnswered ==
  ASSUME RelayInv, NEW p \in post, Acknowledged(p) \/ Refused(p)
  PROVE  \E new \in Task :
           /\ task' = [task EXCEPT ![p.id] = new]
           /\ new.pc # "none" /\ (new.pc = "upload" => new = task[p.id])
           /\ TaskFits(p.id, new)
<1>1. p.id \in Ids /\ task[p.id] \in Task /\ task[p.id].pc # "none"
      /\ TaskFits(p.id, task[p.id]) /\ task \in [Ids -> Task]
  BY RelayParts DEF RelayInv, RelayTypes
<1> DEFINE c == p.id
           t == task[p.id]
<1>2. CASE task' = task
  <2>1. task' = [task EXCEPT ![c] = t]
    BY <1>1, <1>2
  <2> QED BY <1>1, <2>1
<1>3. ASSUME NEW pc \in {"send", "over"}, t.pc \in {"await", "last"},
             task' = [task EXCEPT ![c] = [pc |-> pc, seq |-> t.seq + 1]],
             pc = "send" => t.pc = "await" /\ t.seq # End
      PROVE  \E new \in Task :
               /\ task' = [task EXCEPT ![p.id] = new]
               /\ new.pc # "none" /\ (new.pc = "upload" => new = task[p.id])
               /\ TaskFits(p.id, new)
  <2>1. t.seq \in Nat
    BY <1>1 DEF Task
  <2>2. PICK new \in Task : new = [pc |-> pc, seq |-> t.seq + 1]
    <3>1. [pc |-> pc, seq |-> t.seq + 1] \in Task
      BY <1>3, <2>1 DEF Task
    <3> QED BY <3>1
  <2>3. new.pc = pc /\ new.seq = t.seq + 1
    BY <2>2
  <2>4. TaskFits(c, new)
    BY <1>1, <1>3, <2>1, <2>3, AnswerNumbers DEF TaskFits
  <2> QED BY <1>3, <2>2, <2>3, <2>4
<1>4. ASSUME t.pc \in {"await", "last"}, task' = [task EXCEPT ![c].pc = "over"]
      PROVE  \E new \in Task :
               /\ task' = [task EXCEPT ![p.id] = new]
               /\ new.pc # "none" /\ (new.pc = "upload" => new = task[p.id])
               /\ TaskFits(p.id, new)
  <2>1. PICK new \in Task : task' = [task EXCEPT ![c] = new] /\ new.pc = "over"
                            /\ new.seq = t.seq
    <3>1. "over" \in TaskStates /\ TaskTo(p.id, "over")
      BY <1>4 DEF TaskStates, TaskTo
    <3> QED BY <1>1, <3>1, TaskMovesOn
  <2>2. TaskFits(c, new)
    BY <1>1, <1>4, <2>1 DEF TaskFits
  <2> QED BY <2>1, <2>2
<1>5. CASE Acknowledged(p)
  <2>1. CASE p.copy = 1 /\ t.pc = "await"
    <3>1. PICK pc \in {"send", "over"} :
            task' = [task EXCEPT ![c] = [pc |-> pc, seq |-> t.seq + 1]]
            /\ (pc = "send" => t.seq # End)
      BY <1>5, <2>1 DEF Acknowledged
    <3> QED BY <1>3, <2>1, <3>1
  <2>2. CASE p.copy = 1 /\ t.pc = "last"
    <3>1. task' = [task EXCEPT ![c].pc = "over"]
      BY <1>5, <2>2 DEF Acknowledged
    <3> QED BY <1>4, <2>2, <3>1
  <2>3. CASE ~(p.copy = 1 /\ t.pc \in {"await", "last"})
    BY <1>1, <1>2, <1>5, <2>3 DEF Acknowledged
  <2> QED BY <2>1, <2>2, <2>3
<1>6. CASE Refused(p)
  <2>1. CASE p.copy = 1 /\ t.pc \in {"await", "last"}
    <3>1. task' = [task EXCEPT ![c].pc = "over"]
      BY <1>6, <2>1 DEF Refused
    <3> QED BY <1>4, <2>1, <3>1
  <2>2. CASE ~(p.copy = 1 /\ t.pc \in {"await", "last"})
    <3>1. [task[c] EXCEPT !.pc = task[c].pc] = task[c]
      BY <1>1 DEF Task
    <3>2. task' = [task EXCEPT ![c].pc = task[c].pc]
      BY <1>6, <2>2 DEF Refused
    <3>3. task' = task
      BY <1>1, <3>1, <3>2
    <3> QED BY <1>2, <3>3
  <2> QED BY <2>1, <2>2
<1> QED BY <1>5, <1>6

(* A post is answered and nothing of it applied, or it reserves room.      *)
LEMMA UnappliedKeeps ==
  ASSUME RelayInv, NEW p \in post, Acknowledged(p) \/ Refused(p) \/ UNCHANGED task,
         \A q \in post' : q \in post \/ (q \in Posted /\ FrameFits(q)'),
         UNCHANGED <<call, open, queue, chan, reader, ran, result>>
  PROVE  RelayInv'
<1>1. p.id \in Ids /\ task[p.id].pc # "none" /\ task \in [Ids -> Task]
      /\ TaskFits(p.id, task[p.id]) /\ task[p.id] \in Task
  BY RelayParts DEF RelayInv, RelayTypes
<1>2. PICK new \in Task :
           /\ task' = [task EXCEPT ![p.id] = new]
           /\ new.pc # "none" /\ (new.pc = "upload" => new = task[p.id])
           /\ TaskFits(p.id, new)
  <2>1. CASE UNCHANGED task
    <3>1. task' = [task EXCEPT ![p.id] = task[p.id]]
      BY <1>1, <2>1
    <3> QED BY <1>1, <3>1
  <2> QED BY <2>1, PostAnswered
<1>3. TaskFits(p.id, new)'
  BY <1>2 DEF TaskFits
<1>4. ran' \in [Ids -> Nat] /\ result' \in [Ids -> Results]
  BY DEF RelayInv, RelayTypes
<1> QED BY <1>1, <1>2, <1>3, <1>4, OneTask

(* The number of a frame is compared with the one expected.                *)
LEMMA ArriveKeeps == ASSUME RelayInv, NEW p \in post, Arrive(p) PROVE RelayInv'
<1>1. p \in Posted /\ p.id \in Ids /\ FrameFits(p) /\ task[p.id].pc # "none"
      /\ call[p.id].seq \in Nat /\ p.seq \in Nat
  BY RelayParts DEF Posted, Call
<1>2. CASE post' = post \ {p} /\ (Refused(p) \/ Acknowledged(p))
  BY <1>2, UnappliedKeeps DEF Arrive
<1>3. CASE /\ ~(p.seq > call[p.id].seq) /\ UNCHANGED task
           /\ post' = (post \ {p}) \cup {[p EXCEPT !.at = "reserve"]}
  <2>1. PICK q \in Posted : q = [p EXCEPT !.at = "reserve"]
    BY <1>1 DEF Posted
  <2>2. q.id = p.id /\ q.seq = p.seq /\ q.ok = p.ok /\ q.done = p.done
    BY <1>1, <2>1 DEF Posted
  <2>3. p.seq <= call[p.id].seq
    BY <1>1, <1>3
  <2>4. FrameFits(q)'
    BY <1>1, <1>3, <2>2, <2>3 DEF FrameFits, Short, Full, Arrive
  <2>5. \A r \in post' : r \in post \/ (r \in Posted /\ FrameFits(r)')
    BY <1>3, <2>1, <2>4
  <2> QED BY <1>3, <2>5, UnappliedKeeps DEF Arrive
<1> QED BY <1>2, <1>3 DEF Arrive

(* A frame that finds no room is refused.                                  *)
LEMMA StalledKeeps == ASSUME RelayInv, NEW p \in post, Stalled(p) PROVE RelayInv'
  BY UnappliedKeeps DEF Stalled
(* A nonempty set of numbers has a least one, which Min is.                *)
LEMMA LeastNumber ==
  ASSUME NEW T, T \subseteq Nat, T # {}
  PROVE  Min(T) \in T /\ \A y \in T : Min(T) <= y
<1>1. PICK x \in T : \A y \in T : ~(<<y, x>> \in OpToRel(<, Nat))
  BY WFMin, NatLessThanWellFounded, Zenon
<1>2. \A y \in T : ~(y < x)
  BY <1>1 DEF OpToRel
<1>3. x \in T /\ \A y \in T : x <= y
  BY <1>2
<1> QED BY <1>3 DEF Min

(* Removing a value from a queue without repetitions removes every         *)
(* occurrence of it, and keeps the order of the others.                    *)
LEMMA Removed ==
  ASSUME NEW S, NEW s \in Seq(S), NEW i
  PROVE  /\ RemoveFirst(s, i) \in Seq(S)
         /\ Len(RemoveFirst(s, i)) <= Len(s)
         /\ \A n \in DOMAIN RemoveFirst(s, i) : \E m \in DOMAIN s : RemoveFirst(s, i)[n] = s[m]
         /\ (\A n, m \in DOMAIN s : n # m => s[n] # s[m]) =>
              /\ \A n \in DOMAIN RemoveFirst(s, i) : RemoveFirst(s, i)[n] # i
              /\ \A n, m \in DOMAIN RemoveFirst(s, i) :
                   n # m => RemoveFirst(s, i)[n] # RemoveFirst(s, i)[m]
<1>1. CASE ~\E k \in 1 .. Len(s) : s[k] = i
  <2>1. RemoveFirst(s, i) = s
    BY <1>1 DEF RemoveFirst
  <2> QED BY <2>1, <1>1
<1>2. CASE \E k \in 1 .. Len(s) : s[k] = i
  <2> DEFINE N == {k \in 1 .. Len(s) : s[k] = i}
             h == SubSeq(s, 1, Min(N) - 1)
             t == SubSeq(s, Min(N) + 1, Len(s))
  <2>1. N # {} /\ N \subseteq Nat
    BY <1>2
  <2>2. Min(N) \in 1 .. Len(s) /\ s[Min(N)] = i
    BY <2>1, LeastNumber
  <2>3. RemoveFirst(s, i) = h \o t
    BY <1>2, <2>1 DEF RemoveFirst, RemoveAt, SelectInSeq
  <2>4. PICK k \in 1 .. Len(s) : k = Min(N)
    BY <2>2
  <2> HIDE DEF N
  <2>5. /\ h \in Seq(S) /\ Len(h) = k - 1
        /\ \A n \in 1 .. k - 1 : h[n] = s[n]
    <3>1. \A n \in 1 .. k - 1 : s[n] \in S
      OBVIOUS
    <3>2. k - 1 \in Int
      OBVIOUS
    <3> QED BY <2>4, <3>1, <3>2, SubSeqProperties
  <2>6. /\ t \in Seq(S) /\ Len(t) = Len(s) - k
        /\ \A n \in 1 .. Len(s) - k : t[n] = s[n + k]
    <3>1. \A n \in k + 1 .. Len(s) : s[n] \in S
      OBVIOUS
    <3>2. k + 1 \in Int /\ Len(s) \in Int
      OBVIOUS
    <3>3. /\ t \in Seq(S) /\ Len(t) = IF k + 1 <= Len(s) THEN Len(s) - (k + 1) + 1 ELSE 0
          /\ \A n \in 1 .. Len(s) - (k + 1) + 1 : t[n] = s[(k + 1) + n - 1]
      BY <2>4, <3>1, <3>2, SubSeqProperties
    <3> QED BY <3>3, SMTT(30)
  <2> HIDE DEF h, t
  <2>7. /\ h \o t \in Seq(S) /\ Len(h \o t) = Len(s) - 1
        /\ \A n \in 1 .. Len(s) - 1 : (h \o t)[n] = IF n < k THEN s[n] ELSE s[n + 1]
    <3>1. /\ h \o t \in Seq(S) /\ Len(h \o t) = Len(h) + Len(t)
          /\ \A n \in 1 .. Len(h) + Len(t) :
               (h \o t)[n] = IF n <= Len(h) THEN h[n] ELSE t[n - Len(h)]
      BY <2>5, <2>6, ConcatProperties
    <3> QED BY <3>1, <2>5, <2>6
  <2>8. PICK w \in Seq(S) : w = h \o t
    BY <2>7
  <2>9. DOMAIN w = 1 .. Len(s) - 1 /\ Len(w) = Len(s) - 1
    BY <2>7, <2>8
  <2>10. \A n \in DOMAIN w : \E m \in DOMAIN s :
           w[n] = s[m] /\ m = (IF n < k THEN n ELSE n + 1)
    <3>1. \A n \in 1 .. Len(s) - 1 : w[n] = IF n < k THEN s[n] ELSE s[n + 1]
      BY <2>7, <2>8
    <3>2. \A n \in 1 .. Len(s) - 1 : n < k => w[n] = s[n] /\ n \in DOMAIN s
      BY <3>1
    <3>3. \A n \in 1 .. Len(s) - 1 : ~(n < k) => w[n] = s[n + 1] /\ n + 1 \in DOMAIN s
      BY <3>1
    <3>4. DOMAIN w = 1 .. Len(s) - 1
      BY <2>9
    <3> QED BY <3>2, <3>3, <3>4, Zenon
  <2>11. s[k] = i
    BY <2>2, <2>4
  <2>12. (\A n, m \in DOMAIN s : n # m => s[n] # s[m]) =>
           /\ \A n \in DOMAIN w : w[n] # i
           /\ \A n, m \in DOMAIN w : n # m => w[n] # w[m]
    BY <2>10, <2>11, <2>9, SMTT(30)
  <2>13. RemoveFirst(s, i) = w
    BY <2>3, <2>8
  <2>14. w \in Seq(S) /\ Len(w) <= Len(s)
    BY <2>8, <2>9
  <2>15. \A n \in DOMAIN w : \E m \in DOMAIN s : w[n] = s[m]
    BY <2>10
  <2> QED BY <2>12, <2>13, <2>14, <2>15, Zenon
<1> QED BY <1>1, <1>2


(* A shorter queue, of what the queue held: one call left it, or the first *)
(* was taken.                                                              *)
Shorter ==
  /\ queue' \in Seq(Ids)
  /\ \A i \in DOMAIN queue' : \E j \in DOMAIN queue : queue'[i] = queue[j]
  /\ \A i, j \in DOMAIN queue' : i # j => queue'[i] # queue'[j]
(* A call that is given back leaves the queue.                             *)
LEMMA DroppedShorter ==
  ASSUME RelayInv, NEW c \in Ids, Dropped(c)
  PROVE  Shorter /\ (\A i \in DOMAIN queue' : queue'[i] # c) /\ open' = open \ {c}
<1>1. queue \in Seq(Ids) /\ (\A i, j \in DOMAIN queue : i # j => queue[i] # queue[j])
  BY DEF RelayInv, RelayTypes, Queued
<1>2. queue' = RemoveFirst(queue, c) /\ open' = open \ {c}
  BY DEF Dropped
<1> QED BY <1>1, <1>2, Removed DEF Shorter

(* A poll takes the first of the queue, which holds it once.               *)
LEMMA TailShorter ==
  ASSUME RelayInv, queue # <<>>, queue' = Tail(queue)
  PROVE  Shorter /\ (\A i \in DOMAIN queue' : queue'[i] # Head(queue)) /\ Head(queue) = queue[1]
         /\ 1 \in DOMAIN queue
<1>1. queue \in Seq(Ids) /\ (\A i, j \in DOMAIN queue : i # j => queue[i] # queue[j])
  BY DEF RelayInv, RelayTypes, Queued
<1>2. /\ queue' \in Seq(Ids) /\ Len(queue') = Len(queue) - 1 /\ Len(queue) \in Nat \ {0}
      /\ \A i \in 1 .. Len(queue') : queue'[i] = queue[i + 1]
  BY <1>1, HeadTailProperties, EmptySeq
<1>3. DOMAIN queue = 1 .. Len(queue) /\ DOMAIN queue' = 1 .. Len(queue')
  BY <1>1, <1>2
<1>4. \A i \in DOMAIN queue' : i + 1 \in DOMAIN queue /\ i + 1 # 1 /\ queue'[i] = queue[i + 1]
  BY <1>2, <1>3
<1>5. 1 \in DOMAIN queue /\ Head(queue) = queue[1]
  BY <1>1, <1>2, <1>3
<1>6. \A i, j \in DOMAIN queue' : i # j => i + 1 # j + 1
  BY <1>2, <1>3
<1> QED BY <1>1, <1>2, <1>4, <1>5, <1>6 DEF Shorter

(* A queue that does not change.                                           *)
LEMMA SameShorter == ASSUME RelayInv, UNCHANGED queue PROVE Shorter
  BY DEF RelayInv, RelayTypes, Queued, Shorter

(* Tasks end, or one begins; calls are given back: nothing else happens.   *)
LEMMA TasksMove ==
  ASSUME RelayInv, UNCHANGED <<call, chan, reader, ran, post, result>>, Shorter,
         task' \in [Ids -> Task], open' \subseteq open,
         \A i \in DOMAIN queue' : queue'[i] \in open => queue'[i] \in open'
                                  /\ task'[queue'[i]] = task[queue'[i]],
         \A d \in Ids : TaskFits(d, task'[d]),
         \A d \in Ids : d \notin open /\ task[d] = NoTask => task'[d] = NoTask,
         \A d \in Ids : task[d].pc # "none" => task'[d].pc # "none",
         \A d \in Ids : task'[d].pc = "upload" => task'[d] = task[d] /\ (d \in open => d \in open')
  PROVE  RelayInv'
<1>1. Frames' /\ post' \subseteq Posted
  <2>1. \A d \in Ids : call[d].seq \in Nat
    BY DEF RelayInv, RelayTypes, Call
  <2> QED BY <2>1, FramesKept
<1>2. RelayTypes'
  BY <1>1 DEF RelayInv, RelayTypes, Shorter
<1>3. Queued'
  BY DEF Shorter, RelayInv, Queued
<1>4. \A d \in Ids : TaskFits(d, task[d])'
  BY DEF TaskFits
<1>5. \A d \in Ids : reader[d].pc = "none" => task'[d] = NoTask
  BY DEF RelayInv, CallSound, Unmade
<1>6. \A d \in Ids : CallSound(d)'
  BY <1>4, <1>5, TaskKept
<1> QED BY <1>1, <1>2, <1>3, <1>6 DEF RelayInv

(* A poll takes a command, and its answer arrives or is lost.              *)
LEMMA PollKeeps == ASSUME RelayInv, NEW lost \in BOOLEAN, Poll(lost) PROVE RelayInv'
<1>1. queue # <<>> /\ Head(queue) \in open /\ queue' = Tail(queue)
  BY DEF Poll
<1> DEFINE h == Head(queue)
<1>2. Shorter /\ (\A i \in DOMAIN queue' : queue'[i] # h) /\ h = queue[1] /\ 1 \in DOMAIN queue
  BY <1>1, TailShorter
<1>3. h \in Ids /\ task[h].pc = "none" /\ task[h] \in Task /\ TaskFits(h, task[h])
  BY <1>1, <1>2, RelayParts DEF RelayInv, Queued
<1>4. PICK new \in Task : new = [task[h] EXCEPT !.pc = "start"]
  BY <1>3 DEF Task
<1>5. new.pc = "start" /\ new.seq = task[h].seq
  BY <1>3, <1>4 DEF Task
<1>6. task' = task \/ task' = [task EXCEPT ![h] = new]
  BY <1>4 DEF Poll
<1>7. task \in [Ids -> Task]
  BY DEF RelayInv, RelayTypes
<1>8. /\ task' \in [Ids -> Task] /\ (\A d \in Ids : d # h => task'[d] = task[d])
      /\ task'[h] = task[h] \/ task'[h] = new
  BY <1>3, <1>6, <1>7
<1>9. TaskFits(h, new)
  BY <1>3, <1>5 DEF TaskFits
<1>10. \A d \in Ids : TaskFits(d, task'[d])
  BY <1>8, <1>9, RelayParts
<1>11. \A i \in DOMAIN queue' : queue'[i] \in Ids
  BY <1>2 DEF Shorter
<1> HIDE DEF h
<1> QED BY <1>1, <1>2, <1>3, <1>5, <1>8, <1>10, <1>11, TasksMove DEF Poll

(* A task that is over.                                                    *)
LEMMA TaskOver ==
  ASSUME RelayInv, NEW c \in Ids, task[c].pc # "none", TaskTo(c, "over"),
         UNCHANGED <<call, chan, reader, post, ran, result>>, Shorter,
         open' = open \/ (open' = open \ {c} /\ (\A i \in DOMAIN queue' : queue'[i] # c))
  PROVE  RelayInv'
<1>1. task \in [Ids -> Task] /\ TaskFits(c, task[c])
  BY RelayParts DEF RelayInv, RelayTypes
<1>2. PICK new \in Task : /\ task' = [task EXCEPT ![c] = new]
                          /\ new.pc = "over" /\ new.seq = task[c].seq
  <2>1. "over" \in TaskStates
    BY DEF TaskStates
  <2> QED BY <2>1, TaskMovesOn
<1>3. task' \in [Ids -> Task] /\ task'[c] = new /\ (\A d \in Ids : d # c => task'[d] = task[d])
  BY <1>1, <1>2
<1>4. TaskFits(c, new)
  BY <1>1, <1>2 DEF TaskFits
<1>5. \A d \in Ids : TaskFits(d, task'[d])
  BY <1>3, <1>4, RelayParts
<1>6. \A i \in DOMAIN queue' : queue'[i] \in Ids /\ task[queue'[i]].pc = "none"
  BY DEF Shorter, RelayInv, Queued
<1> QED BY <1>2, <1>3, <1>5, <1>6, TasksMove DEF NoTask

(* A task that fails gives its upload back.                                *)
LEMMA TaskFailsKeeps == ASSUME RelayInv, NEW c \in Ids, TaskFails(c) PROVE RelayInv'
<1>1. TaskTo(c, "over") /\ task[c].pc # "none"
  BY DEF TaskFails, TaskTo
<1> QED BY <1>1, TaskOver, DroppedShorter, SameShorter DEF TaskFails

(* An upload nobody reads is given back.                                   *)
LEMMA StreamRefusedKeeps == ASSUME RelayInv, NEW c \in Ids, StreamRefused(c) PROVE RelayInv'
<1>1. TaskTo(c, "over") /\ task[c].pc # "none"
  BY DEF StreamRefused, TaskTo
<1> QED BY <1>1, TaskOver, DroppedShorter DEF StreamRefused

(* The relay of a node ends and starts over.                               *)
LEMMA RelayEndsKeeps == ASSUME RelayInv, RelayEnds PROVE RelayInv'
<1>1. \A d \in Ids : task[d] \in Task /\ TaskFits(d, task[d])
  BY RelayParts
<1>2. \A t \in Task : [t EXCEPT !.pc = "over"] \in Task /\ [t EXCEPT !.pc = "over"].pc = "over"
                      /\ [t EXCEPT !.pc = "over"].seq = t.seq
  BY DEF Task
<1>3. \A d \in Ids : task'[d] = IF task[d].pc = "none" THEN NoTask
                                ELSE [task[d] EXCEPT !.pc = "over"]
  BY DEF RelayEnds
<1>4. NoTask \in Task /\ NoTask.pc = "none" /\ NoTask.seq = 0
  BY DEF NoTask, Task
<1>5. task' \in [Ids -> Task]
  BY <1>1, <1>2, <1>3, <1>4 DEF RelayEnds
<1>6. \A d \in Ids : task[d].pc = "none" => task[d] = NoTask
  BY <1>1 DEF Task, TaskFits, NoTask
<1>7. \A d \in Ids : TaskFits(d, task'[d])
  <2> SUFFICES ASSUME NEW d \in Ids PROVE TaskFits(d, task'[d])
    OBVIOUS
  <2>1. CASE task[d].pc = "none"
    BY <1>1, <1>3, <1>6, <2>1
  <2>2. CASE task[d].pc # "none"
    <3>0. task'[d] = [task[d] EXCEPT !.pc = "over"]
      BY <1>3, <2>2
    <3>1. task'[d].pc = "over"
      BY <1>1, <1>2, <3>0
    <3> QED BY <1>1, <3>1 DEF TaskFits
  <2> QED BY <2>1, <2>2
<1>8. \A d \in Ids : task'[d].pc # "upload" /\ (task[d].pc # "none" => task'[d].pc # "none")
  BY <1>1, <1>2, <1>3, <1>4
<1>9. Shorter
  BY SameShorter DEF RelayEnds
<1>10. \A i \in DOMAIN queue' : queue'[i] \in Ids /\ task[queue'[i]].pc = "none"
  BY <1>9 DEF Shorter, RelayInv, Queued
<1>11. \A i \in DOMAIN queue' : queue'[i] \in open => queue'[i] \in open'
                                  /\ task'[queue'[i]] = task[queue'[i]]
  <2>1. \A x \in Ids : task[x].pc = "none" => task'[x] = task[x] /\ (x \in open => x \in open')
    BY <1>3, <1>6 DEF RelayEnds
  <2> QED BY <1>10, <2>1
<1>12. \A d \in Ids : d \notin open /\ task[d] = NoTask => task'[d] = NoTask
  BY <1>3, <1>4
<1>13. open' \subseteq open /\ UNCHANGED <<call, chan, reader, ran, post, result>>
  BY DEF RelayEnds
<1> QED BY <1>5, <1>7, <1>8, <1>9, <1>11, <1>12, <1>13, TasksMove

(* One call changes, with its reader, its channel and its task.            *)
LEMMA OneCall ==
  ASSUME RelayInv, NEW c \in Ids, UNCHANGED ran,
         UNCHANGED result, Shorter \/ Queued',
         call' \in [Ids -> Call], reader' \in [Ids -> Reader], task' \in [Ids -> Task],
         chan' \in [Ids -> Seq(Nat)], queue' \in Seq(Ids), open' \subseteq Ids,
         \A d \in Ids : d # c => /\ call'[d] = call[d] /\ reader'[d] = reader[d]
                                 /\ task'[d] = task[d] /\ chan'[d] = chan[d]
                                 /\ d \in open' <=> d \in open,
         \A i \in DOMAIN queue' : queue'[i] = c => c \in open' /\ task'[c].pc = "none",
         post' \subseteq post,
         \/ call'[c].kind = call[c].kind /\ call'[c].seq >= call[c].seq
         \/ \A p \in post : p.id # c,
         task[c].pc # "none" => task'[c].pc # "none",
         CallSound(c)'
  PROVE  RelayInv'
<1>1. Frames' /\ post' \subseteq Posted
  <2>1. \A d \in Ids : call[d].seq \in Nat /\ call'[d].seq \in Nat
    BY DEF RelayInv, RelayTypes, Call
  <2>2. \A d \in Ids : call'[d].kind = call[d].kind \/ (\A p \in post : p.id # d)
    OBVIOUS
  <2>3. \A d \in Ids : call'[d].seq >= call[d].seq \/ (\A p \in post : p.id # d)
    BY <2>1
  <2>4. \A d \in Ids : task[d].pc # "none" => task'[d].pc # "none"
    OBVIOUS
  <2> QED BY <2>1, <2>2, <2>3, <2>4, FramesKept
<1>2. RelayTypes'
  BY <1>1 DEF RelayInv, RelayTypes
<1>3. \A d \in Ids : CallSound(d)'
  BY CallKept
<1>4. Queued'
  <2>1. CASE Shorter
    <3>1. \A i \in DOMAIN queue' : queue'[i] \in Ids /\ queue'[i] \in open
                                   /\ task[queue'[i]].pc = "none"
      <4>1. \A j \in DOMAIN queue : queue[j] \in Ids /\ queue[j] \in open
                                   /\ task[queue[j]].pc = "none"
        BY DEF RelayInv, Queued, RelayTypes
      <4>2. \A i \in DOMAIN queue' : \E j \in DOMAIN queue : queue'[i] = queue[j]
        BY <2>1 DEF Shorter
      <4> QED BY <4>1, <4>2
    <3>2. \A i \in DOMAIN queue' : queue'[i] \in open' /\ task'[queue'[i]].pc = "none"
      BY <3>1
    <3> QED BY <2>1, <3>2 DEF Shorter, Queued
  <2> QED BY <2>1
<1> QED BY <1>1, <1>2, <1>3, <1>4 DEF RelayInv

(* A request is made under a name of its own.                              *)
LEMMA RequestKeeps ==
  ASSUME RelayInv, NEW c \in Ids, NEW kind \in Kinds, Request(c, kind)
  PROVE  RelayInv'
<1>1. /\ reader[c].pc = "none" /\ Unmade(c) /\ TaskFits(c, task[c]) /\ c \notin open
      /\ \A p \in post : p.id # c
  <2>1. reader[c].pc = "none" /\ Unmade(c) /\ TaskFits(c, task[c])
    BY RelayParts DEF Request, CallSound
  <2>2. task[c].pc = "none"
    BY <2>1 DEF Unmade, NoTask
  <2> QED BY <2>1, <2>2, RelayParts DEF Unmade
<1>2. PICK new \in Call : new = [NoCall EXCEPT !.kind = kind]
  BY DEF NoCall, Call
<1>3. new.kind = kind /\ new.seq = 0 /\ new.head = FALSE /\ new.streaming = FALSE
  BY <1>2 DEF NoCall
<1>4. PICK r \in Reader : r = [reader[c] EXCEPT !.pc = "head"]
  BY RelayParts DEF Reader
<1>5. r.pc = "head" /\ r.got = <<>>
  BY <1>1, <1>4 DEF Unmade, NoReader
<1>6. call' = [call EXCEPT ![c] = new] /\ reader' = [reader EXCEPT ![c] = r]
  BY <1>2, <1>4 DEF Request
<1>7. /\ call \in [Ids -> Call] /\ reader \in [Ids -> Reader] /\ task \in [Ids -> Task]
      /\ chan \in [Ids -> Seq(Nat)] /\ queue \in Seq(Ids) /\ open \subseteq Ids
  BY DEF RelayInv, RelayTypes
<1>8. /\ call' \in [Ids -> Call] /\ reader' \in [Ids -> Reader]
      /\ call'[c] = new /\ reader'[c] = r
      /\ \A d \in Ids : d # c => call'[d] = call[d] /\ reader'[d] = reader[d]
  BY <1>6, <1>7
<1>9. open' = open \cup {c} /\ queue' = Append(queue, c)
      /\ UNCHANGED <<chan, task, post, ran, result>>
  BY DEF Request
<1>10. /\ queue' \in Seq(Ids) /\ DOMAIN queue' = 1 .. Len(queue) + 1 /\ Len(queue) \in Nat
       /\ \A i \in 1 .. Len(queue) : queue'[i] = queue[i] /\ queue[i] \in open /\ queue[i] # c
       /\ queue'[Len(queue) + 1] = c /\ DOMAIN queue = 1 .. Len(queue)
  <2>1. \A i \in DOMAIN queue : queue[i] \in open
    BY DEF RelayInv, Queued
  <2> QED BY <1>1, <1>7, <1>9, <2>1, AppendProperties
<1>11. task[c].pc = "none"
  BY <1>1 DEF Unmade, NoTask
<1>12. Queued'
  <2>1. \A i \in 1 .. Len(queue) : task[queue[i]].pc = "none"
    BY <1>10 DEF RelayInv, Queued
  <2>2. \A i \in DOMAIN queue' : \/ i \in 1 .. Len(queue) /\ queue'[i] = queue[i] /\ queue[i] # c
                                 \/ i = Len(queue) + 1 /\ queue'[i] = c
    BY <1>10
  <2>3. \A i \in DOMAIN queue' : queue'[i] \in open' /\ task'[queue'[i]].pc = "none"
    BY <1>9, <1>10, <1>11, <2>1, <2>2
  <2>4. \A i, j \in DOMAIN queue' : i # j => queue'[i] # queue'[j]
    <3>1. \A i, j \in 1 .. Len(queue) : i # j => queue[i] # queue[j]
      BY <1>10 DEF RelayInv, Queued
    <3> QED BY <2>2, <3>1
  <2> QED BY <2>3, <2>4 DEF Queued
<1>13. CallSound(c)'
  <2>1. Waiting(c)'
    BY <1>1, <1>3, <1>5, <1>8, <1>9 DEF Waiting, Unmade
  <2>2. TaskFits(c, task[c])'
    BY <1>1, <1>3, <1>8, <1>9, <1>11 DEF TaskFits
  <2> QED BY <1>5, <1>8, <1>9, <1>11, <2>1, <2>2 DEF CallSound
<1> QED BY <1>1, <1>7, <1>8, <1>9, <1>10, <1>11, <1>12, <1>13, OneCall

(* The reader leaves, by its own choice or because the channel closed.     *)
LEMMA ReaderFails ==
  ASSUME RelayInv, NEW c \in Ids, reader[c].pc \in {"head", "body"},
         reader' = [reader EXCEPT ![c].pc = "failed"], Dropped(c),
         UNCHANGED <<call, chan, task, post, ran, result>>
  PROVE  RelayInv'
<1>1. PICK r \in Reader : r = [reader[c] EXCEPT !.pc = "failed"]
  BY RelayParts DEF Reader
<1>2. r.pc = "failed"
  BY <1>1, RelayParts DEF Reader
<1>3. /\ call \in [Ids -> Call] /\ reader \in [Ids -> Reader] /\ task \in [Ids -> Task]
      /\ chan \in [Ids -> Seq(Nat)] /\ open \subseteq Ids
  BY DEF RelayInv, RelayTypes
<1>4. /\ reader' \in [Ids -> Reader] /\ reader'[c] = r
      /\ \A d \in Ids : d # c => reader'[d] = reader[d]
  BY <1>1, <1>3
<1>5. Shorter /\ (\A i \in DOMAIN queue' : queue'[i] # c) /\ open' = open \ {c}
  BY DroppedShorter
<1>6. CallSound(c)'
  BY <1>2, <1>4, <1>5, RelayParts DEF CallSound, TaskFits
<1>7. call'[c].kind = call[c].kind /\ call'[c].seq >= call[c].seq
  BY <1>3 DEF Call
<1>8. queue' \in Seq(Ids) /\ open' \subseteq Ids
  BY <1>3, <1>5 DEF Shorter
<1>9. \A d \in Ids : d # c => (d \in open' <=> d \in open)
  BY <1>5
<1>10. /\ call' \in [Ids -> Call] /\ task' \in [Ids -> Task] /\ chan' \in [Ids -> Seq(Nat)]
       /\ \A d \in Ids : call'[d] = call[d] /\ task'[d] = task[d] /\ chan'[d] = chan[d]
  BY <1>3
<1>11. \A i \in DOMAIN queue' : queue'[i] = c => c \in open' /\ task'[c].pc = "none"
  BY <1>5
<1> QED BY <1>4, <1>5, <1>6, <1>7, <1>8, <1>9, <1>10, <1>11, OneCall

(* The reader leaves.                                                      *)
LEMMA ReaderLeavesKeeps == ASSUME RelayInv, NEW c \in Ids, ReaderLeaves(c) PROVE RelayInv'
  BY ReaderFails DEF ReaderLeaves

(* The reader takes what is first in the channel.                          *)
LEMMA ReadKeeps == ASSUME RelayInv, NEW c \in Ids, Read(c) PROVE RelayInv'
<1>1. /\ reader[c].pc = "body" /\ UNCHANGED <<call, task, post, ran, result>>
  BY DEF Read
<1>2. CASE chan[c] = <<>>
  BY <1>1, <1>2, ReaderFails DEF Read
<1>3. CASE chan[c] # <<>>
  <2>1. /\ call \in [Ids -> Call] /\ reader \in [Ids -> Reader] /\ task \in [Ids -> Task]
        /\ chan \in [Ids -> Seq(Nat)] /\ open \subseteq Ids /\ queue \in Seq(Ids)
    BY DEF RelayInv, RelayTypes
  <2>2. PICK s \in Seq(Nat) : s = chan[c]
    BY <2>1
  <2>3. PICK g \in Seq(Nat) : g = reader[c].got
    BY <2>1 DEF Reader
  <2>4. PICK n \in Nat : n = Head(s)
    BY <1>3, <2>2, HeadTailProperties
  <2>5. /\ Tail(s) \in Seq(Nat) /\ Len(Tail(s)) = Len(s) - 1 /\ Len(s) \in Nat \ {0}
        /\ \A i \in 1 .. Len(Tail(s)) : Tail(s)[i] = s[i + 1]
    BY <1>3, <2>2, HeadTailProperties, EmptySeq
  <2>6. n = s[1] /\ Len(g) \in Nat
    BY <1>3, <2>2, <2>4
  <2>7. /\ chan' = [chan EXCEPT ![c] = Tail(s)]
        /\ IF n = End
           THEN reader' = [reader EXCEPT ![c].pc = "done"] /\ Dropped(c)
           ELSE /\ reader' = [reader EXCEPT ![c].got = Append(g, n)]
                /\ UNCHANGED <<open, queue>>
    BY <1>3, <2>2, <2>3, <2>4 DEF Read
  <2>8. /\ chan' \in [Ids -> Seq(Nat)] /\ chan'[c] = Tail(s)
        /\ \A d \in Ids : d # c => chan'[d] = chan[d]
    BY <2>1, <2>5, <2>7
  <2>9. /\ Receiving(c) /\ TaskFits(c, task[c]) /\ CallSound(c) /\ reader[c] \in Reader
        /\ task[c] \in Task /\ call[c] \in Call
    BY <1>1, RelayParts DEF CallSound
  <2>10. call'[c].kind = call[c].kind /\ call'[c].seq >= call[c].seq
    BY <1>1, <2>1 DEF Call
  <2>11. Whole(c) => /\ \A i \in 1 .. Len(g) : g[i] = i
                     /\ \A i \in 1 .. Len(s) : s[i] = Len(g) + i
                     /\ Len(g) + Len(s) <= End
                     /\ Len(g) + Len(s) = End /\ call[c].kind = "wait" => result[c] # "none"
    BY <2>2, <2>3, <2>9 DEF Receiving, InOrder, SentLen
  <2>12. ~Whole(c) => g = <<>> /\ s = <<End>>
    BY <2>2, <2>3, <2>9 DEF Receiving
  <2>13. TaskFits(c, task[c])'
    BY <1>1, <2>9 DEF TaskFits
  <2>14. CASE n = End
    <3>1. PICK r \in Reader : r = [reader[c] EXCEPT !.pc = "done"]
      BY <2>9 DEF Reader
    <3>2. r.pc = "done" /\ r.got = g /\ r.ok = reader[c].ok
      BY <2>3, <2>9, <3>1 DEF Reader
    <3>3. /\ reader' \in [Ids -> Reader] /\ reader'[c] = r
          /\ \A d \in Ids : d # c => reader'[d] = reader[d]
      BY <2>1, <2>7, <2>14, <3>1
    <3>4. Shorter /\ (\A i \in DOMAIN queue' : queue'[i] # c) /\ open' = open \ {c}
      BY <2>7, <2>14, DroppedShorter
    <3>5. ASSUME Whole(c) PROVE CallSound(c)'
      <4>6. s[1] = Len(g) + 1
        BY <2>5, <2>11, <3>5
      <4>1. Len(g) + 1 = End /\ Len(s) = 1
        <5>1. Len(g) + 1 = End
          BY <2>6, <2>14, <4>6
        <5>2. Len(g) + Len(s) <= End
          BY <2>11, <3>5
        <5>3. Len(s) \in Nat \ {0}
          BY <2>5
        <5>4. PICK k \in Nat, m \in Nat : k = Len(g) /\ m = Len(s)
          BY <2>6, <5>3
        <5>5. k + 1 = End /\ k + m <= End /\ m # 0
          BY <5>1, <5>2, <5>3, <5>4
        <5>6. m = 1
          BY <5>5
        <5> QED BY <5>1, <5>4, <5>6
      <4>2. Len(g) = Chunks
        BY <4>1, <2>6, AnswerNumbers
      <4>3. g = [i \in 1 .. Chunks |-> i]
        BY <2>11, <3>5, <4>2, LenProperties
      <4>4. call[c].kind = "wait" => result[c] # "none"
        BY <2>11, <3>5, <4>1
      <4>5. task[c].pc # "upload"
        <5>1. SentLen(c) = End
          BY <2>2, <2>3, <2>6, <4>1, AnswerNumbers DEF SentLen
        <5>2. task[c].pc = "upload" => SentLen(c) = task[c].seq - 1 /\ task[c].seq <= End
          BY <2>9 DEF Receiving, TaskFits
        <5>3. task[c].seq \in Nat
          BY <2>9 DEF Task
        <5> QED BY <5>1, <5>2, <5>3, AnswerNumbers
      <4> QED BY <1>1, <3>2, <3>3, <3>4, <3>5, <4>3, <4>4, <4>5, <2>13
              DEF CallSound, Answered, Whole
    <3>6. ASSUME ~Whole(c) PROVE CallSound(c)'
      <4>1. task[c].pc # "upload"
        BY <2>9, <3>6 DEF Receiving, TaskFits
      <4>2. g = <<>> /\ ~(reader[c].ok /\ call[c].kind # "prepare")
        BY <2>12, <3>6 DEF Whole
      <4>3. Answered(c)'
        BY <1>1, <3>2, <3>3, <4>2 DEF Answered
      <4> QED BY <1>1, <2>13, <3>2, <3>3, <3>4, <4>1, <4>3 DEF CallSound
    <3>7. CallSound(c)'
      BY <3>5, <3>6
    <3>8. queue' \in Seq(Ids) /\ open' \subseteq Ids
      BY <2>1, <3>4 DEF Shorter
    <3>9. \A d \in Ids : d # c => (d \in open' <=> d \in open)
      BY <3>4
    <3>10. \A i \in DOMAIN queue' : queue'[i] = c => c \in open' /\ task'[c].pc = "none"
      BY <3>4
    <3> QED BY <1>1, <2>1, <2>8, <2>10, <3>3, <3>4, <3>7, <3>8, <3>9, <3>10, OneCall
  <2>15. CASE n # End
    <3>1. /\ Append(g, n) \in Seq(Nat) /\ Len(Append(g, n)) = Len(g) + 1
          /\ \A i \in 1 .. Len(g) : Append(g, n)[i] = g[i]
          /\ Append(g, n)[Len(g) + 1] = n
      BY AppendProperties
    <3>2. PICK r \in Reader : r = [reader[c] EXCEPT !.got = Append(g, n)]
      BY <2>9, <3>1 DEF Reader
    <3>3. r.pc = "body" /\ r.got = Append(g, n) /\ r.ok = reader[c].ok
      BY <1>1, <2>9, <3>2 DEF Reader
    <3>4. /\ reader' \in [Ids -> Reader] /\ reader'[c] = r
          /\ \A d \in Ids : d # c => reader'[d] = reader[d]
      BY <2>1, <2>7, <2>15, <3>2
    <3>5. Whole(c)
      BY <2>6, <2>12, <2>15
    <3>6. UNCHANGED <<open, queue>>
      BY <2>7, <2>15
    <3>7. SentLen(c)' = SentLen(c)
      <4>1. SentLen(c) = Len(g) + Len(s)
        BY <2>2, <2>3 DEF SentLen
      <4>2. SentLen(c)' = Len(Append(g, n)) + Len(Tail(s))
        BY <2>8, <3>3, <3>4 DEF SentLen
      <4> QED BY <2>5, <2>6, <3>1, <4>1, <4>2
    <3>8. Whole(c)'
      BY <1>1, <3>3, <3>4, <3>5 DEF Whole
    <3>9. InOrder(c)'
      <4>1. \A i \in 1 .. Len(Append(g, n)) : Append(g, n)[i] = i
        BY <2>5, <2>6, <2>11, <3>1, <3>5
      <4>2. \A i \in 1 .. Len(Tail(s)) : Tail(s)[i] = Len(Append(g, n)) + i
        BY <2>5, <2>6, <2>11, <3>1, <3>5
      <4> QED BY <2>8, <3>3, <3>4, <4>1, <4>2 DEF InOrder
    <3>10. Receiving(c)'
      BY <1>1, <2>9, <3>5, <3>6, <3>7, <3>8, <3>9 DEF Receiving
    <3>11. CallSound(c)'
      BY <1>1, <2>9, <2>13, <3>3, <3>4, <3>6, <3>10 DEF CallSound
    <3>12. Shorter
      BY <3>6, SameShorter
    <3>13. \A i \in DOMAIN queue' : queue'[i] = c => c \in open' /\ task'[c].pc = "none"
      BY <1>1, <3>6 DEF RelayInv, Queued
    <3> QED BY <1>1, <2>1, <2>8, <2>10, <3>4, <3>6, <3>11, <3>12, <3>13, OneCall
  <2> QED BY <2>14, <2>15
<1> QED BY <1>2, <1>3

(* An upload starts, when the head of the answer was published.            *)
LEMMA StreamStartKeeps == ASSUME RelayInv, NEW c \in Ids, StreamStart(c) PROVE RelayInv'
<1>1. /\ task[c].pc = "send" /\ call[c].kind = "bulk" /\ task[c].seq = 1
      /\ UNCHANGED <<open, queue, chan, reader, post, ran, result>>
  BY DEF StreamStart
<1>2. /\ CallSound(c) /\ TaskFits(c, task[c]) /\ call[c] \in Call /\ task[c] \in Task
      /\ call \in [Ids -> Call] /\ reader \in [Ids -> Reader] /\ task \in [Ids -> Task]
      /\ chan \in [Ids -> Seq(Nat)] /\ open \subseteq Ids /\ queue \in Seq(Ids)
  BY RelayParts DEF RelayInv, RelayTypes
<1>3. CASE UNCHANGED call /\ task' = [task EXCEPT ![c].pc = "over"]
  <2>1. TaskTo(c, "over") /\ task[c].pc # "none"
    BY <1>1, <1>3 DEF TaskTo
  <2> QED BY <1>1, <1>3, <2>1, TaskOver, SameShorter
<1>4. CASE /\ Replying(c) /\ call[c].seq = 1 /\ call[c].head
           /\ call' = [call EXCEPT ![c].streaming = TRUE]
           /\ task' = [task EXCEPT ![c].pc = "upload"]
  <2>1. PICK new \in Task : /\ task' = [task EXCEPT ![c] = new]
                            /\ new.pc = "upload" /\ new.seq = task[c].seq
    <3>1. "upload" \in TaskStates /\ TaskTo(c, "upload")
      BY <1>4 DEF TaskStates, TaskTo
    <3> QED BY <3>1, TaskMovesOn
  <2>2. PICK k \in Call : k = [call[c] EXCEPT !.streaming = TRUE]
    BY <1>2 DEF Call
  <2>3. k.kind = "bulk" /\ k.seq = 1 /\ k.head /\ k.streaming
    BY <1>1, <1>2, <1>4, <2>2 DEF Call
  <2>4. /\ call' \in [Ids -> Call] /\ call'[c] = k
        /\ \A d \in Ids : d # c => call'[d] = call[d]
    BY <1>2, <1>4, <2>2
  <2>5. /\ task' \in [Ids -> Task] /\ task'[c] = new
        /\ \A d \in Ids : d # c => task'[d] = task[d]
    BY <1>2, <2>1
  <2>6. c \in open /\ ~call[c].streaming /\ reader[c].pc = "body" /\ Receiving(c)
    BY <1>2, <1>4 DEF Replying, CallSound, Waiting
  <2>7. Whole(c) /\ SentLen(c) = 0
    BY <1>4, <2>6 DEF Receiving
  <2>8. Whole(c)' /\ SentLen(c)' = 0 /\ InOrder(c)'
    <3>1. Whole(c)' /\ SentLen(c)' = 0
      BY <1>1, <2>3, <2>4, <2>7 DEF Whole, SentLen
    <3>2. InOrder(c)
      BY <2>6, <2>7 DEF Receiving
    <3> QED BY <1>1, <3>1, <3>2 DEF InOrder
  <2>9. 0 <= End /\ 1 <= End
    BY AnswerNumbers
  <2>10. Receiving(c)'
    BY <1>1, <2>1, <2>3, <2>4, <2>5, <2>6, <2>8, <2>9 DEF Receiving
  <2>11. TaskFits(c, task[c])'
    BY <1>1, <1>2, <2>1, <2>3, <2>4, <2>5, <2>9 DEF TaskFits
  <2>12. CallSound(c)'
    BY <1>1, <2>1, <2>5, <2>6, <2>10, <2>11 DEF CallSound
  <2>13. Shorter
    BY <1>1, SameShorter
  <2>14. \A i \in DOMAIN queue' : queue'[i] = c => c \in open' /\ task'[c].pc = "none"
    BY <1>1 DEF RelayInv, Queued
  <2>15. call'[c].kind = call[c].kind /\ call'[c].seq >= call[c].seq
    BY <1>1, <1>4, <2>3, <2>4
  <2>16. task'[c].pc # "none"
    BY <2>1, <2>5
  <2> QED BY <1>1, <1>2, <2>4, <2>5, <2>12, <2>13, <2>14, <2>15, <2>16, OneCall
<1> QED BY <1>3, <1>4 DEF StreamStart

(* The sender of an upload appends the next chunk, and its last one ends   *)
(* the call.                                                               *)
LEMMA StreamFrameKeeps == ASSUME RelayInv, NEW c \in Ids, StreamFrame(c) PROVE RelayInv'
<1>1. /\ task[c].pc = "upload" /\ reader[c].pc # "failed"
      /\ UNCHANGED <<call, reader, post, ran, result>>
  BY DEF StreamFrame
<1>2. /\ call \in [Ids -> Call] /\ reader \in [Ids -> Reader] /\ task \in [Ids -> Task]
      /\ chan \in [Ids -> Seq(Nat)] /\ open \subseteq Ids /\ queue \in Seq(Ids)
  BY DEF RelayInv, RelayTypes
<1>3. CallSound(c) /\ TaskFits(c, task[c]) /\ task[c] \in Task /\ call[c] \in Call
  BY RelayParts
<1>4. reader[c].pc = "body" /\ Receiving(c)
  BY <1>1, <1>3 DEF CallSound
<1>5. PICK n \in Nat : n = task[c].seq
  BY <1>3 DEF Task
<1>6. /\ call[c].streaming /\ call[c].kind = "bulk" /\ n >= 1 /\ n <= End
      /\ c \in open /\ SentLen(c) = n - 1 /\ Whole(c) /\ InOrder(c)
  BY <1>1, <1>3, <1>4, <1>5 DEF TaskFits, Receiving
<1>7. PICK s \in Seq(Nat) : s = chan[c]
  BY <1>2
<1>8. PICK g \in Seq(Nat) : g = reader[c].got
  BY <1>2 DEF Reader
<1>9. Len(g) + Len(s) = n - 1 /\ Len(g) \in Nat /\ Len(s) \in Nat
  <2>1. SentLen(c) = Len(g) + Len(s)
    BY <1>7, <1>8 DEF SentLen
  <2> QED BY <1>6, <2>1
<1>10. PICK u \in Seq(Nat) : u = Append(s, n)
  BY AppendProperties
<1>11. /\ Len(u) = Len(s) + 1 /\ u[Len(s) + 1] = n
       /\ \A i \in 1 .. Len(s) : u[i] = s[i]
  BY <1>10, AppendProperties
<1>12. /\ chan' \in [Ids -> Seq(Nat)] /\ chan'[c] = u
       /\ \A d \in Ids : d # c => chan'[d] = chan[d]
  <2>1. chan' = [chan EXCEPT ![c] = u]
    BY <1>2, <1>5, <1>7, <1>10 DEF StreamFrame
  <2> QED BY <1>2, <2>1
<1>13. PICK new \in Task : /\ task' = [task EXCEPT ![c] = new]
                           /\ new.pc = IF n = End THEN "over" ELSE "upload"
                           /\ new.seq = n + 1
  <2>1. PICK new \in Task : new = [pc |-> IF n = End THEN "over" ELSE "upload", seq |-> n + 1]
    <3>1. [pc |-> IF n = End THEN "over" ELSE "upload", seq |-> n + 1] \in Task
      BY <1>5 DEF Task
    <3> QED BY <3>1
  <2>2. new.pc = (IF n = End THEN "over" ELSE "upload") /\ new.seq = n + 1
    BY <2>1
  <2>3. task' = [task EXCEPT ![c] = new]
    BY <1>2, <1>5, <2>1 DEF StreamFrame
  <2> QED BY <2>2, <2>3
<1>14. /\ task' \in [Ids -> Task] /\ task'[c] = new
       /\ \A d \in Ids : d # c => task'[d] = task[d]
  BY <1>2, <1>13
<1>15. SentLen(c)' = n
  <2>1. SentLen(c)' = Len(g) + Len(u)
    BY <1>1, <1>8, <1>12 DEF SentLen
  <2> QED BY <1>9, <1>11, <2>1
<1>16. InOrder(c)'
  <2>1. /\ \A i \in 1 .. Len(g) : g[i] = i
        /\ \A i \in 1 .. Len(s) : s[i] = Len(g) + i
    BY <1>6, <1>7, <1>8 DEF InOrder
  <2>2. \A i \in 1 .. Len(u) : u[i] = Len(g) + i
    <3>1. PICK k \in Nat, m \in Nat : k = Len(g) /\ m = Len(s)
      BY <1>9
    <3>2. n = k + m + 1 /\ Len(u) = m + 1 /\ u[m + 1] = n
      BY <1>9, <1>11, <3>1
    <3>3. \A i \in 1 .. m : u[i] = k + i
      BY <1>11, <2>1, <3>1
    <3>4. ASSUME NEW i \in 1 .. m + 1 PROVE u[i] = k + i
      <4>1. i \in 1 .. m \/ i = m + 1
        BY <3>4
      <4>2. u[m + 1] = k + (m + 1)
        BY <3>2
      <4> QED BY <3>3, <4>1, <4>2
    <3> QED BY <3>1, <3>2, <3>4
  <2> QED BY <1>1, <1>8, <1>12, <2>1, <2>2 DEF InOrder
<1>17. Whole(c)'
  BY <1>1, <1>6 DEF Whole
<1>18. TaskFits(c, task[c])'
  BY <1>1, <1>3, <1>5, <1>6, <1>13, <1>14, AnswerNumbers DEF TaskFits
<1>19. CASE n = End
  <2>1. Dropped(c)
    BY <1>5, <1>19 DEF StreamFrame
  <2>2. Shorter /\ (\A i \in DOMAIN queue' : queue'[i] # c) /\ open' = open \ {c}
    BY <2>1, DroppedShorter
  <2>3. Receiving(c)'
    BY <1>1, <1>4, <1>6, <1>13, <1>14, <1>15, <1>16, <1>17, <1>19, <2>2, AnswerNumbers
       DEF Receiving
  <2>4. CallSound(c)'
    BY <1>1, <1>4, <1>13, <1>14, <1>18, <1>19, <2>2, <2>3 DEF CallSound
  <2>5. queue' \in Seq(Ids) /\ open' \subseteq Ids
    BY <1>2, <2>2 DEF Shorter
  <2>6. call'[c].kind = call[c].kind /\ call'[c].seq >= call[c].seq
    BY <1>1, <1>3 DEF Call
  <2> QED BY <1>1, <1>2, <1>12, <1>13, <1>14, <1>19, <2>2, <2>4, <2>5, <2>6, OneCall
<1>20. CASE n # End
  <2>1. UNCHANGED <<open, queue>>
    BY <1>5, <1>20 DEF StreamFrame
  <2>2. Receiving(c)'
    BY <1>1, <1>4, <1>5, <1>6, <1>13, <1>14, <1>15, <1>16, <1>17, <1>20, <2>1, AnswerNumbers
       DEF Receiving
  <2>3. CallSound(c)'
    BY <1>1, <1>4, <1>6, <1>13, <1>14, <1>18, <1>20, <2>1, <2>2 DEF CallSound
  <2>4. Shorter
    BY <2>1, SameShorter
  <2>5. \A i \in DOMAIN queue' : queue'[i] # c
    BY <1>1, <2>1 DEF RelayInv, Queued
  <2>6. call'[c].kind = call[c].kind /\ call'[c].seq >= call[c].seq
    BY <1>1, <1>3 DEF Call
  <2>7. task'[c].pc # "none"
    BY <1>13, <1>14
  <2> QED BY <1>1, <1>2, <1>12, <1>14, <2>1, <2>3, <2>4, <2>5, <2>6, <2>7, OneCall
<1> QED BY <1>19, <1>20

(* A frame with the number that was expected is published: the head of the *)
(* answer, its next chunk, or its end.                                     *)
LEMMA AppliedKeeps ==
  ASSUME RelayInv, NEW p \in post, Publish(p), Replying(p.id), ~IsRetry(p)
  PROVE  RelayInv'
<1>1. PICK c \in Ids : c = p.id
  BY RelayParts
<1>2. /\ call \in [Ids -> Call] /\ reader \in [Ids -> Reader] /\ task \in [Ids -> Task]
      /\ chan \in [Ids -> Seq(Nat)] /\ open \subseteq Ids /\ queue \in Seq(Ids)
  BY DEF RelayInv, RelayTypes
<1>3. /\ CallSound(c) /\ TaskFits(c, task[c]) /\ call[c] \in Call /\ task[c].pc # "none"
      /\ reader[c] \in Reader /\ chan[c] \in Seq(Nat)
      /\ p \in Posted /\ FrameFits(p)
  BY <1>1, RelayParts
<1>4. /\ c \in open /\ ~call[c].streaming /\ p.at = "reserve" /\ Acknowledged(p) /\ Apply(p)
      /\ post' = post \ {p} /\ UNCHANGED <<queue, ran, result>>
  BY <1>1 DEF Publish, Replying
<1>5. PICK n \in Nat : n = p.seq /\ n = call[c].seq
  <2>1. p.seq \in Nat /\ call[c].seq \in Nat
    BY <1>3 DEF Posted, Call
  <2>2. p.seq <= call[c].seq /\ ~(p.seq < call[c].seq)
    BY <1>1, <1>3, <1>4 DEF FrameFits, IsRetry
  <2> QED BY <2>1, <2>2
<1>6. PICK new \in Task :
        /\ task' = [task EXCEPT ![c] = new]
        /\ new.pc # "none" /\ (new.pc = "upload" => new = task[c]) /\ TaskFits(c, new)
  BY <1>1, <1>4, PostAnswered
<1>7. /\ task' \in [Ids -> Task] /\ task'[c] = new
      /\ \A d \in Ids : d # c => task'[d] = task[d]
  BY <1>2, <1>6
<1>8. new.pc # "upload"
  BY <1>3, <1>4, <1>6 DEF TaskFits
<1>9. PICK k \in Call : k = [call[c] EXCEPT !.seq = n + 1, !.head = TRUE]
  <2>1. PICK m \in Nat : m = n + 1
    OBVIOUS
  <2>2. PICK k1 \in Call : k1 = [call[c] EXCEPT !.seq = m]
    BY <1>3 DEF Call
  <2>3. PICK k2 \in Call : k2 = [k1 EXCEPT !.head = TRUE]
    BY DEF Call
  <2>4. k2 = [call[c] EXCEPT !.seq = n + 1, !.head = TRUE]
    BY <1>3, <2>1, <2>2, <2>3 DEF Call
  <2> QED BY <2>4
<1>10. k.seq = n + 1 /\ k.head /\ ~k.streaming /\ k.kind = call[c].kind
  BY <1>3, <1>4, <1>9 DEF Call
<1>11. /\ call' \in [Ids -> Call] /\ call'[c] = k
       /\ \A d \in Ids : d # c => call'[d] = call[d]
  <2>1. call' = [call EXCEPT ![c].seq = @ + 1, ![c].head = TRUE]
    BY <1>1, <1>4 DEF Apply
  <2>2. call' = [call EXCEPT ![c] = k]
    BY <1>2, <1>5, <1>9, <2>1
  <2> QED BY <1>2, <2>2
<1>12. TaskFits(c, task[c])'
  BY <1>4, <1>6, <1>7, <1>10, <1>11 DEF TaskFits
<1>13. \A i \in DOMAIN queue' : queue'[i] # c
  BY <1>3, <1>4 DEF RelayInv, Queued
<1>14. Shorter
  BY <1>4, SameShorter
<1>15. reader[c].pc \in {"head", "body"}
  BY <1>3, <1>4 DEF CallSound
<1>16. open' = IF p.done THEN open \ {c} ELSE open
  BY <1>1, <1>4 DEF Apply
<1>17. ASSUME reader' \in [Ids -> Reader], chan' \in [Ids -> Seq(Nat)],
              \A d \in Ids : d # c => reader'[d] = reader[d] /\ chan'[d] = chan[d],
              reader'[c].pc = "body", Receiving(c)'
       PROVE  RelayInv'
  <2>1. CallSound(c)'
    BY <1>7, <1>8, <1>12, <1>17 DEF CallSound
  <2>2. open' \subseteq Ids /\ (\A d \in Ids : d # c => (d \in open' <=> d \in open))
    BY <1>2, <1>16
  <2>3. call'[c].kind = call[c].kind /\ call'[c].seq >= call[c].seq
    BY <1>5, <1>10, <1>11
  <2> QED BY <1>2, <1>4, <1>6, <1>7, <1>11, <1>13, <1>14, <1>17, <2>1, <2>2, <2>3, OneCall
<1>18. CASE reader[c].pc = "head"
  <2>1. /\ ~call[c].head /\ n = 0 /\ reader[c].got = <<>> /\ chan[c] = <<>>
    BY <1>3, <1>5, <1>18 DEF CallSound, Waiting
  <2>2. PICK r \in Reader : r = [reader[c] EXCEPT !.pc = "body", !.ok = p.ok]
    BY <1>3 DEF Reader, Posted
  <2>3. r.pc = "body" /\ r.ok = p.ok /\ r.got = <<>>
    BY <1>3, <2>1, <2>2 DEF Reader, Posted
  <2>4. /\ reader' \in [Ids -> Reader] /\ reader'[c] = r
        /\ \A d \in Ids : d # c => reader'[d] = reader[d]
    <3>1. reader' = [reader EXCEPT ![c].pc = "body", ![c].ok = p.ok]
      BY <1>1, <1>4, <1>18, <2>1 DEF Apply
    <3>2. reader' = [reader EXCEPT ![c] = r]
      BY <1>2, <2>2, <3>1
    <3> QED BY <1>2, <3>2
  <2>5. CASE Short(p)
    <3>1. p.done /\ (p.ok => call[c].kind = "prepare")
      BY <1>1, <2>5 DEF Short
    <3>2. chan' = [chan EXCEPT ![c] = Append(<<>>, End)]
      BY <1>1, <1>2, <1>4, <2>1, <3>1 DEF Apply
    <3>3. Append(<<>>, End) = <<End>> /\ <<End>> \in Seq(Nat)
      BY AnswerNumbers
    <3>4. /\ chan' \in [Ids -> Seq(Nat)] /\ chan'[c] = <<End>>
          /\ \A d \in Ids : d # c => chan'[d] = chan[d]
      BY <1>2, <3>2, <3>3
    <3>5. ~Whole(c)'
      BY <1>10, <1>11, <2>3, <2>4, <3>1 DEF Whole
    <3>6. c \notin open'
      BY <1>16, <3>1
    <3>7. Receiving(c)'
      BY <1>7, <1>8, <1>10, <1>11, <2>3, <2>4, <3>4, <3>5, <3>6 DEF Receiving
    <3> QED BY <1>17, <2>3, <2>4, <3>4, <3>7
  <2>6. CASE Full(p)
    <3>1. p.ok /\ call[c].kind # "prepare" /\ ~p.done
      BY <1>1, <1>5, <2>1, <2>6, AnswerNumbers DEF Full
    <3>2. chan' = chan
      BY <1>1, <1>4, <1>5, <2>1, <3>1 DEF Apply
    <3>3. Whole(c)'
      BY <1>10, <1>11, <2>3, <2>4, <3>1 DEF Whole
    <3>4. SentLen(c)' = 0
      <4>1. SentLen(c)' = Len(<<>>) + Len(<<>>)
        BY <2>1, <2>3, <2>4, <3>2 DEF SentLen
      <4> QED BY <4>1
    <3>5. InOrder(c)'
      BY <2>1, <2>3, <2>4, <3>2 DEF InOrder
    <3>6. Receiving(c)'
      BY <1>7, <1>8, <1>10, <1>11, <2>1, <3>3, <3>4, <3>5, AnswerNumbers DEF Receiving
    <3> QED BY <1>2, <1>17, <2>3, <2>4, <3>2, <3>6
  <2> QED BY <1>3, <2>5, <2>6 DEF FrameFits
<1>19. CASE reader[c].pc = "body"
  <2>1. Receiving(c) /\ call[c].head
    BY <1>3, <1>19 DEF CallSound, Receiving
  <2>2. Whole(c) /\ InOrder(c) /\ 1 <= n /\ n <= End /\ SentLen(c) = n - 1
    BY <1>4, <1>5, <2>1 DEF Receiving
  <2>3. (p.done <=> n = End) /\ (n = End /\ call[c].kind = "wait" => result[c] # "none")
    BY <1>1, <1>3, <1>5, <2>2 DEF FrameFits, Short, Full
  <2>4. reader' = reader
    BY <1>1, <1>4, <2>1 DEF Apply
  <2>5. PICK s \in Seq(Nat), g \in Seq(Nat) : s = chan[c] /\ g = reader[c].got
    BY <1>3 DEF Reader
  <2>6. PICK u \in Seq(Nat) : u = Append(s, n)
    BY AppendProperties
  <2>7. /\ Len(u) = Len(s) + 1 /\ u[Len(s) + 1] = n
        /\ \A i \in 1 .. Len(s) : u[i] = s[i]
    BY <2>6, AppendProperties
  <2>8. chan' = [chan EXCEPT ![c] = u]
    <3>1. CASE p.done
      BY <1>1, <1>4, <2>3, <2>5, <2>6, <3>1 DEF Apply
    <3>2. CASE ~p.done
      BY <1>1, <1>4, <1>5, <2>2, <2>5, <2>6, <3>2 DEF Apply
    <3> QED BY <3>1, <3>2
  <2>9. /\ chan' \in [Ids -> Seq(Nat)] /\ chan'[c] = u
        /\ \A d \in Ids : d # c => chan'[d] = chan[d]
    BY <1>2, <2>8
  <2>10. PICK x \in Nat, y \in Nat : x = Len(g) /\ y = Len(s)
    <3>1. Len(g) \in Nat /\ Len(s) \in Nat
      BY <2>5, LenProperties
    <3> QED BY <3>1
  <2>11. x + y = n - 1
    <3>1. SentLen(c) = Len(g) + Len(s)
      BY <2>5 DEF SentLen
    <3> QED BY <2>2, <2>10, <3>1
  <2>12. Len(u) = y + 1 /\ u[y + 1] = n
    BY <2>7, <2>10
  <2>13. SentLen(c)' = n
    <3>1. SentLen(c)' = Len(g) + Len(u)
      BY <2>4, <2>5, <2>9 DEF SentLen
    <3> QED BY <2>10, <2>11, <2>12, <3>1
  <2>14. InOrder(c)'
    <3>1. /\ \A i \in 1 .. x : g[i] = i
          /\ \A i \in 1 .. y : s[i] = x + i
      BY <2>2, <2>5, <2>10 DEF InOrder
    <3>2. \A i \in 1 .. y : u[i] = x + i
      BY <2>7, <2>10, <3>1
    <3>3. u[y + 1] = x + (y + 1)
      BY <2>11, <2>12
    <3>4. ASSUME NEW i \in 1 .. y + 1 PROVE u[i] = x + i
      <4>1. i \in 1 .. y \/ i = y + 1
        BY <3>4
      <4> QED BY <3>2, <3>3, <4>1
    <3> QED BY <2>4, <2>5, <2>9, <2>10, <2>12, <3>1, <3>4 DEF InOrder
  <2>15. Whole(c)'
    BY <1>10, <1>11, <2>2, <2>4 DEF Whole
  <2>16. c \in open' => n # End
    BY <1>16, <2>3
  <2>17. Receiving(c)'
    <3>1. c \in open' => 1 <= n + 1 /\ n + 1 <= End
      BY <2>2, <2>16, AnswerNumbers
    <3>2. n = (n + 1) - 1
      OBVIOUS
    <3>3. n = End /\ call'[c].kind = "wait" => result'[c] # "none"
      BY <1>4, <1>10, <1>11, <2>3
    <3> QED BY <1>7, <1>8, <1>10, <1>11, <2>2, <2>13, <2>14, <2>15, <3>1, <3>2, <3>3
            DEF Receiving
  <2> QED BY <1>2, <1>17, <1>19, <2>4, <2>9, <2>17
<1> QED BY <1>15, <1>18, <1>19

(* A post is published, or refused, when there is room for its frame.      *)
LEMMA PublishKeeps == ASSUME RelayInv, NEW p \in post, Publish(p) PROVE RelayInv'
<1>1. CASE ~Replying(p.id) \/ IsRetry(p)
  BY <1>1, UnappliedKeeps DEF Publish
<1>2. CASE Replying(p.id) /\ ~IsRetry(p)
  BY <1>2, AppliedKeeps
<1> QED BY <1>1, <1>2

(* Before the first call nothing is owed.                                  *)
LEMMA RelayInvInit == RelayInit => RelayInv
<1> SUFFICES ASSUME RelayInit PROVE RelayInv
  OBVIOUS
<1>1. NoCall \in Call /\ NoReader \in Reader /\ NoTask \in Task /\ <<>> \in Seq(Nat)
  BY DEF NoCall, NoReader, NoTask, Call, Reader, Task
<1>2. RelayTypes
  BY <1>1 DEF RelayInit, RelayTypes, Results
<1>3. Queued /\ Frames
  BY DEF RelayInit, Queued, Frames
<1>4. ASSUME NEW c \in Ids PROVE CallSound(c)
  <2>1. /\ call[c] = NoCall /\ reader[c] = NoReader /\ task[c] = NoTask /\ chan[c] = <<>>
        /\ ran[c] = 0 /\ c \notin open
    BY DEF RelayInit
  <2>2. Unmade(c) /\ TaskFits(c, task[c])
    BY <2>1 DEF Unmade, TaskFits, NoCall, NoTask
  <2> QED BY <2>1, <2>2 DEF CallSound, NoReader, NoTask
<1> QED BY <1>2, <1>3, <1>4 DEF RelayInv

(* Every step keeps the invariant.                                         *)
LEMMA RelayInvNext == RelayInv /\ [RelayNext]_relayVars => RelayInv'
<1> SUFFICES ASSUME RelayInv, [RelayNext]_relayVars PROVE RelayInv'
  OBVIOUS
<1>1. CASE UNCHANGED relayVars
  <2>1. UNCHANGED <<call, open, queue, chan, reader, task, post, ran, result>>
    BY <1>1 DEF relayVars
  <2>2. RelayTypes' /\ Queued'
    BY <2>1 DEF RelayInv, RelayTypes, Queued
  <2>3. Frames'
    BY <2>1 DEF RelayInv, Frames, FrameFits, Short, Full
  <2>4. \A c \in Ids : CallSound(c)'
    BY <2>1, CallKept
  <2> QED BY <2>2, <2>3, <2>4 DEF RelayInv
<1>2. ASSUME NEW c \in Ids,
             \/ Read(c) \/ Prepare(c) \/ Post(c) \/ StreamStart(c)
             \/ \E readable \in BOOLEAN : Result(c, readable)
             \/ StreamFrame(c) \/ StreamRefused(c) \/ ReaderLeaves(c) \/ PrepareFails(c)
             \/ TaskFails(c)
      PROVE  RelayInv'
  BY <1>2, ReadKeeps, PrepareKeeps, PostKeeps, ResultKeeps, StreamStartKeeps, StreamFrameKeeps,
     StreamRefusedKeeps, ReaderLeavesKeeps, PrepareFailsKeeps, TaskFailsKeeps
<1>3. ASSUME NEW c \in Ids, NEW answers \in BOOLEAN, Forward(c, answers) PROVE RelayInv'
  BY <1>3, ForwardKeeps
<1>4. ASSUME NEW c \in Ids, NEW kind \in Kinds, Request(c, kind) PROVE RelayInv'
  BY <1>4, RequestKeeps
<1>5. ASSUME NEW p \in post, Arrive(p) \/ Publish(p) \/ Duplicate(p) \/ Stalled(p)
      PROVE  RelayInv'
  BY <1>5, ArriveKeeps, PublishKeeps, DuplicateKeeps, StalledKeeps
<1>6. ASSUME NEW lost \in BOOLEAN, Poll(lost) PROVE RelayInv'
  BY <1>6, PollKeeps
<1>7. CASE RelayEnds
  BY <1>7, RelayEndsKeeps
<1> QED BY <1>1, <1>2, <1>3, <1>4, <1>5, <1>6, <1>7 DEF RelayNext, RelayProgress

(* Whatever frames are lost, late or repeated, an answer that reads as     *)
(* complete is complete, no command reaches the controller twice, and a    *)
(* call is given back with its reader (Transport::reply, ::stream and      *)
(* Pending::drop): for every number of calls, chunks and faults.           *)
THEOREM CallsStayHonest == RelayInit /\ [][RelayNext]_relayVars => []CallsHonest
<1>1. RelayInit => RelayInv
  BY RelayInvInit
<1>2. RelayInv /\ [RelayNext]_relayVars => RelayInv'
  BY RelayInvNext
<1>3. RelayInv => CallsHonest
  BY RelayInvHonest
<1> QED BY <1>1, <1>2, <1>3, PTL

(***************************************************************************)
(* The placement of conversations on the nodes.                            *)
(***************************************************************************)
(* A function that sums by the fold's own recursion. *)
Folds(s, S, h) ==
  h = [T \in SUBSET S |->
         IF T = {} THEN 0
         ELSE s[CHOOSE a \in T : TRUE].extra + h[T \ {CHOOSE a \in T : TRUE}]]

(* What a fold adds up is what such a function says of the whole set.      *)
LEMMA FoldIs ==
  ASSUME NEW S, NEW s, NEW g, Folds(s, S, g)
  PROVE  \E h : Folds(s, S, h) /\ Added(s, S) = h[S]
<1>1. Folds(s, S, CHOOSE h : Folds(s, S, h))
  OBVIOUS
<1>2. Added(s, S) = (CHOOSE h : Folds(s, S, h))[S]
  BY DEF Added, MapThenSumSet, MapThenFoldSet, Folds
<1> QED
  BY <1>1, <1>2

(* Nothing adds up to zero.                                                *)
LEMMA AddedNone ==
  ASSUME NEW s
  PROVE  Added(s, {}) = 0
<1> DEFINE g == [T \in SUBSET {} |-> 0]
<1>1. g = [T \in SUBSET {} |->
             IF T = {} THEN 0
             ELSE s[CHOOSE a \in T : TRUE].extra + g[T \ {CHOOSE a \in T : TRUE}]]
  OBVIOUS
<1> HIDE DEF g
<1>h. Folds(s, {}, g)
  BY <1>1 DEF Folds
<1>p. PICK h : Folds(s, {}, h) /\ Added(s, {}) = h[{}]
  BY <1>h, FoldIs
<1>2. /\ h = [T \in SUBSET {} |->
               IF T = {} THEN 0
               ELSE s[CHOOSE a \in T : TRUE].extra + h[T \ {CHOOSE a \in T : TRUE}]]
      /\ Added(s, {}) = h[{}]
  BY <1>p DEF Folds
<1> QED
  BY <1>2

(* One attempt adds up to what it added.                                   *)
LEMMA AddedOne ==
  ASSUME NEW s, NEW x, s[x].extra \in Nat
  PROVE  Added(s, {x}) = s[x].extra
<1> DEFINE g == [T \in SUBSET {x} |-> IF T = {} THEN 0 ELSE s[x].extra]
<1>0. ASSUME NEW T \in SUBSET {x}, T # {}
      PROVE  (CHOOSE a \in T : TRUE) = x /\ T \ {CHOOSE a \in T : TRUE} = {}
  OBVIOUS
<1>1. g = [T \in SUBSET {x} |->
             IF T = {} THEN 0
             ELSE s[CHOOSE a \in T : TRUE].extra + g[T \ {CHOOSE a \in T : TRUE}]]
  <2> SUFFICES ASSUME NEW T \in SUBSET {x}
               PROVE  g[T] = IF T = {} THEN 0
                      ELSE s[CHOOSE a \in T : TRUE].extra + g[T \ {CHOOSE a \in T : TRUE}]
    OBVIOUS
  <2>1. CASE T = {}
    BY <2>1
  <2>2. CASE T # {}
    <3>1. g[{}] = 0
      OBVIOUS
    <3>2. g[T] = s[x].extra
      BY <2>2
    <3> HIDE DEF g
    <3> QED
      BY <1>0, <2>2, <3>1, <3>2
  <2> QED
    BY <2>1, <2>2
<1> HIDE DEF g
<1>h. Folds(s, {x}, g)
  BY <1>1 DEF Folds
<1>p. PICK h : Folds(s, {x}, h) /\ Added(s, {x}) = h[{x}]
  BY <1>h, FoldIs
<1>2. /\ h = [T \in SUBSET {x} |->
               IF T = {} THEN 0
               ELSE s[CHOOSE a \in T : TRUE].extra + h[T \ {CHOOSE a \in T : TRUE}]]
      /\ Added(s, {x}) = h[{x}]
  BY <1>p DEF Folds
<1>3. h[{}] = 0
  BY <1>2
<1>4. h[{x}] = s[x].extra + h[{}]
  <2>1. h[{x}] = s[CHOOSE a \in {x} : TRUE].extra + h[{x} \ {CHOOSE a \in {x} : TRUE}]
    BY <1>2
  <2> QED
    BY <1>0, <2>1
<1> QED
  BY <1>2, <1>3, <1>4

(* Two attempts add up to what the two added.                              *)
LEMMA AddedTwo ==
  ASSUME NEW s, NEW x, NEW y, x # y, s[x].extra \in Nat, s[y].extra \in Nat
  PROVE  Added(s, {x, y}) = s[x].extra + s[y].extra
<1> DEFINE g == [T \in SUBSET {x, y} |->
                   (IF x \in T THEN s[x].extra ELSE 0) + (IF y \in T THEN s[y].extra ELSE 0)]
<1>0. ASSUME NEW T \in SUBSET {x, y}, T # {}
      PROVE  (CHOOSE a \in T : TRUE) \in T
  <2>1. \E a \in T : TRUE
    BY <1>0
  <2> QED
    BY <2>1
<1>1. g = [T \in SUBSET {x, y} |->
             IF T = {} THEN 0
             ELSE s[CHOOSE a \in T : TRUE].extra + g[T \ {CHOOSE a \in T : TRUE}]]
  <2> SUFFICES ASSUME NEW T \in SUBSET {x, y}
               PROVE  g[T] = IF T = {} THEN 0
                      ELSE s[CHOOSE a \in T : TRUE].extra + g[T \ {CHOOSE a \in T : TRUE}]
    OBVIOUS
  <2>1. CASE T = {}
    BY <2>1
  <2>2. CASE T # {}
    <3>1. PICK c : c = (CHOOSE a \in T : TRUE)
      OBVIOUS
    <3>2. c \in T /\ c \in {x, y}
      BY <1>0, <2>2, <3>1
    <3>3. g[T \ {c}] = (IF x \in T \ {c} THEN s[x].extra ELSE 0)
                         + (IF y \in T \ {c} THEN s[y].extra ELSE 0)
      OBVIOUS
    <3>4. g[T] = (IF x \in T THEN s[x].extra ELSE 0) + (IF y \in T THEN s[y].extra ELSE 0)
      OBVIOUS
    <3> HIDE DEF g
    <3>5. g[T] = s[c].extra + g[T \ {c}]
      BY <3>2, <3>3, <3>4
    <3> QED
      BY <2>2, <3>1, <3>5
  <2> QED
    BY <2>1, <2>2
<1> HIDE DEF g
<1>h. Folds(s, {x, y}, g)
  BY <1>1 DEF Folds
<1>p. PICK h : Folds(s, {x, y}, h) /\ Added(s, {x, y}) = h[{x, y}]
  BY <1>h, FoldIs
<1>2. /\ h = [T \in SUBSET {x, y} |->
               IF T = {} THEN 0
               ELSE s[CHOOSE a \in T : TRUE].extra + h[T \ {CHOOSE a \in T : TRUE}]]
      /\ Added(s, {x, y}) = h[{x, y}]
  BY <1>p DEF Folds
<1>3. ASSUME NEW T \in SUBSET {x, y}, T # {}
      PROVE  h[T] = s[CHOOSE a \in T : TRUE].extra + h[T \ {CHOOSE a \in T : TRUE}]
  BY <1>2, <1>3
<1>4. h[{}] = 0
  BY <1>2
<1>5. ASSUME NEW z \in {x, y}
      PROVE  h[{z}] = s[z].extra + h[{}]
  <2>1. (CHOOSE a \in {z} : TRUE) = z /\ {z} \ {z} = {}
    OBVIOUS
  <2> QED
    BY <1>3, <2>1
<1>6. PICK c : c = (CHOOSE a \in {x, y} : TRUE)
  OBVIOUS
<1>7. c \in {x, y}
  BY <1>0, <1>6
<1>8. h[{x, y}] = s[c].extra + h[{x, y} \ {c}]
  BY <1>3, <1>6
<1>9. {x, y} \ {c} = {IF c = x THEN y ELSE x}
  BY <1>7
<1>10. h[{x}] = s[x].extra /\ h[{y}] = s[y].extra
  BY <1>4, <1>5
<1>11. CASE c = x
  BY <1>2, <1>8, <1>9, <1>10, <1>11
<1>12. CASE c = y
  <2>1. {x, y} \ {c} = {x}
    BY <1>9, <1>12
  <2>2. h[{x, y}] = s[y].extra + h[{x}]
    BY <1>8, <1>12, <2>1
  <2> QED
    BY <1>2, <1>10, <2>2
<1> QED
  BY <1>7, <1>11, <1>12

(* A set of two elements at most. *)
Pair(S) == \E x, y : S \subseteq {x, y}

(* A set within two elements is empty, a single, or a pair.                *)
LEMMA PairShape ==
  ASSUME NEW S, Pair(S)
  PROVE  \/ S = {}
         \/ \E x : S = {x}
         \/ \E x, y : x # y /\ S = {x, y}
BY DEF Pair

(* What at most two attempts added is a count.                             *)
LEMMA AddedNat ==
  ASSUME NEW s, NEW S, Pair(S), \A a \in S : s[a].extra \in Nat
  PROVE  Added(s, S) \in Nat
<1>1. CASE S = {}
  BY <1>1, AddedNone
<1>2. ASSUME NEW x, S = {x}
      PROVE  Added(s, S) \in Nat
  BY <1>2, AddedOne
<1>3. ASSUME NEW x, NEW y, x # y, S = {x, y}
      PROVE  Added(s, S) \in Nat
  <2>1. s[x].extra \in Nat /\ s[y].extra \in Nat
    BY <1>3
  <2>2. Added(s, {x, y}) = s[x].extra + s[y].extra
    BY <1>3, <2>1, AddedTwo
  <2> QED
    BY <1>3, <2>1, <2>2
<1> QED
  BY <1>1, <1>2, <1>3, PairShape

(* A sum depends on what its attempts added, and on nothing else of them.  *)
LEMMA AddedSame ==
  ASSUME NEW s, NEW t, NEW S, Pair(S),
         \A a \in S : s[a].extra \in Nat /\ t[a].extra = s[a].extra
  PROVE  Added(t, S) = Added(s, S)
<1>1. CASE S = {}
  BY <1>1, AddedNone
<1>2. ASSUME NEW x, S = {x}
      PROVE  Added(t, S) = Added(s, S)
  BY <1>2, AddedOne
<1>3. ASSUME NEW x, NEW y, x # y, S = {x, y}
      PROVE  Added(t, S) = Added(s, S)
  <2>1. /\ s[x].extra \in Nat /\ t[x].extra = s[x].extra
        /\ s[y].extra \in Nat /\ t[y].extra = s[y].extra
    BY <1>3
  <2>2. Added(s, {x, y}) = s[x].extra + s[y].extra
    BY <1>3, <2>1, AddedTwo
  <2>3. Added(t, {x, y}) = t[x].extra + t[y].extra
    BY <1>3, <2>1, AddedTwo
  <2> QED
    BY <1>3, <2>1, <2>2, <2>3
<1> QED
  BY <1>1, <1>2, <1>3, PairShape

(* Leaving out an attempt leaves out what it added.                        *)
LEMMA AddedLess ==
  ASSUME NEW s, NEW S, Pair(S), \A a \in S : s[a].extra \in Nat, NEW x \in S
  PROVE  Added(s, S) = Added(s, S \ {x}) + s[x].extra
<1>2. ASSUME NEW y, S = {y}
      PROVE  Added(s, S) = Added(s, S \ {x}) + s[x].extra
  <2>1. x = y /\ S \ {x} = {}
    BY <1>2
  <2> QED
    BY <1>2, <2>1, AddedOne, AddedNone
<1>3. ASSUME NEW y, NEW z, y # z, S = {y, z}
      PROVE  Added(s, S) = Added(s, S \ {x}) + s[x].extra
  <2>1. PICK w : w # x /\ S = {x, w} /\ S \ {x} = {w}
    <3>1. CASE x = y
      BY <1>3, <3>1
    <3>2. CASE x = z
      BY <1>3, <3>2
    <3> QED
      BY <1>3, <3>1, <3>2
  <2>2. s[x].extra \in Nat /\ s[w].extra \in Nat
    BY <2>1
  <2>3. Added(s, {x, w}) = s[x].extra + s[w].extra
    BY <2>1, <2>2, AddedTwo
  <2>4. Added(s, {w}) = s[w].extra
    BY <2>2, AddedOne
  <2>5. Added(s, S) = s[x].extra + s[w].extra /\ Added(s, S \ {x}) = s[w].extra
    BY <2>1, <2>3, <2>4
  <2> QED
    BY <2>2, <2>5
<1> QED
  BY <1>2, <1>3, PairShape

(* Where a conversation stands with its placement.                         *)
Pcs == {"idle", "reserved", "materialized", "placed", "running", "recovering"}
(* A document of "node-attempts".                                          *)
Attempt ==
  [run : Runs, node : Nodes, released : BOOLEAN, role : {"execution", "destination"},
   extra : Nat, materialized : BOOLEAN]
(* A document of "node-volumes".                                           *)
Volume == [kept : BOOLEAN, disk : Nat, materialized : BOOLEAN]
(* What the manager keeps of a node, and of its maintenance.               *)
NodeRow ==
  [state : {"invited", "enrolled", "revoked"}, accepting : BOOLEAN, slots : Nat, pool : Nat,
   ready : BOOLEAN, maintenance : {"none", "draining", "ready"}, error : BOOLEAN,
   generation : Nat]
(* What the manager keeps of a conversation, in its documents and in       *)
(* memory.                                                                 *)
Placement ==
  [pc : Pcs, at : Nodes \cup {NoNode}, runner : Nat, request : Nat, reservation : Nat,
   launch : Nat, hold : SUBSET Nat]
(* A maintenance task.                                                     *)
Drain ==
  [node : Nodes, generation : Nat \ {0}, listed : BOOLEAN, left : SUBSET Nat, failed : BOOLEAN]

(* The types of what placement keeps.                                      *)
PlaceTypes ==
  /\ att \in Seq(Attempt)
  /\ vol \in [Runs -> [Nodes -> Volume]]
  /\ crossed \subseteq AttemptIds
(* The types of what the conversations refer to.                           *)
RunTypes ==
  /\ run \in [Runs -> Placement]
  /\ vms \subseteq AttemptIds
  /\ stale \subseteq Runs \X Nodes
(* The types of what the nodes and their maintenance keep.                 *)
ServiceTypes ==
  /\ node \in [Nodes -> NodeRow]
  /\ budget \in [Nodes -> Nat]
  /\ grants \subseteq Nodes
  /\ drains \subseteq Drain
  /\ acts \in Nat /\ windows \in Nat

(* Only a node under maintenance has a drain's number.                     *)
Numbered == \A n \in Nodes : node[n].maintenance = "none" => node[n].generation = 0

(* What a conversation refers to are attempts of its own.                  *)
Mine(r, role) == {a \in AttemptIds : att[a].run = r /\ att[a].role \in role}
(* The attempts a conversation names are its own, each of the role it is   *)
(* for.                                                                    *)
Referred(r) ==
  /\ run[r].runner \in {0} \cup Mine(r, {"execution"})
  /\ run[r].launch \in {0} \cup Mine(r, {"execution"})
  /\ run[r].request \in {0} \cup Mine(r, {"destination"})
  /\ run[r].reservation \in {0} \cup {a \in Mine(r, {"destination"}) : att[a].materialized}
  /\ run[r].hold \subseteq Mine(r, {"destination"})
  /\ run[r].pc \in {"reserved", "materialized"} => run[r].launch # 0
(* So for every conversation.                                              *)
References == \A r \in Runs : Referred(r)

(* A VM that runs is the one its conversation's checkpoint names.          *)
VmsNamed ==
  \A a \in vms : /\ run[att[a].run].runner = a
                 /\ run[att[a].run].pc \in {"running", "recovering"}

(* One destination at most is held for a conversation.                     *)
OneDestination ==
  \A a, b \in ActiveIds :
    att[a].run = att[b].run /\ att[a].role = "destination" /\ att[b].role = "destination"
      => a = b
(* One execution at most is launching for a conversation.                  *)
OneUnmade ==
  \A a, b \in ActiveIds :
    (/\ att[a].run = att[b].run /\ att[a].role = "execution" /\ att[b].role = "execution"
     /\ ~att[a].materialized /\ ~att[b].materialized) => a = b

(* While a conversation launches, no destination of its is held; and a     *)
(* launch whose disk was deleted finds no volume.                          *)
LaunchAlone(r) ==
  run[r].pc = "reserved" =>
    /\ \A a \in ActiveIds : att[a].run = r => att[a].role = "execution"
    /\ run[r].launch \in crossed => ~vol[r][att[run[r].launch].node].kept
(* So for every conversation.                                              *)
LaunchesAlone == \A r \in Runs : LaunchAlone(r)

(* An attempt whose disk was deleted counts for no volume that is kept.    *)
Crossings ==
  \A a \in ActiveIds \cap crossed :
    /\ att[a].role = "destination" => ~vol[att[a].run][att[a].node].kept
    /\ att[a].role = "execution" /\ ~att[a].materialized => att[a].extra = 0

(* A disk on the list of stale ones is still there.                        *)
StaleMade ==
  \A p \in stale :
    /\ vol[p[1]][p[2]].materialized
    /\ \A a \in AttemptsOf(p[1], p[2]) :
         att[a].role = "execution" /\ ~att[a].materialized => att[a].extra = 0

(* The attempts of a set that have made no disk yet.                       *)
Diskless(s, S) == {a \in S : ~s[a].materialized}
(* The attempts a volume is kept for, less those it was deleted under.     *)
Backed(r, n) == AttemptsOf(r, n) \ crossed
(* What a volume holds follows from the attempts it is kept for.           *)
Account(s, v, A, S) ==
  /\ ~v.kept => v = NoVolume
  /\ S # {} => v.kept
  /\ \A a \in S : s[a].materialized => v.materialized
  /\ v.kept => v.materialized \/ A # {}
  /\ v.kept /\ ~v.materialized => v.disk = Added(s, S) /\ \A a \in S : s[a].extra >= 1
  /\ v.materialized => v.disk >= 1 + Added(s, Diskless(s, S))
(* So for every volume.                                                    *)
Accounts ==
  \A r \in Runs, n \in Nodes : Account(att, vol[r][n], AttemptsOf(r, n), Backed(r, n))

(* One destination and one launch for a conversation.                      *)
Roles == OneDestination /\ OneUnmade

(* The inductive invariant: placement, conversations, and maintenance.     *)
PlacePart   == PlaceTypes /\ Roles /\ Crossings /\ StaleMade /\ Accounts
RunPart     == RunTypes /\ References /\ VmsNamed /\ LaunchesAlone
ServicePart == ServiceTypes /\ Numbered
FleetInv    == PlacePart /\ RunPart /\ ServicePart

----------------------------------------
(* The types of an attempt's fields.                                       *)
LEMMA AttemptType ==
  ASSUME PlaceTypes, NEW a \in AttemptIds
  PROVE  /\ att[a] \in Attempt
         /\ att[a].run \in Runs /\ att[a].node \in Nodes /\ att[a].released \in BOOLEAN
         /\ att[a].role \in {"execution", "destination"} /\ att[a].extra \in Nat
         /\ att[a].materialized \in BOOLEAN
<1>1. att[a] \in Attempt
  BY DEF PlaceTypes, AttemptIds
<1> QED
  BY <1>1 DEF Attempt

(* A conversation has two attempts without a disk on a node at most.       *)
LEMMA UnmadePairs ==
  ASSUME PlaceTypes, Roles, NEW r, NEW n
  PROVE  Pair(Diskless(att, AttemptsOf(r, n)))
<1> DEFINE U == Diskless(att, AttemptsOf(r, n))
<1>1. \A a \in U : /\ a \in ActiveIds /\ att[a].run = r /\ ~att[a].materialized
                   /\ att[a].role \in {"execution", "destination"}
  BY AttemptType DEF Diskless, AttemptsOf, ActiveOn, ActiveIds
<1>2. \A a, b \in U : att[a].role = att[b].role => a = b
  BY <1>1 DEF Roles, OneDestination, OneUnmade
<1> HIDE DEF U
<1>3. CASE \A a, b \in U : a = b
  <2>1. PICK x : U \subseteq {x}
    BY <1>3
  <2> QED
    BY <2>1 DEF Pair, U
<1>4. CASE \E a, b \in U : a # b
  <2>1. PICK x \in U, y \in U : x # y
    BY <1>4
  <2>2. U \subseteq {x, y}
    BY <1>1, <1>2, <2>1
  <2> QED
    BY <2>2 DEF Pair, U
<1> QED
  BY <1>3, <1>4

(* A part of a pair is one.                                                *)
LEMMA PairPart ==
  ASSUME NEW S, NEW T, Pair(S), T \subseteq S
  PROVE  Pair(T)
BY DEF Pair

(* An account depends on what its attempts added and whether they made a   *)
(* disk.                                                                   *)
LEMMA AccountFrame ==
  ASSUME NEW s, NEW t, NEW v, NEW A, NEW S, Pair(Diskless(s, S)),
         \A a \in S : /\ s[a].extra \in Nat /\ t[a].extra = s[a].extra
                      /\ t[a].materialized = s[a].materialized,
         Account(s, v, A, S)
  PROVE  Account(t, v, A, S)
<1>1. Diskless(t, S) = Diskless(s, S)
  BY DEF Diskless
<1>2. Added(t, Diskless(s, S)) = Added(s, Diskless(s, S))
  BY AddedSame DEF Diskless
<1>3. ~v.materialized => Diskless(s, S) = S
  BY DEF Account, Diskless
<1>4. ~v.materialized => Added(t, S) = Added(s, S)
  BY <1>2, <1>3
<1> QED
  BY <1>1, <1>2, <1>4 DEF Account

(* What the attempts without a disk added is a count.                      *)
LEMMA AddedUnmade ==
  ASSUME PlaceTypes, Roles, NEW r, NEW n
  PROVE  /\ Pair(Diskless(att, Backed(r, n)))
         /\ \A a \in Backed(r, n) : att[a].extra \in Nat
         /\ Added(att, Diskless(att, Backed(r, n))) \in Nat
<1>1. Pair(Diskless(att, Backed(r, n)))
  <2>1. Diskless(att, Backed(r, n)) \subseteq Diskless(att, AttemptsOf(r, n))
    BY DEF Diskless, Backed
  <2> QED
    BY <2>1, UnmadePairs, PairPart
<1>2. \A a \in Backed(r, n) : att[a].extra \in Nat
  BY AttemptType DEF Backed, AttemptsOf, ActiveOn, ActiveIds
<1> QED
  BY <1>1, <1>2, AddedNat DEF Diskless

(* A disk that was made counts for one at least.                           *)
LEMMA MadeDisk ==
  ASSUME PlaceTypes, Roles, Accounts, NEW r \in Runs, NEW n \in Nodes, vol[r][n].materialized
  PROVE  vol[r][n].disk >= 1 /\ vol[r][n].kept
<1>1. vol[r][n] \in Volume
  BY DEF PlaceTypes
<1>2. vol[r][n].disk \in Nat /\ vol[r][n].kept \in BOOLEAN
  BY <1>1 DEF Volume
<1>3. Added(att, Diskless(att, Backed(r, n))) \in Nat
  BY AddedUnmade
<1>4. vol[r][n].disk >= 1 + Added(att, Diskless(att, Backed(r, n)))
  BY DEF Accounts, Account
<1>5. ~vol[r][n].kept => vol[r][n] = NoVolume
  BY DEF Accounts, Account
<1> QED
  BY <1>2, <1>3, <1>4, <1>5 DEF NoVolume

(* The greater of a count and one.                                         *)
LEMMA MostOfTwo ==
  ASSUME NEW d \in Nat
  PROVE  /\ Max({d, 1}) \in Nat /\ Max({d, 1}) >= d /\ Max({d, 1}) >= 1
         /\ d >= 1 => Max({d, 1}) = d
         /\ d = 0 => Max({d, 1}) = 1
<1>1. \E x \in {d, 1} : \A y \in {d, 1} : x >= y
  <2>1. CASE d >= 1
    BY <2>1
  <2>2. CASE ~(d >= 1)
    BY <2>2
  <2> QED
    BY <2>1, <2>2
<1>2. Max({d, 1}) \in {d, 1} /\ \A y \in {d, 1} : Max({d, 1}) >= y
  BY <1>1 DEF Max
<1> QED
  BY <1>2

(* What an admission brings a volume to, and so what it adds.              *)
LEMMA TotalDisk ==
  ASSUME NEW v \in Volume, NEW replacing \in BOOLEAN
  PROVE  /\ DiskTotal(v, replacing) \in Nat
         /\ DiskTotal(v, replacing) >= 1
         /\ DiskTotal(v, replacing) - v.disk \in Nat
         /\ replacing => DiskTotal(v, replacing) - v.disk >= 1
         /\ v.disk = 0 => DiskTotal(v, replacing) - v.disk >= 1
         /\ v.disk >= 1 /\ ~replacing => DiskTotal(v, replacing) - v.disk = 0
<1>1. v.disk \in Nat
  BY DEF Volume
<1>2. PICK m \in Nat : m = Max({v.disk, 1})
  BY <1>1, MostOfTwo
<1>3. m >= v.disk /\ m >= 1 /\ (v.disk >= 1 => m = v.disk) /\ (v.disk = 0 => m = 1)
  BY <1>1, <1>2, MostOfTwo
<1>4. DiskTotal(v, replacing) = m + IF replacing THEN 1 ELSE 0
  BY <1>2 DEF DiskTotal
<1> QED
  BY <1>1, <1>3, <1>4

(* An admission that is given its terms. *)
Admitted(r, n, moving, k, total) ==
  /\ k = Len(att) + 1 /\ k \in Nat /\ k # 0 /\ k \notin AttemptIds
  /\ crossed' = crossed
  /\ total \in Nat /\ total >= 1 /\ total >= vol[r][n].disk
  /\ moving /\ run[r].at # n => total - vol[r][n].disk >= 1
  /\ vol[r][n].disk = 0 => total - vol[r][n].disk >= 1
  /\ vol[r][n].disk >= 1 /\ ~moving => total - vol[r][n].disk = 0
  /\ att' = Append(att, [run |-> r, node |-> n, released |-> FALSE,
                         role |-> IF moving THEN "destination" ELSE "execution",
                         extra |-> total - vol[r][n].disk, materialized |-> FALSE])
  /\ vol' = [vol EXCEPT ![r][n] = [vol[r][n] EXCEPT !.kept = TRUE, !.disk = total]]
  /\ AttemptIds' = AttemptIds \cup {k}
  /\ \A a \in AttemptIds : att'[a] = att[a]
  /\ att'[k].run = r /\ att'[k].node = n /\ att'[k].released = FALSE
  /\ att'[k].role = IF moving THEN "destination" ELSE "execution"
  /\ att'[k].extra = total - vol[r][n].disk /\ att'[k].materialized = FALSE

(* An admission has terms.                                                 *)
LEMMA AdmitTerms ==
  ASSUME PlaceTypes, NEW r \in Runs, NEW n \in Nodes, NEW moving \in BOOLEAN,
         Admit(r, n, moving), crossed' = crossed
  PROVE  \E k, total : Admitted(r, n, moving, k, total)
<1>1. PICK k : k = Len(att) + 1
  OBVIOUS
<1>2. PICK total : total = DiskTotal(vol[r][n], moving /\ run[r].at # n)
  OBVIOUS
<1>3. vol[r][n] \in Volume
  BY DEF PlaceTypes
<1>4. vol[r][n].disk \in Nat
  BY <1>3 DEF Volume
<1>5. /\ total \in Nat /\ total >= 1 /\ total - vol[r][n].disk \in Nat
      /\ moving /\ run[r].at # n => total - vol[r][n].disk >= 1
      /\ vol[r][n].disk = 0 => total - vol[r][n].disk >= 1
      /\ vol[r][n].disk >= 1 /\ ~moving => total - vol[r][n].disk = 0
  BY <1>2, <1>3, TotalDisk
<1>6. total >= vol[r][n].disk
  BY <1>4, <1>5
<1>7. PICK e : e = [run |-> r, node |-> n, released |-> FALSE,
                    role |-> IF moving THEN "destination" ELSE "execution",
                    extra |-> total - vol[r][n].disk, materialized |-> FALSE]
  OBVIOUS
<1>8. /\ att' = Append(att, e)
      /\ vol' = [vol EXCEPT ![r][n] = [vol[r][n] EXCEPT !.kept = TRUE, !.disk = total]]
  BY <1>2, <1>7 DEF Admit
<1>9. PICK m \in Nat : m = Len(att)
  BY DEF PlaceTypes
<1>10. att \in Seq(Attempt) /\ e \in Attempt
  <2>1. e.extra \in Nat
    BY <1>5, <1>7
  <2> QED
    BY <1>5, <1>7 DEF PlaceTypes, Attempt
<1>11. /\ Len(att') = m + 1
       /\ \A a \in 1 .. m : att'[a] = att[a]
       /\ att'[m + 1] = e
  BY <1>8, <1>9, <1>10
<1>12. AttemptIds = 1 .. m /\ AttemptIds' = 1 .. (m + 1)
  BY <1>9, <1>11 DEF AttemptIds
<1>13. k = m + 1 /\ k \in Nat /\ k # 0 /\ k \notin AttemptIds /\ AttemptIds' = AttemptIds \cup {k}
  BY <1>1, <1>9, <1>12
<1>14. \A a \in AttemptIds : att'[a] = att[a]
  BY <1>11, <1>12
<1>15. att'[k] = e
  BY <1>11, <1>13
<1>16. /\ att'[k].run = r /\ att'[k].node = n /\ att'[k].released = FALSE
       /\ att'[k].role = IF moving THEN "destination" ELSE "execution"
       /\ att'[k].extra = total - vol[r][n].disk /\ att'[k].materialized = FALSE
  BY <1>15, <1>7
<1>17. Admitted(r, n, moving, k, total)
  BY <1>1, <1>5, <1>6, <1>7, <1>8, <1>13, <1>14, <1>16 DEF Admitted
<1> QED
  BY <1>17

(* An admission keeps the types.                                           *)
LEMMA AdmittedTypes ==
  ASSUME PlaceTypes, NEW r \in Runs, NEW n \in Nodes, NEW moving \in BOOLEAN,
         NEW k, NEW total, Admitted(r, n, moving, k, total)
  PROVE  PlaceTypes'
<1>1. total - vol[r][n].disk \in Nat
  <2>1. vol[r][n].disk \in Nat
    BY DEF PlaceTypes, Volume
  <2> QED
    BY <2>1 DEF Admitted
<1>2. PICK e : e = [run |-> r, node |-> n, released |-> FALSE,
                    role |-> IF moving THEN "destination" ELSE "execution",
                    extra |-> total - vol[r][n].disk, materialized |-> FALSE]
  OBVIOUS
<1>3. e \in Attempt
  BY <1>1, <1>2 DEF Attempt
<1>4. att' \in Seq(Attempt)
  <2>1. att' = Append(att, e)
    BY <1>2 DEF Admitted
  <2> QED
    BY <1>3, <2>1 DEF PlaceTypes
<1>5. vol' \in [Runs -> [Nodes -> Volume]]
  <2>1. PICK w : w = [vol[r][n] EXCEPT !.kept = TRUE, !.disk = total]
    OBVIOUS
  <2>2. w \in Volume
    <3>1. vol[r][n] \in Volume /\ total \in Nat
      BY DEF PlaceTypes, Admitted
    <3> QED
      BY <2>1, <3>1 DEF Volume
  <2>3. vol' = [vol EXCEPT ![r][n] = w]
    BY <2>1 DEF Admitted
  <2> QED
    BY <2>2, <2>3 DEF PlaceTypes
<1>6. crossed' \subseteq AttemptIds'
  BY DEF PlaceTypes, Admitted
<1> QED
  BY <1>4, <1>5, <1>6 DEF PlaceTypes

(* What an admission adds to the sets of attempts, and to the volumes. *)
LEMMA AdmittedSets ==
  ASSUME PlaceTypes, NEW r \in Runs, NEW n \in Nodes, NEW moving \in BOOLEAN,
         NEW k, NEW total, Admitted(r, n, moving, k, total)
  PROVE  /\ ActiveIds' = ActiveIds \cup {k} /\ k \notin crossed
         /\ AttemptsOf(r, n)' = AttemptsOf(r, n) \cup {k}
         /\ Backed(r, n)' = Backed(r, n) \cup {k}
         /\ \A r2 \in Runs, n2 \in Nodes : r2 # r \/ n2 # n =>
              /\ AttemptsOf(r2, n2)' = AttemptsOf(r2, n2)
              /\ Backed(r2, n2)' = Backed(r2, n2)
              /\ vol'[r2][n2] = vol[r2][n2]
         /\ vol'[r][n].kept /\ vol'[r][n].disk = total
         /\ vol'[r][n].materialized = vol[r][n].materialized
<1>1. ActiveIds' = ActiveIds \cup {k}
  BY DEF ActiveIds, Admitted
<1>2. k \notin crossed
  BY DEF PlaceTypes, Admitted
<1>3. \A r2, n2 : AttemptsOf(r2, n2)' =
        AttemptsOf(r2, n2) \cup (IF r2 = r /\ n2 = n THEN {k} ELSE {})
  <2>1. \A a \in ActiveIds : att'[a] = att[a]
    BY DEF Admitted, ActiveIds
  <2>2. att'[k].run = r /\ att'[k].node = n
    BY DEF Admitted
  <2> QED
    BY <1>1, <2>1, <2>2 DEF AttemptsOf, ActiveOn
<1>4. \A r2 \in Runs, n2 \in Nodes : r2 # r \/ n2 # n => vol'[r2][n2] = vol[r2][n2]
  BY DEF PlaceTypes, Admitted
<1>5. vol'[r][n] = [vol[r][n] EXCEPT !.kept = TRUE, !.disk = total]
  BY DEF PlaceTypes, Admitted
<1>6. /\ vol'[r][n].kept /\ vol'[r][n].disk = total
      /\ vol'[r][n].materialized = vol[r][n].materialized
  <2>1. vol[r][n] \in Volume
    BY DEF PlaceTypes
  <2> QED
    BY <1>5, <2>1 DEF Volume
<1>9. crossed' = crossed
  BY DEF Admitted
<1>7. Backed(r, n)' = Backed(r, n) \cup {k}
  BY <1>2, <1>3, <1>9 DEF Backed
<1>8. \A r2 \in Runs, n2 \in Nodes : r2 # r \/ n2 # n =>
        AttemptsOf(r2, n2)' = AttemptsOf(r2, n2) /\ Backed(r2, n2)' = Backed(r2, n2)
  BY <1>3, <1>9 DEF Backed
<1> QED
  BY <1>1, <1>2, <1>3, <1>4, <1>6, <1>7, <1>8

(* Nobody is in the way of an admission. *)
Alone(r, moving) ==
  \A a \in ActiveIds : att[a].run = r => moving /\ att[a].role = "execution"

(* An admission finds nobody else in the role it gives.                    *)
LEMMA AdmitAlone ==
  ASSUME PlaceTypes, NEW r \in Runs, NEW n \in Nodes, NEW moving \in BOOLEAN,
         Admit(r, n, moving)
  PROVE  Alone(r, moving)
<1>1. \A a \in ActiveIds : att[a].role \in {"execution", "destination"}
  BY AttemptType DEF ActiveIds
<1>2. ~StillOwned(r, moving)
  BY DEF Admit
<1> QED
  BY <1>1, <1>2 DEF StillOwned, Alone

(* An admission keeps the roles apart.                                     *)
LEMMA AdmitRoles ==
  ASSUME PlaceTypes, Roles, NEW r \in Runs, NEW n \in Nodes, NEW moving \in BOOLEAN,
         NEW k, NEW total, Admitted(r, n, moving, k, total), Alone(r, moving)
  PROVE  Roles'
<1>1. ActiveIds' = ActiveIds \cup {k} /\ k \notin ActiveIds
  BY AdmittedSets DEF Admitted, ActiveIds
<1>2. \A a \in ActiveIds : att'[a] = att[a]
  BY DEF Admitted, ActiveIds
<1>3. att'[k].run = r /\ att'[k].role = IF moving THEN "destination" ELSE "execution"
  BY DEF Admitted
<1>4. \A a \in ActiveIds : att[a].run = r => att[a].role # att'[k].role
  BY <1>3 DEF Alone
<1>5. OneDestination'
  BY <1>1, <1>2, <1>3, <1>4 DEF Roles, OneDestination
<1>6. OneUnmade'
  <2> SUFFICES ASSUME NEW a \in ActiveIds', NEW b \in ActiveIds',
                      att'[a].run = att'[b].run,
                      att'[a].role = "execution", att'[b].role = "execution",
                      ~att'[a].materialized, ~att'[b].materialized
               PROVE  a = b
    BY Zenon DEF OneUnmade
  <2>1. CASE a = k \/ b = k
    BY <1>1, <1>2, <1>3, <1>4, <2>1
  <2>2. CASE a # k /\ b # k
    BY <1>1, <1>2, <2>2 DEF Roles, OneUnmade
  <2> QED
    BY <2>1, <2>2
<1> QED
  BY <1>5, <1>6 DEF Roles

(* An admission reuses no volume for an attempt whose disk was deleted.    *)
LEMMA AdmitCrossings ==
  ASSUME PlaceTypes, Crossings, NEW r \in Runs, NEW n \in Nodes, NEW moving \in BOOLEAN,
         NEW k, NEW total, Admitted(r, n, moving, k, total), Alone(r, moving)
  PROVE  Crossings'
<1>1. ActiveIds' = ActiveIds \cup {k} /\ k \notin crossed
  BY AdmittedSets
<1>2. ActiveIds' \cap crossed' = ActiveIds \cap crossed
  BY <1>1 DEF Admitted
<1>3. SUFFICES ASSUME NEW a \in ActiveIds \cap crossed
               PROVE  /\ att'[a].role = "destination" =>
                           ~vol'[att'[a].run][att'[a].node].kept
                      /\ att'[a].role = "execution" /\ ~att'[a].materialized
                           => att'[a].extra = 0
  BY <1>2 DEF Crossings
<1>4. att'[a] = att[a] /\ att[a].run \in Runs /\ att[a].node \in Nodes
  BY AttemptType DEF Admitted, ActiveIds
<1>5. ASSUME att[a].role = "destination"
      PROVE  ~vol'[att[a].run][att[a].node].kept
  <2>1. att[a].run # r
    BY <1>5 DEF Alone
  <2> QED
    BY <1>4, <1>5, <2>1, AdmittedSets DEF Crossings
<1> QED
  BY <1>4, <1>5 DEF Crossings

(* An admission keeps what is stale on its disk, and adds nothing to it.   *)
LEMMA AdmitStale ==
  ASSUME PlaceTypes, RunTypes, Roles, Accounts, StaleMade,
         NEW r \in Runs, NEW n \in Nodes, NEW moving \in BOOLEAN,
         NEW k, NEW total, Admitted(r, n, moving, k, total),
         stale' = stale
  PROVE  StaleMade'
<1> SUFFICES ASSUME NEW r2 \in Runs, NEW n2 \in Nodes, <<r2, n2>> \in stale
             PROVE  /\ vol'[r2][n2].materialized
                    /\ \A a \in AttemptsOf(r2, n2)' :
                         att'[a].role = "execution" /\ ~att'[a].materialized
                           => att'[a].extra = 0
  <2>1. \A p \in stale : \E r2 \in Runs, n2 \in Nodes : p = <<r2, n2>>
    BY DEF RunTypes
  <2> QED
    BY <2>1 DEF StaleMade
<1>1. /\ vol[r2][n2].materialized
      /\ \A a \in AttemptsOf(r2, n2) :
           att[a].role = "execution" /\ ~att[a].materialized => att[a].extra = 0
  BY DEF StaleMade
<1>2. \A a \in AttemptsOf(r2, n2) : att'[a] = att[a]
  BY DEF Admitted, AttemptsOf, ActiveOn, ActiveIds
<1>3. CASE r2 # r \/ n2 # n
  BY <1>1, <1>2, <1>3, AdmittedSets
<1>4. CASE r2 = r /\ n2 = n
  <2>1. vol'[r][n].materialized /\ AttemptsOf(r, n)' = AttemptsOf(r, n) \cup {k}
    BY <1>1, <1>4, AdmittedSets
  <2>2. vol[r][n].disk >= 1
    BY <1>1, <1>4, MadeDisk
  <2>3. att'[k].role = "execution" => att'[k].extra = 0
    BY <2>2 DEF Admitted
  <2> QED
    BY <1>1, <1>2, <1>4, <2>1, <2>3
<1> QED
  BY <1>3, <1>4

(* An admission accounts for what it adds.                                 *)
LEMMA AdmitAccounts ==
  ASSUME PlaceTypes, RunTypes, Roles, Accounts,
         NEW r \in Runs, NEW n \in Nodes, NEW moving \in BOOLEAN,
         NEW k, NEW total, Admitted(r, n, moving, k, total), Alone(r, moving),
         moving => run[r].at # n
  PROVE  Accounts'
<1> SUFFICES ASSUME NEW r2 \in Runs, NEW n2 \in Nodes
             PROVE  Account(att', vol'[r2][n2], AttemptsOf(r2, n2)', Backed(r2, n2)')
  BY DEF Accounts
<1>1. Account(att, vol[r2][n2], AttemptsOf(r2, n2), Backed(r2, n2))
  BY DEF Accounts
<1>2. \A a \in Backed(r2, n2) : att'[a] = att[a] /\ att[a].extra \in Nat
  <2>1. \A a \in Backed(r2, n2) : att'[a] = att[a]
    BY DEF Admitted, Backed, AttemptsOf, ActiveOn, ActiveIds
  <2> QED
    BY <2>1, AddedUnmade
<1>3. Pair(Diskless(att, Backed(r2, n2)))
  BY AddedUnmade
<1>4. Account(att', vol[r2][n2], AttemptsOf(r2, n2), Backed(r2, n2))
  BY <1>1, <1>2, <1>3, AccountFrame
<1>5. CASE r2 # r \/ n2 # n
  BY <1>4, <1>5, AdmittedSets
<1>6. CASE r2 = r /\ n2 = n
  <2> DEFINE S == Backed(r, n)
             T == Backed(r, n)'
             v == vol[r][n]
             w == vol'[r][n]
             A == AttemptsOf(r, n)
             U == Diskless(att', S)
             X == Diskless(att', T)
  <2>1. T = S \cup {k} /\ k \notin S /\ AttemptsOf(r, n)' = A \cup {k}
    <3>1. k \notin AttemptsOf(r, n)
      BY DEF Admitted, AttemptsOf, ActiveOn, ActiveIds
    <3> QED
      BY <3>1, AdmittedSets DEF Backed
  <2>2. w.kept /\ w.disk = total /\ w.materialized = v.materialized
    BY AdmittedSets
  <2>3. att'[k].extra = total - v.disk /\ att'[k].materialized = FALSE /\ total >= v.disk
        /\ total \in Nat /\ v.disk \in Nat /\ v.kept \in BOOLEAN /\ v.materialized \in BOOLEAN
    <3>1. v \in Volume
      BY DEF PlaceTypes
    <3> QED
      BY <3>1 DEF Admitted, Volume
  <2>4. att'[k].extra \in Nat /\ total = v.disk + att'[k].extra
    BY <2>3
  <2>5. X = U \cup {k} /\ k \notin U
    BY <2>1, <2>3 DEF Diskless
  <2>6. Pair(X) /\ Pair(U)
    <3>1. \A a, b \in U : a = b
      <4>1. \A a \in U : a \in ActiveIds /\ att'[a] = att[a] /\ att[a].run = r
                           /\ ~att[a].materialized
        BY <1>2, <1>6 DEF Diskless, Backed, AttemptsOf, ActiveOn
      <4>2. \A a \in U : att[a].role = "execution"
        BY <4>1 DEF Alone
      <4> QED
        BY <4>1, <4>2 DEF Roles, OneUnmade
    <3>2. PICK x : U \subseteq {x}
      BY <3>1
    <3>3. X \subseteq {x, k} /\ U \subseteq {x, k}
      BY <2>5, <3>2
    <3> QED
      BY <3>3 DEF Pair
  <2>7. \A a \in X : att'[a].extra \in Nat
    BY <1>2, <1>6, <2>4, <2>5 DEF Diskless
  <2>8. Added(att', X) = Added(att', U) + att'[k].extra /\ Added(att', U) \in Nat
    <3>1. X \ {k} = U /\ k \in X
      BY <2>5
    <3>2. Added(att', X) = Added(att', X \ {k}) + att'[k].extra
      BY <2>6, <2>7, <3>1, AddedLess
    <3>3. Added(att', U) \in Nat
      BY <2>5, <2>6, <2>7, AddedNat
    <3> QED
      BY <3>1, <3>2, <3>3
  <2>9. Account(att', v, A, S)
    BY <1>4, <1>6
  <2>10. w.materialized => w.disk >= 1 + Added(att', X)
    <3>1. v.materialized => v.disk >= 1 + Added(att', U)
      BY <2>9 DEF Account
    <3> QED
      BY <2>2, <2>3, <2>4, <2>8, <3>1
  <2>11. ASSUME ~w.materialized
         PROVE  w.disk = Added(att', T) /\ \A a \in T : att'[a].extra >= 1
    <3>1. ~v.materialized /\ S = U /\ T = X
      BY <2>1, <2>2, <2>3, <2>9, <2>11 DEF Account, Diskless
    <3>2. CASE v.kept
      <4>1. v.disk = Added(att', U) /\ \A a \in S : att'[a].extra >= 1
        BY <2>9, <3>1, <3>2 DEF Account
      <4>2. moving
        <5>1. A # {}
          BY <2>9, <3>1, <3>2 DEF Account
        <5> QED
          BY <5>1 DEF Alone, AttemptsOf, ActiveOn
      <4>3. att'[k].extra >= 1
        BY <2>3, <4>2 DEF Admitted
      <4> QED
        BY <2>1, <2>2, <2>4, <2>8, <3>1, <4>1, <4>3
    <3>3. CASE ~v.kept
      <4>1. v.disk = 0 /\ S = {}
        BY <2>9, <3>3 DEF Account, NoVolume
      <4>2. att'[k].extra >= 1
        BY <2>3, <4>1 DEF Admitted
      <4>3. Added(att', U) = 0
        BY <3>1, <4>1, AddedNone
      <4> QED
        BY <2>1, <2>2, <2>4, <2>8, <3>1, <4>1, <4>2, <4>3
    <3> QED
      BY <3>2, <3>3
  <2>12. \A a \in T : att'[a].materialized => w.materialized
    <3>1. \A a \in S : att'[a].materialized => v.materialized
      BY <2>9 DEF Account
    <3> QED
      BY <2>1, <2>2, <2>3, <3>1
  <2>13. Account(att', w, A \cup {k}, T)
    BY <2>2, <2>10, <2>11, <2>12 DEF Account
  <2> QED
    BY <1>6, <2>1, <2>13
<1> QED
  BY <1>5, <1>6

(* A release that is given its terms. *)
Giving(a, r, n, w) ==
  /\ a \in ActiveIds /\ r = att[a].run /\ n = att[a].node /\ w = VolumeAfter(a)
  /\ r \in Runs /\ n \in Nodes /\ crossed' = crossed
  /\ AttemptIds' = AttemptIds /\ ActiveIds' = ActiveIds \ {a}
  /\ \A b \in AttemptIds :
       /\ att'[b].run = att[b].run /\ att'[b].node = att[b].node
       /\ att'[b].role = att[b].role /\ att'[b].extra = att[b].extra
       /\ att'[b].materialized = att[b].materialized
  /\ vol'[r][n] = w
  /\ \A r2 \in Runs, n2 \in Nodes : r2 # r \/ n2 # n => vol'[r2][n2] = vol[r2][n2]

(* The two ways a volume takes a release. *)
LEMMA VolumeAfterShape ==
  ASSUME PlaceTypes, NEW a \in ActiveIds, NEW r, NEW n, NEW w, NEW v,
         r = att[a].run, n = att[a].node, v = vol[r][n], w = VolumeAfter(a)
  PROVE  /\ v \in Volume /\ w \in Volume
         /\ \/ w = NoVolume /\ (~v.kept \/ (~v.materialized /\ AttemptsOf(r, n) \subseteq {a}))
            \/ /\ v.kept /\ (v.materialized \/ ~(AttemptsOf(r, n) \subseteq {a}))
               /\ w.kept /\ w.materialized = v.materialized
               /\ w.disk = IF att[a].materialized THEN v.disk
                           ELSE IF v.disk > att[a].extra THEN v.disk - att[a].extra ELSE 0
<1>1. /\ v \in Volume /\ v.disk \in Nat /\ v.kept \in BOOLEAN /\ v.materialized \in BOOLEAN
      /\ att[a].extra \in Nat /\ att[a].materialized \in BOOLEAN
  BY AttemptType DEF PlaceTypes, ActiveIds, Volume
<1>2. PICK d : d = IF v.disk > att[a].extra THEN v.disk - att[a].extra ELSE 0
  OBVIOUS
<1>3. d \in Nat
  BY <1>1, <1>2
<1>4. PICK u : u = IF att[a].materialized THEN v ELSE [v EXCEPT !.disk = d]
  OBVIOUS
<1>5. w = IF ~v.kept \/ (~v.materialized /\ AttemptsOf(r, n) \subseteq {a})
          THEN NoVolume ELSE u
  BY Zenon, <1>2, <1>4 DEF VolumeAfter, Unused
<1>6. /\ u \in Volume /\ u.kept = v.kept /\ u.materialized = v.materialized
      /\ u.disk = IF att[a].materialized THEN v.disk ELSE d
  BY <1>1, <1>3, <1>4 DEF Volume
<1>7. NoVolume \in Volume
  BY DEF NoVolume, Volume
<1> QED
  BY <1>1, <1>2, <1>5, <1>6, <1>7

(* A release has terms.                                                    *)
LEMMA ReleaseTerms ==
  ASSUME PlaceTypes, NEW a \in ActiveIds, Released(a), crossed' = crossed
  PROVE  /\ PlaceTypes'
         /\ \E r, n, w : Giving(a, r, n, w)
<1>1. PICK m \in Nat : m = Len(att)
  BY DEF PlaceTypes
<1>2. att \in [1 .. m -> Attempt] /\ AttemptIds = 1 .. m /\ a \in 1 .. m /\ a # 0
  BY <1>1 DEF PlaceTypes, ActiveIds, AttemptIds
<1>3. /\ att' = [att EXCEPT ![a].released = TRUE]
      /\ vol' = [vol EXCEPT ![att[a].run][att[a].node] = VolumeAfter(a)]
  BY <1>2 DEF Released
<1>4. PICK r, n, w : r = att[a].run /\ n = att[a].node /\ w = VolumeAfter(a)
  OBVIOUS
<1>5. r \in Runs /\ n \in Nodes
  BY <1>4, AttemptType DEF ActiveIds
<1>6. w \in Volume
  BY <1>4, VolumeAfterShape
<1>7. PICK e : e = [att[a] EXCEPT !.released = TRUE]
  OBVIOUS
<1>8. e \in Attempt /\ e.released = TRUE /\ e.run = att[a].run /\ e.node = att[a].node
      /\ e.role = att[a].role /\ e.extra = att[a].extra /\ e.materialized = att[a].materialized
  <2>1. att[a] \in Attempt
    BY <1>2
  <2> QED
    BY <1>7, <2>1 DEF Attempt
<1>9. att' \in [1 .. m -> Attempt] /\ att'[a] = e /\ \A b \in 1 .. m : b # a => att'[b] = att[b]
  BY <1>2, <1>3, <1>7, <1>8
<1>10. att' \in Seq(Attempt) /\ Len(att') = m
  BY <1>9
<1>11. AttemptIds' = AttemptIds
  BY <1>2, <1>10 DEF AttemptIds
<1>12. ActiveIds' = ActiveIds \ {a}
  BY <1>2, <1>8, <1>9, <1>11 DEF ActiveIds
<1>13. vol' = [vol EXCEPT ![r][n] = w]
  BY <1>3, <1>4
<1>14. /\ vol' \in [Runs -> [Nodes -> Volume]] /\ vol'[r][n] = w
       /\ \A r2 \in Runs, n2 \in Nodes : r2 # r \/ n2 # n => vol'[r2][n2] = vol[r2][n2]
  BY <1>5, <1>6, <1>13 DEF PlaceTypes
<1>15. PlaceTypes'
  BY <1>10, <1>11, <1>14 DEF PlaceTypes
<1>16. \A b \in AttemptIds :
         /\ att'[b].run = att[b].run /\ att'[b].node = att[b].node
         /\ att'[b].role = att[b].role /\ att'[b].extra = att[b].extra
         /\ att'[b].materialized = att[b].materialized
  BY <1>2, <1>8, <1>9
<1>17. Giving(a, r, n, w)
  BY <1>4, <1>5, <1>11, <1>12, <1>14, <1>16 DEF Giving
<1> QED
  BY <1>15, <1>17

(* The two ways a volume takes a release, in its terms.                    *)
LEMMA GivingShape ==
  ASSUME PlaceTypes, NEW a, NEW r, NEW n, NEW w, Giving(a, r, n, w), NEW v, v = vol[r][n]
  PROVE  /\ v \in Volume /\ w \in Volume
         /\ \/ w = NoVolume /\ (~v.kept \/ (~v.materialized /\ AttemptsOf(r, n) \subseteq {a}))
            \/ /\ v.kept /\ (v.materialized \/ ~(AttemptsOf(r, n) \subseteq {a}))
               /\ w.kept /\ w.materialized = v.materialized
               /\ w.disk = IF att[a].materialized THEN v.disk
                           ELSE IF v.disk > att[a].extra THEN v.disk - att[a].extra ELSE 0
<1>1. a \in ActiveIds /\ r = att[a].run /\ n = att[a].node /\ w = VolumeAfter(a)
  BY DEF Giving
<1> QED
  BY <1>1, VolumeAfterShape

(* What a release takes from the sets of attempts.                         *)
LEMMA GivingSets ==
  ASSUME PlaceTypes, NEW a, NEW r, NEW n, NEW w, Giving(a, r, n, w)
  PROVE  /\ a \in AttemptsOf(r, n)
         /\ AttemptsOf(r, n)' = AttemptsOf(r, n) \ {a}
         /\ Backed(r, n)' = Backed(r, n) \ {a}
         /\ \A r2 \in Runs, n2 \in Nodes : r2 # r \/ n2 # n =>
              AttemptsOf(r2, n2)' = AttemptsOf(r2, n2) /\ Backed(r2, n2)' = Backed(r2, n2)
<1>1. a \in AttemptsOf(r, n)
  BY DEF Giving, AttemptsOf, ActiveOn
<1>2. \A r2, n2 : AttemptsOf(r2, n2)' = AttemptsOf(r2, n2) \ {a}
  BY DEF Giving, AttemptsOf, ActiveOn, ActiveIds
<1>3. \A r2, n2 : r2 # r \/ n2 # n => a \notin AttemptsOf(r2, n2)
  BY DEF Giving, AttemptsOf, ActiveOn
<1>4. crossed' = crossed
  BY DEF Giving
<1> QED
  BY <1>1, <1>2, <1>3, <1>4 DEF Backed

(* A release keeps the roles apart.                                        *)
LEMMA GivingRoles ==
  ASSUME PlaceTypes, Roles, NEW a, NEW r, NEW n, NEW w, Giving(a, r, n, w)
  PROVE  Roles'
<1>1. \A b \in ActiveIds' : /\ b \in ActiveIds /\ att'[b].run = att[b].run
                            /\ att'[b].role = att[b].role
                            /\ att'[b].materialized = att[b].materialized
  BY DEF Giving, ActiveIds
<1>2. OneDestination'
  BY <1>1 DEF Roles, OneDestination
<1>3. OneUnmade'
  BY <1>1 DEF Roles, OneUnmade
<1> QED
  BY <1>2, <1>3 DEF Roles

(* A release never brings a volume into being. *)
LEMMA GivingKept ==
  ASSUME PlaceTypes, NEW a, NEW r, NEW n, NEW w, Giving(a, r, n, w),
         NEW r2 \in Runs, NEW n2 \in Nodes, vol'[r2][n2].kept
  PROVE  vol[r2][n2].kept
<1>1. CASE r2 # r \/ n2 # n
  BY <1>1 DEF Giving
<1>2. CASE r2 = r /\ n2 = n
  <2>1. w = vol'[r][n]
    BY DEF Giving
  <2>2. w = NoVolume \/ vol[r][n].kept
    BY GivingShape
  <2> QED
    BY <1>2, <2>1, <2>2 DEF NoVolume
<1> QED
  BY <1>1, <1>2

(* A release brings back no volume of a deleted disk.                      *)
LEMMA GivingCrossings ==
  ASSUME PlaceTypes, Crossings, NEW a, NEW r, NEW n, NEW w, Giving(a, r, n, w)
  PROVE  Crossings'
<1> SUFFICES ASSUME NEW b \in ActiveIds' \cap crossed'
             PROVE  /\ att'[b].role = "destination" =>
                         ~vol'[att'[b].run][att'[b].node].kept
                    /\ att'[b].role = "execution" /\ ~att'[b].materialized
                         => att'[b].extra = 0
  BY DEF Crossings
<1>1. b \in ActiveIds \cap crossed /\ b \in AttemptIds
  BY DEF Giving, ActiveIds
<1>2. att[b].run \in Runs /\ att[b].node \in Nodes
  BY <1>1, AttemptType
<1>3. /\ att'[b].run = att[b].run /\ att'[b].node = att[b].node
      /\ att'[b].role = att[b].role /\ att'[b].extra = att[b].extra
      /\ att'[b].materialized = att[b].materialized
  BY <1>1 DEF Giving
<1>4. vol'[att[b].run][att[b].node].kept => vol[att[b].run][att[b].node].kept
  BY <1>2, GivingKept
<1> QED
  BY <1>1, <1>3, <1>4 DEF Crossings

(* A release leaves the disks listed as stale where they are.              *)
LEMMA GivingStale ==
  ASSUME PlaceTypes, RunTypes, Roles, Accounts, StaleMade, stale' = stale,
         NEW a, NEW r, NEW n, NEW w, Giving(a, r, n, w)
  PROVE  StaleMade'
<1> SUFFICES ASSUME NEW r2 \in Runs, NEW n2 \in Nodes, <<r2, n2>> \in stale
             PROVE  /\ vol'[r2][n2].materialized
                    /\ \A b \in AttemptsOf(r2, n2)' :
                         att'[b].role = "execution" /\ ~att'[b].materialized
                           => att'[b].extra = 0
  <2>1. \A p \in stale : \E r2 \in Runs, n2 \in Nodes : p = <<r2, n2>>
    BY DEF RunTypes
  <2> QED
    BY <2>1 DEF StaleMade
<1>1. /\ vol[r2][n2].materialized
      /\ \A b \in AttemptsOf(r2, n2) :
           att[b].role = "execution" /\ ~att[b].materialized => att[b].extra = 0
  BY DEF StaleMade
<1>2. \A b \in AttemptsOf(r2, n2)' :
        /\ b \in AttemptsOf(r2, n2) /\ att'[b].role = att[b].role
        /\ att'[b].extra = att[b].extra /\ att'[b].materialized = att[b].materialized
  BY DEF Giving, AttemptsOf, ActiveOn, ActiveIds
<1>3. vol'[r2][n2].materialized
  <2>1. CASE r2 # r \/ n2 # n
    BY <1>1, <2>1 DEF Giving
  <2>2. CASE r2 = r /\ n2 = n
    <3>1. w = vol'[r][n]
      BY DEF Giving
    <3>2. vol[r][n].kept
      BY <1>1, <2>2, MadeDisk
    <3>3. w.materialized = vol[r][n].materialized
      BY <1>1, <2>2, <3>2, GivingShape
    <3> QED
      BY <1>1, <2>2, <3>1, <3>3
  <2> QED
    BY <2>1, <2>2
<1> QED
  BY <1>1, <1>2, <1>3

(* A release gives back what the attempt added, and no more.               *)
LEMMA GivingAccounts ==
  ASSUME PlaceTypes, Roles, Accounts, Crossings,
         NEW a, NEW r, NEW n, NEW w, Giving(a, r, n, w)
  PROVE  Accounts'
<1> SUFFICES ASSUME NEW r2 \in Runs, NEW n2 \in Nodes
             PROVE  Account(att', vol'[r2][n2], AttemptsOf(r2, n2)', Backed(r2, n2)')
  BY DEF Accounts
<1>1. Account(att, vol[r2][n2], AttemptsOf(r2, n2), Backed(r2, n2))
  BY DEF Accounts
<1>2. \A b \in Backed(r2, n2) : /\ att'[b].extra = att[b].extra /\ att[b].extra \in Nat
                                /\ att'[b].materialized = att[b].materialized
  <2>1. \A b \in Backed(r2, n2) : b \in AttemptIds
    BY DEF Backed, AttemptsOf, ActiveOn, ActiveIds
  <2>2. \A b \in Backed(r2, n2) : att[b].extra \in Nat
    BY AddedUnmade
  <2> QED
    BY <2>1, <2>2 DEF Giving
<1>3. Pair(Diskless(att, Backed(r2, n2)))
  BY AddedUnmade
<1>4. Account(att', vol[r2][n2], AttemptsOf(r2, n2), Backed(r2, n2))
  BY <1>1, <1>2, <1>3, AccountFrame
<1>5. CASE r2 # r \/ n2 # n
  <2>1. vol'[r2][n2] = vol[r2][n2]
    BY <1>5 DEF Giving
  <2>2. AttemptsOf(r2, n2)' = AttemptsOf(r2, n2) /\ Backed(r2, n2)' = Backed(r2, n2)
    BY <1>5, GivingSets
  <2> QED
    BY <1>4, <2>1, <2>2
<1>6. CASE r2 = r /\ n2 = n
  <2> DEFINE S == Backed(r, n)
             v == vol[r][n]
             A == AttemptsOf(r, n)
             U == Diskless(att', S)
  <2>1. a \in A /\ AttemptsOf(r, n)' = A \ {a} /\ Backed(r, n)' = S \ {a} /\ w = vol'[r][n]
    BY GivingSets DEF Giving
  <2>2. Account(att', v, A, S)
    BY <1>4, <1>6
  <2>3. /\ v \in Volume /\ w \in Volume
        /\ \/ w = NoVolume /\ (~v.kept \/ (~v.materialized /\ A \subseteq {a}))
           \/ /\ v.kept /\ (v.materialized \/ ~(A \subseteq {a}))
              /\ w.kept /\ w.materialized = v.materialized
              /\ w.disk = IF att[a].materialized THEN v.disk
                          ELSE IF v.disk > att[a].extra THEN v.disk - att[a].extra ELSE 0
    BY GivingShape
  <2>4. /\ v.disk \in Nat /\ v.kept \in BOOLEAN /\ v.materialized \in BOOLEAN
        /\ a \in ActiveIds /\ att[a].run = r /\ att[a].node = n
        /\ att[a].extra \in Nat /\ att[a].materialized \in BOOLEAN
        /\ att[a].role \in {"execution", "destination"}
        /\ att'[a].extra = att[a].extra /\ att'[a].materialized = att[a].materialized
    BY <2>3, AttemptType DEF Volume, Giving, ActiveIds
  <2>5. Diskless(att', S \ {a}) = U \ {a} /\ Pair(U) /\ Pair(U \ {a})
        /\ (\A b \in U : att'[b].extra \in Nat)
    <3>1. U = Diskless(att, S)
      BY <1>2, <1>6 DEF Diskless
    <3>2. Pair(U)
      BY <1>3, <1>6, <3>1
    <3>3. \A b \in U : att'[b].extra \in Nat
      BY <1>2, <1>6 DEF Diskless
    <3>4. Diskless(att', S \ {a}) = U \ {a}
      BY DEF Diskless
    <3> QED
      BY <3>2, <3>3, <3>4, PairPart
  <2>6. Added(att', U) \in Nat /\ Added(att', U \ {a}) \in Nat
    BY <2>5, AddedNat
  <2>7. CASE w = NoVolume /\ (~v.kept \/ (~v.materialized /\ A \subseteq {a}))
    <3>1. S \ {a} = {}
      BY <2>1, <2>2, <2>7 DEF Account, Backed
    <3> QED
      BY <1>6, <2>1, <2>7, <3>1 DEF Account, NoVolume
  <2>8. CASE /\ v.kept /\ (v.materialized \/ ~(A \subseteq {a}))
             /\ w.kept /\ w.materialized = v.materialized
             /\ w.disk = IF att[a].materialized THEN v.disk
                         ELSE IF v.disk > att[a].extra THEN v.disk - att[a].extra ELSE 0
    <3>1. CASE a \notin U
      <4>1. w.disk = v.disk
        <5>1. CASE att[a].materialized
          BY <2>8, <5>1
        <5>2. CASE ~att[a].materialized
          <6>1. a \in crossed
            BY <2>1, <2>4, <3>1, <5>2 DEF Diskless, Backed
          <6>2. att[a].role = "execution" /\ att[a].extra = 0
            BY <2>4, <2>8, <5>2, <6>1 DEF Crossings
          <6> QED
            BY <2>4, <2>8, <5>2, <6>2
        <5> QED
          BY <5>1, <5>2
      <4>2. U \ {a} = U
        BY <3>1
      <4>3. ~v.materialized => S \ {a} = S
        BY <2>2, <3>1 DEF Account, Diskless
      <4>4. Account(att', w, A \ {a}, S \ {a})
        BY <2>2, <2>5, <2>8, <4>1, <4>2, <4>3 DEF Account
      <4> QED
        BY <1>6, <2>1, <4>4
    <3>2. CASE a \in U
      <4>1. Added(att', U) = Added(att', U \ {a}) + att[a].extra
        BY <2>4, <2>5, <3>2, AddedLess
      <4>2. ~att[a].materialized
        BY <2>4, <3>2 DEF Diskless
      <4>3. v.materialized => w.disk >= 1 + Added(att', U \ {a})
        <5>1. v.materialized => v.disk >= 1 + Added(att', U)
          BY <2>2 DEF Account
        <5> QED
          BY <2>4, <2>6, <2>8, <4>1, <4>2, <5>1
      <4>4. ~v.materialized => w.disk = Added(att', S \ {a})
        <5> SUFFICES ASSUME ~v.materialized
                     PROVE  w.disk = Added(att', S \ {a})
          OBVIOUS
        <5>1. U = S
          BY <2>2 DEF Account, Diskless
        <5>2. v.disk = Added(att', U)
          BY <2>2, <2>8, <5>1 DEF Account
        <5>3. PICK d \in Nat : d = Added(att', U \ {a})
          BY <2>6
        <5>4. v.disk = d + att[a].extra
          BY <4>1, <5>2, <5>3
        <5>5. w.disk = d
          BY <2>4, <2>8, <4>2, <5>4
        <5>6. S \ {a} = U \ {a}
          BY <5>1
        <5> QED
          BY <5>3, <5>5, <5>6
      <4>5. Account(att', w, A \ {a}, S \ {a})
        BY <2>2, <2>5, <2>8, <4>3, <4>4 DEF Account
      <4> QED
        BY <1>6, <2>1, <4>5
    <3> QED
      BY <3>1, <3>2
  <2> QED
    BY <2>3, <2>7, <2>8
<1> QED
  BY <1>5, <1>6

(* A materialization that is given its terms. *)
Making(a, r, n) ==
  /\ a \in ActiveIds /\ a \notin crossed /\ r = att[a].run /\ n = att[a].node
  /\ r \in Runs /\ n \in Nodes /\ vol[r][n].kept /\ crossed' = crossed
  /\ AttemptIds' = AttemptIds /\ ActiveIds' = ActiveIds
  /\ \A b \in AttemptIds :
       /\ att'[b].run = att[b].run /\ att'[b].node = att[b].node
       /\ att'[b].role = att[b].role /\ att'[b].extra = att[b].extra
       /\ b # a => att'[b].materialized = att[b].materialized
  /\ att'[a].materialized
  /\ vol'[r][n].kept /\ vol'[r][n].disk = vol[r][n].disk /\ vol'[r][n].materialized
  /\ \A r2 \in Runs, n2 \in Nodes : r2 # r \/ n2 # n => vol'[r2][n2] = vol[r2][n2]

(* A materialization has terms.                                            *)
LEMMA MakingTerms ==
  ASSUME PlaceTypes, NEW a \in AttemptIds, Materialized(a), a \notin crossed,
         crossed' = crossed
  PROVE  /\ PlaceTypes'
         /\ \E r, n : Making(a, r, n)
<1>1. PICK m \in Nat : m = Len(att)
  BY DEF PlaceTypes
<1>2. att \in [1 .. m -> Attempt] /\ AttemptIds = 1 .. m /\ a \in 1 .. m
  BY <1>1 DEF PlaceTypes, AttemptIds
<1>3. /\ ~att[a].released /\ vol[att[a].run][att[a].node].kept
      /\ att' = [att EXCEPT ![a].materialized = TRUE]
      /\ vol' = [vol EXCEPT ![att[a].run][att[a].node].materialized = TRUE]
  BY DEF Materialized
<1>4. PICK r, n, v : r = att[a].run /\ n = att[a].node /\ v = vol[r][n]
  OBVIOUS
<1>5. r \in Runs /\ n \in Nodes
  BY <1>4, AttemptType
<1>6. PICK w : w = [v EXCEPT !.materialized = TRUE]
  OBVIOUS
<1>7. w \in Volume /\ w.kept = v.kept /\ w.disk = v.disk /\ w.materialized = TRUE
  <2>1. v \in Volume
    BY <1>4, <1>5 DEF PlaceTypes
  <2> QED
    BY <1>6, <2>1 DEF Volume
<1>8. PICK e : e = [att[a] EXCEPT !.materialized = TRUE]
  OBVIOUS
<1>9. e \in Attempt /\ e.materialized = TRUE /\ e.run = att[a].run /\ e.node = att[a].node
      /\ e.role = att[a].role /\ e.extra = att[a].extra /\ e.released = att[a].released
  <2>1. att[a] \in Attempt
    BY <1>2
  <2> QED
    BY <1>8, <2>1 DEF Attempt
<1>10. att' \in [1 .. m -> Attempt] /\ att'[a] = e /\ \A b \in 1 .. m : b # a => att'[b] = att[b]
  BY <1>2, <1>3, <1>8, <1>9
<1>11. att' \in Seq(Attempt) /\ Len(att') = m
  BY <1>10
<1>12. AttemptIds' = AttemptIds
  BY <1>2, <1>11 DEF AttemptIds
<1>13. ActiveIds' = ActiveIds
  BY <1>2, <1>9, <1>10, <1>12 DEF ActiveIds
<1>14. vol' = [vol EXCEPT ![r][n] = w]
  BY <1>3, <1>4, <1>6
<1>15. /\ vol' \in [Runs -> [Nodes -> Volume]] /\ vol'[r][n] = w
       /\ \A r2 \in Runs, n2 \in Nodes : r2 # r \/ n2 # n => vol'[r2][n2] = vol[r2][n2]
  BY <1>5, <1>7, <1>14 DEF PlaceTypes
<1>16. PlaceTypes'
  BY <1>11, <1>12, <1>15 DEF PlaceTypes
<1>17. \A b \in AttemptIds :
         /\ att'[b].run = att[b].run /\ att'[b].node = att[b].node
         /\ att'[b].role = att[b].role /\ att'[b].extra = att[b].extra
         /\ b # a => att'[b].materialized = att[b].materialized
  BY <1>2, <1>9, <1>10
<1>18. a \in ActiveIds /\ att'[a].materialized
  BY <1>3, <1>9, <1>10 DEF ActiveIds
<1>19. Making(a, r, n)
  BY <1>3, <1>4, <1>5, <1>7, <1>12, <1>13, <1>15, <1>17, <1>18 DEF Making
<1> QED
  BY <1>16, <1>19

(* A materialization leaves the sets of attempts alone.                    *)
LEMMA MakingSets ==
  ASSUME PlaceTypes, NEW a, NEW r, NEW n, Making(a, r, n)
  PROVE  /\ a \in Backed(r, n)
         /\ \A r2 \in Runs, n2 \in Nodes :
              /\ AttemptsOf(r2, n2)' = AttemptsOf(r2, n2)
              /\ Backed(r2, n2)' = Backed(r2, n2)
              /\ a \in AttemptsOf(r2, n2) => r2 = r /\ n2 = n
<1>1. a \in AttemptsOf(r, n) /\ a \notin crossed
  BY DEF Making, AttemptsOf, ActiveOn
<1>2. \A r2, n2 : AttemptsOf(r2, n2)' = AttemptsOf(r2, n2)
  BY DEF Making, AttemptsOf, ActiveOn, ActiveIds
<1>3. crossed' = crossed
  BY DEF Making
<1>4. \A r2, n2 : a \in AttemptsOf(r2, n2) => r2 = r /\ n2 = n
  BY DEF Making, AttemptsOf, ActiveOn
<1> QED
  BY <1>1, <1>2, <1>3, <1>4 DEF Backed

(* A materialization keeps the roles apart.                                *)
LEMMA MakingRoles ==
  ASSUME PlaceTypes, Roles, NEW a, NEW r, NEW n, Making(a, r, n)
  PROVE  Roles'
<1>1. \A b \in ActiveIds' : /\ b \in ActiveIds /\ att'[b].run = att[b].run
                            /\ att'[b].role = att[b].role
                            /\ ~att'[b].materialized => ~att[b].materialized
  BY DEF Making, ActiveIds
<1>2. OneDestination'
  BY <1>1 DEF Roles, OneDestination
<1>3. OneUnmade'
  BY <1>1 DEF Roles, OneUnmade
<1> QED
  BY <1>2, <1>3 DEF Roles

(* A materialization makes no disk for an attempt whose disk was deleted.  *)
LEMMA MakingCrossings ==
  ASSUME PlaceTypes, Crossings, NEW a, NEW r, NEW n, Making(a, r, n)
  PROVE  Crossings'
<1> SUFFICES ASSUME NEW b \in ActiveIds' \cap crossed'
             PROVE  /\ att'[b].role = "destination" =>
                         ~vol'[att'[b].run][att'[b].node].kept
                    /\ att'[b].role = "execution" /\ ~att'[b].materialized
                         => att'[b].extra = 0
  BY DEF Crossings
<1>1. b \in ActiveIds \cap crossed /\ b \in AttemptIds /\ b # a
  BY DEF Making, ActiveIds
<1>2. att[b].run \in Runs /\ att[b].node \in Nodes
  BY <1>1, AttemptType
<1>3. /\ att'[b].run = att[b].run /\ att'[b].node = att[b].node
      /\ att'[b].role = att[b].role /\ att'[b].extra = att[b].extra
      /\ att'[b].materialized = att[b].materialized
  BY <1>1 DEF Making
<1>4. vol'[att[b].run][att[b].node].kept => vol[att[b].run][att[b].node].kept
  BY <1>2 DEF Making
<1> QED
  BY <1>1, <1>3, <1>4 DEF Crossings

(* A materialization keeps the disks listed as stale.                      *)
LEMMA MakingStale ==
  ASSUME PlaceTypes, RunTypes, StaleMade, stale' = stale,
         NEW a, NEW r, NEW n, Making(a, r, n)
  PROVE  StaleMade'
<1> SUFFICES ASSUME NEW r2 \in Runs, NEW n2 \in Nodes, <<r2, n2>> \in stale
             PROVE  /\ vol'[r2][n2].materialized
                    /\ \A b \in AttemptsOf(r2, n2)' :
                         att'[b].role = "execution" /\ ~att'[b].materialized
                           => att'[b].extra = 0
  <2>1. \A p \in stale : \E r2 \in Runs, n2 \in Nodes : p = <<r2, n2>>
    BY DEF RunTypes
  <2> QED
    BY <2>1 DEF StaleMade
<1>1. /\ vol[r2][n2].materialized
      /\ \A b \in AttemptsOf(r2, n2) :
           att[b].role = "execution" /\ ~att[b].materialized => att[b].extra = 0
  BY DEF StaleMade
<1>2. \A b \in AttemptsOf(r2, n2)' :
        /\ b \in AttemptsOf(r2, n2) /\ att'[b].role = att[b].role
        /\ att'[b].extra = att[b].extra
        /\ ~att'[b].materialized => ~att[b].materialized
  BY DEF Making, AttemptsOf, ActiveOn, ActiveIds
<1>3. vol'[r2][n2].materialized
  BY <1>1 DEF Making
<1> QED
  BY <1>1, <1>2, <1>3

(* A materialization turns what an attempt added into its disk.            *)
LEMMA MakingAccounts ==
  ASSUME PlaceTypes, Roles, Accounts, NEW a, NEW r, NEW n, Making(a, r, n)
  PROVE  Accounts'
<1> SUFFICES ASSUME NEW r2 \in Runs, NEW n2 \in Nodes
             PROVE  Account(att', vol'[r2][n2], AttemptsOf(r2, n2)', Backed(r2, n2)')
  BY DEF Accounts
<1>1. Account(att, vol[r2][n2], AttemptsOf(r2, n2), Backed(r2, n2))
  BY DEF Accounts
<1>2. \A b \in Backed(r2, n2) :
        /\ att'[b].extra = att[b].extra /\ att[b].extra \in Nat
        /\ b # a => att'[b].materialized = att[b].materialized
  <2>1. \A b \in Backed(r2, n2) : b \in AttemptIds
    BY DEF Backed, AttemptsOf, ActiveOn, ActiveIds
  <2>2. \A b \in Backed(r2, n2) : att[b].extra \in Nat
    BY AddedUnmade
  <2> QED
    BY <2>1, <2>2 DEF Making
<1>3. Pair(Diskless(att, Backed(r2, n2)))
  BY AddedUnmade
<1>4. AttemptsOf(r2, n2)' = AttemptsOf(r2, n2) /\ Backed(r2, n2)' = Backed(r2, n2)
  BY MakingSets
<1>5. CASE r2 # r \/ n2 # n
  <2>1. a \notin Backed(r2, n2)
    BY <1>5, MakingSets DEF Backed
  <2>2. Account(att', vol[r2][n2], AttemptsOf(r2, n2), Backed(r2, n2))
    BY <1>1, <1>2, <1>3, <2>1, AccountFrame
  <2>3. vol'[r2][n2] = vol[r2][n2]
    BY <1>5 DEF Making
  <2> QED
    BY <1>4, <2>2, <2>3
<1>6. CASE r2 = r /\ n2 = n
  <2> DEFINE S == Backed(r, n)
             v == vol[r][n]
             w == vol'[r][n]
             A == AttemptsOf(r, n)
             U == Diskless(att, S)
  <2>1. a \in S /\ att'[a].materialized /\ v.kept
        /\ w.kept /\ w.disk = v.disk /\ w.materialized
    BY MakingSets DEF Making
  <2>2. Account(att, v, A, S) /\ Pair(U) /\ \A b \in S : att[b].extra \in Nat
    BY <1>1, <1>2, <1>3, <1>6
  <2>3. Diskless(att', S) = U \ {a}
    BY <1>2, <1>6, <2>1 DEF Diskless
  <2>4. Pair(U \ {a}) /\ (\A b \in U \ {a} : att[b].extra \in Nat /\ att'[b].extra = att[b].extra)
    BY <1>2, <1>6, <2>2, PairPart DEF Diskless
  <2>5. Added(att', U \ {a}) = Added(att, U \ {a}) /\ Added(att, U \ {a}) \in Nat
    BY <2>4, AddedSame, AddedNat
  <2>6. v.disk \in Nat
    BY DEF PlaceTypes, Making, Volume
  <2>7. w.disk >= 1 + Added(att', U \ {a})
    <3>1. CASE v.materialized /\ a \in U
      <4>1. v.disk >= 1 + Added(att, U)
        BY <2>2, <3>1 DEF Account
      <4>2. Added(att, U) = Added(att, U \ {a}) + att[a].extra /\ att[a].extra \in Nat
        <5>1. \A b \in U : att[b].extra \in Nat
          BY <2>2 DEF Diskless
        <5> QED
          BY <2>2, <3>1, <5>1, AddedLess
      <4> QED
        BY <2>1, <2>5, <2>6, <4>1, <4>2
    <3>2. CASE v.materialized /\ a \notin U
      <4>1. U \ {a} = U
        BY <3>2
      <4>2. v.disk >= 1 + Added(att, U)
        BY <2>2, <3>2 DEF Account
      <4> QED
        BY <2>1, <2>5, <4>1, <4>2
    <3>3. CASE ~v.materialized
      <4>1. U = S /\ v.disk = Added(att, U) /\ att[a].extra >= 1
        <5>1. U = S
          BY <2>2, <3>3 DEF Account, Diskless
        <5> QED
          BY <2>1, <2>2, <3>3, <5>1 DEF Account
      <4>2. Added(att, U) = Added(att, U \ {a}) + att[a].extra /\ att[a].extra \in Nat
        <5>1. \A b \in U : att[b].extra \in Nat
          BY <2>2 DEF Diskless
        <5> QED
          BY <2>1, <2>2, <4>1, <5>1, AddedLess
      <4> QED
        BY <2>1, <2>5, <4>1, <4>2
    <3> QED
      BY <3>1, <3>2, <3>3
  <2>8. Account(att', w, A, S)
    BY <2>1, <2>3, <2>7 DEF Account
  <2> QED
    BY <1>4, <1>6, <2>8
<1> QED
  BY <1>5, <1>6

(* A claim that is given its terms. *)
Claiming(r, a, k) ==
  /\ a \in ActiveIds /\ att[a].run = r /\ r \in Runs
  /\ att[a].role = "destination" /\ att[a].materialized
  /\ k = Len(att) + 1 /\ k \in Nat /\ k # 0 /\ k \notin AttemptIds /\ k \notin crossed
  /\ vol' = vol /\ crossed' = IF a \in crossed THEN crossed \cup {k} ELSE crossed
  /\ AttemptIds' = AttemptIds \cup {k} /\ ActiveIds' = (ActiveIds \ {a}) \cup {k}
  /\ \A b \in AttemptIds :
       /\ att'[b].run = att[b].run /\ att'[b].node = att[b].node
       /\ att'[b].role = att[b].role /\ att'[b].extra = att[b].extra
       /\ att'[b].materialized = att[b].materialized
  /\ att'[k].run = r /\ att'[k].node = att[a].node /\ att'[k].role = "execution"
  /\ att'[k].materialized

(* A claim has terms.                                                      *)
LEMMA ClaimTerms ==
  ASSUME PlaceTypes, NEW r \in Runs, Referred(r), Claim(r)
  PROVE  /\ PlaceTypes'
         /\ Claiming(r, run[r].reservation, Len(att) + 1)
<1>1. PICK m \in Nat : m = Len(att)
  BY DEF PlaceTypes
<1>2. PICK a : a = run[r].reservation
  OBVIOUS
<1>3. /\ a # 0 /\ ~att[a].released
      /\ att' = Append([att EXCEPT ![a].released = TRUE], [att[a] EXCEPT !.role = "execution"])
      /\ vol' = vol
      /\ crossed' = IF a \in crossed THEN crossed \cup {Len(att) + 1} ELSE crossed
  BY <1>2 DEF Claim
<1>4. a \in AttemptIds /\ att[a].run = r /\ att[a].role = "destination" /\ att[a].materialized
  BY <1>2, <1>3 DEF Referred, Mine
<1>5. att \in [1 .. m -> Attempt] /\ AttemptIds = 1 .. m /\ a \in 1 .. m
  BY <1>1, <1>4 DEF PlaceTypes, AttemptIds
<1>6. PICK e, f, s : /\ e = [att[a] EXCEPT !.released = TRUE]
                     /\ f = [att[a] EXCEPT !.role = "execution"]
                     /\ s = [att EXCEPT ![a].released = TRUE]
  OBVIOUS
<1>7. att[a] \in Attempt
  BY <1>5
<1>8. e \in Attempt /\ e.released = TRUE /\ e.run = att[a].run /\ e.node = att[a].node
      /\ e.role = att[a].role /\ e.extra = att[a].extra /\ e.materialized = att[a].materialized
  BY <1>6, <1>7 DEF Attempt
<1>9. f \in Attempt /\ f.released = att[a].released /\ f.run = att[a].run
      /\ f.node = att[a].node /\ f.role = "execution" /\ f.materialized = att[a].materialized
  BY <1>6, <1>7 DEF Attempt
<1>10. s \in [1 .. m -> Attempt] /\ s[a] = e /\ \A b \in 1 .. m : b # a => s[b] = att[b]
  BY <1>5, <1>6, <1>8
<1>11. s \in Seq(Attempt) /\ Len(s) = m
  BY <1>10
<1>12. /\ att' \in Seq(Attempt) /\ Len(att') = m + 1 /\ att'[m + 1] = f
       /\ \A b \in 1 .. m : att'[b] = s[b]
  <2>1. att' = Append(s, f)
    BY <1>3, <1>6
  <2> QED
    BY <1>9, <1>11, <2>1
<1>13. PICK k \in Nat : k = m + 1
  OBVIOUS
<1>14. k = Len(att) + 1 /\ k # 0 /\ k \notin AttemptIds /\ AttemptIds' = AttemptIds \cup {k}
  BY <1>1, <1>5, <1>12, <1>13 DEF AttemptIds
<1>15. \A b \in AttemptIds :
         /\ att'[b].run = att[b].run /\ att'[b].node = att[b].node
         /\ att'[b].role = att[b].role /\ att'[b].extra = att[b].extra
         /\ att'[b].materialized = att[b].materialized
         /\ att'[b].released = (IF b = a THEN TRUE ELSE att[b].released)
  BY <1>5, <1>8, <1>10, <1>12
<1>16. att'[k] = f
  BY <1>12, <1>13
<1>17. ActiveIds' = (ActiveIds \ {a}) \cup {k}
  BY <1>3, <1>9, <1>14, <1>15, <1>16 DEF ActiveIds
<1>18. crossed \subseteq AttemptIds /\ k \notin crossed
  BY <1>14 DEF PlaceTypes
<1>19. PlaceTypes'
  <2>1. crossed' \subseteq AttemptIds'
    BY <1>3, <1>14, <1>18
  <2> QED
    BY <1>3, <1>12, <2>1 DEF PlaceTypes
<1>20. a \in ActiveIds
  BY <1>3, <1>4 DEF ActiveIds
<1>21. Claiming(r, a, k)
  BY <1>3, <1>4, <1>9, <1>14, <1>15, <1>16, <1>17, <1>18, <1>20 DEF Claiming
<1> QED
  BY <1>2, <1>14, <1>19, <1>21

(* A claim turns the destination into the only execution.                  *)
LEMMA ClaimingRoles ==
  ASSUME PlaceTypes, Roles, NEW r, NEW a, NEW k, Claiming(r, a, k)
  PROVE  /\ Roles'
         /\ \A b \in ActiveIds' : att'[b].run = r => att'[b].role = "execution"
<1>1. \A b \in ActiveIds' : b # k => /\ b \in ActiveIds /\ b # a /\ att'[b].run = att[b].run
                                     /\ att'[b].role = att[b].role
                                     /\ att'[b].materialized = att[b].materialized
  BY DEF Claiming, ActiveIds
<1>2. att'[k].role = "execution" /\ att'[k].materialized
  BY DEF Claiming
<1>3. OneDestination'
  BY <1>1, <1>2 DEF Roles, OneDestination
<1>4. OneUnmade'
  BY <1>1, <1>2 DEF Roles, OneUnmade
<1>5. \A b \in ActiveIds : att[b].run = r /\ att[b].role = "destination" => b = a
  BY DEF Roles, OneDestination, Claiming
<1>6. \A b \in ActiveIds : att[b].role \in {"execution", "destination"}
  BY AttemptType DEF ActiveIds
<1> QED
  BY <1>1, <1>2, <1>3, <1>4, <1>5, <1>6 DEF Roles

(* What a claim exchanges in the sets of attempts.                         *)
LEMMA ClaimingSets ==
  ASSUME PlaceTypes, NEW r, NEW a, NEW k, Claiming(r, a, k), NEW r2, NEW n2
  PROVE  /\ k \notin AttemptsOf(r2, n2)
         /\ a \in AttemptsOf(r2, n2) =>
              /\ AttemptsOf(r2, n2)' = (AttemptsOf(r2, n2) \ {a}) \cup {k}
              /\ Backed(r2, n2)' = IF a \in crossed THEN Backed(r2, n2)
                                   ELSE (Backed(r2, n2) \ {a}) \cup {k}
         /\ a \notin AttemptsOf(r2, n2) =>
              AttemptsOf(r2, n2)' = AttemptsOf(r2, n2) /\ Backed(r2, n2)' = Backed(r2, n2)
<1>1. k \notin AttemptsOf(r2, n2)
  BY DEF Claiming, AttemptsOf, ActiveOn, ActiveIds
<1>2. a \in AttemptsOf(r2, n2) <=> r2 = r /\ n2 = att[a].node
  BY DEF Claiming, AttemptsOf, ActiveOn
<1>3. AttemptsOf(r2, n2)' = (AttemptsOf(r2, n2) \ {a}) \cup
        (IF r2 = r /\ n2 = att[a].node THEN {k} ELSE {})
  BY DEF Claiming, AttemptsOf, ActiveOn, ActiveIds
<1>4. crossed' = IF a \in crossed THEN crossed \cup {k} ELSE crossed
  BY DEF Claiming
<1>5. k \notin crossed
  BY DEF Claiming
<1>6. Backed(r2, n2)' = AttemptsOf(r2, n2)' \ crossed'
  BY DEF Backed
<1> QED
  BY <1>1, <1>2, <1>3, <1>4, <1>5, <1>6 DEF Backed

(* A claim hands on that the disk was deleted.                             *)
LEMMA ClaimingCrossings ==
  ASSUME PlaceTypes, Crossings, NEW r, NEW a, NEW k, Claiming(r, a, k)
  PROVE  Crossings'
<1> SUFFICES ASSUME NEW b \in ActiveIds' \cap crossed'
             PROVE  /\ att'[b].role = "destination" =>
                         ~vol'[att'[b].run][att'[b].node].kept
                    /\ att'[b].role = "execution" /\ ~att'[b].materialized
                         => att'[b].extra = 0
  BY DEF Crossings
<1>1. CASE b = k
  BY <1>1 DEF Claiming
<1>2. CASE b # k
  <2>1. b \in ActiveIds \cap crossed /\ b \in AttemptIds
    BY <1>2 DEF Claiming, ActiveIds
  <2>2. /\ att'[b].run = att[b].run /\ att'[b].node = att[b].node
        /\ att'[b].role = att[b].role /\ att'[b].extra = att[b].extra
        /\ att'[b].materialized = att[b].materialized /\ vol' = vol
    BY <2>1 DEF Claiming
  <2> QED
    BY <2>1, <2>2 DEF Crossings
<1> QED
  BY <1>1, <1>2

(* A claim adds nothing to a disk listed as stale.                         *)
LEMMA ClaimingStale ==
  ASSUME PlaceTypes, StaleMade, stale' = stale, NEW r, NEW a, NEW k, Claiming(r, a, k)
  PROVE  StaleMade'
<1>1. vol' = vol
  BY DEF Claiming
<1> SUFFICES ASSUME NEW p \in stale, NEW b \in AttemptsOf(p[1], p[2])',
                    att'[b].role = "execution", ~att'[b].materialized
             PROVE  att'[b].extra = 0
  BY <1>1 DEF StaleMade
<1>2. b # k
  BY DEF Claiming
<1>3. b \in AttemptsOf(p[1], p[2])
  BY <1>2, ClaimingSets
<1>4. b \in AttemptIds
  BY <1>3 DEF AttemptsOf, ActiveOn, ActiveIds
<1>5. att'[b].role = att[b].role /\ att'[b].extra = att[b].extra
      /\ att'[b].materialized = att[b].materialized
  BY <1>4 DEF Claiming
<1> QED
  BY <1>3, <1>5 DEF StaleMade

(* A claim changes owner, not what the volume holds.                       *)
LEMMA ClaimingAccounts ==
  ASSUME PlaceTypes, Roles, Accounts, NEW r, NEW a, NEW k, Claiming(r, a, k)
  PROVE  Accounts'
<1> SUFFICES ASSUME NEW r2 \in Runs, NEW n2 \in Nodes
             PROVE  Account(att', vol'[r2][n2], AttemptsOf(r2, n2)', Backed(r2, n2)')
  BY DEF Accounts
<1>1. Account(att, vol[r2][n2], AttemptsOf(r2, n2), Backed(r2, n2))
  BY DEF Accounts
<1>2. \A b \in Backed(r2, n2) : /\ att'[b].extra = att[b].extra /\ att[b].extra \in Nat
                                /\ att'[b].materialized = att[b].materialized
  <2>1. \A b \in Backed(r2, n2) : b \in AttemptIds
    BY DEF Backed, AttemptsOf, ActiveOn, ActiveIds
  <2>2. \A b \in Backed(r2, n2) : att[b].extra \in Nat
    BY AddedUnmade
  <2> QED
    BY <2>1, <2>2 DEF Claiming
<1>3. Pair(Diskless(att, Backed(r2, n2)))
  BY AddedUnmade
<1>4. Account(att', vol[r2][n2], AttemptsOf(r2, n2), Backed(r2, n2))
  BY <1>1, <1>2, <1>3, AccountFrame
<1>5. vol'[r2][n2] = vol[r2][n2]
  BY DEF Claiming
<1>6. CASE a \notin AttemptsOf(r2, n2)
  BY <1>4, <1>5, <1>6, ClaimingSets
<1>7. CASE a \in AttemptsOf(r2, n2) /\ a \in crossed
  <2>1. Backed(r2, n2)' = Backed(r2, n2) /\ k \in AttemptsOf(r2, n2)'
    BY <1>7, ClaimingSets
  <2>2. Account(att', vol[r2][n2], AttemptsOf(r2, n2)', Backed(r2, n2))
    BY <1>4, <2>1 DEF Account
  <2> QED
    BY <1>5, <2>1, <2>2
<1>8. CASE a \in AttemptsOf(r2, n2) /\ a \notin crossed
  <2>1. PICK S : S = Backed(r2, n2)
    OBVIOUS
  <2>2. Backed(r2, n2)' = (S \ {a}) \cup {k} /\ k \in AttemptsOf(r2, n2)' /\ a \in S /\ k \notin S
    BY <1>8, <2>1, ClaimingSets DEF Backed
  <2>3. att'[a].materialized /\ att'[k].materialized
    BY DEF Claiming, ActiveIds
  <2>4. PICK v : v = vol[r2][n2]
    OBVIOUS
  <2>5. Account(att', v, AttemptsOf(r2, n2), S)
    BY <1>4, <2>1, <2>4
  <2>6. v.materialized /\ v.kept
    BY <2>2, <2>3, <2>5 DEF Account
  <2>7. Diskless(att', (S \ {a}) \cup {k}) = Diskless(att', S)
    BY <2>2, <2>3 DEF Diskless
  <2>8. Account(att', v, AttemptsOf(r2, n2)', (S \ {a}) \cup {k})
    BY <2>5, <2>6, <2>7 DEF Account
  <2> QED
    BY <1>5, <2>2, <2>4, <2>8
<1> QED
  BY <1>6, <1>7, <1>8

(* A disk deleted under nobody's VM. *)
Deleting(r, n) ==
  /\ r \in Runs /\ n \in Nodes /\ <<r, n>> \in stale /\ att' = att
  /\ stale' = stale \ {<<r, n>>}
  /\ vol' = [vol EXCEPT ![r][n] = NoVolume] /\ crossed' = crossed \cup AttemptsOf(r, n)

(* What the deletion of a stale disk does to volumes and sets of attempts. *)
LEMMA DeletingEffect ==
  ASSUME PlaceTypes, NEW r, NEW n, Deleting(r, n)
  PROVE  /\ PlaceTypes' /\ vol'[r][n] = NoVolume
         /\ AttemptIds' = AttemptIds /\ ActiveIds' = ActiveIds
         /\ AttemptsOf(r, n)' = AttemptsOf(r, n) /\ Backed(r, n)' = {}
         /\ \A r2 \in Runs, n2 \in Nodes : r2 # r \/ n2 # n =>
              /\ vol'[r2][n2] = vol[r2][n2]
              /\ AttemptsOf(r2, n2)' = AttemptsOf(r2, n2) /\ Backed(r2, n2)' = Backed(r2, n2)
<1>1. /\ r \in Runs /\ n \in Nodes /\ att' = att
      /\ vol' = [vol EXCEPT ![r][n] = NoVolume] /\ crossed' = crossed \cup AttemptsOf(r, n)
  BY DEF Deleting
<1>2. AttemptIds' = AttemptIds /\ ActiveIds' = ActiveIds
  BY <1>1 DEF AttemptIds, ActiveIds
<1>3. \A r2, n2 : AttemptsOf(r2, n2)' = AttemptsOf(r2, n2)
  BY <1>1, <1>2 DEF AttemptsOf, ActiveOn
<1>4. \A r2, n2 : r2 # r \/ n2 # n => AttemptsOf(r2, n2) \cap AttemptsOf(r, n) = {}
  BY DEF AttemptsOf, ActiveOn
<1>5. Backed(r, n)' = {} /\ \A r2, n2 : r2 # r \/ n2 # n => Backed(r2, n2)' = Backed(r2, n2)
  BY <1>1, <1>3, <1>4 DEF Backed
<1>6. NoVolume \in Volume
  BY DEF NoVolume, Volume
<1>7. /\ vol' \in [Runs -> [Nodes -> Volume]] /\ vol'[r][n] = NoVolume
      /\ \A r2 \in Runs, n2 \in Nodes : r2 # r \/ n2 # n => vol'[r2][n2] = vol[r2][n2]
  BY <1>1, <1>6 DEF PlaceTypes
<1>8. crossed' \subseteq AttemptIds'
  BY <1>1, <1>2 DEF PlaceTypes, AttemptsOf, ActiveOn, ActiveIds
<1>9. PlaceTypes'
  BY <1>1, <1>7, <1>8 DEF PlaceTypes
<1> QED
  BY <1>2, <1>3, <1>5, <1>7, <1>9

(* The deletion of a stale disk keeps what placement promises.             *)
LEMMA DeletingPlaces ==
  ASSUME PlacePart, RunTypes, NEW r, NEW n, Deleting(r, n)
  PROVE  PlacePart'
<1>1. PlaceTypes /\ Roles /\ Crossings /\ StaleMade /\ Accounts
  BY DEF PlacePart
<1>2. PlaceTypes'
  BY <1>1, DeletingEffect
<1>3. att' = att /\ stale' = stale \ {<<r, n>>} /\ r \in Runs /\ n \in Nodes
  BY DEF Deleting
<1>4. AttemptIds' = AttemptIds /\ ActiveIds' = ActiveIds
  BY <1>1, DeletingEffect
<1>5. Roles'
  BY <1>1, <1>3, <1>4 DEF Roles, OneDestination, OneUnmade
<1>6. Crossings'
  <2> SUFFICES ASSUME NEW a \in ActiveIds \cap crossed'
               PROVE  /\ att[a].role = "destination" =>
                           ~vol'[att[a].run][att[a].node].kept
                      /\ att[a].role = "execution" /\ ~att[a].materialized
                           => att[a].extra = 0
    BY <1>3, <1>4 DEF Crossings
  <2>1. att[a].run \in Runs /\ att[a].node \in Nodes
    BY <1>1, AttemptType DEF ActiveIds
  <2>2. CASE att[a].run = r /\ att[a].node = n
    <3>1. a \in AttemptsOf(r, n) /\ <<r, n>> \in stale
      BY <2>2 DEF AttemptsOf, ActiveOn, Deleting
    <3>2. att[a].role = "execution" /\ ~att[a].materialized => att[a].extra = 0
      BY <1>1, <3>1 DEF StaleMade
    <3>3. vol'[r][n] = NoVolume
      BY <1>1, DeletingEffect
    <3> QED
      BY <2>2, <3>2, <3>3 DEF NoVolume
  <2>3. CASE att[a].run # r \/ att[a].node # n
    <3>1. a \in crossed
      BY <2>3 DEF Deleting, AttemptsOf, ActiveOn
    <3>2. vol'[att[a].run][att[a].node] = vol[att[a].run][att[a].node]
      BY <1>1, <2>1, <2>3, DeletingEffect
    <3> QED
      BY <1>1, <3>1, <3>2 DEF Crossings
  <2> QED
    BY <2>2, <2>3
<1>7. StaleMade'
  <2> SUFFICES ASSUME NEW r2 \in Runs, NEW n2 \in Nodes, <<r2, n2>> \in stale'
               PROVE  /\ vol'[r2][n2].materialized
                      /\ \A b \in AttemptsOf(r2, n2)' :
                           att'[b].role = "execution" /\ ~att'[b].materialized
                             => att'[b].extra = 0
    <3>1. \A p \in stale' : \E r2 \in Runs, n2 \in Nodes : p = <<r2, n2>>
      BY <1>3 DEF RunTypes
    <3> QED
      BY <3>1 DEF StaleMade
  <2>1. <<r2, n2>> \in stale /\ (r2 # r \/ n2 # n)
    BY <1>3
  <2>2. vol'[r2][n2] = vol[r2][n2] /\ AttemptsOf(r2, n2)' = AttemptsOf(r2, n2)
    BY <1>1, <2>1, DeletingEffect
  <2> QED
    BY <1>1, <1>3, <2>1, <2>2 DEF StaleMade
<1>8. Accounts'
  <2> SUFFICES ASSUME NEW r2 \in Runs, NEW n2 \in Nodes
               PROVE  Account(att', vol'[r2][n2], AttemptsOf(r2, n2)', Backed(r2, n2)')
    BY DEF Accounts
  <2>1. CASE r2 = r /\ n2 = n
    <3>1. vol'[r][n] = NoVolume /\ Backed(r, n)' = {}
      BY <1>1, DeletingEffect
    <3> QED
      BY <2>1, <3>1 DEF Account, NoVolume
  <2>2. CASE r2 # r \/ n2 # n
    <3>1. /\ vol'[r2][n2] = vol[r2][n2]
          /\ AttemptsOf(r2, n2)' = AttemptsOf(r2, n2) /\ Backed(r2, n2)' = Backed(r2, n2)
      BY <1>1, <2>2, DeletingEffect
    <3>2. Account(att, vol[r2][n2], AttemptsOf(r2, n2), Backed(r2, n2))
      BY <1>1 DEF Accounts
    <3> QED
      BY <1>3, <3>1, <3>2
  <2> QED
    BY <2>1, <2>2
<1> QED
  BY <1>2, <1>5, <1>6, <1>7, <1>8 DEF PlacePart

----------------------------------------
(* The bundles: what each step on the placements preserves. *)
LEMMA AdmitPlaces ==
  ASSUME PlacePart, RunTypes, NEW r \in Runs, NEW n \in Nodes, NEW moving \in BOOLEAN,
         Admit(r, n, moving), moving => run[r].at # n, crossed' = crossed, stale' = stale
  PROVE  /\ PlacePart' /\ Alone(r, moving)
         /\ \E k, total : Admitted(r, n, moving, k, total)
<1>1. PlaceTypes /\ Roles /\ Crossings /\ StaleMade /\ Accounts
  BY DEF PlacePart
<1>2. PICK k, total : Admitted(r, n, moving, k, total)
  BY <1>1, AdmitTerms
<1>3. Alone(r, moving)
  BY <1>1, AdmitAlone
<1>4. PlaceTypes'
  BY <1>1, <1>2, AdmittedTypes
<1>5. Roles'
  BY <1>1, <1>2, <1>3, AdmitRoles
<1>6. Crossings'
  BY <1>1, <1>2, <1>3, AdmitCrossings
<1>7. StaleMade'
  BY <1>1, <1>2, AdmitStale
<1>8. Accounts'
  BY <1>1, <1>2, <1>3, AdmitAccounts
<1> QED
  BY <1>2, <1>3, <1>4, <1>5, <1>6, <1>7, <1>8 DEF PlacePart

(* Attempts are never forgotten, nor change owner, node or role, nor lose  *)
(* their disk.                                                             *)
Persist ==
  /\ AttemptIds \subseteq AttemptIds'
  /\ \A b \in AttemptIds :
       /\ att'[b].run = att[b].run /\ att'[b].node = att[b].node
       /\ att'[b].role = att[b].role
       /\ att[b].materialized => att'[b].materialized
(* Nothing is added to what is active or kept. *)
Sheds ==
  /\ ActiveIds' \subseteq ActiveIds /\ crossed' = crossed
  /\ \A r \in Runs, n \in Nodes : vol'[r][n].kept => vol[r][n].kept

(* Where placement is left alone, what it promises holds on.               *)
LEMMA SamePlaces ==
  ASSUME PlacePart, UNCHANGED <<att, vol, crossed, stale>>
  PROVE  PlacePart' /\ Persist /\ Sheds
<1>1. AttemptIds' = AttemptIds
  BY DEF AttemptIds
<1>2. ActiveIds' = ActiveIds
  BY <1>1 DEF ActiveIds
<1>3. \A r, n : AttemptsOf(r, n)' = AttemptsOf(r, n)
  BY <1>2 DEF AttemptsOf, ActiveOn
<1>4. \A r, n : Backed(r, n)' = Backed(r, n)
  BY <1>3 DEF Backed
<1>5. PlaceTypes'
  BY <1>1 DEF PlacePart, PlaceTypes
<1>6. Roles'
  BY <1>2 DEF PlacePart, Roles, OneDestination, OneUnmade
<1>7. Crossings'
  BY <1>2 DEF PlacePart, Crossings
<1>8. StaleMade'
  BY <1>3 DEF PlacePart, StaleMade
<1>9. Accounts'
  BY <1>3, <1>4 DEF PlacePart, Accounts
<1>10. Persist /\ Sheds
  BY <1>1, <1>2 DEF Persist, Sheds
<1> QED
  BY <1>5, <1>6, <1>7, <1>8, <1>9, <1>10 DEF PlacePart

(* A release keeps what placement promises, and adds nothing.              *)
LEMMA ReleasePlaces ==
  ASSUME PlacePart, RunTypes, NEW a, Released(a), crossed' = crossed, stale' = stale
  PROVE  PlacePart' /\ Persist /\ Sheds
<1>1. PlaceTypes /\ Roles /\ Crossings /\ StaleMade /\ Accounts
  BY DEF PlacePart
<1>2. CASE a = 0 \/ a \notin ActiveIds
  <2>1. att' = att /\ vol' = vol
    BY <1>2 DEF Released
  <2> QED
    BY <2>1, SamePlaces
<1>3. CASE a # 0 /\ a \in ActiveIds
  <2>1. PlaceTypes' /\ \E r, n, w : Giving(a, r, n, w)
    BY <1>1, <1>3, ReleaseTerms
  <2>2. PICK r, n, w : Giving(a, r, n, w)
    BY <2>1
  <2>3. Roles'
    BY <1>1, <2>2, GivingRoles
  <2>4. Crossings'
    BY <1>1, <2>2, GivingCrossings
  <2>5. StaleMade'
    BY <1>1, <2>2, GivingStale
  <2>6. Accounts'
    BY <1>1, <2>2, GivingAccounts
  <2>7. Persist
    BY <2>2 DEF Giving, Persist
  <2>8. Sheds
    <3>1. \A r2 \in Runs, n2 \in Nodes : vol'[r2][n2].kept => vol[r2][n2].kept
      BY <1>1, <2>2, GivingKept
    <3> QED
      BY <2>2, <3>1 DEF Giving, Sheds
  <2> QED
    BY <2>1, <2>3, <2>4, <2>5, <2>6, <2>7, <2>8 DEF PlacePart
<1> QED
  BY <1>2, <1>3

(* A materialization keeps what placement promises, and adds nothing.      *)
LEMMA MakePlaces ==
  ASSUME PlacePart, RunTypes, NEW a \in AttemptIds, Materialized(a), a \notin crossed,
         crossed' = crossed, stale' = stale
  PROVE  PlacePart' /\ Persist /\ Sheds /\ att'[a].materialized
<1>1. PlaceTypes /\ Roles /\ Crossings /\ StaleMade /\ Accounts
  BY DEF PlacePart
<1>2. PlaceTypes' /\ \E r, n : Making(a, r, n)
  BY <1>1, MakingTerms
<1>3. PICK r, n : Making(a, r, n)
  BY <1>2
<1>4. Roles'
  BY <1>1, <1>3, MakingRoles
<1>5. Crossings'
  BY <1>1, <1>3, MakingCrossings
<1>6. StaleMade'
  BY <1>1, <1>3, MakingStale
<1>7. Accounts'
  BY <1>1, <1>3, MakingAccounts
<1>8. att'[a].materialized
  BY <1>3 DEF Making
<1>9. Persist
  BY <1>3, <1>8 DEF Making, Persist
<1>10. Sheds
  BY <1>3 DEF Making, Sheds
<1> QED
  BY <1>2, <1>4, <1>5, <1>6, <1>7, <1>8, <1>9, <1>10 DEF PlacePart

(* A claim keeps what placement promises.                                  *)
LEMMA ClaimPlaces ==
  ASSUME PlacePart, RunTypes, NEW r \in Runs, Referred(r), Claim(r)
  PROVE  /\ PlacePart' /\ Persist
         /\ Claiming(r, run[r].reservation, Len(att) + 1)
<1>1. PlaceTypes /\ Roles /\ Crossings /\ StaleMade /\ Accounts /\ stale' = stale
  BY DEF PlacePart, Claim
<1>2. PICK a, k : a = run[r].reservation /\ k = Len(att) + 1
  OBVIOUS
<1>3. PlaceTypes' /\ Claiming(r, a, k)
  BY <1>1, <1>2, ClaimTerms
<1>4. Roles'
  BY <1>1, <1>3, ClaimingRoles
<1>5. Crossings'
  BY <1>1, <1>3, ClaimingCrossings
<1>6. StaleMade'
  BY <1>1, <1>3, ClaimingStale
<1>7. Accounts'
  BY <1>1, <1>3, ClaimingAccounts
<1>8. Persist
  BY <1>3 DEF Claiming, Persist
<1> QED
  BY <1>2, <1>3, <1>4, <1>5, <1>6, <1>7, <1>8 DEF PlacePart

(* A step of one conversation, as the others see it. *)
RunStep(r) ==
  /\ run' \in [Runs -> Placement]
  /\ \A q \in Runs : q # r => run'[q] = run[q]
(* The VMs that run after a step on a conversation, and the list of stale  *)
(* disks.                                                                  *)
VmsStep(r) ==
  /\ vms' \subseteq AttemptIds' /\ stale' \subseteq Runs \X Nodes
  /\ \A a \in vms' :
       IF att'[a].run = r
       THEN run'[r].runner = a /\ run'[r].pc \in {"running", "recovering"}
       ELSE a \in vms
(* Nothing is added, but for one conversation.                             *)
ShedsBut(r) ==
  /\ \A a \in ActiveIds' : att'[a].run # r => a \in ActiveIds
  /\ \A a \in AttemptIds : att[a].run # r /\ a \in crossed' => a \in crossed
  /\ \A q \in Runs, n \in Nodes : q # r /\ vol'[q][n].kept => vol[q][n].kept

(* Attempts stay those of their conversation.                              *)
LEMMA MineKept ==
  ASSUME Persist, NEW r, NEW roles
  PROVE  /\ Mine(r, roles) \subseteq Mine(r, roles)'
         /\ \A a \in Mine(r, roles) : att[a].materialized => att'[a].materialized
BY DEF Persist, Mine

(* A conversation that keeps its references keeps them sound.              *)
LEMMA ReferredStep ==
  ASSUME Persist, NEW r, Referred(r),
         run'[r].runner \in {0, run[r].runner, run[r].launch},
         run'[r].launch \in {0, run[r].launch} \cup Mine(r, {"execution"})',
         run'[r].request \in {0, run[r].request} \cup run[r].hold,
         \/ run'[r].reservation \in {0, run[r].reservation}
         \/ run'[r].reservation = run[r].request /\ att'[run[r].request].materialized,
         run'[r].hold \subseteq run[r].hold \cup Mine(r, {"destination"})',
         run'[r].pc \in {"reserved", "materialized"} => run'[r].launch # 0
  PROVE  Referred(r)'
<1>1. /\ Mine(r, {"execution"}) \subseteq Mine(r, {"execution"})'
      /\ Mine(r, {"destination"}) \subseteq Mine(r, {"destination"})'
      /\ \A a \in Mine(r, {"destination"}) : att[a].materialized => att'[a].materialized
  BY MineKept
<1>2. /\ run[r].runner \in {0} \cup Mine(r, {"execution"})
      /\ run[r].launch \in {0} \cup Mine(r, {"execution"})
      /\ run[r].request \in {0} \cup Mine(r, {"destination"})
      /\ run[r].reservation \in {0} \cup {a \in Mine(r, {"destination"}) : att[a].materialized}
      /\ run[r].hold \subseteq Mine(r, {"destination"})
  BY DEF Referred
<1>3. run'[r].runner \in {0} \cup Mine(r, {"execution"})'
  BY <1>1, <1>2
<1>4. run'[r].launch \in {0} \cup Mine(r, {"execution"})'
  BY <1>1, <1>2
<1>5. run'[r].request \in {0} \cup Mine(r, {"destination"})'
  BY <1>1, <1>2
<1>6. run'[r].hold \subseteq Mine(r, {"destination"})'
  BY <1>1, <1>2
<1>7. run'[r].reservation # 0 =>
        run'[r].reservation \in Mine(r, {"destination"})' /\ att'[run'[r].reservation].materialized
  BY <1>1, <1>2
<1>8. run'[r].reservation \in {0} \cup {a \in Mine(r, {"destination"})' : att'[a].materialized}
  BY <1>7
<1> QED
  BY <1>3, <1>4, <1>5, <1>6, <1>8 DEF Referred

(* So for one that a step does not touch.                                  *)
LEMMA ReferredSame ==
  ASSUME Persist, NEW r, Referred(r), run'[r] = run[r]
  PROVE  Referred(r)'
<1>2. run[r].pc \in {"reserved", "materialized"} => run[r].launch # 0
  BY DEF Referred
<1> QED
  BY <1>2, ReferredStep

(* A launch that a step does not touch stays alone.                        *)
LEMMA LaunchSame ==
  ASSUME PlaceTypes, RunTypes, References, Persist, LaunchesAlone,
         NEW r \in Runs, ShedsBut(r), NEW q \in Runs, q # r, run'[q] = run[q]
  PROVE  LaunchAlone(q)'
<1> SUFFICES ASSUME run[q].pc = "reserved"
             PROVE  /\ \A a \in ActiveIds' : att'[a].run = q => att'[a].role = "execution"
                    /\ run[q].launch \in crossed' =>
                         ~vol'[q][att'[run[q].launch].node].kept
  BY DEF LaunchAlone
<1>1. /\ \A a \in ActiveIds : att[a].run = q => att[a].role = "execution"
      /\ run[q].launch \in crossed => ~vol[q][att[run[q].launch].node].kept
  BY DEF LaunchesAlone, LaunchAlone
<1>2. \A a \in ActiveIds' : att'[a].run = q => att'[a].role = "execution"
  <2> SUFFICES ASSUME NEW a \in ActiveIds', att'[a].run = q
               PROVE  att'[a].role = "execution"
    OBVIOUS
  <2>1. a \in ActiveIds
    BY DEF ShedsBut
  <2>2. att'[a].run = att[a].run /\ att'[a].role = att[a].role
    BY <2>1 DEF Persist, ActiveIds
  <2> QED
    BY <1>1, <2>1, <2>2
<1>3. run[q].launch \in AttemptIds /\ att[run[q].launch].run = q
  BY DEF References, Referred, Mine
<1>4. att'[run[q].launch].node = att[run[q].launch].node /\ att[run[q].launch].node \in Nodes
  BY <1>3, AttemptType DEF Persist
<1> QED
  BY <1>1, <1>2, <1>3, <1>4 DEF ShedsBut

(* A step on one conversation keeps what the others refer to.              *)
LEMMA RunsStep ==
  ASSUME PlaceTypes, RunPart, Persist, NEW r \in Runs, RunStep(r), ShedsBut(r), VmsStep(r),
         Referred(r)', LaunchAlone(r)'
  PROVE  RunPart'
<1>1. RunTypes /\ References /\ VmsNamed /\ LaunchesAlone
  BY DEF RunPart
<1>2. \A q \in Runs : q # r => run'[q] = run[q]
  BY DEF RunStep
<1>3. RunTypes'
  BY DEF RunStep, VmsStep, RunTypes
<1>4. References'
  <2> SUFFICES ASSUME NEW q \in Runs, q # r
               PROVE  Referred(q)'
    BY DEF References
  <2> QED
    BY <1>1, <1>2, ReferredSame DEF References
<1>5. LaunchesAlone'
  <2> SUFFICES ASSUME NEW q \in Runs, q # r
               PROVE  LaunchAlone(q)'
    BY DEF LaunchesAlone
  <2> QED
    BY <1>1, <1>2, LaunchSame
<1>6. VmsNamed'
  <2> SUFFICES ASSUME NEW a \in vms'
               PROVE  /\ run'[att'[a].run].runner = a
                      /\ run'[att'[a].run].pc \in {"running", "recovering"}
    BY DEF VmsNamed
  <2>1. CASE att'[a].run = r
    BY <2>1 DEF VmsStep
  <2>2. CASE att'[a].run # r
    <3>1. a \in vms /\ a \in AttemptIds
      BY <1>1, <2>2 DEF VmsStep, RunTypes
    <3>2. att'[a].run = att[a].run /\ att[a].run \in Runs
      BY <3>1, AttemptType DEF Persist
    <3> QED
      BY <1>1, <1>2, <2>2, <3>1, <3>2 DEF VmsNamed
  <2> QED
    BY <2>1, <2>2
<1> QED
  BY <1>3, <1>4, <1>5, <1>6 DEF RunPart

(* What adds nothing adds nothing for the others.                          *)
LEMMA ShedsOthers ==
  ASSUME PlaceTypes, Persist, Sheds, NEW r \in Runs
  PROVE  ShedsBut(r)
BY DEF Sheds, ShedsBut

(* A step that leaves what conversations record alone. *)
LEMMA RunsSame ==
  ASSUME PlaceTypes, RunPart, Persist, Sheds, run' = run, vms' \subseteq vms,
         stale' \subseteq Runs \X Nodes
  PROVE  RunPart'
<1>1. RunTypes /\ References /\ VmsNamed /\ LaunchesAlone
  BY DEF RunPart
<1>2. RunTypes'
  BY <1>1 DEF RunTypes, Persist
<1>3. References'
  <2> SUFFICES ASSUME NEW q \in Runs
               PROVE  Referred(q)'
    BY DEF References
  <2> QED
    BY <1>1, ReferredSame DEF References
<1>4. VmsNamed'
  <2>1. \A a \in vms : a \in AttemptIds /\ att'[a].run = att[a].run
    BY <1>1 DEF RunTypes, Persist
  <2> QED
    BY <1>1, <2>1 DEF VmsNamed
<1>5. LaunchesAlone'
  <2> SUFFICES ASSUME NEW q \in Runs, run[q].pc = "reserved"
               PROVE  /\ \A a \in ActiveIds' : att'[a].run = q => att'[a].role = "execution"
                      /\ run[q].launch \in crossed' =>
                           ~vol'[q][att'[run[q].launch].node].kept
    BY DEF LaunchesAlone, LaunchAlone
  <2>1. /\ \A a \in ActiveIds : att[a].run = q => att[a].role = "execution"
        /\ run[q].launch \in crossed => ~vol[q][att[run[q].launch].node].kept
    BY <1>1 DEF LaunchesAlone, LaunchAlone
  <2>2. \A a \in ActiveIds' : a \in ActiveIds /\ att'[a].run = att[a].run
                              /\ att'[a].role = att[a].role
    BY DEF Sheds, Persist, ActiveIds
  <2>3. run[q].launch \in AttemptIds
    BY <1>1 DEF References, Referred, Mine
  <2>4. att'[run[q].launch].node = att[run[q].launch].node /\ att[run[q].launch].node \in Nodes
    BY <2>3, AttemptType DEF Persist
  <2> QED
    BY <2>1, <2>2, <2>4 DEF Sheds
<1> QED
  BY <1>2, <1>3, <1>4, <1>5 DEF RunPart

(* What a conversation that is not launching owes. *)
LEMMA NotLaunching ==
  ASSUME NEW r, run'[r].pc # "reserved"
  PROVE  LaunchAlone(r)'
BY DEF LaunchAlone

(* An admission forgets nothing, and adds for its conversation alone.      *)
LEMMA AdmittedPersist ==
  ASSUME PlaceTypes, NEW r \in Runs, NEW n \in Nodes, NEW moving \in BOOLEAN,
         NEW k, NEW total, Admitted(r, n, moving, k, total)
  PROVE  /\ Persist /\ ShedsBut(r) /\ k # 0
         /\ k \in Mine(r, IF moving THEN {"destination"} ELSE {"execution"})'
<1>1. Persist
  BY DEF Admitted, Persist
<1>2. ActiveIds' = ActiveIds \cup {k} /\ att'[k].run = r /\ crossed' = crossed /\ k # 0
  BY AdmittedSets DEF Admitted, AttemptIds
<1>3. \A q \in Runs, n2 \in Nodes : q # r => vol'[q][n2] = vol[q][n2]
  BY AdmittedSets
<1>4. ShedsBut(r)
  BY <1>2, <1>3 DEF ShedsBut
<1>5. k \in Mine(r, IF moving THEN {"destination"} ELSE {"execution"})'
  BY DEF Admitted, Mine
<1> QED
  BY <1>1, <1>2, <1>4, <1>5

(* The parts of the invariant about one conversation.                      *)
LEMMA InRuns ==
  ASSUME FleetInv, NEW r \in Runs
  PROVE  /\ PlacePart /\ RunPart /\ PlaceTypes /\ RunTypes /\ Referred(r) /\ LaunchAlone(r)
         /\ run \in [Runs -> Placement] /\ vms \subseteq AttemptIds /\ stale \subseteq Runs \X Nodes
BY DEF FleetInv, PlacePart, RunPart, References, LaunchesAlone, RunTypes

(* Nothing runs for a conversation that is not in a turn. *)
LEMMA NoVms ==
  ASSUME RunPart, NEW r, run[r].pc \notin {"running", "recovering"}
  PROVE  \A a \in vms : att[a].run # r
BY DEF RunPart, VmsNamed

(* A step that starts and stops no VM.                                     *)
LEMMA VmsStay ==
  ASSUME RunTypes, Persist, NEW r \in Runs, vms' = vms, stale' = stale,
         \A a \in vms : att[a].run = r =>
           run'[r].runner = a /\ run'[r].pc \in {"running", "recovering"}
  PROVE  VmsStep(r)
BY DEF RunTypes, Persist, VmsStep

(* The reservation of a launch.                                            *)
LEMMA ReserveKeeps ==
  ASSUME FleetInv, NEW r \in Runs, NEW n \in Nodes, Reserve(r, n)
  PROVE  PlacePart' /\ RunPart'
<1>1. /\ PlacePart /\ RunPart /\ PlaceTypes /\ RunTypes /\ Referred(r)
      /\ run \in [Runs -> Placement]
  BY InRuns
<1>2. /\ run[r].pc = "idle" /\ Admit(r, n, FALSE)
      /\ vms' = vms /\ stale' = stale /\ crossed' = crossed
  BY DEF Reserve
<1>3. /\ PlacePart' /\ Alone(r, FALSE)
      /\ \E k, total : Admitted(r, n, FALSE, k, total)
  BY <1>1, <1>2, AdmitPlaces
<1>4. PICK k, total : Admitted(r, n, FALSE, k, total)
  BY <1>3
<1>5. Persist /\ ShedsBut(r) /\ k # 0 /\ k \in Mine(r, {"execution"})'
  BY <1>1, <1>4, AdmittedPersist
<1>6. k = Len(att) + 1 /\ k \in Nat
  BY <1>4 DEF Admitted
<1>7. run' = [run EXCEPT ![r].pc = "reserved", ![r].launch = k]
  BY <1>6 DEF Reserve
<1>8. /\ run'[r].pc = "reserved" /\ run'[r].launch = k /\ run'[r].runner = run[r].runner
      /\ run'[r].request = run[r].request /\ run'[r].reservation = run[r].reservation
      /\ run'[r].hold = run[r].hold
  BY <1>1, <1>7 DEF Placement
<1>9. RunStep(r)
  <2>1. "reserved" \in Pcs
    BY DEF Pcs
  <2>2. run' \in [Runs -> Placement]
    BY <1>1, <1>6, <1>7, <2>1, ZenonT(40) DEF Placement
  <2>3. \A q \in Runs : q # r => run'[q] = run[q]
    BY <1>1, <1>6, <1>7
  <2> QED
    BY <2>2, <2>3 DEF RunStep
<1>10. VmsStep(r)
  BY <1>1, <1>2, <1>5, NoVms, VmsStay
<1>11. Referred(r)'
  BY <1>1, <1>5, <1>8, ReferredStep
<1>12. LaunchAlone(r)'
  <2>1. ActiveIds' = ActiveIds \cup {k} /\ k \notin crossed /\ crossed' = crossed
    BY <1>1, <1>2, <1>4, AdmittedSets
  <2>2. att'[k].role = "execution" /\ \A a \in ActiveIds : att'[a] = att[a]
    BY <1>4 DEF Admitted, ActiveIds
  <2>3. \A a \in ActiveIds : att[a].run # r
    BY <1>3 DEF Alone
  <2> QED
    BY <1>8, <2>1, <2>2, <2>3 DEF LaunchAlone
<1>13. RunPart'
  BY <1>1, <1>5, <1>9, <1>10, <1>11, <1>12, RunsStep
<1> QED
  BY <1>3, <1>13

(* The reservation of a move's destination.                                *)
LEMMA HoldKeeps ==
  ASSUME FleetInv, NEW r \in Runs, NEW n \in Nodes, HoldDestination(r, n)
  PROVE  PlacePart' /\ RunPart'
<1>1. /\ PlacePart /\ RunPart /\ PlaceTypes /\ RunTypes /\ Referred(r)
      /\ run \in [Runs -> Placement]
  BY InRuns
<1>2. /\ run[r].pc \in {"idle", "running"} /\ run[r].at # n /\ Admit(r, n, TRUE)
      /\ vms' = vms /\ stale' = stale /\ crossed' = crossed
  BY DEF HoldDestination
<1>3. /\ PlacePart'
      /\ \E k, total : Admitted(r, n, TRUE, k, total)
  BY <1>1, <1>2, AdmitPlaces
<1>4. PICK k, total : Admitted(r, n, TRUE, k, total)
  BY <1>3
<1>5. Persist /\ ShedsBut(r) /\ k \in Mine(r, {"destination"})'
  BY <1>1, <1>4, AdmittedPersist
<1>6. k = Len(att) + 1 /\ k \in Nat
  BY <1>4 DEF Admitted
<1>7. run' = [run EXCEPT ![r].hold = run[r].hold \cup {k}]
  BY <1>6 DEF HoldDestination
<1>8. /\ run'[r].pc = run[r].pc /\ run'[r].launch = run[r].launch
      /\ run'[r].runner = run[r].runner
      /\ run'[r].request = run[r].request /\ run'[r].reservation = run[r].reservation
      /\ run'[r].hold = run[r].hold \cup {k}
  BY <1>1, <1>7 DEF Placement
<1>9. RunStep(r)
  BY <1>1, <1>6, <1>7 DEF RunStep, Placement
<1>10. VmsStep(r)
  <2>1. \A a \in vms : att[a].run = r =>
          run[r].runner = a /\ run[r].pc \in {"running", "recovering"}
    BY <1>1 DEF RunPart, VmsNamed
  <2> QED
    BY <1>1, <1>2, <1>5, <1>8, <2>1, VmsStay
<1>11. Referred(r)'
  <2>1. run[r].pc \in {"reserved", "materialized"} => run[r].launch # 0
    BY <1>1 DEF Referred
  <2> QED
    BY <1>1, <1>5, <1>8, <2>1, ReferredStep
<1>12. LaunchAlone(r)'
  BY <1>2, <1>8, NotLaunching
<1>13. RunPart'
  BY <1>1, <1>5, <1>9, <1>10, <1>11, <1>12, RunsStep
<1> QED
  BY <1>3, <1>13

(* The claim of held capacity by a launch.                                 *)
LEMMA ClaimKeeps ==
  ASSUME FleetInv, NEW r \in Runs, Claim(r)
  PROVE  PlacePart' /\ RunPart'
<1>1. /\ PlacePart /\ RunPart /\ PlaceTypes /\ RunTypes /\ Referred(r)
      /\ run \in [Runs -> Placement]
  BY InRuns
<1>2. /\ run[r].pc = "idle" /\ vms' = vms /\ stale' = stale
  BY DEF Claim
<1>3. PICK a, k : a = run[r].reservation /\ k = Len(att) + 1
  OBVIOUS
<1>4. PlacePart' /\ Persist /\ Claiming(r, a, k)
  BY <1>1, <1>3, ClaimPlaces
<1>5. run' = [run EXCEPT ![r].pc = "reserved", ![r].reservation = 0, ![r].launch = k]
  BY <1>3 DEF Claim
<1>6. k \in Nat /\ k # 0 /\ k \in Mine(r, {"execution"})'
  BY <1>4 DEF Claiming, Mine
<1>7. /\ run'[r].pc = "reserved" /\ run'[r].launch = k /\ run'[r].runner = run[r].runner
      /\ run'[r].request = run[r].request /\ run'[r].reservation = 0
      /\ run'[r].hold = run[r].hold
  BY <1>1, <1>5 DEF Placement
<1>8. RunStep(r)
  <2>1. "reserved" \in Pcs
    BY DEF Pcs
  <2>2. run' \in [Runs -> Placement]
    BY <1>1, <1>5, <1>6, <2>1, ZenonT(40) DEF Placement
  <2>3. \A q \in Runs : q # r => run'[q] = run[q]
    BY <1>1, <1>5, <1>6
  <2> QED
    BY <2>2, <2>3 DEF RunStep
<1>9. VmsStep(r)
  BY <1>1, <1>2, <1>4, NoVms, VmsStay
<1>10. Referred(r)'
  BY <1>1, <1>4, <1>6, <1>7, ReferredStep
<1>11. ShedsBut(r)
  <2>1. \A b \in ActiveIds' : att'[b].run # r => b \in ActiveIds
    BY <1>4 DEF Claiming
  <2>2. \A b \in AttemptIds : b \in crossed' => b \in crossed
    BY <1>4 DEF Claiming
  <2>3. vol' = vol
    BY <1>4 DEF Claiming
  <2> QED
    BY <2>1, <2>2, <2>3 DEF ShedsBut
<1>12. LaunchAlone(r)'
  <2>1. \A b \in ActiveIds' : att'[b].run = r => att'[b].role = "execution"
    BY <1>1, <1>4, ClaimingRoles DEF PlacePart
  <2>2. k \in crossed' => ~vol'[r][att'[k].node].kept
    <3>1. k \in crossed' => a \in crossed
      BY <1>4 DEF Claiming
    <3>2. a \in crossed => ~vol[r][att[a].node].kept
      BY <1>1, <1>4 DEF Claiming, PlacePart, Crossings
    <3>3. vol' = vol /\ att'[k].node = att[a].node
      BY <1>4 DEF Claiming
    <3> QED
      BY <3>1, <3>2, <3>3
  <2> QED
    BY <1>7, <2>1, <2>2 DEF LaunchAlone
<1>13. RunPart'
  BY <1>1, <1>4, <1>8, <1>9, <1>10, <1>11, <1>12, RunsStep
<1> QED
  BY <1>4, <1>13

(* The disk of a launch.                                                   *)
LEMMA MaterializeKeeps ==
  ASSUME FleetInv, NEW r \in Runs, Materialize(r)
  PROVE  PlacePart' /\ RunPart'
<1>1. /\ PlacePart /\ RunPart /\ PlaceTypes /\ RunTypes /\ Referred(r) /\ LaunchAlone(r)
      /\ run \in [Runs -> Placement]
  BY InRuns
<1>2. /\ run[r].pc = "reserved" /\ Materialized(run[r].launch)
      /\ run' = [run EXCEPT ![r].pc = "materialized"]
      /\ vms' = vms /\ stale' = stale /\ crossed' = crossed
  BY DEF Materialize
<1>3. PICK a : a = run[r].launch
  OBVIOUS
<1>4. a # 0 /\ a \in AttemptIds /\ att[a].run = r
  BY <1>1, <1>2, <1>3 DEF Referred, Mine
<1>5. a \notin crossed
  BY <1>1, <1>2, <1>3, <1>4 DEF LaunchAlone, Materialized
<1>6. PlacePart' /\ Persist /\ Sheds
  BY <1>1, <1>2, <1>3, <1>4, <1>5, MakePlaces
<1>7. /\ run'[r].pc = "materialized" /\ run'[r].launch = a /\ run'[r].runner = run[r].runner
      /\ run'[r].request = run[r].request /\ run'[r].reservation = run[r].reservation
      /\ run'[r].hold = run[r].hold
  BY <1>1, <1>2, <1>3 DEF Placement
<1>8. RunStep(r)
  BY <1>1, <1>2 DEF RunStep, Placement, Pcs
<1>9. VmsStep(r)
  BY <1>1, <1>2, <1>6, NoVms, VmsStay
<1>10. Referred(r)'
  BY <1>1, <1>3, <1>4, <1>6, <1>7, ReferredStep
<1>11. LaunchAlone(r)' /\ ShedsBut(r)
  BY <1>1, <1>6, <1>7, NotLaunching, ShedsOthers
<1>12. RunPart'
  BY <1>1, <1>6, <1>8, <1>9, <1>10, <1>11, RunsStep
<1> QED
  BY <1>6, <1>12

(* The checkpoint of a launch.                                             *)
LEMMA CheckpointKeeps ==
  ASSUME FleetInv, NEW r \in Runs, Checkpoint(r)
  PROVE  PlacePart' /\ RunPart'
<1>1. /\ PlacePart /\ RunPart /\ PlaceTypes /\ RunTypes /\ Referred(r)
      /\ run \in [Runs -> Placement]
  BY InRuns
<1>2. /\ run[r].pc = "materialized"
      /\ run' = [run EXCEPT ![r].pc = "placed", ![r].runner = run[r].launch,
                            ![r].at = att[run[r].launch].node]
      /\ UNCHANGED <<att, vol, vms, stale, crossed>>
  BY DEF Checkpoint
<1>3. PICK a, n : a = run[r].launch /\ n = att[a].node
  OBVIOUS
<1>4. a \in AttemptIds /\ a \in Nat /\ n \in Nodes
  <2>1. a \in AttemptIds
    BY <1>1, <1>2, <1>3 DEF Referred, Mine
  <2>2. a \in Nat
    BY <1>1, <1>3 DEF Placement
  <2> QED
    BY <1>1, <1>3, <2>1, <2>2, AttemptType
<1>5. PlacePart' /\ Persist /\ Sheds
  BY <1>1, <1>2, SamePlaces
<1>6. run' = [run EXCEPT ![r].pc = "placed", ![r].runner = a, ![r].at = n]
  BY <1>2, <1>3
<1>7. /\ run'[r].pc = "placed" /\ run'[r].launch = run[r].launch /\ run'[r].runner = run[r].launch
      /\ run'[r].request = run[r].request /\ run'[r].reservation = run[r].reservation
      /\ run'[r].hold = run[r].hold
  BY <1>1, <1>3, <1>6 DEF Placement
<1>8. RunStep(r)
  <2>1. "placed" \in Pcs
    BY DEF Pcs
  <2>2. run' \in [Runs -> Placement]
    <3>1. PICK x \in Placement : x = run[r]
      BY <1>1
    <3>2. [x EXCEPT !.pc = "placed", !.runner = a, !.at = n] \in Placement
      BY <1>4, <2>1 DEF Placement
    <3>3. run' = [run EXCEPT ![r] = [x EXCEPT !.pc = "placed", !.runner = a, !.at = n]]
      BY <1>1, <1>6, <3>1
    <3> QED
      BY <1>1, <3>2, <3>3
  <2>3. \A q \in Runs : q # r => run'[q] = run[q]
    BY <1>1, <1>4, <1>6
  <2> QED
    BY <2>2, <2>3 DEF RunStep
<1>9. VmsStep(r)
  BY <1>1, <1>2, <1>5, NoVms, VmsStay
<1>10. Referred(r)'
  BY <1>1, <1>5, <1>7, ReferredStep
<1>11. LaunchAlone(r)' /\ ShedsBut(r)
  BY <1>1, <1>5, <1>7, NotLaunching, ShedsOthers
<1>12. RunPart'
  BY <1>1, <1>5, <1>8, <1>9, <1>10, <1>11, RunsStep
<1> QED
  BY <1>5, <1>12

(* No attempt is numbered zero, which stands for none.                     *)
LEMMA NoAttemptZero ==
  ASSUME PlaceTypes
  PROVE  0 \notin AttemptIds
BY DEF PlaceTypes, AttemptIds

(* The start of a VM.                                                      *)
LEMMA StartKeeps ==
  ASSUME FleetInv, NEW r \in Runs, Start(r)
  PROVE  PlacePart' /\ RunPart'
<1>1. /\ PlacePart /\ RunPart /\ PlaceTypes /\ RunTypes /\ Referred(r)
      /\ run \in [Runs -> Placement]
  BY InRuns
<1>2. /\ run[r].pc = "placed" /\ run[r].runner \in ActiveIds
      /\ vms' = vms \cup {run[r].runner}
      /\ run' = [run EXCEPT ![r].pc = "running"]
      /\ UNCHANGED <<att, vol, stale, crossed>>
  BY DEF Start
<1>3. PlacePart' /\ Persist /\ Sheds
  BY <1>1, <1>2, SamePlaces
<1>4. /\ run'[r].pc = "running" /\ run'[r].launch = run[r].launch
      /\ run'[r].runner = run[r].runner
      /\ run'[r].request = run[r].request /\ run'[r].reservation = run[r].reservation
      /\ run'[r].hold = run[r].hold
  BY <1>1, <1>2 DEF Placement
<1>5. RunStep(r)
  BY <1>1, <1>2 DEF RunStep, Placement, Pcs
<1>6. VmsStep(r)
  <2>1. run[r].runner \in AttemptIds /\ att[run[r].runner].run = r
    BY <1>1, <1>2, NoAttemptZero DEF Referred, Mine, ActiveIds
  <2>2. \A a \in vms : att[a].run # r
    BY <1>1, <1>2, NoVms
  <2>3. att' = att /\ AttemptIds' = AttemptIds
    BY <1>2 DEF AttemptIds
  <2> QED
    BY <1>1, <1>2, <1>4, <2>1, <2>2, <2>3 DEF VmsStep, RunTypes
<1>7. Referred(r)'
  BY <1>1, <1>3, <1>4, ReferredStep
<1>8. LaunchAlone(r)' /\ ShedsBut(r)
  BY <1>1, <1>3, <1>4, NotLaunching, ShedsOthers
<1>9. RunPart'
  BY <1>1, <1>3, <1>5, <1>6, <1>7, <1>8, RunsStep
<1> QED
  BY <1>3, <1>9

(* The end of a turn, and its fencing by recovery.                         *)
LEMMA StopKeeps ==
  ASSUME FleetInv, NEW r \in Runs, Stop(r)
  PROVE  PlacePart' /\ RunPart'
<1>1. /\ PlacePart /\ RunPart /\ PlaceTypes /\ RunTypes /\ Referred(r)
      /\ run \in [Runs -> Placement]
  BY InRuns
<1>2. /\ \A a \in vms : att[a].run # r
      /\ \E a : Released(a)
      /\ run' = [run EXCEPT ![r].pc = "idle", ![r].runner = 0, ![r].launch = 0]
      /\ vms' = vms /\ stale' = stale /\ crossed' = crossed
  BY DEF Stop
<1>3. PlacePart' /\ Persist /\ Sheds
  BY <1>1, <1>2, ReleasePlaces
<1>4. /\ run'[r].pc = "idle" /\ run'[r].launch = 0 /\ run'[r].runner = 0
      /\ run'[r].request = run[r].request /\ run'[r].reservation = run[r].reservation
      /\ run'[r].hold = run[r].hold
  BY <1>1, <1>2 DEF Placement
<1>5. RunStep(r)
  <2>0. "idle" \in Pcs
    BY DEF Pcs
  <2>1. run' \in [Runs -> Placement]
    <3>1. PICK x \in Placement : x = run[r]
      BY <1>1
    <3>2. [x EXCEPT !.pc = "idle", !.runner = 0, !.launch = 0] \in Placement
      BY <2>0 DEF Placement
    <3>3. run' = [run EXCEPT ![r] = [x EXCEPT !.pc = "idle", !.runner = 0, !.launch = 0]]
      BY <1>1, <1>2, <3>1
    <3> QED
      BY <1>1, <3>2, <3>3
  <2>2. \A q \in Runs : q # r => run'[q] = run[q]
    BY <1>1, <1>2
  <2> QED
    BY <2>1, <2>2 DEF RunStep
<1>6. VmsStep(r)
  BY <1>1, <1>2, <1>3, VmsStay
<1>7. Referred(r)'
  BY <1>1, <1>3, <1>4, ReferredStep
<1>8. LaunchAlone(r)' /\ ShedsBut(r)
  BY <1>1, <1>3, <1>4, NotLaunching, ShedsOthers
<1>9. RunPart'
  BY <1>1, <1>3, <1>5, <1>6, <1>7, <1>8, RunsStep
<1> QED
  BY <1>3, <1>9

(* A step that leaves a conversation's launch and its runner alone.        *)
LaunchKept(r) ==
  /\ run'[r].pc = run[r].pc /\ run'[r].launch = run[r].launch
  /\ run'[r].runner = run[r].runner

(* A step of a move: no VM starts or stops, and no launch advances.        *)
LEMMA QuietRun ==
  ASSUME FleetInv, NEW r \in Runs, Persist, Sheds, LaunchKept(r), RunStep(r), Referred(r)',
         vms' = vms, stale' = stale
  PROVE  RunPart'
<1>1. /\ PlacePart /\ RunPart /\ PlaceTypes /\ RunTypes /\ Referred(r)
  BY InRuns
<1>2. LaunchAlone(r)'
  <2>1. /\ run'[r].pc = run[r].pc /\ run'[r].launch = run[r].launch
        /\ run'[r].runner = run[r].runner
    BY DEF LaunchKept
  <2>2. PICK d : run' = run \/ d = 0
    OBVIOUS
  <2> SUFFICES ASSUME run[r].pc = "reserved"
               PROVE  /\ \A a \in ActiveIds' : att'[a].run = r => att'[a].role = "execution"
                      /\ run[r].launch \in crossed' =>
                           ~vol'[r][att'[run[r].launch].node].kept
    BY <2>1 DEF LaunchAlone
  <2>3. /\ \A a \in ActiveIds : att[a].run = r => att[a].role = "execution"
        /\ run[r].launch \in crossed => ~vol[r][att[run[r].launch].node].kept
    BY InRuns DEF LaunchAlone
  <2>4. \A a \in ActiveIds' : a \in ActiveIds /\ att'[a].run = att[a].run
                              /\ att'[a].role = att[a].role
    BY DEF Sheds, Persist, ActiveIds
  <2>5. run[r].launch \in AttemptIds
    BY <1>1 DEF Referred, Mine
  <2>6. att'[run[r].launch].node = att[run[r].launch].node /\ att[run[r].launch].node \in Nodes
    BY <1>1, <2>5, AttemptType DEF Persist
  <2> QED
    BY <2>3, <2>4, <2>6 DEF Sheds
<1>3. VmsStep(r)
  <2>1. \A a \in vms : att[a].run = r =>
          run'[r].runner = a /\ run'[r].pc \in {"running", "recovering"}
    BY <1>1 DEF RunPart, VmsNamed, LaunchKept
  <2> QED
    BY <1>1, <2>1, VmsStay
<1>4. ShedsBut(r)
  BY <1>1, ShedsOthers
<1> QED
  BY <1>1, <1>2, <1>3, <1>4, RunsStep

(* The record of a move's request.                                         *)
LEMMA RecordRequestKeeps ==
  ASSUME FleetInv, NEW r \in Runs, NEW a, RecordRequest(r, a)
  PROVE  PlacePart' /\ RunPart'
<1>1. /\ PlacePart /\ RunPart /\ PlaceTypes /\ RunTypes /\ Referred(r)
      /\ run \in [Runs -> Placement]
  BY InRuns
<1>2. /\ a \in run[r].hold /\ run[r].pc \in {"idle", "running"}
      /\ run' = [run EXCEPT ![r].request = a, ![r].hold = run[r].hold \ {a}]
      /\ UNCHANGED <<att, vol, vms, stale, crossed>>
  BY DEF RecordRequest
<1>3. PlacePart' /\ Persist /\ Sheds
  BY <1>1, <1>2, SamePlaces
<1>4. /\ run'[r].pc = run[r].pc /\ run'[r].launch = run[r].launch
      /\ run'[r].runner = run[r].runner
      /\ run'[r].request = a /\ run'[r].reservation = run[r].reservation
      /\ run'[r].hold = run[r].hold \ {a}
  BY <1>1, <1>2 DEF Placement
<1>5. RunStep(r)
  <2>0. a \in Nat
    BY <1>1, <1>2 DEF Placement
  <2>1. run' \in [Runs -> Placement]
    BY <1>1, <1>2, <2>0 DEF Placement
  <2>2. \A q \in Runs : q # r => run'[q] = run[q]
    BY <1>1, <1>2
  <2> QED
    BY <2>1, <2>2 DEF RunStep
<1>6. Referred(r)'
  BY <1>1, <1>2, <1>3, <1>4, ReferredStep
<1>7. LaunchKept(r)
  BY <1>4 DEF LaunchKept
<1>8. RunPart'
  BY <1>2, <1>3, <1>5, <1>6, <1>7, QuietRun
<1> QED
  BY <1>3, <1>8

(* A request that gives its destination back.                              *)
LEMMA RequestRefusedKeeps ==
  ASSUME FleetInv, NEW r \in Runs, NEW a, RequestRefused(r, a)
  PROVE  PlacePart' /\ RunPart'
<1>1. /\ PlacePart /\ RunPart /\ PlaceTypes /\ RunTypes /\ Referred(r)
      /\ run \in [Runs -> Placement]
  BY InRuns
<1>2. /\ a \in run[r].hold /\ Released(a)
      /\ run' = [run EXCEPT ![r].hold = run[r].hold \ {a}]
      /\ vms' = vms /\ stale' = stale /\ crossed' = crossed
  BY DEF RequestRefused
<1>3. PlacePart' /\ Persist /\ Sheds
  BY <1>1, <1>2, ReleasePlaces
<1>4. /\ run'[r].pc = run[r].pc /\ run'[r].launch = run[r].launch
      /\ run'[r].runner = run[r].runner
      /\ run'[r].request = run[r].request /\ run'[r].reservation = run[r].reservation
      /\ run'[r].hold = run[r].hold \ {a}
  BY <1>1, <1>2 DEF Placement
<1>5. RunStep(r)
  BY <1>1, <1>2 DEF RunStep, Placement
<1>6. Referred(r)'
  <2>1. run[r].pc \in {"reserved", "materialized"} => run[r].launch # 0
    BY <1>1 DEF Referred
  <2> QED
    BY <1>1, <1>3, <1>4, <2>1, ReferredStep
<1>7. LaunchKept(r)
  BY <1>4 DEF LaunchKept
<1>8. RunPart'
  BY <1>2, <1>3, <1>5, <1>6, <1>7, QuietRun
<1> QED
  BY <1>3, <1>8

(* A move that restored the disk on its destination.                       *)
LEMMA AdvanceKeeps ==
  ASSUME FleetInv, NEW r \in Runs, Advance(r)
  PROVE  PlacePart' /\ RunPart'
<1>1. /\ PlacePart /\ RunPart /\ PlaceTypes /\ RunTypes /\ Referred(r)
      /\ run \in [Runs -> Placement]
  BY InRuns
<1>2. PICK a, n : a = run[r].request /\ n = att[a].node
  OBVIOUS
<1>3. /\ run[r].pc = "idle" /\ a # 0 /\ Materialized(a)
      /\ run' = [run EXCEPT ![r].at = n, ![r].request = 0, ![r].reservation = a]
      /\ vms' = vms /\ stale' = stale /\ crossed' = crossed
  BY <1>2 DEF Advance
<1>4. /\ a \in AttemptIds /\ att[a].run = r /\ att[a].role = "destination" /\ a \in Nat
      /\ n \in Nodes
  <2>1. a \in AttemptIds /\ att[a].run = r /\ att[a].role = "destination"
    BY <1>1, <1>2, <1>3 DEF Referred, Mine
  <2>2. a \in Nat
    BY <1>1, <1>2 DEF Placement
  <2> QED
    BY <1>1, <1>2, <2>1, <2>2, AttemptType
<1>5. a \notin crossed
  <2>1. a \in ActiveIds /\ vol[att[a].run][att[a].node].kept
    BY <1>3, <1>4 DEF Materialized, ActiveIds
  <2> QED
    BY <1>1, <1>4, <2>1 DEF PlacePart, Crossings
<1>6. PlacePart' /\ Persist /\ Sheds /\ att'[a].materialized
  BY <1>1, <1>3, <1>4, <1>5, MakePlaces
<1>7. /\ run'[r].pc = run[r].pc /\ run'[r].launch = run[r].launch
      /\ run'[r].runner = run[r].runner
      /\ run'[r].request = 0 /\ run'[r].reservation = a
      /\ run'[r].hold = run[r].hold
  BY <1>1, <1>3 DEF Placement
<1>8. RunStep(r)
  <2>0. PICK s, t : /\ s = [run EXCEPT ![r].at = n]
                    /\ t = [s EXCEPT ![r].request = 0]
    OBVIOUS
  <2>a. s \in [Runs -> Placement]
    BY <1>1, <1>4, <2>0 DEF Placement
  <2>b. t \in [Runs -> Placement]
    BY <2>0, <2>a, ZenonT(40) DEF Placement
  <2>c. run' = [t EXCEPT ![r].reservation = a]
    BY <1>3, <2>0
  <2>1. run' \in [Runs -> Placement]
    BY <1>4, <2>b, <2>c DEF Placement
  <2>2. \A q \in Runs : q # r => run'[q] = run[q]
    BY <1>1, <1>3
  <2> QED
    BY <2>1, <2>2 DEF RunStep
<1>9. Referred(r)'
  BY <1>1, <1>2, <1>3, <1>6, <1>7, ReferredStep
<1>10. LaunchKept(r)
  BY <1>7 DEF LaunchKept
<1>11. RunPart'
  BY <1>3, <1>6, <1>8, <1>9, <1>10, QuietRun
<1> QED
  BY <1>6, <1>11

(* A move that gives its destination back.                                 *)
LEMMA GiveBackKeeps ==
  ASSUME FleetInv, NEW r \in Runs, GiveBack(r)
  PROVE  PlacePart' /\ RunPart'
<1>1. /\ PlacePart /\ RunPart /\ PlaceTypes /\ RunTypes /\ Referred(r)
      /\ run \in [Runs -> Placement]
  BY InRuns
<1>2. /\ \E a : Released(a)
      /\ run' = [run EXCEPT ![r].request = 0, ![r].reservation = 0]
      /\ vms' = vms /\ stale' = stale /\ crossed' = crossed
  BY DEF GiveBack
<1>3. PlacePart' /\ Persist /\ Sheds
  BY <1>1, <1>2, ReleasePlaces
<1>4. /\ run'[r].pc = run[r].pc /\ run'[r].launch = run[r].launch
      /\ run'[r].runner = run[r].runner
      /\ run'[r].request = 0 /\ run'[r].reservation = 0
      /\ run'[r].hold = run[r].hold
  BY <1>1, <1>2 DEF Placement
<1>5. RunStep(r)
  <2>1. run' \in [Runs -> Placement]
    BY <1>1, <1>2 DEF Placement
  <2>2. \A q \in Runs : q # r => run'[q] = run[q]
    BY <1>1, <1>2
  <2> QED
    BY <2>1, <2>2 DEF RunStep
<1>6. Referred(r)'
  <2>1. run[r].pc \in {"reserved", "materialized"} => run[r].launch # 0
    BY <1>1 DEF Referred
  <2> QED
    BY <1>1, <1>3, <1>4, <2>1, ReferredStep
<1>7. LaunchKept(r)
  BY <1>4 DEF LaunchKept
<1>8. RunPart'
  BY <1>2, <1>3, <1>5, <1>6, <1>7, QuietRun
<1> QED
  BY <1>3, <1>8

(* A restart of the manager.                                               *)
LEMMA ManagerRestartsKeeps ==
  ASSUME FleetInv, ManagerRestarts
  PROVE  PlacePart' /\ RunPart'
<1>1. /\ PlacePart /\ RunPart /\ PlaceTypes /\ RunTypes /\ References /\ VmsNamed
      /\ run \in [Runs -> Placement] /\ StaleMade
  BY DEF FleetInv, PlacePart, RunPart, RunTypes
<1>2. /\ run' = [r \in Runs |-> [run[r] EXCEPT !.launch = 0, !.hold = {},
                                 !.pc = IF run[r].pc = "idle" THEN run[r].pc ELSE "recovering"]]
      /\ UNCHANGED <<att, vol, vms, crossed>> /\ stale' = {}
  BY Zenon DEF ManagerRestarts
<1>3. /\ AttemptIds' = AttemptIds /\ ActiveIds' = ActiveIds
      /\ \A r, n : AttemptsOf(r, n)' = AttemptsOf(r, n) /\ Backed(r, n)' = Backed(r, n)
  BY <1>2 DEF AttemptIds, ActiveIds, AttemptsOf, ActiveOn, Backed
<1>4. PlacePart'
  <2>1. PlaceTypes'
    BY <1>1, <1>2, <1>3 DEF PlaceTypes
  <2>2. Roles'
    BY <1>2, <1>3 DEF FleetInv, PlacePart, Roles, OneDestination, OneUnmade
  <2>3. Crossings'
    BY <1>2, <1>3 DEF FleetInv, PlacePart, Crossings
  <2>4. StaleMade'
    BY <1>2 DEF StaleMade
  <2>5. Accounts'
    BY <1>2, <1>3 DEF FleetInv, PlacePart, Accounts
  <2> QED
    BY <2>1, <2>2, <2>3, <2>4, <2>5 DEF PlacePart
<1>5. Persist
  BY <1>2, <1>3 DEF Persist
<1>6. ASSUME NEW r \in Runs
      PROVE  /\ run'[r] \in Placement
             /\ run'[r].pc = IF run[r].pc = "idle" THEN "idle" ELSE "recovering"
             /\ run'[r].launch = 0 /\ run'[r].hold = {} /\ run'[r].runner = run[r].runner
             /\ run'[r].request = run[r].request /\ run'[r].reservation = run[r].reservation
  <2>1. PICK p : p = IF run[r].pc = "idle" THEN run[r].pc ELSE "recovering"
    OBVIOUS
  <2>2. run'[r] = [run[r] EXCEPT !.launch = 0, !.hold = {}, !.pc = p]
    BY <1>2, <2>1
  <2>3. run[r] \in Placement /\ p \in Pcs
    BY <1>1, <2>1 DEF Placement, Pcs
  <2>a. PICK s, t : s = [run[r] EXCEPT !.launch = 0] /\ t = [s EXCEPT !.hold = {}]
    OBVIOUS
  <2>b. s \in Placement
    BY <2>3, <2>a DEF Placement
  <2>c. t \in Placement
    BY <2>a, <2>b DEF Placement
  <2>d. run'[r] = [t EXCEPT !.pc = p]
    BY <2>2, <2>a
  <2>4. run'[r] \in Placement
    BY <2>3, <2>c, <2>d DEF Placement
  <2>5. /\ run'[r].pc = p /\ run'[r].launch = 0 /\ run'[r].hold = {}
        /\ run'[r].runner = run[r].runner
        /\ run'[r].request = run[r].request /\ run'[r].reservation = run[r].reservation
    BY <2>2, <2>3 DEF Placement
  <2> QED
    BY <2>1, <2>4, <2>5
<1>7. RunTypes'
  <2>1. run' \in [Runs -> Placement]
    BY <1>2, <1>6
  <2> QED
    BY <1>1, <1>2, <1>3, <2>1 DEF RunTypes
<1>8. References'
  <2> SUFFICES ASSUME NEW r \in Runs
               PROVE  Referred(r)'
    BY DEF References
  <2>1. Referred(r)
    BY <1>1 DEF References
  <2>2. run'[r].pc \notin {"reserved", "materialized"}
    BY <1>6
  <2> QED
    BY <1>5, <1>6, <2>1, <2>2, ReferredStep
<1>9. VmsNamed'
  <2> SUFFICES ASSUME NEW a \in vms
               PROVE  /\ run'[att[a].run].runner = a
                      /\ run'[att[a].run].pc \in {"running", "recovering"}
    BY <1>2 DEF VmsNamed
  <2>1. att[a].run \in Runs
    BY <1>1, AttemptType DEF RunTypes
  <2>2. /\ run[att[a].run].runner = a
        /\ run[att[a].run].pc \in {"running", "recovering"}
    BY <1>1 DEF VmsNamed
  <2> QED
    BY <1>6, <2>1, <2>2
<1>10. LaunchesAlone'
  BY <1>6 DEF LaunchesAlone, LaunchAlone
<1> QED
  BY <1>4, <1>7, <1>8, <1>9, <1>10 DEF RunPart

(* The discard of a disk found stale.                                      *)
LEMMA DiscardKeeps ==
  ASSUME FleetInv, NEW r \in Runs, NEW n \in Nodes, Discard(r, n)
  PROVE  PlacePart' /\ RunPart'
<1>1. /\ PlacePart /\ RunPart /\ PlaceTypes /\ RunTypes /\ References /\ VmsNamed
      /\ StaleMade /\ LaunchesAlone /\ stale \subseteq Runs \X Nodes
  BY DEF FleetInv, PlacePart, RunPart, RunTypes
<1>2. /\ <<r, n>> \in stale /\ stale' = stale \ {<<r, n>>}
      /\ att' = att /\ run' = run /\ vms' = vms
  BY DEF Discard
<1>3. CASE vol' = vol /\ crossed' = crossed
  <2>1. /\ AttemptIds' = AttemptIds /\ ActiveIds' = ActiveIds
        /\ \A q, m : AttemptsOf(q, m)' = AttemptsOf(q, m) /\ Backed(q, m)' = Backed(q, m)
    BY <1>2, <1>3 DEF AttemptIds, ActiveIds, AttemptsOf, ActiveOn, Backed
  <2>2. PlaceTypes'
    BY <1>1, <1>2, <1>3, <2>1 DEF PlaceTypes
  <2>3. Roles'
    BY <1>2, <2>1 DEF FleetInv, PlacePart, Roles, OneDestination, OneUnmade
  <2>4. Crossings'
    BY <1>2, <1>3, <2>1 DEF FleetInv, PlacePart, Crossings
  <2>5. StaleMade'
    BY <1>1, <1>2, <1>3, <2>1 DEF StaleMade
  <2>6. Accounts'
    BY <1>2, <1>3, <2>1 DEF FleetInv, PlacePart, Accounts
  <2>7. Persist /\ Sheds
    BY <1>2, <1>3, <2>1 DEF Persist, Sheds
  <2>8. RunPart'
    BY <1>1, <1>2, <2>7, RunsSame
  <2> QED
    BY <2>2, <2>3, <2>4, <2>5, <2>6, <2>8 DEF PlacePart
<1>4. CASE vol' = [vol EXCEPT ![r][n] = NoVolume] /\ crossed' = crossed \cup AttemptsOf(r, n)
  <2>1. Deleting(r, n)
    BY <1>2, <1>4 DEF Deleting
  <2>2. PlacePart'
    BY <1>1, <2>1, DeletingPlaces
  <2>3. /\ vol'[r][n] = NoVolume /\ AttemptIds' = AttemptIds /\ ActiveIds' = ActiveIds
        /\ \A r2 \in Runs, n2 \in Nodes : r2 # r \/ n2 # n => vol'[r2][n2] = vol[r2][n2]
    BY <1>1, <2>1, DeletingEffect
  <2>4. Persist
    BY <1>2, <2>3 DEF Persist
  <2>5. RunTypes'
    BY <1>1, <1>2, <2>3 DEF RunTypes
  <2>6. References'
    <3> SUFFICES ASSUME NEW q \in Runs
                 PROVE  Referred(q)'
      BY DEF References
    <3> QED
      BY <1>1, <1>2, <2>4, ReferredSame DEF References
  <2>7. VmsNamed'
    BY <1>1, <1>2 DEF VmsNamed
  <2>8. LaunchesAlone'
    <3> SUFFICES ASSUME NEW q \in Runs, run[q].pc = "reserved"
                 PROVE  /\ \A a \in ActiveIds : att[a].run = q => att[a].role = "execution"
                        /\ run[q].launch \in crossed' =>
                             ~vol'[q][att[run[q].launch].node].kept
      BY <1>2, <2>3 DEF LaunchesAlone, LaunchAlone
    <3>1. /\ \A a \in ActiveIds : att[a].run = q => att[a].role = "execution"
          /\ run[q].launch \in crossed => ~vol[q][att[run[q].launch].node].kept
      BY <1>1 DEF LaunchesAlone, LaunchAlone
    <3>2. PICK a : a = run[q].launch
      OBVIOUS
    <3>3. a \in AttemptIds /\ att[a].run = q
      BY <1>1, <3>2 DEF References, Referred, Mine
    <3>4. att[a].node \in Nodes
      BY <1>1, <3>3, AttemptType
    <3>5. CASE q = r /\ att[a].node = n
      BY <2>3, <3>1, <3>2, <3>5 DEF NoVolume
    <3>6. CASE q # r \/ att[a].node # n
      <4>1. a \in crossed' => a \in crossed
        BY <1>4, <3>3, <3>6 DEF AttemptsOf, ActiveOn
      <4>2. vol'[q][att[a].node] = vol[q][att[a].node]
        BY <2>3, <3>4, <3>6
      <4> QED
        BY <3>1, <3>2, <4>1, <4>2
    <3> QED
      BY <3>5, <3>6
  <2> QED
    BY <2>2, <2>5, <2>6, <2>7, <2>8 DEF RunPart
<1> QED
  BY <1>3, <1>4 DEF Discard

(* The search for stale disks.                                             *)
LEMMA FindStaleKeeps ==
  ASSUME FleetInv, NEW n \in Nodes, FindStale(n)
  PROVE  PlacePart' /\ RunPart'
<1>1. /\ PlacePart /\ RunPart /\ PlaceTypes /\ RunTypes
      /\ StaleMade /\ stale \subseteq Runs \X Nodes
  BY DEF FleetInv, PlacePart, RunPart, RunTypes
<1>2. /\ stale' = stale \cup {<<r, n>> : r \in {s \in Runs : IsStale(s, n)}}
      /\ UNCHANGED <<att, vol, crossed, run, vms>>
  BY DEF FindStale
<1>3. /\ AttemptIds' = AttemptIds /\ ActiveIds' = ActiveIds
      /\ \A q, m : AttemptsOf(q, m)' = AttemptsOf(q, m) /\ Backed(q, m)' = Backed(q, m)
  BY <1>2 DEF AttemptIds, ActiveIds, AttemptsOf, ActiveOn, Backed
<1>4. PlaceTypes'
  BY <1>1, <1>2, <1>3 DEF PlaceTypes
<1>5. Roles'
  BY <1>2, <1>3 DEF FleetInv, PlacePart, Roles, OneDestination, OneUnmade
<1>6. Crossings'
  BY <1>2, <1>3 DEF FleetInv, PlacePart, Crossings
<1>7. StaleMade'
  <2> SUFFICES ASSUME NEW p \in stale'
               PROVE  /\ vol[p[1]][p[2]].materialized
                      /\ \A a \in AttemptsOf(p[1], p[2]) :
                           att[a].role = "execution" /\ ~att[a].materialized => att[a].extra = 0
    BY <1>2, <1>3 DEF StaleMade
  <2>1. CASE p \in stale
    BY <1>1, <2>1 DEF StaleMade
  <2>2. ASSUME NEW r \in Runs, IsStale(r, n), p = <<r, n>>
        PROVE  vol[p[1]][p[2]].materialized /\ AttemptsOf(p[1], p[2]) = {}
    BY <2>2 DEF IsStale
  <2> QED
    BY <1>2, <2>1, <2>2
<1>8. Accounts'
  BY <1>2, <1>3 DEF FleetInv, PlacePart, Accounts
<1>9. Persist /\ Sheds
  BY <1>2, <1>3 DEF Persist, Sheds
<1>10. stale' \subseteq Runs \X Nodes
  BY <1>1, <1>2
<1>11. RunPart'
  BY <1>1, <1>2, <1>9, <1>10, RunsSame
<1> QED
  BY <1>4, <1>5, <1>6, <1>7, <1>8, <1>11 DEF PlacePart

(* What is done to nodes and drains touches no placement. *)
LEMMA QuietPlaces ==
  ASSUME FleetInv, UNCHANGED <<att, vol, crossed, stale, run>>, vms' \subseteq vms
  PROVE  PlacePart' /\ RunPart'
<1>1. /\ PlacePart /\ RunPart /\ PlaceTypes /\ stale \subseteq Runs \X Nodes
  BY DEF FleetInv, PlacePart, RunPart, RunTypes
<1>2. PlacePart' /\ Persist /\ Sheds
  BY <1>1, SamePlaces
<1>3. RunPart'
  BY <1>1, <1>2, RunsSame
<1> QED
  BY <1>2, <1>3

(* A drain that comes to one conversation.                                 *)
LEMMA DrainOneKeeps ==
  ASSUME FleetInv, NEW d, NEW a, NEW b, DrainOne(d, a, b)
  PROVE  PlacePart' /\ RunPart'
<1>1. /\ PlacePart /\ RunPart /\ PlaceTypes /\ RunTypes /\ stale \subseteq Runs \X Nodes
  BY DEF FleetInv, PlacePart, RunPart, RunTypes
<1>2. run' = run /\ stale' = stale /\ crossed' = crossed
  BY DEF DrainOne
<1>3. CASE UNCHANGED <<att, vol, vms>>
  BY <1>2, <1>3, QuietPlaces
<1>4. CASE vms' = vms \ {a} /\ Released(a)
  <2>1. PlacePart' /\ Persist /\ Sheds
    BY <1>1, <1>2, <1>4, ReleasePlaces
  <2>2. RunPart'
    BY <1>1, <1>2, <1>4, <2>1, RunsSame
  <2> QED
    BY <2>1, <2>2
<1>5. UNCHANGED <<att, vol, vms>> \/ (vms' = vms \ {a} /\ Released(a))
  BY DEF DrainOne
<1> QED
  BY <1>3, <1>4, <1>5

----------------------------------------
(* The nodes and their drains. *)
LEMMA NodeFields ==
  ASSUME ServiceTypes, NEW n \in Nodes
  PROVE  /\ node[n] \in NodeRow
         /\ node[n].slots \in Nat /\ node[n].pool \in Nat /\ node[n].ready \in BOOLEAN
         /\ node[n].accepting \in BOOLEAN /\ node[n].error \in BOOLEAN
         /\ node[n].generation \in Nat /\ node[n].maintenance \in {"none", "draining", "ready"}
         /\ node[n].state \in {"invited", "enrolled", "revoked"} /\ budget[n] \in Nat
BY DEF ServiceTypes, NodeRow

(* The count of the owner's acts is a count.                               *)
LEMMA ActCounts ==
  ASSUME ServiceTypes, Act
  PROVE  acts' \in Nat
BY DEF ServiceTypes, Act

(* A step that leaves nodes and maintenance alone.                         *)
LEMMA SameService ==
  ASSUME ServicePart, UNCHANGED <<node, budget, grants, drains, windows>>, acts' \in Nat
  PROVE  ServicePart'
BY DEF ServicePart, ServiceTypes, Numbered

(* A node's row replaced by one that keeps the rules of its drain. *)
LEMMA NodeStep ==
  ASSUME ServicePart, NEW n \in Nodes, NEW row \in NodeRow,
         node' = [node EXCEPT ![n] = row],
         row.maintenance = "none" => row.generation = 0,
         budget' \in [Nodes -> Nat], grants' \subseteq Nodes, drains' \subseteq Drain,
         acts' \in Nat, windows' \in Nat
  PROVE  ServicePart'
<1>1. node \in [Nodes -> NodeRow] /\ Numbered
  BY DEF ServicePart, ServiceTypes
<1>2. node' \in [Nodes -> NodeRow] /\ node'[n] = row /\ \A m \in Nodes : m # n => node'[m] = node[m]
  BY <1>1
<1>3. Numbered'
  BY <1>1, <1>2 DEF Numbered
<1> QED
  BY <1>2, <1>3 DEF ServicePart, ServiceTypes

(* The enrolment of a node.                                                *)
LEMMA EnrollService ==
  ASSUME ServicePart, NEW n \in Nodes, Enroll(n)
  PROVE  ServicePart'
<1>1. PICK row : row = [node[n] EXCEPT !.state = "enrolled"]
  OBVIOUS
<1>2. /\ row \in NodeRow /\ row.maintenance = node[n].maintenance
      /\ row.generation = node[n].generation
  <2>1. node[n] \in NodeRow
    BY NodeFields DEF ServicePart
  <2> QED
    BY <1>1, <2>1 DEF NodeRow
<1>3. node' = [node EXCEPT ![n] = row] /\ UNCHANGED <<budget, grants, drains, acts, windows>>
  BY <1>1 DEF Enroll
<1> QED
  BY <1>2, <1>3, NodeStep DEF ServicePart, ServiceTypes, Numbered

(* The types of a node's record.                                           *)
LEMMA ServiceFacts ==
  ASSUME ServicePart, NEW n \in Nodes
  PROVE  /\ node[n] \in NodeRow /\ budget \in [Nodes -> Nat] /\ grants \subseteq Nodes
         /\ drains \subseteq Drain /\ acts \in Nat /\ windows \in Nat
         /\ node[n].maintenance = "none" => node[n].generation = 0
BY DEF ServicePart, ServiceTypes, Numbered

(* The configuration of a node.                                            *)
LEMMA ConfigureService ==
  ASSUME ServicePart, NEW n \in Nodes, NEW slots \in 1 .. MaxSlots, NEW accepting \in BOOLEAN,
         ConfigureNode(n, slots, accepting)
  PROVE  ServicePart'
<1>1. PICK ready : ready = (node[n].ready /\ node[n].slots = slots)
  OBVIOUS
<1>2. PICK s, t, row : /\ s = [node[n] EXCEPT !.slots = slots]
                       /\ t = [s EXCEPT !.accepting = accepting]
                       /\ row = [t EXCEPT !.ready = ready]
  OBVIOUS
<1>3. slots \in Nat /\ ready \in BOOLEAN
  BY <1>1, FleetConstants
<1>4. s \in NodeRow /\ s.maintenance = node[n].maintenance /\ s.generation = node[n].generation
  BY <1>2, <1>3, ServiceFacts DEF NodeRow
<1>5. t \in NodeRow /\ t.maintenance = s.maintenance /\ t.generation = s.generation
  BY <1>2, <1>4 DEF NodeRow
<1>6. row \in NodeRow /\ row.maintenance = t.maintenance /\ row.generation = t.generation
  BY <1>2, <1>3, <1>5 DEF NodeRow
<1>7. node' = [node EXCEPT ![n].slots = slots, ![n].accepting = accepting, ![n].ready = ready]
  BY Zenon, <1>1 DEF ConfigureNode
<1>8. node' = [node EXCEPT ![n] = row]
  <2>1. node \in [Nodes -> NodeRow]
    BY DEF ServicePart, ServiceTypes
  <2> QED
    BY <1>2, <1>7, <2>1
<1>9. UNCHANGED <<budget, grants, drains, windows>> /\ acts' \in Nat
  BY ActCounts DEF ConfigureNode, ServicePart
<1> QED
  BY <1>4, <1>5, <1>6, <1>8, <1>9, ServiceFacts, NodeStep

(* The grant of a node to the agent.                                       *)
LEMMA GrantService ==
  ASSUME ServicePart, NEW n \in Nodes, GrantAgents(n)
  PROVE  ServicePart'
<1>1. grants' \subseteq Nodes /\ acts' \in Nat
  BY ActCounts, ServiceFacts DEF GrantAgents, ServicePart
<1>2. UNCHANGED <<node, budget, drains, windows>>
  BY DEF GrantAgents
<1> QED
  BY <1>1, <1>2 DEF ServicePart, ServiceTypes, Numbered

(* The revocation of a node.                                               *)
LEMMA RevokeService ==
  ASSUME ServicePart, NEW n \in Nodes, Revoke(n)
  PROVE  ServicePart'
<1>1. PICK s, row : /\ s = [node[n] EXCEPT !.state = "revoked"]
                    /\ row = [s EXCEPT !.accepting = FALSE]
  OBVIOUS
<1>2. s \in NodeRow /\ s.maintenance = node[n].maintenance /\ s.generation = node[n].generation
  BY <1>1, ServiceFacts DEF NodeRow
<1>3. row \in NodeRow /\ row.maintenance = s.maintenance /\ row.generation = s.generation
  BY <1>1, <1>2 DEF NodeRow
<1>4. node' = [node EXCEPT ![n] = row]
  <2>1. node' = [node EXCEPT ![n].state = "revoked", ![n].accepting = FALSE]
    BY DEF Revoke
  <2>2. node \in [Nodes -> NodeRow]
    BY DEF ServicePart, ServiceTypes
  <2> QED
    BY <1>1, <2>1, <2>2
<1>5. UNCHANGED <<budget, drains, windows>> /\ acts' \in Nat /\ grants' \subseteq Nodes
  BY ActCounts, ServiceFacts DEF Revoke, ServicePart
<1> QED
  BY <1>2, <1>3, <1>4, <1>5, ServiceFacts, NodeStep

(* A heartbeat of a node.                                                  *)
LEMMA HeartbeatService ==
  ASSUME ServicePart, NEW n \in Nodes, NEW applied \in BOOLEAN, Heartbeat(n, applied)
  PROVE  ServicePart'
<1>1. PICK b : b = budget[n]
  OBVIOUS
<1>2. PICK ready : ready = (b = node[n].slots)
  OBVIOUS
<1>3. PICK s, row : /\ s = [node[n] EXCEPT !.pool = b]
                    /\ row = [s EXCEPT !.ready = ready]
  OBVIOUS
<1>4. b \in Nat /\ ready \in BOOLEAN
  BY <1>1, <1>2, ServiceFacts
<1>5. s \in NodeRow /\ s.maintenance = node[n].maintenance /\ s.generation = node[n].generation
  BY <1>3, <1>4, ServiceFacts DEF NodeRow
<1>6. row \in NodeRow /\ row.maintenance = s.maintenance /\ row.generation = s.generation
  BY <1>3, <1>4, <1>5 DEF NodeRow
<1>7. Reported(n) = row
  <2>1. Reported(n) = [node[n] EXCEPT !.pool = b, !.ready = ready]
    BY Zenon, <1>1, <1>2 DEF Reported
  <2> QED
    BY <1>3, <2>1
<1>8. node' = [node EXCEPT ![n] = row]
  BY <1>7 DEF Heartbeat
<1>9. budget' \in [Nodes -> Nat]
  <2>1. BudgetApplied(n, applied) \in Nat
    BY ServiceFacts DEF BudgetApplied, NodeRow
  <2> QED
    BY <2>1, ServiceFacts DEF Heartbeat
<1>10. UNCHANGED <<grants, drains, acts, windows>>
  BY DEF Heartbeat
<1> QED
  BY <1>5, <1>6, <1>8, <1>9, <1>10, ServiceFacts, NodeStep

(* The start of a maintenance.                                             *)
LEMMA StartDrainService ==
  ASSUME ServicePart, NEW n \in Nodes, StartDrain(n)
  PROVE  ServicePart'
<1>1. PICK g : g = windows + 1
  OBVIOUS
<1>2. g \in Nat \ {0}
  BY <1>1, ServiceFacts
<1>3. PICK s, row : /\ s = [node[n] EXCEPT !.maintenance = "draining"]
                    /\ row = [s EXCEPT !.generation = g]
  OBVIOUS
<1>4. s \in NodeRow /\ s.maintenance = "draining"
  BY <1>3, ServiceFacts DEF NodeRow
<1>5. row \in NodeRow /\ row.maintenance = "draining"
  BY <1>2, <1>3, <1>4 DEF NodeRow
<1>6. node' = [node EXCEPT ![n] = row]
  <2>1. node' = [node EXCEPT ![n].maintenance = "draining", ![n].generation = g]
    BY <1>1 DEF StartDrain
  <2>2. node \in [Nodes -> NodeRow]
    BY DEF ServicePart, ServiceTypes
  <2> QED
    BY <1>3, <2>1, <2>2
<1>7. drains' \subseteq Drain
  <2>1. [node |-> n, generation |-> g, listed |-> FALSE, left |-> {}, failed |-> FALSE] \in Drain
    BY <1>2 DEF Drain
  <2> QED
    BY <1>1, <2>1, ServiceFacts DEF StartDrain
<1>8. UNCHANGED <<budget, grants, acts>> /\ windows' \in Nat
  BY <1>1, <1>2 DEF StartDrain
<1> QED
  BY <1>5, <1>6, <1>7, <1>8, ServiceFacts, NodeStep

(* The end of a maintenance.                                               *)
LEMMA CompleteService ==
  ASSUME ServicePart, NEW n \in Nodes, Complete(n)
  PROVE  ServicePart'
<1>1. PICK s, row : /\ s = [node[n] EXCEPT !.maintenance = "none"]
                    /\ row = [s EXCEPT !.generation = 0]
  OBVIOUS
<1>2. s \in NodeRow
  BY <1>1, ServiceFacts DEF NodeRow
<1>3. row \in NodeRow /\ row.generation = 0
  BY <1>1, <1>2 DEF NodeRow
<1>4. node' = [node EXCEPT ![n] = row]
  <2>1. node' = [node EXCEPT ![n].maintenance = "none", ![n].generation = 0]
    BY DEF Complete
  <2>2. node \in [Nodes -> NodeRow]
    BY DEF ServicePart, ServiceTypes
  <2> QED
    BY <1>1, <2>1, <2>2
<1>5. UNCHANGED <<budget, grants, drains, acts, windows>>
  BY DEF Complete
<1> QED
  BY <1>3, <1>4, <1>5, ServiceFacts, NodeStep

(* A drain replaced by a later state of its own. *)
LEMMA DrainFields ==
  ASSUME ServicePart, NEW d \in drains
  PROVE  /\ d \in Drain /\ d.node \in Nodes /\ d.generation \in Nat /\ d.generation # 0
         /\ d.left \subseteq Nat /\ d.failed \in BOOLEAN
BY DEF ServicePart, ServiceTypes, Drain

(* A drain that lists what it stops.                                       *)
LEMMA DrainListsService ==
  ASSUME ServicePart, PlaceTypes, NEW d \in drains, DrainLists(d)
  PROVE  ServicePart'
<1>1. PICK others : others = {a \in ActiveOn(d.node) : att[a].role = "execution"}
  OBVIOUS
<1>2. others \subseteq Nat
  BY <1>1 DEF ActiveOn, ActiveIds, AttemptIds, PlaceTypes
<1>3. PICK s, e : s = [d EXCEPT !.listed = TRUE] /\ e = [s EXCEPT !.left = others]
  OBVIOUS
<1>4. s \in Drain
  BY <1>3, DrainFields DEF Drain
<1>5. e \in Drain
  BY <1>2, <1>3, <1>4 DEF Drain
<1>6. drains' = (drains \ {d}) \cup {e}
  BY <1>1, <1>3 DEF DrainLists
<1>7. drains' \subseteq Drain
  BY <1>5, <1>6 DEF ServicePart, ServiceTypes
<1>8. UNCHANGED <<node, budget, grants, acts, windows>>
  BY DEF DrainLists
<1> QED
  BY <1>7, <1>8 DEF ServicePart, ServiceTypes, Numbered

(* A drain that comes to one conversation, on the side of maintenance.     *)
LEMMA DrainOneService ==
  ASSUME ServicePart, NEW d \in drains, NEW a, NEW b \in BOOLEAN, DrainOne(d, a, b)
  PROVE  ServicePart'
<1>1. PICK rest, others : others = d.left \ {a} /\ rest = [d EXCEPT !.left = others]
  OBVIOUS
<1>2. PICK failed : failed = [rest EXCEPT !.failed = TRUE]
  OBVIOUS
<1>3. others \subseteq Nat
  BY <1>1, DrainFields
<1>4. rest \in Drain
  BY <1>1, <1>3, DrainFields DEF Drain
<1>5. failed \in Drain
  BY <1>2, <1>4 DEF Drain
<1>6. drains' = (drains \ {d}) \cup {rest} \/ drains' = (drains \ {d}) \cup {failed}
  BY Zenon, <1>1, <1>2 DEF DrainOne
<1>7. drains' \subseteq Drain
  BY <1>4, <1>5, <1>6 DEF ServicePart, ServiceTypes
<1>8. UNCHANGED <<node, budget, grants, acts, windows>>
  BY DEF DrainOne
<1> QED
  BY <1>7, <1>8 DEF ServicePart, ServiceTypes, Numbered

(* The report of a drain.                                                  *)
LEMMA FinishDrainService ==
  ASSUME ServicePart, NEW d \in drains, FinishDrain(d)
  PROVE  ServicePart'
<1>1. drains' \subseteq Drain /\ UNCHANGED <<budget, grants, acts, windows>>
  BY DEF FinishDrain, ServicePart, ServiceTypes
<1>2. PICK n \in Nodes : n = d.node
  BY DrainFields
<1>3. CASE node' = node
  BY <1>1, <1>3 DEF ServicePart, ServiceTypes, Numbered
<1>4. CASE node' # node
  <2>1. PICK failed : failed = (d.failed \/ d.left # {})
    OBVIOUS
  <2>2. PICK s, row : /\ s = [node[n] EXCEPT !.maintenance = "ready"]
                      /\ row = [s EXCEPT !.error = failed]
    OBVIOUS
  <2>3. s \in NodeRow /\ s.maintenance = "ready"
    BY <2>2, ServiceFacts DEF NodeRow
  <2>4. failed \in BOOLEAN
    BY <2>1
  <2>5. row \in NodeRow /\ row.maintenance = "ready"
    BY <2>2, <2>3, <2>4 DEF NodeRow
  <2>6. node' = [node EXCEPT ![n].maintenance = "ready", ![n].error = failed]
    BY Zenon, <1>2, <1>4, <2>1 DEF FinishDrain
  <2>7. node' = [node EXCEPT ![n] = row]
    <3>1. node \in [Nodes -> NodeRow]
      BY DEF ServicePart, ServiceTypes
    <3> QED
      BY <2>2, <2>6, <3>1
  <2> QED
    BY <1>1, <2>5, <2>7, ServiceFacts, NodeStep
<1> QED
  BY <1>3, <1>4

(* No placement is there at the start. *)
LEMMA InitHolds ==
  ASSUME FleetConstants, FleetInit
  PROVE  FleetInv
<1>1. /\ att = <<>> /\ vms = {} /\ drains = {} /\ stale = {} /\ crossed = {}
      /\ acts = 0 /\ windows = 0
      /\ vol = [r \in Runs |-> [n \in Nodes |-> NoVolume]]
      /\ budget = [n \in Nodes |-> 1]
  BY DEF FleetInit
<1>2. run = [r \in Runs |-> [pc |-> "idle", at |-> NoNode, runner |-> 0, request |-> 0,
                             reservation |-> 0, launch |-> 0, hold |-> {}]]
  BY DEF FleetInit
<1>3. PICK serving \in SUBSET Nodes :
        /\ node = [n \in Nodes |->
                     [state |-> IF n \in serving THEN "enrolled" ELSE "invited",
                      accepting |-> n \in serving, slots |-> 1,
                      pool |-> IF n \in serving THEN 1 ELSE 0, ready |-> n \in serving,
                      maintenance |-> "none", error |-> FALSE, generation |-> 0]]
        /\ grants = serving
  BY DEF FleetInit
<1>4. AttemptIds = {} /\ ActiveIds = {}
  BY <1>1 DEF AttemptIds, ActiveIds
<1>5. \A r, n : AttemptsOf(r, n) = {} /\ Backed(r, n) = {}
  BY <1>4 DEF AttemptsOf, ActiveOn, Backed
<1>6. PlaceTypes
  <2>1. NoVolume \in Volume
    BY DEF NoVolume, Volume
  <2> QED
    BY <1>1, <1>4, <2>1 DEF PlaceTypes
<1>7. Roles /\ Crossings /\ StaleMade
  BY <1>1, <1>4 DEF Roles, OneDestination, OneUnmade, Crossings, StaleMade
<1>8. Accounts
  <2>1. \A r \in Runs, n \in Nodes : vol[r][n] = NoVolume
    BY <1>1
  <2> QED
    BY <1>5, <2>1 DEF Accounts, Account, NoVolume
<1>9. RunTypes
  <2>1. run \in [Runs -> Placement]
    BY <1>2 DEF Placement, Pcs
  <2> QED
    BY <1>1, <1>4, <2>1 DEF RunTypes
<1>10. References
  BY <1>2 DEF References, Referred
<1>11. VmsNamed /\ LaunchesAlone
  BY <1>1, <1>2 DEF VmsNamed, LaunchesAlone, LaunchAlone
<1>12. ServicePart
  <2>1. node \in [Nodes -> NodeRow]
    BY <1>3 DEF NodeRow
  <2>2. Numbered
    BY <1>3 DEF Numbered
  <2> QED
    BY <1>1, <1>3, <2>1, <2>2 DEF ServicePart, ServiceTypes
<1> QED
  BY <1>6, <1>7, <1>8, <1>9, <1>10, <1>11, <1>12 DEF FleetInv, PlacePart, RunPart

(* What a step of a conversation leaves alone. *)
RunOnly ==
  UNCHANGED <<node, budget, grants, drains, windows>> /\ (acts' = acts \/ Act)

(* A step of a conversation keeps what maintenance must not lose.          *)
LEMMA RunOnlyService ==
  ASSUME FleetInv, RunOnly
  PROVE  ServicePart'
<1>1. ServicePart /\ ServiceTypes /\ acts \in Nat
  BY DEF FleetInv, ServicePart, ServiceTypes
<1>2. acts' \in Nat
  BY <1>1, ActCounts DEF RunOnly
<1> QED
  BY <1>1, <1>2, SameService DEF RunOnly

(* What a step of a node or of its maintenance leaves alone. *)
NodeOnly ==
  UNCHANGED <<att, vol, crossed, stale, run>> /\ vms' \subseteq vms

(* A step of a node keeps the invariant.                                   *)
LEMMA NodeStepKeeps ==
  ASSUME FleetInv, NEW n \in Nodes,
         \/ Enroll(n) \/ GrantAgents(n) \/ Revoke(n) \/ StartDrain(n) \/ Complete(n)
         \/ \E s \in 1 .. MaxSlots, b \in BOOLEAN : ConfigureNode(n, s, b)
         \/ \E b \in BOOLEAN : Heartbeat(n, b)
  PROVE  FleetInv'
<1>1. ServicePart
  BY DEF FleetInv
<1>2. NodeOnly
  BY DEF NodeOnly, Enroll, GrantAgents, Revoke, StartDrain, Complete, ConfigureNode, Heartbeat
<1>3. PlacePart' /\ RunPart'
  BY <1>2, QuietPlaces DEF NodeOnly
<1>4. ServicePart'
  BY <1>1, EnrollService, GrantService, RevokeService, StartDrainService, CompleteService,
     ConfigureService, HeartbeatService
<1> QED
  BY <1>3, <1>4 DEF FleetInv

(* A step of a conversation keeps the invariant.                           *)
LEMMA RunStepKeeps ==
  ASSUME FleetInv, NEW r \in Runs,
         \/ Claim(r) \/ Materialize(r) \/ Checkpoint(r) \/ Start(r) \/ Stop(r)
         \/ Advance(r) \/ GiveBack(r)
         \/ \E a \in run[r].hold : RecordRequest(r, a) \/ RequestRefused(r, a)
         \/ \E n \in Nodes : Reserve(r, n) \/ HoldDestination(r, n) \/ Discard(r, n)
  PROVE  FleetInv'
<1>1. RunOnly
  BY DEF RunOnly, Claim, Materialize, Checkpoint, Start, Stop, Advance, GiveBack,
         RecordRequest, RequestRefused, Reserve, HoldDestination, Discard
<1>2. PlacePart' /\ RunPart'
  BY ClaimKeeps, MaterializeKeeps, CheckpointKeeps, StartKeeps, StopKeeps, AdvanceKeeps,
     GiveBackKeeps, RecordRequestKeeps, RequestRefusedKeeps, ReserveKeeps, HoldKeeps,
     DiscardKeeps
<1> QED
  BY <1>1, <1>2, RunOnlyService DEF FleetInv

(* A step of a drain keeps the invariant.                                  *)
LEMMA DrainStepKeeps ==
  ASSUME FleetInv, NEW d \in drains,
         \/ DrainLists(d) \/ FinishDrain(d)
         \/ \E a \in d.left, b \in BOOLEAN : DrainOne(d, a, b)
  PROVE  FleetInv'
<1>1. ServicePart /\ PlaceTypes
  BY DEF FleetInv, PlacePart
<1>2. CASE DrainLists(d)
  <2>1. NodeOnly
    BY <1>2 DEF NodeOnly, DrainLists
  <2> QED
    BY <1>1, <1>2, <2>1, QuietPlaces, DrainListsService DEF NodeOnly, FleetInv
<1>3. CASE FinishDrain(d)
  <2>1. NodeOnly
    BY <1>3 DEF NodeOnly, FinishDrain
  <2> QED
    BY <1>1, <1>3, <2>1, QuietPlaces, FinishDrainService DEF NodeOnly, FleetInv
<1>4. CASE \E a \in d.left, b \in BOOLEAN : DrainOne(d, a, b)
  BY <1>1, <1>4, DrainOneKeeps, DrainOneService DEF FleetInv
<1> QED
  BY <1>2, <1>3, <1>4

(* Every step keeps the invariant.                                         *)
LEMMA FleetStep ==
  ASSUME FleetInv, [FleetNext]_fleetVars
  PROVE  FleetInv'
<1>1. ASSUME NEW n \in Nodes,
             \/ Enroll(n) \/ GrantAgents(n) \/ Revoke(n) \/ StartDrain(n) \/ Complete(n)
             \/ FindStale(n)
             \/ \E s \in 1 .. MaxSlots, b \in BOOLEAN : ConfigureNode(n, s, b)
             \/ \E b \in BOOLEAN : Heartbeat(n, b)
      PROVE  FleetInv'
  <2>1. CASE FindStale(n)
    <3>1. RunOnly
      BY <2>1 DEF FindStale, RunOnly
    <3> QED
      BY <2>1, <3>1, FindStaleKeeps, RunOnlyService DEF FleetInv
  <2> QED
    BY <1>1, <2>1, NodeStepKeeps
<1>2. ASSUME NEW a \in vms, VmStops(a)
      PROVE  FleetInv'
  <2>1. NodeOnly /\ RunOnly
    BY <1>2 DEF VmStops, NodeOnly, RunOnly
  <2> QED
    BY <2>1, QuietPlaces, RunOnlyService DEF NodeOnly, FleetInv
<1>3. CASE ManagerRestarts
  <2>1. PlacePart' /\ RunPart'
    BY <1>3, ManagerRestartsKeeps
  <2>2. /\ UNCHANGED <<node, budget, grants, windows>> /\ drains' = {} /\ Act
    BY <1>3 DEF ManagerRestarts
  <2>3. acts' \in Nat
    BY <2>2, ActCounts DEF FleetInv, ServicePart
  <2>4. ServicePart'
    BY <2>2, <2>3 DEF FleetInv, ServicePart, ServiceTypes, Numbered
  <2> QED
    BY <2>1, <2>4 DEF FleetInv
<1>4. CASE UNCHANGED fleetVars
  <2>1. NodeOnly /\ RunOnly
    BY <1>4 DEF fleetVars, NodeOnly, RunOnly
  <2> QED
    BY <2>1, QuietPlaces, RunOnlyService DEF NodeOnly, FleetInv
<1> QED
  BY <1>1, <1>2, <1>3, <1>4, RunStepKeeps, DrainStepKeeps DEF FleetNext

----------------------------------------
(* A set whose elements are equal has one at most.                         *)
LEMMA AtMostOne ==
  ASSUME NEW S, \A a, b \in S : a = b
  PROVE  Cardinality(S) <= 1
<1>1. CASE S = {}
  BY <1>1, FS_EmptySet
<1>2. CASE S # {}
  <2>1. PICK x : S = {x}
    BY <1>2
  <2> QED
    BY <2>1, FS_Singleton
<1> QED
  BY <1>1, <1>2

(* A conversation has one owner.                                           *)
LEMMA OwnersAlone ==
  ASSUME FleetInv
  PROVE  OneOwner
<1> SUFFICES ASSUME NEW r \in Runs
             PROVE  /\ Cardinality({a \in vms : att[a].run = r}) <= 1
                    /\ Cardinality({a \in ActiveIds :
                                      att[a].run = r /\ att[a].role = "destination"}) <= 1
  BY DEF OneOwner
<1>1. \A a, b \in {c \in vms : att[c].run = r} : a = b
  BY DEF FleetInv, RunPart, VmsNamed
<1>2. \A a, b \in {c \in ActiveIds : att[c].run = r /\ att[c].role = "destination"} : a = b
  BY DEF FleetInv, PlacePart, Roles, OneDestination
<1> QED
  BY <1>1, <1>2, AtMostOne

(* Volumes hold what their attempts added.                                 *)
LEMMA VolumesSound ==
  ASSUME FleetInv
  PROVE  VolumesAccounted
<1>1. PlaceTypes /\ Roles /\ Accounts
  BY DEF FleetInv, PlacePart
<1> SUFFICES ASSUME NEW r \in Runs, NEW n \in Nodes
             PROVE  LET v == vol[r][n]
                    IN /\ v.materialized => v.disk >= 1
                       /\ v.kept => v.materialized \/ AttemptsOf(r, n) # {}
                       /\ v.kept /\ ~v.materialized =>
                            v.disk = Added(att, AttemptsOf(r, n) \ crossed)
  BY DEF VolumesAccounted
<1>2. vol[r][n].materialized => vol[r][n].disk >= 1
  BY <1>1, MadeDisk
<1>3. Account(att, vol[r][n], AttemptsOf(r, n), Backed(r, n))
  BY <1>1 DEF Accounts
<1>4. /\ vol[r][n].kept => vol[r][n].materialized \/ AttemptsOf(r, n) # {}
      /\ vol[r][n].kept /\ ~vol[r][n].materialized =>
           vol[r][n].disk = Added(att, AttemptsOf(r, n) \ crossed)
  BY <1>3 DEF Account, Backed
<1> QED
  BY <1>2, <1>4

(* What the invariant was made for.                                        *)
LEMMA PlacementsSound ==
  FleetInv => PlacementsAgree
BY OwnersAlone, VolumesSound DEF PlacementsAgree

(* However placements, moves, drains and restarts interleave, a            *)
(* conversation has one owner and the volumes are those its attempts keep. *)
THEOREM FleetPlacementsAgree ==
  FleetInit /\ [][FleetNext]_fleetVars => []PlacementsAgree
<1>1. FleetInit => FleetInv
  BY InitHolds, FleetConstants
<1>2. FleetInv /\ [FleetNext]_fleetVars => FleetInv'
  BY FleetStep
<1>3. FleetInv => PlacementsAgree
  BY PlacementsSound
<1> QED
  BY <1>1, <1>2, <1>3, PTL

(* The conversations that were given node n. *)
Held(n) == {att[a].run : a \in ActiveOn(n)}

(* The smaller of two counts is a count.                                   *)
LEMMA LeastOfTwo ==
  ASSUME NEW x \in Nat, NEW y \in Nat
  PROVE  Min({x, y}) \in Nat
<1>1. \E u \in {x, y} : \A w \in {x, y} : u <= w
  <2>1. CASE x <= y
    BY <2>1
  <2>2. CASE ~(x <= y)
    BY <2>2
  <2> QED
    BY <2>1, <2>2
<1>2. Min({x, y}) \in {x, y}
  BY <1>1 DEF Min
<1> QED
  BY <1>2

(* The active attempts of a node, and their conversations, can be counted. *)
LEMMA ActiveFinite ==
  ASSUME PlaceTypes, NEW n, NEW U, U \subseteq ActiveOn(n)
  PROVE  /\ IsFiniteSet(U) /\ Cardinality(U) \in Nat
         /\ IsFiniteSet({att[a].run : a \in U})
         /\ Cardinality({att[a].run : a \in U}) <= Cardinality(U)
<1>1. PICK m \in Nat : m = Len(att)
  BY DEF PlaceTypes
<1>2. U \subseteq 1 .. m
  BY <1>1 DEF ActiveOn, ActiveIds, AttemptIds
<1>3. IsFiniteSet(1 .. m)
  BY FS_Interval
<1>4. IsFiniteSet(U) /\ Cardinality(U) \in Nat
  BY <1>2, <1>3, FS_Subset, FS_CardinalityType
<1> DEFINE T == {att[a].run : a \in U}
           f == [a \in U |-> att[a].run]
<1>5. f \in Surjection(U, T)
  BY DEF Surjection
<1>6. IsFiniteSet(T) /\ Cardinality(T) <= Cardinality(U)
  BY <1>4, <1>5, FS_Surjection
<1> QED
  BY <1>4, <1>6

(* Whatever is active was, for the same conversation and node. *)
Covers ==
  \A b \in ActiveIds' :
    \E a \in ActiveIds : att[a].run = att'[b].run /\ att[a].node = att'[b].node

(* Where nothing new is active, no node holds more.                        *)
LEMMA CoversHold ==
  ASSUME Covers, NEW n
  PROVE  Held(n)' \subseteq Held(n)
BY DEF Covers, Held, ActiveOn

(* What adds nothing makes nothing active.                                 *)
LEMMA ShedsCovers ==
  ASSUME Persist, Sheds
  PROVE  Covers
<1>1. \A b \in ActiveIds' : b \in ActiveIds /\ b \in AttemptIds
  BY DEF Sheds, ActiveIds
<1> QED
  BY <1>1 DEF Persist, Covers

(* An admission fits what its node is given within its slots.              *)
LEMMA AdmitHonours ==
  ASSUME FleetInv, NEW r \in Runs, NEW m \in Nodes, NEW moving \in BOOLEAN,
         Admit(r, m, moving), crossed' = crossed, NEW n \in Nodes,
         ~(Held(n)' \subseteq Held(n))
  PROVE  Cardinality(Held(n)') <= Capacity(n)
<1>1. PlaceTypes /\ PlaceTypes'
  BY AdmitTerms, AdmittedTypes DEF FleetInv, PlacePart
<1>2. PICK k, total : Admitted(r, m, moving, k, total)
  BY <1>1, AdmitTerms
<1>3. ActiveIds' = ActiveIds \cup {k}
  BY <1>1, <1>2, AdmittedSets
<1>4. /\ att'[k].run = r /\ att'[k].node = m
      /\ \A a \in ActiveIds : att'[a] = att[a]
  BY <1>2 DEF Admitted, ActiveIds
<1>5. n = m
  BY <1>3, <1>4 DEF Held, ActiveOn
<1>6. Held(n)' = (Held(n) \ {r}) \cup {r}
  BY <1>3, <1>4, <1>5 DEF Held, ActiveOn
<1> DEFINE U == {a \in ActiveOn(n) : ~(moving /\ att[a].run = r)}
           T == {att[a].run : a \in U}
<1>7. ~moving => \A a \in ActiveOn(n) : att[a].run # r
  BY DEF Admit, StillOwned, ActiveOn
<1>8. Held(n) \ {r} \subseteq T
  BY DEF Held
<1>9. /\ Cardinality(U) \in Nat /\ IsFiniteSet(T) /\ Cardinality(T) <= Cardinality(U)
  BY <1>1, ActiveFinite
<1>10. /\ IsFiniteSet(Held(n) \ {r}) /\ Cardinality(Held(n) \ {r}) <= Cardinality(T)
       /\ Cardinality(Held(n) \ {r}) \in Nat /\ Cardinality(T) \in Nat
  BY <1>8, <1>9, FS_Subset, FS_CardinalityType
<1>11. Cardinality(Held(n)') = Cardinality(Held(n) \ {r}) + 1
  BY <1>6, <1>10, FS_AddElement
<1>12. Cardinality(U) < Capacity(n)
  BY <1>5 DEF Admit, Fits, Used
<1>13. Capacity(n) \in Nat
  <2>1. node[n].slots \in Nat /\ node[n].pool \in Nat
    BY NodeFields DEF FleetInv, ServicePart
  <2> QED
    BY <2>1, LeastOfTwo DEF Capacity
<1> HIDE DEF U, T
<1> QED
  BY <1>9, <1>10, <1>11, <1>12, <1>13

(* Every step but an admission leaves what is held covered. *)
Admits ==
  \E r \in Runs, n \in Nodes, moving \in BOOLEAN :
    Admit(r, n, moving) /\ crossed' = crossed

(* A step that leaves the attempts alone makes nothing active.             *)
LEMMA SameCovers ==
  ASSUME att' = att
  PROVE  Covers
BY DEF Covers, ActiveIds, AttemptIds

(* A release makes nothing active.                                         *)
LEMMA ReleaseCovers ==
  ASSUME FleetInv, NEW a, Released(a), UNCHANGED <<crossed, stale>>
  PROVE  Covers
<1>1. PlacePart /\ RunTypes
  BY DEF FleetInv, RunPart
<1> QED
  BY <1>1, ReleasePlaces, ShedsCovers

(* A materialization makes nothing active.                                 *)
LEMMA MakeCovers ==
  ASSUME FleetInv, NEW a \in AttemptIds, Materialized(a)
  PROVE  Covers
<1>1. PICK m \in Nat : m = Len(att)
  BY DEF FleetInv, PlacePart, PlaceTypes
<1>2. att \in [1 .. m -> Attempt] /\ AttemptIds = 1 .. m
  BY <1>1 DEF FleetInv, PlacePart, PlaceTypes, AttemptIds
<1>3. PICK e : e = [att[a] EXCEPT !.materialized = TRUE]
  OBVIOUS
<1>4. att[a] \in Attempt
  BY <1>2
<1>5. /\ e \in Attempt /\ e.run = att[a].run /\ e.node = att[a].node
      /\ e.released = att[a].released
  BY <1>3, <1>4 DEF Attempt
<1>6. att' = [att EXCEPT ![a] = e]
  BY <1>3 DEF Materialized
<1>7. att' \in [1 .. m -> Attempt] /\ att'[a] = e /\ \A b \in 1 .. m : b # a => att'[b] = att[b]
  BY <1>2, <1>5, <1>6
<1>8. AttemptIds' = AttemptIds
  BY <1>2, <1>7 DEF AttemptIds
<1>9. \A b \in AttemptIds : /\ att'[b].run = att[b].run /\ att'[b].node = att[b].node
                            /\ att'[b].released = att[b].released
  BY <1>2, <1>5, <1>7
<1> QED
  BY <1>8, <1>9 DEF Covers, ActiveIds

(* A claim makes active what was.                                          *)
LEMMA ClaimCovers ==
  ASSUME FleetInv, NEW r \in Runs, Claim(r)
  PROVE  Covers
<1>1. PlacePart /\ RunTypes /\ Referred(r)
  BY InRuns DEF FleetInv, RunPart, References
<1>2. PICK a, k : Claiming(r, a, k)
  BY <1>1, ClaimPlaces
<1>3. \A b \in ActiveIds' : b = k \/ b \in ActiveIds
  BY <1>2 DEF Claiming
<1>4. \A b \in ActiveIds : att'[b].run = att[b].run /\ att'[b].node = att[b].node
  BY <1>2 DEF Claiming, ActiveIds
<1>5. att[a].run = att'[k].run /\ att[a].node = att'[k].node /\ a \in ActiveIds
  BY <1>2 DEF Claiming
<1> QED
  BY <1>3, <1>4, <1>5 DEF Covers

(* Only an admission gives a node more.                                    *)
LEMMA AdmitOrCovers ==
  ASSUME FleetInv, [FleetNext]_fleetVars
  PROVE  Covers \/ Admits
<1>1. ASSUME NEW r \in Runs, Stop(r)
      PROVE  Covers
  BY <1>1, ReleaseCovers DEF Stop
<1>2. ASSUME NEW r \in Runs, GiveBack(r)
      PROVE  Covers
  BY <1>2, ReleaseCovers DEF GiveBack
<1>3. ASSUME NEW r \in Runs, NEW a, RequestRefused(r, a)
      PROVE  Covers
  BY <1>3, ReleaseCovers DEF RequestRefused
<1>4. ASSUME NEW d, NEW a, NEW b, DrainOne(d, a, b)
      PROVE  Covers
  <2>1. UNCHANGED <<crossed, stale>> /\ (att' = att \/ Released(a))
    BY <1>4 DEF DrainOne
  <2> QED
    BY <2>1, SameCovers, ReleaseCovers
<1>5. ASSUME NEW r \in Runs, Materialize(r)
      PROVE  Covers
  <2>1. run[r].launch \in AttemptIds
    BY <1>5, InRuns DEF Materialize, Referred, Mine
  <2> QED
    BY <1>5, <2>1, MakeCovers DEF Materialize
<1>6. ASSUME NEW r \in Runs, Advance(r)
      PROVE  Covers
  <2>1. run[r].request \in AttemptIds
    BY <1>6, InRuns DEF Advance, Referred, Mine
  <2> QED
    BY <1>6, <2>1, MakeCovers DEF Advance
<1>7. ASSUME NEW r \in Runs, NEW n \in Nodes, Reserve(r, n) \/ HoldDestination(r, n)
      PROVE  Admits
  BY <1>7 DEF Reserve, HoldDestination, Admits
<1>8. ASSUME NEW r \in Runs,
             \/ Claim(r) \/ Materialize(r) \/ Checkpoint(r) \/ Start(r) \/ Stop(r)
             \/ Advance(r) \/ GiveBack(r)
             \/ \E a \in run[r].hold : RecordRequest(r, a) \/ RequestRefused(r, a)
             \/ \E n \in Nodes : Reserve(r, n) \/ HoldDestination(r, n) \/ Discard(r, n)
      PROVE  Covers \/ Admits
  <2>1. CASE Checkpoint(r) \/ Start(r) \/ (\E a \in run[r].hold : RecordRequest(r, a))
             \/ \E n \in Nodes : Discard(r, n)
    <3>1. att' = att
      BY <2>1 DEF Checkpoint, Start, RecordRequest, Discard
    <3> QED
      BY <3>1, SameCovers
  <2> QED
    BY <1>8, <2>1, <1>1, <1>2, <1>3, <1>5, <1>6, <1>7, ClaimCovers
<1>9. ASSUME NEW n \in Nodes,
             \/ Enroll(n) \/ GrantAgents(n) \/ Revoke(n) \/ StartDrain(n) \/ Complete(n)
             \/ FindStale(n)
             \/ \E s \in 1 .. MaxSlots, b \in BOOLEAN : ConfigureNode(n, s, b)
             \/ \E b \in BOOLEAN : Heartbeat(n, b)
      PROVE  Covers
  <2>1. att' = att
    BY <1>9 DEF Enroll, GrantAgents, Revoke, StartDrain, Complete, FindStale,
                ConfigureNode, Heartbeat
  <2> QED
    BY <2>1, SameCovers
<1>10. ASSUME NEW d \in drains,
              \/ DrainLists(d) \/ FinishDrain(d)
              \/ \E a \in d.left, b \in BOOLEAN : DrainOne(d, a, b)
       PROVE  Covers
  <2>1. DrainLists(d) \/ FinishDrain(d) => att' = att
    BY DEF DrainLists, FinishDrain
  <2> QED
    BY <1>4, <1>10, <2>1, SameCovers
<1>11. (\E a \in vms : VmStops(a)) \/ ManagerRestarts \/ UNCHANGED fleetVars => att' = att
  BY DEF VmStops, ManagerRestarts, fleetVars
<1> QED
  BY <1>8, <1>9, <1>10, <1>11, SameCovers DEF FleetNext

(* A node leaves service only for a maintenance that starts now. *)
LEMMA ServiceLeft ==
  ASSUME FleetInv, [FleetNext]_fleetVars, NEW n \in Nodes,
         node[n].maintenance = "none", node'[n].maintenance # "none"
  PROVE  windows' = windows + 1
<1>1. ServicePart
  BY DEF FleetInv
<1>2. node \in [Nodes -> NodeRow] /\ node[n].generation = 0
  BY <1>1 DEF ServicePart, ServiceTypes, Numbered
<1>3. ASSUME NEW m \in Nodes,
             \/ Enroll(m) \/ Revoke(m) \/ Complete(m)
             \/ \E s \in 1 .. MaxSlots, b \in BOOLEAN : ConfigureNode(m, s, b)
             \/ \E b \in BOOLEAN : Heartbeat(m, b)
      PROVE  node'[n].maintenance = "none"
  <2>1. node[m] \in NodeRow
    BY <1>2
  <2>2. CASE Enroll(m)
    BY <1>2, <2>1, <2>2 DEF Enroll, NodeRow
  <2>3. CASE Revoke(m)
    BY <1>2, <2>1, <2>3 DEF Revoke, NodeRow
  <2>4. CASE Complete(m)
    BY <1>2, <2>1, <2>4 DEF Complete, NodeRow
  <2>5. CASE \E s \in 1 .. MaxSlots, b \in BOOLEAN : ConfigureNode(m, s, b)
    BY <1>2, <2>1, <2>5 DEF ConfigureNode, NodeRow
  <2>6. CASE \E b \in BOOLEAN : Heartbeat(m, b)
    <3>1. PICK b \in BOOLEAN : Heartbeat(m, b)
      BY <2>6
    <3>2. PICK row : row = Reported(m)
      OBVIOUS
    <3>3. row.maintenance = node[m].maintenance
      BY <2>1, <3>2 DEF Reported, NodeRow
    <3>4. node' = [node EXCEPT ![m] = row]
      BY <3>1, <3>2 DEF Heartbeat
    <3> QED
      BY <1>2, <3>3, <3>4
  <2> QED
    BY <1>3, <2>2, <2>3, <2>4, <2>5, <2>6
<1>4. ASSUME NEW d \in drains, FinishDrain(d)
      PROVE  node'[n].maintenance = "none"
  <2>1. d.generation # 0 /\ d.node \in Nodes
    BY <1>1, DrainFields
  <2>2. node[d.node] \in NodeRow
    BY <1>2, <2>1
  <2>3. CASE d.node = n
    BY <1>2, <1>4, <2>1, <2>3 DEF FinishDrain
  <2>4. CASE d.node # n
    <3>1. node'[n] = node[n]
      BY <1>2, <1>4, <2>1, <2>4 DEF FinishDrain
    <3> QED
      BY <3>1
  <2> QED
    BY <2>3, <2>4
<1>5. ASSUME NEW m \in Nodes, StartDrain(m)
      PROVE  windows' = windows + 1
  BY <1>5 DEF StartDrain
<1>6. ASSUME NEW m \in Nodes, GrantAgents(m) \/ FindStale(m)
      PROVE  node' = node
  BY <1>6 DEF GrantAgents, FindStale
<1>7. ASSUME NEW r \in Runs,
             \/ Claim(r) \/ Materialize(r) \/ Checkpoint(r) \/ Start(r) \/ Stop(r)
             \/ Advance(r) \/ GiveBack(r)
             \/ \E a \in run[r].hold : RecordRequest(r, a) \/ RequestRefused(r, a)
             \/ \E m \in Nodes : Reserve(r, m) \/ HoldDestination(r, m) \/ Discard(r, m)
      PROVE  node' = node
  BY <1>7 DEF Claim, Materialize, Checkpoint, Start, Stop, Advance, GiveBack, RecordRequest,
              RequestRefused, Reserve, HoldDestination, Discard
<1>8. ASSUME NEW d \in drains,
             DrainLists(d) \/ \E a \in d.left, b \in BOOLEAN : DrainOne(d, a, b)
      PROVE  node' = node
  BY <1>8 DEF DrainLists, DrainOne
<1>9. (\E a \in vms : VmStops(a)) \/ ManagerRestarts \/ UNCHANGED fleetVars => node' = node
  BY DEF VmStops, ManagerRestarts, fleetVars
<1> QED
  BY <1>3, <1>4, <1>5, <1>6, <1>7, <1>8, <1>9 DEF FleetNext

(* However admissions race with what the owner and the nodes do, a slot is *)
(* promised once, and no drain that ends late takes a node out of service. *)
THEOREM FleetNodeLimitsHold ==
  FleetInit /\ [][FleetNext]_fleetVars => NodeLimitsHold
<1>1. FleetInit => FleetInv
  BY InitHolds, FleetConstants
<1>2. FleetInv /\ [FleetNext]_fleetVars => FleetInv'
  BY FleetStep
<1> DEFINE Given(s, n) ==
             {s[a].run : a \in {b \in DOMAIN s : ~s[b].released /\ s[b].node = n}}
           Honoured ==
             \A n \in Nodes :
               LET held(s) == {s[a].run : a \in {b \in DOMAIN s : ~s[b].released /\ s[b].node = n}}
               IN ~(held(att') \subseteq held(att)) => Cardinality(held(att')) <= Capacity(n)
           Served ==
             \A n \in Nodes :
               node[n].maintenance = "none" /\ node'[n].maintenance # "none"
                 => windows' = windows + 1
<1>3. FleetInv /\ FleetInv' /\ [FleetNext]_fleetVars => [Honoured]_fleetVars
  <2> SUFFICES ASSUME FleetInv, FleetInv', [FleetNext]_fleetVars, NEW n \in Nodes,
                      ~(Given(att', n) \subseteq Given(att, n))
               PROVE  Cardinality(Given(att', n)) <= Capacity(n)
    BY DEF Given
  <2>1. Given(att, n) = Held(n)
    BY DEF Held, ActiveOn, ActiveIds, AttemptIds, FleetInv, PlacePart, PlaceTypes
  <2>2. Given(att', n) = Held(n)'
    BY DEF Held, ActiveOn, ActiveIds, AttemptIds, FleetInv, PlacePart, PlaceTypes
  <2> HIDE DEF Given
  <2>3. Admits
    BY <2>1, <2>2, AdmitOrCovers, CoversHold
  <2> QED
    BY <2>1, <2>2, <2>3, AdmitHonours DEF Admits
<1>4. FleetInv /\ [FleetNext]_fleetVars => [Served]_fleetVars
  BY ServiceLeft
<1> QED
  BY <1>1, <1>2, <1>3, <1>4, PTL DEF NodeLimitsHold, SlotsHonoured, BackInService
=============================================================================

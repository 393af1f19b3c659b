---------------------------- MODULE DurableDisk ----------------------------
(***************************************************************************)
(* What a lazy disk promises its guest (storage/lazy): a write becomes      *)
(* visible at once; an acknowledged or sealed write is firm; a crash may    *)
(* take back writes that are not firm and nothing else; a sealed generation *)
(* is the exact content of the disk at one moment and never changes.        *)
(***************************************************************************)
EXTENDS Integers

CONSTANTS Blocks, MaxWrites, MaxGeneration

VARIABLES
    disk,    \* [Blocks -> Writes]: the visible write of each block, 0 if none
    firm,    \* [Blocks -> Writes]: the newest write that must survive
    issued,  \* how many writes were issued; a write is named by its number
    sealed   \* [Generations -> contents or Unsealed]

Writes == 0 .. MaxWrites
Generations == 0 .. MaxGeneration
Contents == [Blocks -> Writes]
Unsealed == [b \in Blocks |-> -1]

vars == <<disk, firm, issued, sealed>>

Init ==
    /\ disk = [b \in Blocks |-> 0]
    /\ firm = disk
    /\ issued = 0
    /\ sealed = [g \in Generations |-> IF g = 0 THEN disk ELSE Unsealed]

Write(b) ==
    /\ issued < MaxWrites
    /\ issued' = issued + 1
    /\ disk' = [disk EXCEPT ![b] = issued + 1]
    /\ UNCHANGED <<firm, sealed>>

(* Only a write that is visible, or was overwritten since, is acknowledged. *)
Acknowledge(b) ==
    /\ \E w \in firm[b] .. disk[b] : firm' = [firm EXCEPT ![b] = w]
    /\ UNCHANGED <<disk, issued, sealed>>

Seal(g) ==
    /\ sealed[g] = Unsealed
    /\ sealed' = [sealed EXCEPT ![g] = disk]
    /\ firm' = disk
    /\ UNCHANGED <<disk, issued>>

Lose ==
    /\ disk' \in Contents
    /\ \A b \in Blocks : disk'[b] \in firm[b] .. disk[b]
    /\ UNCHANGED <<firm, issued, sealed>>

Next ==
    \/ \E b \in Blocks : Write(b) \/ Acknowledge(b)
    \/ \E g \in Generations : Seal(g)
    \/ Lose

Spec == Init /\ [][Next]_vars
=============================================================================

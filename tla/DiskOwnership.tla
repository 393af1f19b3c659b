--------------------------- MODULE DiskOwnership ---------------------------
(***************************************************************************)
(* Which conversation a physical disk directory of a node belongs to       *)
(* (storage/environment.rs).  A disk booted in advance keeps its directory *)
(* when a conversation claims it; the claim is two durable records, the    *)
(* conversation's pointer first and then the label in the directory, and a *)
(* restart of the controller completes an interrupted claim.               *)
(***************************************************************************)
EXTENDS Naturals, FiniteSets

CONSTANTS Runs,      \* conversations with a disk on the node
          Envs       \* directories of disks prepared in advance

VARIABLES
  pointer,   \* disks/<run>/environment
  label,     \* environments/<env>/owner
  made,      \* the directories under environments/ that exist
  plain,     \* conversations whose own directory holds a disk
  owner      \* who holds disks/<run>/ownership.lock

diskVars == <<pointer, label, made, plain, owner>>

Nil == 0

DisksInit ==
  /\ pointer = [r \in Runs |-> Nil]
  /\ label = [e \in Envs |-> Nil]
  /\ made = {} /\ plain = {}
  /\ owner = [r \in Runs |-> Nil]

(* directory: the pointer and the label must agree.                        *)
Resolves(r) == pointer[r] # Nil => label[pointer[r]] = r

(* fresh_disk, vacant: nothing but locks in the conversation's directory.  *)
FreshDisk(r) == pointer[r] = Nil /\ r \notin plain

(* assign, first and second record.                                        *)
ReservePointer(r, e) == pointer' = [pointer EXCEPT ![r] = e]
RecordOwner(r, e)    == label' = [label EXCEPT ![e] = r]

(* recover: claims are completed in both directions, and the directories   *)
(* that no record claims are removed.                                      *)
Claimed(e) == label[e] # Nil \/ \E r \in Runs : pointer[r] = e

Recover ==
  /\ made' = {e \in made : Claimed(e)}
  /\ label' = [e \in Envs |->
       IF \E r \in Runs : pointer[r] = e THEN CHOOSE r \in Runs : pointer[r] = e
       ELSE label[e]]
  /\ pointer' = [r \in Runs |->
       IF pointer[r] = Nil /\ \E e \in Envs : label[e] = r
       THEN CHOOSE e \in Envs : label[e] = r ELSE pointer[r]]
  /\ owner' = [r \in Runs |-> Nil]
  /\ UNCHANGED plain
=============================================================================

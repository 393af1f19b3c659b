---------------------------- MODULE SharedBlocks ----------------------------
(***************************************************************************)
(* Ownership of the immutable blocks that published disks share in object  *)
(* storage (nodes/shared_blocks.rs) and the remote store itself, as the    *)
(* transactions of the installation's database see them.                   *)
(*                                                                         *)
(* An object is one incarnation of a content hash under its own key.  A    *)
(* publication reserves every block of its manifest, uploads the ones no   *)
(* ready incarnation holds, settles duplicate uploads, and releases its    *)
(* references when it is superseded.  A separate collector claims          *)
(* unreferenced objects and deletes them remotely without any lock.        *)
(*                                                                         *)
(* The grace period of five minutes and the retry time of a claim are not  *)
(* modelled: the collector may claim an object as soon as it is unused,    *)
(* which only adds behaviours.                                             *)
(***************************************************************************)
EXTENDS Naturals, FiniteSets

CONSTANTS Hashes,      \* the contents of blocks
          MaxPoints,   \* publications created in a behaviour
          MaxObjects   \* incarnations created in a behaviour

ASSUME BlockConstants ==
  /\ Hashes # {} /\ IsFiniteSet(Hashes)
  /\ MaxPoints \in Nat \ {0}
  /\ MaxObjects \in Nat \ {0}

VARIABLES
  objects,    \* shared_objects and shared_references, by object id
  remote,     \* the objects present in the bucket
  corrupt,    \* the objects whose stored bytes no longer match
  uploaded,   \* the publications whose manifest is in the bucket
  deletions,  \* remote_deletions: manifests queued for deletion
  gc          \* what the collector has claimed and already deleted

blockVars == <<objects, remote, corrupt, uploaded, deletions, gc>>

Points  == 1 .. MaxPoints
Objects == 1 .. MaxObjects

Nobody == [hash |-> CHOOSE h \in Hashes : TRUE, state |-> "absent",
           unused |-> FALSE, refs |-> {}]
Idle == [busy |-> FALSE, objs |-> {}, keys |-> {}]

BlocksInit ==
  /\ objects = [o \in Objects |-> Nobody]
  /\ remote = {} /\ corrupt = {} /\ uploaded = {} /\ deletions = {}
  /\ gc = Idle

Stored      == {o \in Objects : objects[o].state # "absent"}
RefsOf(p)   == {o \in Objects : p \in objects[o].refs}
ReadyFor(h) == {o \in Objects : objects[o].state = "ready" /\ objects[o].hash = h}

---------------------------------------------------------------------------
(* The incarnation that a publication of the hashes hs gets for each of    *)
(* them: the ready one, or a fresh pending row.                            *)
Fresh(hs) == CHOOSE f \in [{h \in hs : ReadyFor(h) = {}} -> Objects \ Stored] :
               \A g, h \in DOMAIN f : g # h => f[g] # f[h]
HasRoom(hs) == Cardinality({h \in hs : ReadyFor(h) = {}})
                 <= Cardinality(Objects \ Stored)
Assigned(hs) ==
  LET fresh == Fresh(hs)
  IN  [h \in hs |-> IF h \in DOMAIN fresh THEN fresh[h]
                    ELSE CHOOSE o \in ReadyFor(h) : TRUE]

(* reserve: one transaction for the whole manifest; a ready incarnation    *)
(* that was unused is revived.                                             *)
Reserve(p, hs) ==
  LET given == Assigned(hs)
      new(o) == objects[o].state = "absent"
  IN  objects' = [o \in Objects |->
        IF \A h \in hs : given[h] # o THEN objects[o]
        ELSE [hash   |-> CHOOSE h \in hs : given[h] = o,
              state  |-> IF new(o) THEN "pending" ELSE objects[o].state,
              unused |-> FALSE,
              refs   |-> objects[o].refs \cup {p}]]

(* complete_uploads: each pending object of the publication becomes the    *)
(* ready incarnation of its hash, unless another publication was first;    *)
(* then the reference moves to that one and the duplicate is unused.       *)
Canonical(o) == IF objects[o].state = "pending" /\ ReadyFor(objects[o].hash) # {}
                THEN CHOOSE c \in ReadyFor(objects[o].hash) : TRUE
                ELSE o
Settled(p) ==
  [o \in Objects |->
     LET mine == p \in objects[o].refs
         took == \E d \in RefsOf(p) : d # o /\ Canonical(d) = o
     IN  IF mine /\ Canonical(o) # o
         THEN [objects[o] EXCEPT !.refs = @ \ {p}, !.unused = TRUE]
         ELSE IF mine /\ objects[o].state = "pending"
         THEN [objects[o] EXCEPT !.state = "ready"]
         ELSE IF took
         THEN [objects[o] EXCEPT !.refs = @ \cup {p}, !.unused = FALSE]
         ELSE objects[o]]

(* verified: no reference of the publication leads to an invalid object.   *)
Verified(p, rows) == \A o \in Objects : p \in rows[o].refs => rows[o].state = "ready"

(* release, and release_run for several publications.                      *)
Released(ps) ==
  [o \in Objects |->
     IF objects[o].refs \cap ps = {} THEN objects[o]
     ELSE [objects[o] EXCEPT !.refs = @ \ ps,
             !.unused = IF objects[o].refs \subseteq ps THEN TRUE ELSE @]]

(* invalidate: a read found the object missing or altered.                 *)
Invalidated(o) == IF objects[o].state = "ready"
                  THEN [objects EXCEPT ![o].state = "invalid"]
                  ELSE objects

---------------------------------------------------------------------------
(* The object store: an upload is verified by its checksum, and a deletion *)
(* removes exactly the keys it was given.                                  *)
PutObjects(os) == /\ remote' = remote \cup os
                  /\ corrupt' = corrupt \ os
PurgeKeys(os, ks) == /\ remote' = remote \ os
                     /\ corrupt' = corrupt \ os
                     /\ uploaded' = uploaded \ ks

(* claim: unreferenced objects are marked before anything is deleted.      *)
Garbage == {o \in Stored : objects[o].unused /\ objects[o].refs = {}}

(* A claim that leaves the objects reusable while they are being deleted.  *)
ClaimUnmarked ==
  /\ gc = Idle
  /\ Garbage \cup deletions # {}
  /\ gc' = [busy |-> TRUE, objs |-> Garbage, keys |-> deletions]
  /\ UNCHANGED <<objects, remote, corrupt, uploaded, deletions>>

Claim ==
  /\ gc = Idle
  /\ Garbage \cup deletions # {}
  /\ objects' = [o \in Objects |-> IF o \in Garbage
                                   THEN [objects[o] EXCEPT !.state = "deleting"]
                                   ELSE objects[o]]
  /\ gc' = [busy |-> TRUE, objs |-> Garbage, keys |-> deletions]
  /\ UNCHANGED <<remote, corrupt, uploaded, deletions>>

(* collect: the remote deletions of a claim, of which some may fail and    *)
(* are retried by a later claim.                                           *)
Delete(os, ks) ==
  /\ gc.busy /\ os \subseteq gc.objs /\ ks \subseteq gc.keys
  /\ PurgeKeys(os, ks)
  /\ gc' = [gc EXCEPT !.objs = os, !.keys = ks, !.busy = FALSE]
  /\ UNCHANGED <<objects, deletions>>

(* The closing transaction removes the rows of what was deleted.           *)
Forget ==
  /\ ~gc.busy /\ gc # Idle
  /\ objects' = [o \in Objects |->
       IF o \in gc.objs /\ objects[o].state = "deleting" /\ objects[o].refs = {}
       THEN Nobody ELSE objects[o]]
  /\ deletions' = deletions \ gc.keys
  /\ gc' = Idle
  /\ UNCHANGED <<remote, corrupt, uploaded>>

---------------------------------------------------------------------------
BlocksTypeOK ==
  /\ objects \in [Objects -> [hash : Hashes,
                     state : {"absent", "pending", "ready", "invalid", "deleting"},
                     unused : BOOLEAN, refs : SUBSET Points]]
  /\ remote \subseteq Objects /\ corrupt \subseteq remote
  /\ uploaded \subseteq Points /\ deletions \subseteq Points
  /\ gc \in [busy : BOOLEAN, objs : SUBSET Objects, keys : SUBSET Points]
=============================================================================

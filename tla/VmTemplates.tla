---------------------------- MODULE VmTemplates ----------------------------
(***************************************************************************)
(* Templates of prepared VMs and the runtime images they and the disks     *)
(* need (microvm/vm/snapshots.rs, microvm/images.rs).  One build at a time *)
(* boots an anonymous VM, captures it aside and installs it by a rename;   *)
(* any number of tasks restore clones of installed templates meanwhile; a  *)
(* collector removes the images that no record names.  Two locks are       *)
(* shared: the cache of templates, and the life of the images.             *)
(***************************************************************************)
EXTENDS Naturals, FiniteSets

CONSTANTS Keys,       \* configurations a template is made for
          Images,     \* runtime images a controller may ship with
          Tasks,      \* preparations and arrivals
          MaxWork,    \* preparations and arrivals in all
          MaxUpgrades \* restarts with another image

ASSUME TemplateConstants ==
  IsFiniteSet(Keys) /\ IsFiniteSet(Images) /\ IsFiniteSet(Tasks)
  /\ "none" \notin Images /\ MaxWork \in Nat /\ MaxUpgrades \in Nat

VARIABLES
  current,    \* the image of this controller
  images,     \* the images on the node
  installed,  \* installed templates: their key and the image in key.json
  recent,     \* pairs of templates: the first was last used before the second
  disks,      \* the image pinned by the disk of each task (runtime.json)
  task,       \* what each task does
  building,   \* the holder of the build lock
  pins,       \* readers of the cache of templates
  holds,      \* readers of the life of the images
  done, upgrades

templateVars == <<current, images, installed, recent, disks, task, building, pins, holds, done,
          upgrades>>

NoImage == "none"
NoTask  == [pc |-> "idle", key |-> NoImage, build |-> FALSE, img |-> NoImage]
Name(k)        == <<k, current>>   \* the key of a template covers its image
TemplatesOf(k) == installed \cap {Name(k)}

\* Of the templates in all, Name(k) is the one used last.
Touch(k, all) ==
  {p \in recent : p[1] # Name(k) /\ {p[1], p[2]} \subseteq all}
    \cup {<<x, Name(k)>> : x \in all \ {Name(k)}}

TemplatesInit ==
  /\ current \in Images /\ images = {current}
  /\ installed = {} /\ recent = {}
  /\ disks = [t \in Tasks |-> NoImage]
  /\ task = [t \in Tasks |-> NoTask]
  /\ building = {} /\ pins = {} /\ holds = {} /\ done = 0 /\ upgrades = 0

At(t, pc)   == task[t].pc = pc
Goto(t, pc) == task' = [task EXCEPT ![t].pc = pc]

(* prepare builds what is missing; restore_cached never does.              *)
Begin(t, k, build) ==
  /\ At(t, "idle") /\ done < MaxWork /\ done' = done + 1
  /\ task' = [task EXCEPT ![t] = [NoTask EXCEPT !.key = k, !.build = build,
                                    !.pc = IF build THEN "lock" ELSE "pin"]]
  /\ disks' = [disks EXCEPT ![t] = NoImage]
  /\ UNCHANGED <<current, images, installed, recent, building, pins, holds, upgrades>>
LockBuild(t) ==
  /\ At(t, "lock") /\ building = {}
  /\ building' = {t}
  /\ Goto(t, IF TemplatesOf(task[t].key) = {} THEN "select" ELSE "pin")
  /\ UNCHANGED <<current, images, installed, recent, disks, pins, holds, done, upgrades>>

(* boot_start: the image is selected, then pinned by the disk, under one   *)
(* hold on the life of the images.                                         *)
Select(t) ==
  /\ At(t, "select")
  /\ holds' = holds \cup {t}
  /\ task' = [task EXCEPT ![t].pc = "boot",
       ![t].img = IF disks[t] = NoImage THEN current ELSE disks[t]]
  /\ UNCHANGED <<current, images, installed, recent, disks, building, pins, done, upgrades>>
BootFrom(t) ==
  /\ At(t, "boot")
  /\ disks' = [disks EXCEPT ![t] = task[t].img]
  /\ holds' = holds \ {t}
  /\ IF task[t].build /\ t \notin pins THEN Goto(t, "capture") /\ UNCHANGED <<pins, building>>
     ELSE /\ Goto(t, "running") /\ pins' = pins \ {t} /\ building' = building \ {t}
  /\ UNCHANGED <<current, images, installed, recent, done, upgrades>>

(* capture_template: the source VM is always stopped and its disk removed; *)
(* a failed capture ends the preparation.                                  *)
Capture(t, good) ==
  /\ At(t, "capture")
  /\ disks' = [disks EXCEPT ![t] = NoImage]
  /\ Goto(t, IF good THEN "install" ELSE "idle")
  /\ building' = IF good THEN building ELSE {}
  /\ UNCHANGED <<current, images, installed, recent, pins, holds, done, upgrades>>

(* prune: beside the new template only the most recent one stays.          *)
Pruned(k) ==
  LET old == installed \ {Name(k)}
  IN  {Name(k)} \cup {x \in old : \A y \in old \ {x} : <<y, x>> \in recent}

(* The installation excludes every reader of the cache.                    *)
Install(t) ==
  LET k == task[t].key IN
  /\ At(t, "install") /\ pins = {}
  /\ installed' = Pruned(k)
  /\ recent' = Touch(k, Pruned(k))
  /\ Goto(t, "pin")
  /\ UNCHANGED <<current, images, disks, building, pins, holds, done, upgrades>>

(* A lookup that does not keep the cache from changing.                    *)
LookUp(t) ==
  /\ At(t, "pin")
  /\ IF TemplatesOf(task[t].key) = {}
     THEN Goto(t, "idle") /\ building' = building \ {t}
     ELSE Goto(t, "clone") /\ UNCHANGED building
  /\ UNCHANGED <<current, images, installed, recent, disks, pins, holds, done, upgrades>>

(* pin: the template is looked up and cloned under one read lock.          *)
Pin(t) ==
  /\ At(t, "pin")
  /\ IF TemplatesOf(task[t].key) = {}
     THEN Goto(t, "idle") /\ building' = building \ {t} /\ UNCHANGED pins
     ELSE Goto(t, "clone") /\ pins' = pins \cup {t} /\ UNCHANGED building
  /\ UNCHANGED <<current, images, installed, recent, disks, holds, done, upgrades>>

(* clone_disk: the copy of the journal carries the pin of its image.       *)
CloneDisk(t) ==
  /\ At(t, "clone")
  /\ disks' = [disks EXCEPT ![t] = current]
  /\ recent' = Touch(task[t].key, installed)
  /\ Goto(t, "select")
  /\ UNCHANGED <<current, images, installed, building, pins, holds, done, upgrades>>

(* Cancelled, or the VM stopped; a conversation's disk stays, with its pin, *)
(* and boots again from the image it pins.                                 *)
Quit(t, kept) ==
  /\ task[t].pc \in {"lock", "pin", "install", "running"}
  /\ kept => At(t, "running")
  /\ task' = [task EXCEPT ![t] = NoTask]
  /\ building' = building \ {t}
  /\ disks' = IF kept THEN disks ELSE [disks EXCEPT ![t] = NoImage]
  /\ UNCHANGED <<current, images, installed, recent, pins, holds, done, upgrades>>
BootAgain(t) ==
  /\ At(t, "idle") /\ disks[t] # NoImage /\ done < MaxWork /\ done' = done + 1
  /\ task' = [task EXCEPT ![t] = [NoTask EXCEPT !.pc = "select"]]
  /\ UNCHANGED <<current, images, installed, recent, disks, building, pins, holds, upgrades>>

(* A collection that reads the disks and forgets the templates.            *)
PinnedByDisks == {disks[t] : t \in Tasks}

(* images::collect: every reference is read before anything is removed.    *)
Referenced == PinnedByDisks \cup {x[2] : x \in installed}
Collect ==
  /\ holds = {}
  /\ images' = images \cap (Referenced \cup {current})
  /\ UNCHANGED <<current, installed, recent, disks, task, building, pins, holds, done,
                 upgrades>>

(* A restart clears the staging directories, and may bring another image.  *)
Restart ==
  /\ upgrades < MaxUpgrades /\ upgrades' = upgrades + 1
  /\ current' \in Images /\ images' = images \cup {current'}
  /\ task' = [t \in Tasks |-> NoTask]
  /\ building' = {} /\ pins' = {} /\ holds' = {}
  /\ UNCHANGED <<installed, recent, disks, done>>

TemplatesNext ==
  \/ Collect \/ Restart
  \/ \E t \in Tasks :
       \/ \E k \in Keys, b \in BOOLEAN : Begin(t, k, b)
       \/ \E b \in BOOLEAN : Capture(t, b) \/ Quit(t, b)
       \/ LockBuild(t) \/ Select(t) \/ BootFrom(t) \/ Install(t) \/ Pin(t) \/ CloneDisk(t)
       \/ BootAgain(t)

TemplatesSpec == TemplatesInit /\ [][TemplatesNext]_templateVars

---------------------------------------------------------------------------
(* What a task relies on is there: the template it clones is installed     *)
(* whatever is built and pruned meanwhile, and the image that it boots,    *)
(* that a disk pins or that a template names has not been collected.       *)
ReferencedKept ==
  /\ \A t \in Tasks : At(t, "clone") => TemplatesOf(task[t].key) # {}
  /\ \A t \in Tasks : At(t, "boot") => task[t].img \in images
  /\ Referenced \ {NoImage} \subseteq images
  /\ Cardinality(installed) <= 2
=============================================================================

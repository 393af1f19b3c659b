---------------------------- MODULE GuestSession ----------------------------
(***************************************************************************)
(* One conversation's disk through its boots and turns: the host's side of *)
(* a turn (microvm/vm.rs execute, host.rs transfer) and the guest agent    *)
(* (microvm/guest.rs, guest/codex.rs, guest/filesystems.rs, projects.rs).  *)
(*                                                                         *)
(* What the guest writes is in its page cache until a sync, a record       *)
(* written with atomic_write is durable at once, and a killed VM keeps any *)
(* state between the last sync and the moment of its death.  The content   *)
(* of the workspace is a number: 0 nothing, 1 part of the import, 2 the    *)
(* import, and more after every edit of the agent.  One project and one    *)
(* cache stand for all of them.                                            *)
(***************************************************************************)
EXTENDS Naturals, Sequences

CONSTANTS MaxEdits,    \* edits of the agent
          MaxOut,      \* chunks printed by the agent of a turn
          MaxLosses   \* killed VMs, failed transfers, dead services

ASSUME SessionConstants == MaxEdits \in Nat /\ MaxOut \in Nat /\ MaxLosses \in Nat

Imported == 2

VARIABLES
  host,      \* where vm.execute is
  vm,        \* "off" or "up"
  warmed,    \* Vm::warmed
  svc,       \* the guest's Codex service
  serviceLease,     \* its output is attached to the turn's events
  mark,      \* /var/lib/cairn/initialized
  work,      \* the workspace as the guest sees it
  safe,      \* the part of it that is on the disk
  cache,     \* a cache: the system's copy, and the workspace's
  proj,      \* a project: where, whole or not, its record and policy
  pjob,      \* the import of the project
  mount,     \* the bind mount of the project: "none", "ro", "rw"
  agent,     \* the agent's process
  out,       \* chunks printed by the turn, in the pipe, and logged
  wire,      \* events on their way to the host
  answered,  \* the workspace at the last exit the host recorded
  tornImport,      \* a kill tore unsynced imports
  lossesLeft       \* mishaps left

guestDiskVars == <<mark, work, safe, cache, proj>>
turnVars == <<agent, out, wire>>
sessionVars == <<host, vm, warmed, svc, serviceLease, guestDiskVars, pjob, mount, turnVars, answered,
          tornImport, lossesLeft>>

NoProject == [at |-> "none", whole |-> FALSE, synced |-> FALSE, rec |-> "none", ro |-> FALSE]
NoOut     == [made |-> 0, pipe |-> 0, logged |-> 0]

SessionInit ==
  /\ host = "idle" /\ vm = "off" /\ warmed = FALSE /\ svc = "none" /\ serviceLease = FALSE
  /\ mark = FALSE /\ work = 0 /\ safe = 0
  /\ cache = [old |-> TRUE, new |-> "none"]
  /\ proj = NoProject /\ pjob = "none" /\ mount = "none"
  /\ agent = "none" /\ out = NoOut /\ wire = <<>>
  /\ answered = 0 /\ tornImport = FALSE /\ lossesLeft = MaxLosses

Loss == lossesLeft > 0 /\ lossesLeft' = lossesLeft - 1

---------------------------------------------------------------------------
(* Boot, and the mount of the workspace: a cache is copied and synced      *)
(* aside, installed by a rename, and only then removed from the system.    *)
Boot ==
  /\ host = "idle" /\ vm = "off"
  /\ vm' = "up" /\ host' = "mount"
  /\ UNCHANGED <<warmed, svc, serviceLease, guestDiskVars, pjob, mount, turnVars, answered, tornImport,
                 lossesLeft>>
SeedCache ==
  /\ host = "mount" /\ cache.new # "installed"
  /\ cache' = [cache EXCEPT !.new = IF @ = "copied" THEN "installed" ELSE "copied"]
  /\ UNCHANGED <<host, vm, warmed, svc, serviceLease, mark, work, safe, proj, pjob, mount,
                 turnVars, answered, tornImport, lossesLeft>>
DropOldCache ==
  /\ host = "mount" /\ cache.new = "installed"
  /\ cache' = [cache EXCEPT !.old = FALSE]
  /\ host' = "ready"
  /\ UNCHANGED <<vm, warmed, svc, serviceLease, mark, work, safe, proj, pjob, mount, turnVars,
                 answered, tornImport, lossesLeft>>

(* warm_codex: only an anonymous guest, and an uncertain outcome retires   *)
(* the VM.                                                                 *)
WarmCodex ==
  /\ host = "ready" /\ ~mark /\ work = 0 /\ svc = "none" /\ ~warmed
  /\ warmed' = TRUE /\ svc' = "ready"
  /\ UNCHANGED <<host, vm, serviceLease, guestDiskVars, pjob, mount, turnVars, answered, tornImport, lossesLeft>>
ServiceExits ==
  /\ svc = "ready" /\ Loss
  /\ svc' = "stopped"
  /\ UNCHANGED <<host, vm, warmed, serviceLease, guestDiskVars, pjob, mount, turnVars, answered, tornImport>>

---------------------------------------------------------------------------
(* vm.execute.                                                             *)
Ended == host' = "ending" /\ UNCHANGED vm

Execute ==
  /\ host = "ready"
  /\ IF warmed /\ svc # "ready" THEN Ended
     ELSE host' = (IF mark THEN "refresh" ELSE "imports") /\ UNCHANGED vm
  /\ UNCHANGED <<warmed, svc, serviceLease, guestDiskVars, pjob, mount, turnVars, answered, tornImport, lossesLeft>>

(* import_workspace: everything, while the disk is not initialized;        *)
(* refresh_imports: credentials and the inbox, never the workspace.        *)
ImportStarts ==
  /\ host = "imports"
  /\ work' = 1 /\ safe' = IF safe = 0 THEN 0 ELSE 1
  /\ host' = "importing"
  /\ UNCHANGED <<vm, warmed, svc, serviceLease, mark, cache, proj, pjob, mount, turnVars, answered,
                 tornImport, lossesLeft>>
ImportEnds ==
  /\ host \in {"importing", "refresh"}
  /\ work' = IF host = "importing" THEN Imported ELSE work
  /\ host' = "request"
  /\ UNCHANGED <<vm, warmed, svc, serviceLease, mark, safe, cache, proj, pjob, mount, turnVars,
                 answered, tornImport, lossesLeft>>

(* A guest that marks its disk when the turn is over.                      *)
PrepareRunUnmarked ==
  /\ host = "request"
  /\ mount' = IF proj.rec = "view" \/ (proj.rec = "own" /\ proj.ro)
              THEN IF proj.ro THEN "ro" ELSE "rw" ELSE mount
  /\ host' = "spawn"
  /\ UNCHANGED <<vm, warmed, svc, serviceLease, guestDiskVars, pjob, turnVars, answered, tornImport, lossesLeft>>

(* prepare_run: the mark is durable before the agent exists, and the       *)
(* recorded projects are mounted with their policy.                        *)
PrepareRun ==
  /\ host = "request"
  /\ mark' = TRUE
  /\ mount' = IF proj.rec = "view" \/ (proj.rec = "own" /\ proj.ro)
              THEN IF proj.ro THEN "ro" ELSE "rw" ELSE mount
  /\ host' = "spawn"
  /\ UNCHANGED <<vm, warmed, svc, serviceLease, work, safe, cache, proj, pjob, turnVars, answered,
                 tornImport, lossesLeft>>

(* spawn_agent: a started service must be alive, and lends its output.     *)
Spawn ==
  /\ host = "spawn"
  /\ IF svc = "stopped" THEN Ended /\ UNCHANGED <<agent, serviceLease, out>>
     ELSE /\ host' = "streaming" /\ agent' = "running"
          /\ serviceLease' = (svc = "ready") /\ out' = NoOut /\ UNCHANGED vm
  /\ UNCHANGED <<warmed, svc, guestDiskVars, pjob, mount, wire, answered, tornImport, lossesLeft>>

---------------------------------------------------------------------------
(* The turn in the guest.                                                  *)
AgentEdits ==
  /\ agent = "running" /\ vm = "up" /\ work < Imported + MaxEdits
  /\ work' = work + 1
  /\ UNCHANGED <<host, vm, warmed, svc, serviceLease, mark, safe, cache, proj, pjob, mount,
                 turnVars, answered, tornImport, lossesLeft>>
PrintOut ==
  /\ agent = "running" /\ vm = "up" /\ out.made < MaxOut
  /\ out' = [out EXCEPT !.made = @ + 1, !.pipe = @ + 1]
  /\ UNCHANGED <<host, vm, warmed, svc, serviceLease, guestDiskVars, pjob, mount, agent, wire,
                 answered, tornImport, lossesLeft>>
Exit ==
  /\ agent = "running" /\ vm = "up"
  /\ agent' = "exited"
  /\ UNCHANGED <<host, vm, warmed, svc, serviceLease, guestDiskVars, pjob, mount, out, wire, answered,
                 tornImport, lossesLeft>>

(* wait_agent: events are written as they come; the exit status detaches   *)
(* the service, whose sender would keep the events open.                   *)
Forward ==
  /\ agent # "none" /\ vm = "up" /\ host = "streaming" /\ out.pipe > 0
  /\ out' = [out EXCEPT !.pipe = @ - 1]
  /\ wire' = Append(wire, "output")
  /\ UNCHANGED <<host, vm, warmed, svc, serviceLease, guestDiskVars, pjob, mount, agent, answered,
                 tornImport, lossesLeft>>
Reap ==
  /\ agent = "exited" /\ vm = "up"
  /\ agent' = "reaped" /\ serviceLease' = FALSE
  /\ UNCHANGED <<host, vm, warmed, svc, guestDiskVars, pjob, mount, out, wire, answered, tornImport,
                 lossesLeft>>

(* Both are needed: the status and the end of the events.                  *)
Drained == agent = "reaped" /\ vm = "up" /\ out.pipe = 0 /\ ~serviceLease

(* An exit that is sent before the disk is synced.                         *)
SyncSkipped ==
  /\ Drained
  /\ agent' = "synced"
  /\ UNCHANGED <<host, vm, warmed, svc, serviceLease, guestDiskVars, pjob, mount, out, wire, answered,
                 tornImport, lossesLeft>>
SyncDisk ==
  /\ Drained
  /\ agent' = "synced" /\ safe' = work
  /\ proj' = [proj EXCEPT !.synced = TRUE]
  /\ UNCHANGED <<host, vm, warmed, svc, serviceLease, mark, work, cache, pjob, mount, out, wire,
                 answered, tornImport, lossesLeft>>
SendExit ==
  /\ agent = "synced" /\ vm = "up"
  /\ wire' = Append(wire, "exit") /\ agent' = "none"
  /\ UNCHANGED <<host, vm, warmed, svc, serviceLease, guestDiskVars, pjob, mount, out, answered, tornImport,
                 lossesLeft>>

(* run on the host: outputs are logged in order; at the exit the result is *)
(* written and the VM may be kept for the next turn.                       *)
HostReads(kept) ==
  /\ host = "streaming" /\ wire # <<>>
  /\ wire' = Tail(wire)
  /\ IF Head(wire) = "output"
     THEN out' = [out EXCEPT !.logged = @ + 1] /\ ~kept /\ UNCHANGED <<host, answered>>
     ELSE /\ answered' = work /\ UNCHANGED out
          /\ host' = IF kept THEN "ready" ELSE "ending"
  /\ UNCHANGED <<vm, warmed, svc, serviceLease, guestDiskVars, pjob, mount, agent, tornImport, lossesLeft>>

(* A turn that fails on the host: a refused transfer, a lost connection,   *)
(* too much output, a stop or a dead block device.                         *)
Fails ==
  /\ host \in {"mount", "imports", "importing", "refresh", "request", "spawn", "streaming"}
  /\ Loss /\ Ended
  /\ UNCHANGED <<warmed, svc, serviceLease, guestDiskVars, pjob, mount, turnVars, answered, tornImport>>

---------------------------------------------------------------------------
(* import_project, under PROJECT_IMPORT_CONTROL: a known project is        *)
(* reopened, another is staged out of the agent's reach.                   *)
OpenProject(ro) ==
  /\ host = "streaming" /\ vm = "up" /\ pjob = "none" /\ agent = "running"
  /\ IF proj.rec # "none" \/ proj.at = "public"
     THEN /\ proj' = [proj EXCEPT !.rec = IF @ = "none" THEN "own" ELSE @, !.ro = ro]
          /\ mount' = IF proj.rec = "view" \/ ro \/ mount # "none"
                      THEN IF ro THEN "ro" ELSE "rw" ELSE mount
          /\ UNCHANGED pjob
     ELSE /\ proj' = [NoProject EXCEPT !.at = "staged", !.ro = ro]
          /\ pjob' = "extract"
          /\ UNCHANGED mount
  /\ UNCHANGED <<host, vm, warmed, svc, serviceLease, mark, work, safe, cache, turnVars, answered,
                 tornImport, lossesLeft>>

(* The archive ends before the host knows whether tar succeeded: a failed  *)
(* tar is reported to the manager, and still applied by the guest.         *)
Extract(complete) ==
  /\ pjob = "extract" /\ vm = "up"
  /\ IF complete THEN UNCHANGED <<tornImport, lossesLeft>> ELSE Loss /\ tornImport' = TRUE
  /\ proj' = [proj EXCEPT !.whole = complete]
  /\ pjob' = "publish"
  /\ UNCHANGED <<host, vm, warmed, svc, serviceLease, mark, work, safe, cache, mount, turnVars,
                 answered>>

(* publish: a writable project is renamed and then recorded; a restricted  *)
(* one is recorded in its private place and then mounted read-only.        *)
PublishProject ==
  /\ pjob = "publish" /\ vm = "up"
  /\ proj' = IF proj.ro THEN [proj EXCEPT !.rec = "view"] ELSE [proj EXCEPT !.at = "public"]
  /\ pjob' = "settle"
  /\ UNCHANGED <<host, vm, warmed, svc, serviceLease, mark, work, safe, cache, mount, turnVars,
                 answered, tornImport, lossesLeft>>
SettleProject ==
  /\ pjob = "settle" /\ vm = "up"
  /\ proj' = IF proj.ro THEN proj ELSE [proj EXCEPT !.rec = "own"]
  /\ mount' = IF proj.ro THEN "ro" ELSE mount
  /\ pjob' = "sync"
  /\ UNCHANGED <<host, vm, warmed, svc, serviceLease, mark, work, safe, cache, turnVars, answered,
                 tornImport, lossesLeft>>
ImportSynced ==
  /\ pjob = "sync" /\ vm = "up"
  /\ proj' = [proj EXCEPT !.synced = TRUE] /\ safe' = work
  /\ pjob' = "none"
  /\ UNCHANGED <<host, vm, warmed, svc, serviceLease, mark, work, cache, mount, turnVars, answered,
                 tornImport, lossesLeft>>

(* The archive is cut, or the VM refuses the mount: the staging directory  *)
(* stays behind.                                                           *)
ImportFails ==
  /\ pjob \in {"extract", "publish", "settle"} /\ Loss
  /\ pjob' = "none"
  /\ UNCHANGED <<host, vm, warmed, svc, serviceLease, guestDiskVars, mount, turnVars, answered, tornImport>>

---------------------------------------------------------------------------
(* The end of the VM.  A graceful stop syncs; a kill keeps any state since *)
(* the last sync: a prefix of the workspace, a rename or not, and of the    *)
(* data of a project perhaps a part.                                       *)
PoweredOff ==
  /\ vm' = "off" /\ host' = "idle" /\ warmed' = FALSE /\ svc' = "none" /\ serviceLease' = FALSE
  /\ pjob' = "none" /\ mount' = "none" /\ agent' = "none" /\ wire' = <<>> /\ out' = NoOut
Shutdown ==
  /\ vm = "up" /\ host \in {"ending", "ready"} /\ (host = "ready" => mark)
  /\ PoweredOff /\ safe' = work
  /\ proj' = [proj EXCEPT !.synced = TRUE]
  /\ cache' = [cache EXCEPT !.new = IF @ = "copied" THEN "none" ELSE @]
  /\ UNCHANGED <<mark, work, answered, tornImport, lossesLeft>>
Killed ==
  /\ vm = "up" /\ Loss /\ PoweredOff
  /\ \E n \in safe .. work :
       /\ work' = n /\ safe' = n
       /\ \/ proj' = proj
          \/ ~proj.synced /\ proj' = [proj EXCEPT !.whole = FALSE]
          \/ proj.rec = "none" /\ proj.at = "public" /\ proj' = [proj EXCEPT !.at = "staged"]
       /\ tornImport' = (tornImport \/ (mark /\ n < Imported) \/ (proj.whole /\ ~proj'.whole))
  /\ cache' \in {[old |-> o, new |-> IF cache.new = "copied" THEN "none" ELSE cache.new] :
                    o \in {cache.old, cache.old \/ cache.new = "installed"}}
  /\ UNCHANGED <<mark, answered>>

---------------------------------------------------------------------------
Session ==
  \/ Boot \/ SeedCache \/ DropOldCache \/ WarmCodex \/ Execute \/ ImportStarts
  \/ ImportEnds \/ PrepareRun \/ Spawn \/ Shutdown
Turn ==
  \/ Forward \/ Reap \/ SyncDisk \/ SendExit \/ \E kept \in BOOLEAN : HostReads(kept)
Agent == AgentEdits \/ PrintOut \/ Exit
Project ==
  \/ \E b \in BOOLEAN : OpenProject(b) \/ Extract(b)
  \/ PublishProject \/ SettleProject \/ ImportSynced \/ ImportFails

SessionNext == Session \/ Turn \/ Agent \/ Project \/ Fails \/ Killed \/ ServiceExits

SessionSpec == SessionInit /\ [][SessionNext]_sessionVars

---------------------------------------------------------------------------
(* The workspace is imported once: what the agent did is lost to a killed  *)
(* VM alone, never to a later import over it.                              *)
WorkNotOverwritten ==
  [][work > Imported /\ work' < work => vm' = "off" /\ work' >= safe]_sessionVars

(* When the host records an exit, everything the agent printed is in the   *)
(* log and everything it wrote is on the disk, for every later crash.      *)
ExitMeansKept ==
  /\ answered > 0 => safe >= answered
  /\ wire # <<>> /\ Head(wire) = "exit" => out.logged = out.made

(* A project the agent can see is whole, and read-only when it is          *)
(* restricted; and the agent starts on a whole workspace: unless a host's  *)
(* archive failed at its end or a kill tore imports that nothing synced.   *)
ProjectVisible == proj.at = "public" \/ mount # "none"
AgentSeesWhole ==
  agent = "running" =>
    /\ work >= Imported \/ tornImport
    /\ ProjectVisible => proj.whole \/ tornImport
    /\ ProjectVisible /\ proj.ro /\ pjob = "none" /\ proj.rec # "none" => mount = "ro"

(* The same without the exception.                                         *)
OnlyCompleteData ==
  agent = "running" => work >= Imported /\ (ProjectVisible => proj.whole)

(* A cache of the system is never lost while it moves to the workspace.    *)
CacheKept == cache.old \/ cache.new = "installed"

(* The end of an agent is reported though the service it used lives on:    *)
(* once its status was collected nobody holds a sender of the turn's       *)
(* events, so that the wait for their end returns (guest.rs wait_agent).   *)
ExitNotStuck == agent \in {"reaped", "synced"} => ~serviceLease

(* A turn on a disk ends with everything kept: an exit is recorded after   *)
(* output and disk (guest.rs), the agent works on whole data               *)
(* (projects.rs), a moving cache always exists (guest/filesystems.rs), and *)
(* the end of an agent is reported though its service lives on.            *)
SessionKeepsWork ==
  /\ ExitMeansKept
  /\ AgentSeesWhole
  /\ CacheKept
  /\ ExitNotStuck
=============================================================================

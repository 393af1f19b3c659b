-------------------------- MODULE ConversationProofs --------------------------
(***************************************************************************)
(* What the components of one conversation keep, each for any value of its *)
(* own constants: the session on its disk (GuestSession), the templates    *)
(* and images of its VM (VmTemplates), the credentials of its agent        *)
(* (AgentCredentials) and its title (ChatTitles).  The components share no *)
(* state; each part stands on its own.                                     *)
(***************************************************************************)
EXTENDS GuestSession, VmTemplates, AgentCredentials, ChatTitles,
        FiniteSetTheorems, SequenceTheorems, TLAPS

----------------------------------------
(***************************************************************************)
(* What a conversation's disk keeps through its boots and turns, for any   *)
(* number of edits, outputs and losses: the agent's work is never imported *)
(* over, a recorded exit has its output logged and its disk synced, the    *)
(* agent sees whole data, and a cache exists at every moment of its move.  *)
(***************************************************************************)

ProjectRec == [at : {"none", "staged", "public"}, whole : BOOLEAN, synced : BOOLEAN,
             rec : {"none", "own", "view"}, ro : BOOLEAN]
Out == [made : Nat, pipe : Nat, logged : Nat]
Hosts == {"idle", "mount", "ready", "imports", "importing", "refresh", "request", "spawn",
          "streaming", "ending"}

TurnTyped ==
  /\ host \in Hosts
  /\ work \in Nat /\ safe \in Nat /\ answered \in Nat
  /\ agent \in {"none", "running", "exited", "reaped", "synced"}
  /\ out \in Out /\ wire \in Seq({"output", "exit"})
  /\ pjob \in {"none", "extract", "publish", "settle", "sync"}
  /\ mount \in {"none", "ro", "rw"}

DiskTyped ==
  /\ proj \in ProjectRec
  /\ cache \in [old : BOOLEAN, new : {"none", "copied", "installed"}]

\* The mark divides the life of a disk: imports before it, turns after it.
MarkSound ==
  /\ host \in {"imports", "importing"} => ~mark
  /\ host \in {"refresh", "spawn", "streaming"} \/ agent # "none" \/ answered > 0 => mark
  /\ ~mark => work <= Imported
  /\ mark \/ host = "request" => work >= Imported \/ tornImport
  /\ safe <= work

Exited == wire # <<>> /\ wire[Len(wire)] = "exit"

\* The events of a turn: outputs and then at most one exit, none of them lost,
\* and nothing is written after the sync that precedes the exit.
TurnSound ==
  /\ host \notin {"streaming", "ending"} => wire = <<>> /\ agent = "none"
  /\ \A i \in 1..Len(wire) : wire[i] = "exit" => i = Len(wire)
  /\ out.made + (IF Exited THEN 1 ELSE 0) = out.pipe + out.logged + Len(wire)
  /\ Exited => agent = "none"
  /\ agent = "synced" \/ Exited => safe = work /\ out.pipe = 0
  /\ answered > 0 => safe >= answered
  /\ ExitNotStuck

\* Where the import of a project is, and what can be seen of it.
ProjectSound ==
  /\ proj.at = "public" \/ proj.rec # "none" \/ pjob \in {"publish", "settle", "sync"}
       => proj.whole \/ tornImport
  /\ mount # "none" => proj.rec # "none"
  /\ pjob \in {"extract", "publish"} => proj.rec = "none" /\ proj.at = "staged"
  /\ pjob = "settle" /\ proj.ro => proj.rec = "view" /\ proj.at = "staged" /\ mount # "rw"
  /\ pjob = "settle" /\ ~proj.ro => proj.rec = "none" /\ proj.at = "public"
  /\ pjob = "sync" /\ proj.ro => mount = "ro"
  /\ host \in {"spawn", "streaming"} \/ agent # "none" =>
       (ProjectVisible /\ proj.ro /\ pjob = "none" /\ proj.rec # "none" => mount = "ro")

SessionInv == TurnTyped /\ DiskTyped /\ MarkSound /\ TurnSound /\ ProjectSound /\ CacheKept

----------------------------------------
(* Sequences of events.                                                    *)

LEMMA Appended ==
  ASSUME NEW S, NEW s \in Seq(S), NEW e \in S
  PROVE  /\ Append(s, e) \in Seq(S) /\ Len(Append(s, e)) = Len(s) + 1
         /\ Append(s, e) # <<>> /\ Append(s, e)[Len(s) + 1] = e
         /\ \A i \in 1..Len(s) : Append(s, e)[i] = s[i]
  OBVIOUS

LEMMA Shortened ==
  ASSUME NEW S, NEW s \in Seq(S), s # <<>>
  PROVE  /\ Tail(s) \in Seq(S) /\ Len(Tail(s)) = Len(s) - 1 /\ Len(s) \in Nat \ {0}
         /\ Head(s) = s[1] /\ Head(s) \in S
         /\ \A i \in 1..Len(Tail(s)) : Tail(s)[i] = s[i + 1]
         /\ Len(s) = 1 => Tail(s) = <<>>
<1>1. /\ Tail(s) \in Seq(S) /\ Len(Tail(s)) = Len(s) - 1 /\ Len(s) \in Nat \ {0}
      /\ \A i \in 1..Len(Tail(s)) : Tail(s)[i] = s[i + 1]
  OBVIOUS
<1>2. Head(s) = s[1]
  OBVIOUS
<1>3. Head(s) \in S
  BY HeadTailProperties
<1>4. ASSUME Len(s) = 1 PROVE Tail(s) = <<>>
  <2>1. Tail(s) \in Seq(S) /\ Len(Tail(s)) = 0
    BY <1>1, <1>4
  <2>2. Tail(s) # <<>> => Len(Tail(s)) \in Nat \ {0}
    BY <2>1, EmptySeq, Zenon
  <2> QED
    BY <2>1, <2>2
<1> QED
  BY <1>1, <1>2, <1>3, <1>4

LEMMA EmptyEvents == <<>> \in Seq({"output", "exit"}) /\ Len(<<>>) = 0
  OBVIOUS

LEMMA SessionInitially == SessionInit => SessionInv
<1> SUFFICES ASSUME SessionInit PROVE SessionInv
  OBVIOUS
<1>1. TurnTyped
  BY EmptyEvents DEF SessionInit, TurnTyped, Hosts, Out, NoOut
<1>2. DiskTyped
  BY Zenon DEF SessionInit, DiskTyped, ProjectRec, NoProject
<1>3. MarkSound
  BY SessionConstants DEF SessionInit, MarkSound, Imported
<1>4. TurnSound
  BY EmptyEvents DEF SessionInit, TurnSound, Exited, NoOut, ExitNotStuck
<1>5. ProjectSound /\ CacheKept
  BY DEF SessionInit, ProjectSound, CacheKept, NoProject, ProjectVisible
<1> QED
  BY <1>1, <1>2, <1>3, <1>4, <1>5 DEF SessionInv

----------------------------------------
(* The invariant, part by part.                                            *)

LEMMA TurnTypes == ASSUME SessionInv, SessionNext PROVE TurnTyped'
<1> USE DEF TurnTyped, Hosts
<1>0. TurnTyped
  BY DEF SessionInv
<1>1. ASSUME Session PROVE TurnTyped'
  <2>1. CASE Boot
    BY <1>0, <2>1 DEF Boot, guestDiskVars, turnVars
  <2>2. CASE SeedCache \/ DropOldCache
    BY <1>0, <2>2 DEF SeedCache, DropOldCache, turnVars
  <2>3. CASE WarmCodex
    BY <1>0, <2>3 DEF WarmCodex, guestDiskVars, turnVars
  <2>4. CASE Execute
    BY <1>0, <2>4 DEF Execute, Ended, guestDiskVars, turnVars
  <2>5. CASE ImportStarts \/ ImportEnds
    BY <1>0, <2>5 DEF ImportStarts, ImportEnds, turnVars, Imported
  <2>6. CASE PrepareRun
    BY <1>0, <2>6 DEF PrepareRun, turnVars
  <2>7. CASE Spawn
    BY <1>0, <2>7 DEF Spawn, Ended, guestDiskVars, turnVars, Out, NoOut
  <2>8. CASE Shutdown
    BY <1>0, <2>8, EmptyEvents DEF Shutdown, PoweredOff, Out, NoOut
  <2> QED
    BY <1>1, <2>1, <2>2, <2>3, <2>4, <2>5, <2>6, <2>7, <2>8 DEF Session
<1>2. ASSUME Turn \/ Agent PROVE TurnTyped'
  <2>1. CASE Forward
    BY <1>0, <2>1, Appended, SMTT(20) DEF Forward, guestDiskVars, Out
  <2>2. CASE Reap
    BY <1>0, <2>2 DEF Reap, guestDiskVars
  <2>3. CASE SyncDisk
    BY <1>0, <2>3 DEF SyncDisk
  <2>4. CASE SendExit
    BY <1>0, <2>4, Appended DEF SendExit, guestDiskVars
  <2>5. ASSUME NEW kept \in BOOLEAN, HostReads(kept) PROVE TurnTyped'
    BY <1>0, <2>5, Shortened DEF HostReads, guestDiskVars, Out
  <2>6. CASE AgentEdits
    BY <1>0, <2>6 DEF AgentEdits, turnVars
  <2>7. CASE PrintOut
    <3>1. out' = [out EXCEPT !.made = @ + 1, !.pipe = @ + 1]
      BY <2>7 DEF PrintOut
    <3>2. out.made + 1 \in Nat /\ out.pipe + 1 \in Nat
      BY <1>0 DEF Out
    <3>3. out' \in Out
      BY <1>0, <3>1, <3>2, Zenon DEF Out
    <3> QED
      BY <1>0, <2>7, <3>3 DEF PrintOut, guestDiskVars
  <2>8. CASE Exit
    BY <1>0, <2>8 DEF Exit, guestDiskVars
  <2> QED
    BY <1>2, <2>1, <2>2, <2>3, <2>4, <2>5, <2>6, <2>7, <2>8 DEF Turn, Agent
<1>3. ASSUME Project PROVE TurnTyped'
  <2>1. ASSUME NEW ro \in BOOLEAN, OpenProject(ro) PROVE TurnTyped'
    BY <1>0, <2>1 DEF OpenProject, turnVars
  <2>2. ASSUME NEW ok \in BOOLEAN, Extract(ok) PROVE TurnTyped'
    BY <1>0, <2>2 DEF Extract, turnVars
  <2>3. CASE PublishProject \/ SettleProject \/ ImportSynced
    BY <1>0, <2>3 DEF PublishProject, SettleProject, ImportSynced, turnVars
  <2>4. CASE ImportFails
    BY <1>0, <2>4 DEF ImportFails, turnVars, guestDiskVars
  <2> QED
    BY <1>3, <2>1, <2>2, <2>3, <2>4 DEF Project
<1>4. CASE Fails \/ ServiceExits
  BY <1>0, <1>4 DEF Fails, Ended, ServiceExits, turnVars, guestDiskVars
<1>5. CASE Killed
  <2>1. PICK n \in safe .. work : work' = n /\ safe' = n
    BY <1>5 DEF Killed
  <2>2. n \in Nat
    BY <1>0, <2>1
  <2> QED
    BY <1>0, <1>5, <2>1, <2>2, EmptyEvents DEF Killed, PoweredOff, Out, NoOut
<1> QED
  BY <1>1, <1>2, <1>3, <1>4, <1>5 DEF SessionNext

(* The steps that write neither a project nor a cache.                     *)
Elsewhere ==
  \/ Boot \/ WarmCodex \/ Execute \/ ImportStarts \/ ImportEnds \/ PrepareRun \/ Spawn
  \/ Forward \/ Reap \/ SendExit \/ (\E kept \in BOOLEAN : HostReads(kept)) \/ Agent
  \/ ImportFails \/ Fails \/ ServiceExits

LEMMA ElsewhereKeeps == ASSUME Elsewhere PROVE UNCHANGED <<proj, cache>>
  BY Zenon DEF Elsewhere, Agent, Boot, WarmCodex, Execute, ImportStarts, ImportEnds, PrepareRun,
     Spawn, Forward, Reap, SendExit, HostReads, AgentEdits, PrintOut, Exit, ImportFails, Fails,
     ServiceExits, guestDiskVars

LEMMA DiskTypes == ASSUME SessionInv, SessionNext PROVE DiskTyped'
<1> DEFINE Cache == [old : BOOLEAN, new : {"none", "copied", "installed"}]
<1>0. proj \in ProjectRec /\ cache \in Cache
  BY DEF SessionInv, DiskTyped
<1>1. CASE Elsewhere
  BY <1>0, <1>1, ElsewhereKeeps DEF DiskTyped
<1>2. CASE SeedCache \/ DropOldCache
  <2>1. proj' = proj
    BY <1>2, Zenon DEF SeedCache, DropOldCache
  <2>2. CASE SeedCache
    <3>1. (IF cache.new = "copied" THEN "installed" ELSE "copied") \in {"none", "copied", "installed"}
      OBVIOUS
    <3> QED
      BY <1>0, <2>1, <2>2, <3>1, Zenon DEF SeedCache, DiskTyped
  <2>3. CASE DropOldCache
    BY <1>0, <2>1, <2>3, Zenon DEF DropOldCache, DiskTyped
  <2> QED
    BY <1>2, <2>2, <2>3
<1>3. CASE SyncDisk \/ ImportSynced
  BY <1>0, <1>3, Zenon DEF SyncDisk, ImportSynced, DiskTyped, ProjectRec
<1>4. ASSUME NEW ro \in BOOLEAN, OpenProject(ro) PROVE DiskTyped'
  <2>1. cache' = cache
    BY <1>4, Zenon DEF OpenProject
  <2>2. CASE proj.rec # "none" \/ proj.at = "public"
    <3>1. (IF proj.rec = "none" THEN "own" ELSE proj.rec) \in {"none", "own", "view"}
      BY <1>0, Zenon DEF ProjectRec
    <3>2. proj' = [proj EXCEPT !.rec = IF @ = "none" THEN "own" ELSE @, !.ro = ro]
      BY <1>4, <2>2, Zenon DEF OpenProject
    <3> QED
      BY <1>0, <2>1, <3>1, <3>2, Zenon DEF DiskTyped, ProjectRec
  <2>3. CASE ~(proj.rec # "none" \/ proj.at = "public")
    <3>1. proj' = [NoProject EXCEPT !.at = "staged", !.ro = ro]
      BY <1>4, <2>3, Zenon DEF OpenProject
    <3>2. NoProject \in ProjectRec
      BY Zenon DEF NoProject, ProjectRec
    <3> QED
      BY <1>0, <2>1, <3>1, <3>2, Zenon DEF DiskTyped, ProjectRec
  <2> QED
    BY <2>2, <2>3
<1>5. ASSUME NEW ok \in BOOLEAN, Extract(ok) PROVE DiskTyped'
  BY <1>0, <1>5, Zenon DEF Extract, DiskTyped, ProjectRec
<1>6. CASE PublishProject \/ SettleProject
  <2>1. cache' = cache
    BY <1>6, Zenon DEF PublishProject, SettleProject
  <2>2. proj' \in {proj, [proj EXCEPT !.rec = "view"], [proj EXCEPT !.at = "public"],
                   [proj EXCEPT !.rec = "own"]}
    BY <1>6, Zenon DEF PublishProject, SettleProject
  <2> QED
    BY <1>0, <2>1, <2>2, Zenon DEF DiskTyped, ProjectRec
<1>7. CASE Shutdown
  <2>1. (IF cache.new = "copied" THEN "none" ELSE cache.new) \in {"none", "copied", "installed"}
    BY <1>0, Zenon
  <2> QED
    BY <1>0, <1>7, <2>1, Zenon DEF Shutdown, DiskTyped, ProjectRec
<1>8. CASE Killed
  <2>1. proj' \in {proj, [proj EXCEPT !.whole = FALSE], [proj EXCEPT !.at = "staged"]}
    BY <1>8, Zenon DEF Killed
  <2>2. proj' \in ProjectRec
    BY <1>0, <2>1, Zenon DEF ProjectRec
  <2>3. PICK o \in {cache.old, cache.old \/ cache.new = "installed"} :
          cache' = [old |-> o, new |-> IF cache.new = "copied" THEN "none" ELSE cache.new]
    BY <1>8, Zenon DEF Killed
  <2>4. o \in BOOLEAN
    BY <1>0, Zenon
  <2>5. (IF cache.new = "copied" THEN "none" ELSE cache.new) \in {"none", "copied", "installed"}
    BY <1>0, Zenon
  <2> QED
    BY <2>2, <2>3, <2>4, <2>5, Zenon DEF DiskTyped
<1> QED
  BY <1>1, <1>2, <1>3, <1>4, <1>5, <1>6, <1>7, <1>8
  DEF SessionNext, Session, Turn, Project, Elsewhere

LEMMA MarkStep == ASSUME SessionInv, SessionNext PROVE MarkSound'
<1>0. TurnTyped /\ MarkSound /\ TurnSound
  BY DEF SessionInv
<1> USE DEF TurnTyped, MarkSound, Imported
<1>1. ASSUME Session PROVE MarkSound'
  <2>1. CASE Boot \/ WarmCodex \/ SeedCache \/ DropOldCache
    BY <1>0, <2>1 DEF Boot, WarmCodex, SeedCache, DropOldCache, guestDiskVars, turnVars
  <2>2. CASE Execute
    BY <1>0, <2>2 DEF Execute, Ended, guestDiskVars, turnVars
  <2>3. CASE ImportStarts
    BY <1>0, <2>3 DEF ImportStarts, turnVars
  <2>4. CASE ImportEnds
    BY <1>0, <2>4 DEF ImportEnds, turnVars
  <2>5. CASE PrepareRun
    BY <1>0, <2>5 DEF PrepareRun, turnVars
  <2>6. CASE Spawn
    BY <1>0, <2>6 DEF Spawn, Ended, guestDiskVars, turnVars
  <2>7. CASE Shutdown
    BY <1>0, <2>7 DEF Shutdown, PoweredOff
  <2> QED
    BY <1>1, <2>1, <2>2, <2>3, <2>4, <2>5, <2>6, <2>7 DEF Session
<1>2. ASSUME Turn \/ Agent PROVE MarkSound'
  <2>1. CASE Forward \/ PrintOut
    BY <1>0, <2>1 DEF Forward, PrintOut, guestDiskVars
  <2>4. CASE Reap
    BY <1>0, <2>4 DEF Reap, guestDiskVars
  <2>5. CASE SyncDisk
    BY <1>0, <2>5 DEF SyncDisk, Drained
  <2>6. CASE SendExit
    BY <1>0, <2>6 DEF SendExit, guestDiskVars
  <2>7. CASE Exit
    BY <1>0, <2>7 DEF Exit, guestDiskVars
  <2>2. ASSUME NEW kept \in BOOLEAN, HostReads(kept) PROVE MarkSound'
    BY <1>0, <2>2 DEF HostReads, guestDiskVars
  <2>3. CASE AgentEdits
    BY <1>0, <2>3 DEF AgentEdits, turnVars
  <2> QED
    BY <1>2, <2>1, <2>2, <2>3, <2>4, <2>5, <2>6, <2>7 DEF Turn, Agent
<1>3. ASSUME Project PROVE MarkSound'
  <2>1. ASSUME NEW ro \in BOOLEAN, OpenProject(ro) PROVE MarkSound'
    BY <1>0, <2>1 DEF OpenProject, turnVars
  <2>2. ASSUME NEW ok \in BOOLEAN, Extract(ok) PROVE MarkSound'
    <3>1. UNCHANGED <<host, mark, work, safe, agent, answered>>
      BY <2>2 DEF Extract, turnVars
    <3>2. tornImport => tornImport'
      BY <2>2, Zenon DEF Extract
    <3> QED
      BY <1>0, <3>1, <3>2
  <2>3. CASE PublishProject \/ SettleProject
    BY <1>0, <2>3 DEF PublishProject, SettleProject, turnVars
  <2>4. CASE ImportSynced
    BY <1>0, <2>4 DEF ImportSynced, turnVars
  <2>5. CASE ImportFails
    BY <1>0, <2>5 DEF ImportFails, turnVars, guestDiskVars
  <2> QED
    BY <1>3, <2>1, <2>2, <2>3, <2>4, <2>5 DEF Project
<1>4. CASE Fails \/ ServiceExits
  BY <1>0, <1>4 DEF Fails, Ended, ServiceExits, turnVars, guestDiskVars
<1>5. CASE Killed
  <2>1. PICK n \in safe .. work :
          /\ work' = n /\ safe' = n
          /\ tornImport' = (tornImport \/ (mark /\ n < 2) \/ (proj.whole /\ ~proj'.whole))
    BY <1>5 DEF Killed
  <2>2. n \in Nat /\ n <= work
    BY <1>0, <2>1
  <2>3. host' = "idle" /\ agent' = "none" /\ mark' = mark /\ answered' = answered
    BY <1>5 DEF Killed, PoweredOff
  <2>4. tornImport \/ (mark /\ n < 2) => tornImport'
    BY <2>1, Zenon
  <2>5. mark' => work' >= 2 \/ tornImport'
    <3>1. CASE n < 2
      BY <2>3, <2>4, <3>1, Zenon
    <3>2. CASE ~(n < 2)
      BY <2>1, <2>2, <3>2
    <3> QED
      BY <3>1, <3>2
  <2>6. ~mark' => work' <= 2
    BY <1>0, <2>1, <2>2, <2>3
  <2>7. answered' > 0 => mark'
    BY <1>0, <2>3
  <2>8. safe' <= work'
    BY <2>1, <2>2
  <2> QED
    BY <2>3, <2>5, <2>6, <2>7, <2>8
<1> QED
  BY <1>1, <1>2, <1>3, <1>4, <1>5 DEF SessionNext

LEMMA TurnFrame ==
  ASSUME TurnSound, UNCHANGED <<wire, agent, out, safe, work, answered, serviceLease>>,
         host \notin {"streaming", "ending"} \/ host' \in {"streaming", "ending"}
  PROVE  TurnSound'
  BY DEF TurnSound, Exited, ExitNotStuck

\* No event and no agent: what a disk without a turn must satisfy.
LEMMA NoTurn ==
  ASSUME wire' = <<>>, agent' = "none", out' = NoOut \/ UNCHANGED <<out, wire>>,
         TurnTyped, TurnSound, answered' > 0 => safe' >= answered'
  PROVE  TurnSound'
<1>1. Len(<<>>) = 0
  BY EmptyEvents
<1>2. ~Exited' /\ ExitNotStuck'
  BY DEF Exited, ExitNotStuck
<1>3. out'.made \in Nat /\ out'.made = out'.pipe + out'.logged + Len(wire')
  <2>1. CASE out' = NoOut
    BY <1>1, <2>1 DEF NoOut
  <2>2. CASE UNCHANGED <<out, wire>>
    <3>1. ~Exited
      BY <2>2 DEF Exited
    <3> QED
      BY <1>1, <2>2, <3>1 DEF TurnSound, TurnTyped, Out
  <2> QED
    BY <2>1, <2>2
<1> QED
  BY <1>1, <1>2, <1>3 DEF TurnSound

LEMMA TurnStep == ASSUME SessionInv, SessionNext PROVE TurnSound'
<1>0. TurnTyped /\ MarkSound /\ TurnSound
  BY DEF SessionInv
<1>a. host \notin {"streaming", "ending"} => wire = <<>> /\ agent = "none"
  BY <1>0 DEF TurnSound
<1>b. agent # "none" => ~Exited
  BY <1>0 DEF TurnSound
<1>1. ASSUME Session PROVE TurnSound'
  <2>1. CASE Boot \/ WarmCodex \/ SeedCache \/ DropOldCache \/ Execute \/ PrepareRun
    <3>1. UNCHANGED <<wire, agent, out, safe, work, answered, serviceLease>>
      BY <2>1, Zenon DEF Boot, WarmCodex, SeedCache, DropOldCache, Execute, PrepareRun,
         guestDiskVars, turnVars
    <3>2. host \notin {"streaming", "ending"}
      BY <2>1 DEF Boot, WarmCodex, SeedCache, DropOldCache, Execute, PrepareRun
    <3> QED
      BY <1>0, <3>1, <3>2, TurnFrame
  <2>2. CASE ImportStarts
    <3>1. wire' = <<>> /\ agent' = "none" /\ UNCHANGED <<out, wire>> /\ ~(answered' > 0)
      BY <1>0, <1>a, <2>2 DEF ImportStarts, turnVars, MarkSound
    <3> QED
      BY <1>0, <3>1, NoTurn
  <2>3. CASE ImportEnds
    <3>1. wire' = <<>> /\ agent' = "none" /\ UNCHANGED <<out, wire>>
      BY <1>a, <2>3 DEF ImportEnds, turnVars
    <3>2. answered' > 0 => safe' >= answered'
      BY <1>0, <2>3 DEF ImportEnds, MarkSound, TurnSound
    <3> QED
      BY <1>0, <3>1, <3>2, NoTurn
  <2>4. CASE Spawn
    <3>0. host = "spawn" /\ wire = <<>> /\ agent = "none"
      BY <1>a, <2>4 DEF Spawn
    <3>1. CASE svc = "stopped"
      BY <1>0, <2>4, <3>0, <3>1, TurnFrame DEF Spawn, Ended, guestDiskVars
    <3>2. CASE svc # "stopped"
      <4>1. wire' = <<>> /\ agent' = "running" /\ out' = NoOut /\ host' = "streaming"
        BY <2>4, <3>0, <3>2 DEF Spawn
      <4>2. answered' > 0 => safe' >= answered'
        BY <1>0, <2>4 DEF Spawn, guestDiskVars, TurnSound
      <4>3. ~Exited' /\ ExitNotStuck'
        BY <4>1 DEF Exited, ExitNotStuck
      <4> QED
        BY <4>1, <4>2, <4>3, EmptyEvents DEF TurnSound, NoOut
    <3> QED
      BY <3>1, <3>2
  <2>5. CASE Shutdown
    <3>1. wire' = <<>> /\ agent' = "none" /\ out' = NoOut
      BY <2>5 DEF Shutdown, PoweredOff
    <3>2. answered' > 0 => safe' >= answered'
      BY <1>0, <2>5 DEF Shutdown, TurnSound, MarkSound, TurnTyped
    <3> QED
      BY <1>0, <3>1, <3>2, NoTurn
  <2> QED
    BY <1>1, <2>1, <2>2, <2>3, <2>4, <2>5 DEF Session
<1>2. CASE Forward
  <2>1. /\ agent # "none" /\ out.pipe > 0 /\ ~Exited /\ agent # "synced"
        /\ UNCHANGED <<host, agent, safe, work, answered, serviceLease>>
    BY <1>0, <1>2 DEF Forward, TurnSound, TurnTyped, Out, guestDiskVars
  <2>2. /\ out'.made = out.made /\ out'.pipe = out.pipe - 1 /\ out'.logged = out.logged
    BY <1>0, <1>2 DEF Forward, TurnTyped, Out
  <2>3. wire' = Append(wire, "output")
    BY <1>2 DEF Forward
  <2>4. ~Exited' /\ Len(wire') = Len(wire) + 1 /\ Len(wire) \in Nat
    BY <1>0, <2>3, Appended DEF TurnTyped, Exited
  <2>5. \A i \in 1..Len(wire') : wire'[i] # "exit"
    <3>1. \A i \in 1..Len(wire) : wire[i] # "exit"
      BY <1>0, <2>1 DEF TurnSound, Exited, TurnTyped
    <3> QED
      BY <1>0, <2>3, <2>4, <3>1, Appended DEF TurnTyped
  <2>6. out.made = out.pipe + out.logged + Len(wire)
    BY <1>0, <2>1 DEF TurnSound, TurnTyped, Out
  <2>7. out'.made \in Nat /\ out'.made = out'.pipe + out'.logged + Len(wire')
    BY <1>0, <2>2, <2>4, <2>6 DEF TurnTyped, Out
  <2>8. host = "streaming"
    BY <1>2 DEF Forward
  <2> QED
    BY <1>0, <2>1, <2>4, <2>5, <2>7, <2>8 DEF TurnSound, ExitNotStuck
<1>3. CASE Reap
  BY <1>0, <1>a, <1>b, <1>3 DEF Reap, guestDiskVars, TurnSound, Exited, ExitNotStuck
<1>4. CASE SyncDisk
  <2>1. /\ agent = "reaped" /\ out.pipe = 0 /\ agent' = "synced" /\ safe' = work /\ ~serviceLease
        /\ UNCHANGED <<host, work, wire, out, answered, serviceLease>>
    BY <1>4 DEF SyncDisk, Drained
  <2>2. answered' > 0 => safe' >= answered'
    BY <1>0, <2>1 DEF TurnSound, MarkSound, TurnTyped
  <2> QED
    BY <1>0, <1>a, <1>b, <2>1, <2>2 DEF TurnSound, Exited, ExitNotStuck
<1>5. CASE SendExit
  <2>1. /\ agent = "synced" /\ agent' = "none" /\ ~Exited /\ safe = work /\ out.pipe = 0
        /\ UNCHANGED <<host, out, safe, work, answered, serviceLease>>
    BY <1>0, <1>b, <1>5 DEF SendExit, TurnSound, guestDiskVars
  <2>2. wire' = Append(wire, "exit")
    BY <1>5 DEF SendExit
  <2>3. Exited' /\ Len(wire') = Len(wire) + 1 /\ Len(wire) \in Nat
    BY <1>0, <2>2, Appended DEF TurnTyped, Exited
  <2>4. \A i \in 1..Len(wire') : wire'[i] = "exit" => i = Len(wire')
    <3>1. \A i \in 1..Len(wire) : wire[i] # "exit"
      BY <1>0, <2>1 DEF TurnSound, Exited, TurnTyped
    <3> QED
      BY <1>0, <2>2, <2>3, <3>1, Appended DEF TurnTyped
  <2>5. out'.made + 1 = out'.pipe + out'.logged + Len(wire')
    BY <1>0, <2>1, <2>3 DEF TurnTyped, Out, TurnSound
  <2> QED
    BY <1>0, <1>a, <2>1, <2>3, <2>4, <2>5 DEF TurnSound, ExitNotStuck
<1>6. ASSUME NEW kept \in BOOLEAN, HostReads(kept) PROVE TurnSound'
  <2>1. /\ host = "streaming" /\ wire # <<>> /\ wire' = Tail(wire)
        /\ UNCHANGED <<agent, safe, work, serviceLease>>
    BY <1>6 DEF HostReads, guestDiskVars
  <2>2. /\ Len(wire') = Len(wire) - 1 /\ Len(wire) \in Nat \ {0} /\ Head(wire) = wire[1]
        /\ \A i \in 1..Len(wire') : wire'[i] = wire[i + 1]
        /\ Len(wire) = 1 => wire' = <<>>
        /\ Head(wire) \in {"output", "exit"} /\ wire' \in Seq({"output", "exit"})
    BY <1>0, <2>1, Shortened DEF TurnTyped
  <2>3. CASE Head(wire) = "output"
    <3>1. /\ out'.made = out.made /\ out'.pipe = out.pipe /\ out'.logged = out.logged + 1
          /\ UNCHANGED <<host, answered>>
      BY <1>0, <1>6, <2>3 DEF HostReads, TurnTyped, Out
    <3>2. wire' # <<>> => Len(wire') # 0
      BY <2>2, EmptySeq
    <3>3. Exited' = Exited
      <4>1. CASE Len(wire) = 1
        BY <2>2, <2>3, <4>1 DEF Exited
      <4>2. CASE Len(wire) # 1
        <5>1. wire' # <<>> /\ wire'[Len(wire')] = wire[Len(wire)]
          BY <2>2, <4>2, EmptyEvents
        <5> QED
          BY <2>1, <5>1 DEF Exited
      <4> QED
        BY <4>1, <4>2
    <3>4. \A i \in 1..Len(wire') : wire'[i] = "exit" => i = Len(wire')
      BY <1>0, <2>2 DEF TurnSound
    <3>5. out'.made + (IF Exited' THEN 1 ELSE 0) = out'.pipe + out'.logged + Len(wire')
      <4>1. CASE Exited
        BY <1>0, <2>2, <3>1, <3>3, <4>1 DEF TurnSound, TurnTyped, Out
      <4>2. CASE ~Exited
        BY <1>0, <2>2, <3>1, <3>3, <4>2 DEF TurnSound, TurnTyped, Out
      <4> QED
        BY <4>1, <4>2
    <3> QED
      BY <1>0, <2>1, <3>1, <3>3, <3>4, <3>5 DEF TurnSound, ExitNotStuck
  <2>4. CASE Head(wire) = "exit"
    <3>1. answered' = work /\ out' = out
      BY <1>6, <2>4 DEF HostReads
    <3>2. Len(wire) = 1
      BY <1>0, <2>2, <2>4 DEF TurnSound
    <3>3. Exited /\ wire' = <<>>
      BY <2>1, <2>2, <2>4, <3>2 DEF Exited
    <3>4. agent = "none" /\ safe = work
      BY <1>0, <3>3 DEF TurnSound
    <3>5. out'.made = out'.pipe + out'.logged
      BY <1>0, <3>1, <3>2, <3>3 DEF TurnSound, TurnTyped, Out
    <3>6. ~Exited' /\ ExitNotStuck'
      BY <2>1, <3>3, <3>4 DEF Exited, ExitNotStuck
    <3>7. answered' > 0 => safe' >= answered'
      BY <1>0, <2>1, <3>1, <3>4 DEF TurnTyped
    <3> QED
      BY <1>0, <2>1, <3>1, <3>3, <3>4, <3>5, <3>6, <3>7, EmptyEvents DEF TurnSound, TurnTyped, Out
  <2> QED
    BY <2>2, <2>3, <2>4
<1>7. ASSUME Agent PROVE TurnSound'
  <2>1. agent = "running" /\ ~Exited /\ host \in {"streaming", "ending"}
    BY <1>a, <1>b, <1>7 DEF Agent, AgentEdits, PrintOut, Exit
  <2>2. CASE AgentEdits
    BY <1>0, <2>1, <2>2 DEF AgentEdits, turnVars, TurnSound, Exited, ExitNotStuck
  <2>3. CASE PrintOut
    <3>1. out'.made = out.made + 1 /\ out'.pipe = out.pipe + 1 /\ out'.logged = out.logged
      BY <1>0, <2>3 DEF PrintOut, TurnTyped, Out
    <3>2. UNCHANGED <<host, agent, wire, safe, work, answered, serviceLease>>
      BY <2>3 DEF PrintOut, guestDiskVars
    <3>3. out'.made \in Nat /\ out'.made = out'.pipe + out'.logged + Len(wire')
      BY <1>0, <2>1, <3>1, <3>2 DEF TurnSound, TurnTyped, Out
    <3>4. ~Exited' /\ ExitNotStuck'
      BY <2>1, <3>2 DEF Exited, ExitNotStuck
    <3> QED
      BY <1>0, <2>1, <3>2, <3>3, <3>4 DEF TurnSound
  <2>4. CASE Exit
    BY <1>0, <2>1, <2>4 DEF Exit, guestDiskVars, TurnSound, Exited, ExitNotStuck
  <2> QED
    BY <1>7, <2>2, <2>3, <2>4 DEF Agent
<1>8. ASSUME Project PROVE TurnSound'
  <2>1. CASE ImportSynced
    <3>1. safe' = work /\ UNCHANGED <<host, agent, out, wire, work, answered, serviceLease>>
      BY <2>1 DEF ImportSynced, turnVars
    <3>2. answered' > 0 => safe' >= answered'
      BY <1>0, <3>1 DEF TurnSound, MarkSound, TurnTyped
    <3> QED
      BY <1>0, <3>1, <3>2 DEF TurnSound, Exited, ExitNotStuck
  <2>2. CASE ~ImportSynced
    <3>1. UNCHANGED <<host, wire, agent, out, safe, work, answered, serviceLease>>
      BY <1>8, <2>2, Zenon DEF Project, OpenProject, Extract, PublishProject, SettleProject,
         ImportFails, turnVars, guestDiskVars
    <3> QED
      BY <1>0, <3>1, TurnFrame
  <2> QED
    BY <2>1, <2>2
<1>9. CASE Fails \/ ServiceExits
  <2>1. UNCHANGED <<wire, agent, out, safe, work, answered, serviceLease>>
    BY <1>9, Zenon DEF Fails, ServiceExits, turnVars, guestDiskVars
  <2>2. host' = "ending" \/ host' = host
    BY <1>9, Zenon DEF Fails, Ended, ServiceExits
  <2> QED
    BY <1>0, <2>1, <2>2, TurnFrame
<1>10. CASE Killed
  <2>1. PICK n \in safe .. work : safe' = n
    BY <1>10 DEF Killed
  <2>2. wire' = <<>> /\ agent' = "none" /\ out' = NoOut /\ answered' = answered
    BY <1>10 DEF Killed, PoweredOff
  <2>3. answered' > 0 => safe' >= answered'
    BY <1>0, <2>1, <2>2 DEF TurnSound, TurnTyped
  <2> QED
    BY <1>0, <2>2, <2>3, NoTurn
<1> QED
  BY <1>1, <1>2, <1>3, <1>4, <1>5, <1>6, <1>7, <1>8, <1>9, <1>10 DEF SessionNext, Turn

LEMMA ProjectStep == ASSUME SessionInv, SessionNext PROVE ProjectSound'
<1>0. TurnTyped /\ DiskTyped /\ TurnSound /\ ProjectSound
  BY DEF SessionInv
<1>a. host \notin {"streaming", "ending"} => agent = "none"
  BY <1>0 DEF TurnSound
<1>1. ASSUME Session PROVE ProjectSound'
  <2>1. CASE Boot \/ WarmCodex \/ SeedCache \/ DropOldCache \/ Execute \/ ImportStarts \/ ImportEnds
    <3>1. UNCHANGED <<proj, pjob, mount, agent, tornImport>>
      BY <2>1, Zenon DEF Boot, WarmCodex, SeedCache, DropOldCache, Execute, ImportStarts,
         ImportEnds, guestDiskVars, turnVars
    <3>2. agent = "none" /\ host' \notin {"spawn", "streaming"}
      BY <1>a, <2>1 DEF Boot, WarmCodex, SeedCache, DropOldCache, Execute, Ended, ImportStarts,
         ImportEnds
    <3> QED
      BY <1>0, <3>1, <3>2 DEF ProjectSound, ProjectVisible
  <2>2. CASE PrepareRun
    BY <1>0, <2>2 DEF PrepareRun, turnVars, ProjectSound, ProjectVisible, TurnTyped, DiskTyped, ProjectRec
  <2>3. CASE Spawn
    BY <1>0, <2>3 DEF Spawn, Ended, guestDiskVars, ProjectSound, ProjectVisible
  <2>4. CASE Shutdown
    BY <1>0, <2>4 DEF Shutdown, PoweredOff, ProjectSound, ProjectVisible, DiskTyped, ProjectRec
  <2> QED
    BY <1>1, <2>1, <2>2, <2>3, <2>4 DEF Session
<1>2. CASE Forward \/ Reap \/ SendExit \/ (\E kept \in BOOLEAN : HostReads(kept)) \/ Agent
         \/ Fails \/ ServiceExits
  <2>1. UNCHANGED <<proj, pjob, mount, tornImport>>
    BY <1>2, Zenon DEF Forward, Reap, SendExit, HostReads, Agent, AgentEdits, PrintOut, Exit, Fails,
       ServiceExits, guestDiskVars, turnVars
  <2>2. host' \in {"spawn", "streaming"} \/ agent' # "none"
          => host \in {"spawn", "streaming"} \/ agent # "none"
    BY <1>2 DEF Forward, Reap, SendExit, HostReads, Agent, AgentEdits, PrintOut, Exit, Fails, Ended,
       ServiceExits, guestDiskVars, turnVars
  <2> QED
    BY <1>0, <2>1, <2>2 DEF ProjectSound, ProjectVisible
<1>3. CASE SyncDisk
  <2>1. proj' = [proj EXCEPT !.synced = TRUE] /\ UNCHANGED <<host, pjob, mount, tornImport>> /\ agent # "none"
    BY <1>3 DEF SyncDisk, Drained
  <2> QED
    BY <1>0, <2>1 DEF ProjectSound, ProjectVisible, DiskTyped, ProjectRec
<1>4. ASSUME NEW ro \in BOOLEAN, OpenProject(ro) PROVE ProjectSound'
  <2>1. pjob = "none" /\ host = "streaming" /\ UNCHANGED <<host, agent, tornImport>>
    BY <1>4 DEF OpenProject, turnVars
  <2>2. CASE proj.rec # "none" \/ proj.at = "public"
    <3>1. /\ proj'.at = proj.at /\ proj'.whole = proj.whole /\ proj'.ro = ro
          /\ proj'.rec = (IF proj.rec = "none" THEN "own" ELSE proj.rec)
          /\ pjob' = "none"
      BY <1>0, <1>4, <2>1, <2>2 DEF OpenProject, DiskTyped, ProjectRec
    <3>2. mount' = IF proj.rec = "view" \/ ro \/ mount # "none"
                   THEN IF ro THEN "ro" ELSE "rw" ELSE mount
      BY <1>4, <2>2 DEF OpenProject
    <3>3. proj'.rec # "none" /\ (proj.whole \/ tornImport)
      BY <1>0, <2>2, <3>1 DEF ProjectSound
    <3>4. ro => mount' = "ro"
      BY <3>2
    <3> QED
      BY <2>1, <3>1, <3>3, <3>4 DEF ProjectSound, ProjectVisible
  <2>3. CASE ~(proj.rec # "none" \/ proj.at = "public")
    <3>1. /\ proj'.at = "staged" /\ proj'.rec = "none" /\ pjob' = "extract" /\ mount' = mount
      BY <1>4, <2>3 DEF OpenProject, NoProject
    <3> QED
      BY <1>0, <2>1, <2>3, <3>1 DEF ProjectSound, ProjectVisible
  <2> QED
    BY <2>2, <2>3
<1>5. ASSUME NEW ok \in BOOLEAN, Extract(ok) PROVE ProjectSound'
  <2>1. /\ pjob = "extract" /\ pjob' = "publish" /\ UNCHANGED <<host, agent, mount>>
        /\ proj'.at = proj.at /\ proj'.rec = proj.rec /\ proj'.ro = proj.ro /\ proj'.whole = ok
    BY <1>0, <1>5 DEF Extract, turnVars, DiskTyped, ProjectRec
  <2>2. ok \/ tornImport'
    BY <1>5, Zenon DEF Extract
  <2> QED
    BY <1>0, <2>1, <2>2 DEF ProjectSound, ProjectVisible
<1>6. CASE PublishProject
  <2>1. /\ pjob = "publish" /\ pjob' = "settle" /\ UNCHANGED <<host, agent, mount, tornImport>>
        /\ proj'.ro = proj.ro /\ proj'.whole = proj.whole
        /\ proj.ro => proj'.rec = "view" /\ proj'.at = proj.at
        /\ ~proj.ro => proj'.rec = proj.rec /\ proj'.at = "public"
    BY <1>0, <1>6 DEF PublishProject, turnVars, DiskTyped, ProjectRec
  <2>2. proj.rec = "none" /\ proj.at = "staged" /\ mount = "none" /\ (proj.whole \/ tornImport)
    BY <1>0, <2>1 DEF ProjectSound
  <2> QED
    BY <2>1, <2>2 DEF ProjectSound, ProjectVisible
<1>7. CASE SettleProject
  <2>1. /\ pjob = "settle" /\ pjob' = "sync" /\ UNCHANGED <<host, agent, tornImport>>
        /\ proj'.ro = proj.ro /\ proj'.whole = proj.whole
        /\ proj.ro => proj'.rec = proj.rec /\ mount' = "ro"
        /\ ~proj.ro => proj'.rec = "own" /\ mount' = mount
    BY <1>0, <1>7 DEF SettleProject, turnVars, DiskTyped, ProjectRec
  <2>2. proj.whole \/ tornImport
    BY <1>0, <2>1 DEF ProjectSound
  <2> QED
    BY <1>0, <2>1, <2>2 DEF ProjectSound, ProjectVisible
<1>8. CASE ImportSynced
  <2>1. /\ pjob = "sync" /\ pjob' = "none" /\ UNCHANGED <<host, agent, mount, tornImport>>
        /\ proj'.at = proj.at /\ proj'.rec = proj.rec /\ proj'.ro = proj.ro
        /\ proj'.whole = proj.whole
    BY <1>0, <1>8 DEF ImportSynced, turnVars, DiskTyped, ProjectRec
  <2> QED
    BY <1>0, <2>1 DEF ProjectSound, ProjectVisible
<1>9. CASE ImportFails
  <2>1. /\ pjob \in {"extract", "publish", "settle"} /\ pjob' = "none"
        /\ UNCHANGED <<host, agent, mount, proj, tornImport>>
    BY <1>9 DEF ImportFails, turnVars, guestDiskVars
  <2> QED
    BY <1>0, <2>1 DEF ProjectSound, ProjectVisible, TurnTyped
<1>10. CASE Killed
  <2>1. host' = "idle" /\ agent' = "none" /\ pjob' = "none" /\ mount' = "none"
    BY <1>10 DEF Killed, PoweredOff
  <2>2. proj' \in {proj, [proj EXCEPT !.whole = FALSE], [proj EXCEPT !.at = "staged"]}
    BY <1>10, Zenon DEF Killed
  <2>3. tornImport \/ (proj.whole /\ ~proj'.whole) => tornImport'
    BY <1>10, Zenon DEF Killed
  <2>4. proj'.at = "public" \/ proj'.rec # "none" => proj.at = "public" \/ proj.rec # "none"
    BY <1>0, <2>2 DEF DiskTyped, ProjectRec
  <2>5. proj'.at = "public" \/ proj'.rec # "none" => proj'.whole \/ tornImport'
    BY <1>0, <2>3, <2>4, Zenon DEF ProjectSound
  <2> QED
    BY <2>1, <2>5 DEF ProjectSound, ProjectVisible
<1> QED
  BY <1>1, <1>2, <1>3, <1>4, <1>5, <1>6, <1>7, <1>8, <1>9, <1>10
  DEF SessionNext, Turn, Project

LEMMA CacheStep == ASSUME SessionInv, SessionNext PROVE CacheKept'
<1>0. DiskTyped /\ CacheKept
  BY DEF SessionInv
<1>1. CASE SeedCache \/ DropOldCache
  BY <1>0, <1>1 DEF SeedCache, DropOldCache, DiskTyped, CacheKept
<1>2. CASE Shutdown
  BY <1>0, <1>2 DEF Shutdown, DiskTyped, CacheKept
<1>3. CASE Killed
  <2>1. PICK o \in {cache.old, cache.old \/ cache.new = "installed"} :
          cache' = [old |-> o, new |-> IF cache.new = "copied" THEN "none" ELSE cache.new]
    BY <1>3, Zenon DEF Killed
  <2>2. cache'.old = o /\ (cache.new = "installed" => cache'.new = "installed")
    BY <2>1
  <2> QED
    BY <1>0, <2>1, <2>2, Zenon DEF CacheKept
<1>4. CASE Elsewhere \/ SyncDisk \/ (Project /\ ~ImportFails)
  <2>1. cache' = cache
    BY <1>4, ElsewhereKeeps, Zenon DEF SyncDisk, Project, OpenProject, Extract, PublishProject,
       SettleProject, ImportSynced
  <2> QED
    BY <1>0, <2>1 DEF CacheKept
<1> QED
  BY <1>1, <1>2, <1>3, <1>4 DEF SessionNext, Session, Turn, Elsewhere

LEMMA SessionStutters == ASSUME SessionInv, UNCHANGED sessionVars PROVE SessionInv'
  BY DEF SessionInv, sessionVars, guestDiskVars, turnVars, TurnTyped, DiskTyped, MarkSound, TurnSound, Exited,
     ExitNotStuck, ProjectSound, ProjectVisible, CacheKept

LEMMA SessionInductive == ASSUME SessionInv, [SessionNext]_sessionVars PROVE SessionInv'
<1>1. CASE SessionNext
  BY <1>1, TurnTypes, DiskTypes, MarkStep, TurnStep, ProjectStep, CacheStep DEF SessionInv
<1>2. CASE UNCHANGED sessionVars
  BY <1>2, SessionStutters
<1> QED
  BY <1>1, <1>2

LEMMA SessionInvariant == SessionSpec => []SessionInv
  BY SessionInitially, SessionInductive, PTL DEF SessionSpec

----------------------------------------
(* The results.                                                            *)

\* For any number of edits, outputs and losses: a recorded exit has its output
\* logged and its disk synced, the agent sees whole data, a cache is never lost
\* while it moves, and nobody holds the events of an agent that was reaped
\* (guest.rs wait_agent, projects.rs, guest/filesystems.rs).
THEOREM SessionsKeepWork == SessionSpec => []SessionKeepsWork
<1>1. ASSUME SessionInv PROVE SessionKeepsWork
  <2>0. TurnTyped /\ MarkSound /\ TurnSound /\ ProjectSound /\ CacheKept
    BY <1>1 DEF SessionInv
  <2>1. ExitMeansKept
    <3>1. ASSUME wire # <<>>, Head(wire) = "exit" PROVE out.logged = out.made
      <4>1. Head(wire) = wire[1] /\ Len(wire) \in Nat \ {0}
        BY <2>0, <3>1, Shortened DEF TurnTyped
      <4>2. Len(wire) = 1
        <5>1. \A i \in 1..Len(wire) : wire[i] = "exit" => i = Len(wire)
          BY <2>0 DEF TurnSound
        <5>2. 1 \in 1..Len(wire) /\ wire[1] = "exit"
          BY <3>1, <4>1
        <5> QED
          BY <5>1, <5>2, Zenon
      <4>3. Exited
        BY <3>1, <4>1, <4>2 DEF Exited
      <4> QED
        BY <2>0, <4>2, <4>3 DEF TurnSound, TurnTyped, Out
    <3> QED
      BY <2>0, <3>1 DEF ExitMeansKept, TurnSound
  <2>2. AgentSeesWhole
    BY <2>0 DEF AgentSeesWhole, MarkSound, ProjectSound, ProjectVisible
  <2> QED
    BY <2>0, <2>1, <2>2 DEF SessionKeepsWork, TurnSound
<1> QED
  BY <1>1, SessionInvariant, PTL

\* The agent's edits are lost to a killed VM alone, down to the last sync at
\* most, and never to an import: the disk is marked before an agent exists, and
\* nothing is imported over a marked disk (guest.rs prepare_run, vm.rs execute).
THEOREM EditsSurviveImports == SessionSpec => WorkNotOverwritten
<1>1. ASSUME SessionInv, [SessionNext]_sessionVars
      PROVE  [work > Imported /\ work' < work => vm' = "off" /\ work' >= safe]_sessionVars
  <2>0. TurnTyped /\ MarkSound
    BY <1>1 DEF SessionInv
  <2>1. CASE Killed
    <3>1. PICK n \in safe .. work : work' = n
      BY <2>1 DEF Killed
    <3> QED
      BY <2>0, <2>1, <3>1 DEF Killed, PoweredOff, TurnTyped
  <2>2. CASE ImportStarts
    BY <2>0, <2>2 DEF ImportStarts, MarkSound, TurnTyped, Imported
  <2>3. CASE ImportEnds
    BY <2>0, <2>3 DEF ImportEnds, MarkSound, TurnTyped, Imported
  <2>4. CASE AgentEdits
    BY <2>0, <2>4 DEF AgentEdits, TurnTyped
  <2>5. CASE UNCHANGED sessionVars
    BY <2>0, <2>5 DEF TurnTyped
  <2>6. CASE SessionNext /\ ~(Killed \/ ImportStarts \/ ImportEnds \/ AgentEdits)
    <3>1. work' = work
      BY <2>6, Zenon DEF SessionNext, Session, Turn, Agent, Project, Boot, SeedCache, DropOldCache,
         WarmCodex, Execute, PrepareRun, Spawn, Shutdown, Forward, Reap, SyncDisk, SendExit,
         HostReads, PrintOut, Exit, OpenProject, Extract, PublishProject, SettleProject,
         ImportSynced, ImportFails, Fails, ServiceExits, guestDiskVars
    <3> QED
      BY <2>0, <3>1 DEF TurnTyped
  <2> QED
    BY <1>1, <2>1, <2>2, <2>3, <2>4, <2>5, <2>6
<1> QED
  BY <1>1, SessionInvariant, PTL DEF SessionSpec, WorkNotOverwritten

----------------------------------------
(***************************************************************************)
(* Nothing a task relies on is removed under it, for any number of tasks,  *)
(* configurations, images and restarts.                                    *)
(***************************************************************************)

Pcs == {"idle", "lock", "pin", "select", "boot", "capture", "install", "clone", "running"}
TaskRec == [pc : Pcs, key : Keys \cup {NoImage}, build : BOOLEAN, img : Images \cup {NoImage}]

TemplatesTyped ==
  /\ current \in Images
  /\ disks \in [Tasks -> Images \cup {NoImage}]
  /\ task \in [Tasks -> TaskRec]

\* A reader of the cache keeps the template it found, and a reader of the life
\* of the images the image it selected.
ReadersSafe ==
  /\ \A t \in Tasks : At(t, "clone") => t \in pins /\ Name(task[t].key) \in installed
  /\ \A t \in Tasks : At(t, "boot") => t \in holds /\ task[t].img \in images

\* What a record names is on the node, and so is the controller's own image.
RecordsSafe ==
  /\ current \in images
  /\ \A t \in Tasks : disks[t] # NoImage => disks[t] \in images
  /\ \A x \in installed : x[2] \in images

\* No two templates are each older than the other, so one is kept at most.
RecencySound ==
  /\ \A x, y : <<x, y>> \in recent /\ <<y, x>> \in recent => x = y
  /\ Cardinality(installed) <= 2

TemplatesInv == TemplatesTyped /\ ReadersSafe /\ RecordsSafe /\ RecencySound

----------------------------------------
LEMMA PairSmall ==
  ASSUME NEW a, NEW b, NEW S, S \subseteq {a, b}
  PROVE  Cardinality(S) <= 2
<1>1. IsFiniteSet({a}) /\ Cardinality({a}) = 1
  BY FS_Singleton
<1>2. IsFiniteSet({a} \cup {b}) /\ Cardinality({a} \cup {b}) <= 2
  BY <1>1, FS_AddElement
<1>3. {a} \cup {b} = {a, b}
  OBVIOUS
<1>4. IsFiniteSet({a, b}) /\ Cardinality({a, b}) \in Nat /\ Cardinality({a, b}) <= 2
  BY <1>2, <1>3, FS_CardinalityType
<1>5. IsFiniteSet(S) /\ Cardinality(S) <= Cardinality({a, b})
  BY <1>4, FS_Subset
<1>6. Cardinality(S) \in Nat
  BY <1>5, FS_CardinalityType
<1> QED
  BY <1>4, <1>5, <1>6

LEMMA TemplatesInitially == TemplatesInit => TemplatesInv
<1> SUFFICES ASSUME TemplatesInit PROVE TemplatesInv
  OBVIOUS
<1>1. TemplatesTyped
  BY DEF TemplatesInit, TemplatesTyped, TaskRec, Pcs, NoTask
<1>2. ReadersSafe
  BY DEF TemplatesInit, ReadersSafe, At, NoTask
<1>3. RecordsSafe
  BY DEF TemplatesInit, RecordsSafe
<1>4. RecencySound
  BY FS_EmptySet DEF TemplatesInit, RecencySound
<1> QED
  BY <1>1, <1>2, <1>3, <1>4 DEF TemplatesInv

LEMMA TemplatesTypes == ASSUME TemplatesInv, TemplatesNext PROVE TemplatesTyped'
<1>0. TemplatesTyped
  BY DEF TemplatesInv
<1> USE DEF TemplatesTyped
<1>1. CASE Collect
  BY <1>0, <1>1 DEF Collect
<1>2. CASE Restart
  BY <1>0, <1>2 DEF Restart, NoTask, TaskRec, Pcs
<1>3. ASSUME NEW t \in Tasks, NEW k \in Keys, NEW b \in BOOLEAN, Begin(t, k, b) PROVE TemplatesTyped'
  <2>1. [NoTask EXCEPT !.key = k, !.build = b, !.pc = IF b THEN "lock" ELSE "pin"] \in TaskRec
    BY DEF NoTask, TaskRec, Pcs
  <2> QED
    BY <1>0, <1>3, <2>1 DEF Begin
<1>4. ASSUME NEW t \in Tasks, NEW b \in BOOLEAN, Capture(t, b) \/ Quit(t, b) PROVE TemplatesTyped'
  <2>1. NoTask \in TaskRec
    BY DEF NoTask, TaskRec, Pcs
  <2>2. CASE Capture(t, b)
    BY <1>0, <2>2 DEF Capture, Goto, TaskRec, Pcs
  <2>3. CASE Quit(t, b)
    BY <1>0, <2>1, <2>3 DEF Quit
  <2> QED
    BY <1>4, <2>2, <2>3
<1>5. ASSUME NEW t \in Tasks, LockBuild(t) \/ Pin(t) \/ CloneDisk(t) \/ Install(t) PROVE TemplatesTyped'
  <2>1. \E pc \in Pcs : Goto(t, pc)
    BY <1>5 DEF LockBuild, Pin, CloneDisk, Install, Pcs
  <2>2. current' = current /\ (disks' = disks \/ disks' = [disks EXCEPT ![t] = current])
    BY <1>5 DEF LockBuild, Pin, CloneDisk, Install
  <2> QED
    BY <1>0, <2>1, <2>2 DEF Goto, TaskRec
<1>6. ASSUME NEW t \in Tasks, Select(t) PROVE TemplatesTyped'
  <2>1. PICK i : i = (IF disks[t] = NoImage THEN current ELSE disks[t])
    OBVIOUS
  <2>2. i \in Images \cup {NoImage}
    BY <1>0, <2>1
  <2>3. task' = [task EXCEPT ![t] = [task[t] EXCEPT !.pc = "boot", !.img = i]]
    BY <1>0, <1>6, <2>1 DEF Select
  <2>4. [task[t] EXCEPT !.pc = "boot", !.img = i] \in TaskRec
    BY <1>0, <2>2 DEF TaskRec, Pcs
  <2> QED
    BY <1>0, <1>6, <2>3, <2>4 DEF Select
<1>7. ASSUME NEW t \in Tasks, BootFrom(t) PROVE TemplatesTyped'
  <2>1. \E pc \in Pcs : Goto(t, pc)
    BY <1>7 DEF BootFrom, Pcs
  <2>2. current' = current /\ disks' = [disks EXCEPT ![t] = task[t].img]
    BY <1>7 DEF BootFrom
  <2> QED
    BY <1>0, <2>1, <2>2 DEF Goto, TaskRec
<1>8. ASSUME NEW t \in Tasks, BootAgain(t) PROVE TemplatesTyped'
  BY <1>0, <1>8 DEF BootAgain, NoTask, TaskRec, Pcs
<1> QED
  BY <1>1, <1>2, <1>3, <1>4, <1>5, <1>6, <1>7, <1>8 DEF TemplatesNext

LEMMA ReadersStep == ASSUME TemplatesInv, TemplatesNext PROVE ReadersSafe'
<1>0. TemplatesTyped /\ ReadersSafe /\ RecordsSafe
  BY DEF TemplatesInv
<1> USE DEF TemplatesTyped, ReadersSafe, At, Name
<1>1. CASE Collect
  BY <1>0, <1>1 DEF Collect
<1>2. CASE Restart
  BY <1>0, <1>2 DEF Restart, NoTask
<1>3. ASSUME NEW t \in Tasks, NEW k \in Keys, NEW b \in BOOLEAN, Begin(t, k, b) PROVE ReadersSafe'
  BY <1>0, <1>3 DEF Begin, NoTask
<1>4. ASSUME NEW t \in Tasks, NEW b \in BOOLEAN, Capture(t, b) PROVE ReadersSafe'
  BY <1>0, <1>4 DEF Capture, Goto, TaskRec
<1>5. ASSUME NEW t \in Tasks, NEW b \in BOOLEAN, Quit(t, b) PROVE ReadersSafe'
  BY <1>0, <1>5 DEF Quit, NoTask
<1>6. ASSUME NEW t \in Tasks, LockBuild(t) PROVE ReadersSafe'
  BY <1>0, <1>6 DEF LockBuild, Goto, TaskRec
<1>7. ASSUME NEW t \in Tasks, Select(t) PROVE ReadersSafe'
  <2>1. PICK i : i = (IF disks[t] = NoImage THEN current ELSE disks[t])
    OBVIOUS
  <2>2. i \in images
    BY <1>0, <2>1 DEF RecordsSafe
  <2>3. task' = [task EXCEPT ![t] = [task[t] EXCEPT !.pc = "boot", !.img = i]]
    BY <1>0, <1>7, <2>1 DEF Select
  <2>4. task'[t].pc = "boot" /\ task'[t].img = i /\ \A u \in Tasks \ {t} : task'[u] = task[u]
    BY <1>0, <2>3 DEF TaskRec
  <2>5. holds' = holds \cup {t} /\ UNCHANGED <<current, images, installed, pins>>
    BY <1>7 DEF Select
  <2> QED
    BY <1>0, <2>2, <2>4, <2>5
<1>8. ASSUME NEW t \in Tasks, BootFrom(t) PROVE ReadersSafe'
  <2>1. /\ task'[t].pc \in {"capture", "running"} /\ \A u \in Tasks \ {t} : task'[u] = task[u]
        /\ holds' = holds \ {t} /\ (pins' = pins \/ pins' = pins \ {t})
        /\ UNCHANGED <<current, images, installed>>
    BY <1>0, <1>8 DEF BootFrom, Goto, TaskRec
  <2> QED
    BY <1>0, <2>1
<1>9. ASSUME NEW t \in Tasks, Install(t) PROVE ReadersSafe'
  <2>1. /\ task'[t].pc = "pin" /\ \A u \in Tasks \ {t} : task'[u] = task[u]
        /\ pins = {} /\ UNCHANGED <<current, images, pins, holds>>
    BY <1>0, <1>9 DEF Install, Goto, TaskRec
  <2> QED
    BY <1>0, <2>1
<1>10. ASSUME NEW t \in Tasks, Pin(t) PROVE ReadersSafe'
  <2>1. CASE TemplatesOf(task[t].key) = {}
    BY <1>0, <1>10, <2>1 DEF Pin, Goto, TaskRec
  <2>2. CASE TemplatesOf(task[t].key) # {}
    <3>1. Name(task[t].key) \in installed
      BY <2>2 DEF TemplatesOf
    <3>2. /\ task'[t].pc = "clone" /\ task'[t].key = task[t].key
          /\ \A u \in Tasks \ {t} : task'[u] = task[u]
          /\ pins' = pins \cup {t} /\ UNCHANGED <<current, images, installed, holds>>
      BY <1>0, <1>10, <2>2 DEF Pin, Goto, TaskRec
    <3> QED
      BY <1>0, <3>1, <3>2
  <2> QED
    BY <2>1, <2>2
<1>11. ASSUME NEW t \in Tasks, CloneDisk(t) PROVE ReadersSafe'
  BY <1>0, <1>11 DEF CloneDisk, Goto, TaskRec
<1>12. ASSUME NEW t \in Tasks, BootAgain(t) PROVE ReadersSafe'
  BY <1>0, <1>12 DEF BootAgain, NoTask
<1> QED
  BY <1>1, <1>2, <1>3, <1>4, <1>5, <1>6, <1>7, <1>8, <1>9, <1>10, <1>11, <1>12 DEF TemplatesNext

LEMMA RecordsStep == ASSUME TemplatesInv, TemplatesNext PROVE RecordsSafe'
<1>0. TemplatesTyped /\ ReadersSafe /\ RecordsSafe
  BY DEF TemplatesInv
<1> USE DEF TemplatesTyped, RecordsSafe
<1>1. CASE Collect
  <2>1. /\ images' = images \cap (Referenced \cup {current})
        /\ UNCHANGED <<current, installed, disks>>
    BY <1>1 DEF Collect
  <2>2. /\ \A t \in Tasks : disks[t] \in Referenced
        /\ \A x \in installed : x[2] \in Referenced
    BY DEF Referenced, PinnedByDisks
  <2> QED
    BY <1>0, <2>1, <2>2
<1>2. CASE Restart
  BY <1>0, <1>2 DEF Restart
<1>3. ASSUME NEW t \in Tasks, NEW k \in Keys, NEW b \in BOOLEAN, Begin(t, k, b) PROVE RecordsSafe'
  BY <1>0, <1>3 DEF Begin
<1>4. ASSUME NEW t \in Tasks, NEW b \in BOOLEAN, Capture(t, b) \/ Quit(t, b) PROVE RecordsSafe'
  BY <1>0, <1>4 DEF Capture, Quit
<1>5. ASSUME NEW t \in Tasks, LockBuild(t) \/ Select(t) \/ Pin(t) \/ BootAgain(t)
      PROVE  RecordsSafe'
  BY <1>0, <1>5 DEF LockBuild, Select, Pin, BootAgain
<1>6. ASSUME NEW t \in Tasks, BootFrom(t) PROVE RecordsSafe'
  <2>1. /\ task[t].img \in images /\ disks' = [disks EXCEPT ![t] = task[t].img]
        /\ UNCHANGED <<current, images, installed>>
    BY <1>0, <1>6 DEF BootFrom, ReadersSafe, At
  <2> QED
    BY <1>0, <2>1
<1>7. ASSUME NEW t \in Tasks, Install(t) PROVE RecordsSafe'
  <2>1. /\ installed' = Pruned(task[t].key) /\ UNCHANGED <<current, images, disks>>
    BY <1>7 DEF Install
  <2>2. \A x \in Pruned(task[t].key) : x \in installed \/ x = Name(task[t].key)
    BY DEF Pruned
  <2>3. Name(task[t].key)[2] = current
    BY DEF Name
  <2> QED
    BY <1>0, <2>1, <2>2, <2>3
<1>8. ASSUME NEW t \in Tasks, CloneDisk(t) PROVE RecordsSafe'
  BY <1>0, <1>8 DEF CloneDisk
<1> QED
  BY <1>1, <1>2, <1>3, <1>4, <1>5, <1>6, <1>7, <1>8 DEF TemplatesNext

LEMMA TouchSound ==
  ASSUME NEW k, NEW all, RecencySound
  PROVE  \A x, y : <<x, y>> \in Touch(k, all) /\ <<y, x>> \in Touch(k, all) => x = y
<1> SUFFICES ASSUME NEW x, NEW y, <<x, y>> \in Touch(k, all), <<y, x>> \in Touch(k, all), x # y
             PROVE  FALSE
  OBVIOUS
<1>1. ASSUME NEW u, NEW v, <<u, v>> \in Touch(k, all)
      PROVE  u # Name(k) /\ (<<u, v>> \in recent \/ v = Name(k))
  BY <1>1 DEF Touch
<1>2. <<x, y>> \in recent /\ <<y, x>> \in recent
  BY <1>1
<1> QED
  BY <1>2 DEF RecencySound

LEMMA RecencyStep == ASSUME TemplatesInv, TemplatesNext PROVE RecencySound'
<1>0. RecencySound
  BY DEF TemplatesInv
<1>1. ASSUME NEW t \in Tasks, Install(t) PROVE RecencySound'
  <2> DEFINE k == task[t].key
             old == installed \ {Name(k)}
             newest == {x \in old : \A y \in old \ {x} : <<y, x>> \in recent}
  <2>1. installed' = {Name(k)} \cup newest /\ recent' = Touch(k, Pruned(k))
    BY <1>1 DEF Install, Pruned
  <2>2. PICK a : newest \subseteq {a}
    <3>1. ASSUME NEW a \in newest, NEW b \in newest PROVE a = b
      BY <1>0, <3>1 DEF RecencySound
    <3> QED
      BY <3>1
  <2>3. installed' \subseteq {Name(k), a}
    BY <2>1, <2>2
  <2>4. Cardinality(installed') <= 2
    BY <2>3, PairSmall
  <2> QED
    BY <1>0, <2>1, <2>4, TouchSound DEF RecencySound
<1>2. ASSUME NEW t \in Tasks, CloneDisk(t) PROVE RecencySound'
  <2>1. installed' = installed /\ recent' = Touch(task[t].key, installed)
    BY <1>2 DEF CloneDisk
  <2> QED
    BY <1>0, <2>1, TouchSound DEF RecencySound
<1>3. CASE UNCHANGED <<installed, recent>>
  BY <1>0, <1>3 DEF RecencySound
<1>4. TemplatesNext => UNCHANGED <<installed, recent>> \/ \E t \in Tasks : Install(t) \/ CloneDisk(t)
  BY Zenon DEF TemplatesNext, Collect, Restart, Begin, Capture, Quit, LockBuild, Select, BootFrom, Pin,
     BootAgain
<1> QED
  BY <1>1, <1>2, <1>3, <1>4

LEMMA TemplatesInductive == ASSUME TemplatesInv, [TemplatesNext]_templateVars PROVE TemplatesInv'
<1>1. CASE TemplatesNext
  BY <1>1, TemplatesTypes, ReadersStep, RecordsStep, RecencyStep DEF TemplatesInv
<1>2. CASE UNCHANGED templateVars
  BY <1>2 DEF templateVars, TemplatesInv, TemplatesTyped, ReadersSafe, RecordsSafe, RecencySound, At, Name
<1> QED
  BY <1>1, <1>2

----------------------------------------
\* Whatever is built, pruned, collected or restarted meanwhile: the template a
\* task clones is installed, the image it boots and every image a disk or a
\* template names is on the node, and two templates are kept at most
\* (snapshots.rs prepare_inner and prune, images.rs collect).
THEOREM ReferencesKept == TemplatesSpec => []ReferencedKept
<1>1. TemplatesInv => ReferencedKept
  <2> SUFFICES ASSUME TemplatesInv PROVE ReferencedKept
    OBVIOUS
  <2>0. ReadersSafe /\ RecordsSafe /\ RecencySound
    BY DEF TemplatesInv
  <2>1. \A t \in Tasks : At(t, "clone") => TemplatesOf(task[t].key) # {}
    BY <2>0 DEF ReadersSafe, TemplatesOf
  <2>2. \A t \in Tasks : At(t, "boot") => task[t].img \in images
    BY <2>0 DEF ReadersSafe
  <2>3. Referenced \ {NoImage} \subseteq images
    BY <2>0 DEF RecordsSafe, Referenced, PinnedByDisks
  <2> QED
    BY <2>0, <2>1, <2>2, <2>3 DEF ReferencedKept, RecencySound
<1> QED
  BY <1>1, TemplatesInitially, TemplatesInductive, PTL DEF TemplatesSpec

----------------------------------------
(***************************************************************************)
(* No working credentials are lost to a failed write or a crash, and no    *)
(* banked reset is spent twice, for any number of credentials, requests    *)
(* and mishaps.                                                            *)
(***************************************************************************)

Steps == {"idle", "open", "reset", "consume", "confirm", "reread", "save", "closing", "restoring"}
SessionRec == [purpose : Purposes, why : {"none", "poll", "discover", "rotate", "adopt"},
               step : Steps, failed : BOOLEAN, confirmed : BOOLEAN]

StoresTyped ==
  /\ lastIssued \in Nat /\ 0 \notin valid
  /\ vault \in Nat /\ previous \in Nat /\ homes \in [Purposes -> Nat]
  /\ session \in SessionRec

\* Unless a copy was exposed: one home at most holds credentials, they are the
\* ones the provider accepts, and without a home the vault's are.
NewestAccepted ==
  ~exposed =>
    /\ \A p, q \in Purposes : homes[p] # 0 /\ homes[q] # 0 => p = q
    /\ \A p \in Purposes : homes[p] # 0 => homes[p] \in valid
    /\ (\A p \in Purposes : homes[p] = 0) => vault \in valid

RequestTyped ==
  /\ unshown \in Nat /\ keys \in Nat /\ redeemed \subseteq Nat \ {0}
  /\ attempt \in [key : Nat, confirmed : BOOLEAN]
  /\ attempt.key = 0 => attempt = NoAttempt

\* A reset that was spent and not shown yet is the one of the persisted request.
RequestKept ==
  /\ unshown <= 1
  /\ unshown > 0 => attempt.key \in redeemed
  /\ session.step \in {"consume", "confirm"} => attempt.key # 0
  /\ session.step = "reset" /\ reading = "restored" => unshown = 0

CredentialsInv == StoresTyped /\ NewestAccepted /\ RequestTyped /\ RequestKept

----------------------------------------
LEMMA NoSessionTyped == NoSession \in SessionRec
  BY DEF NoSession, SessionRec, Steps, Purposes

LEMMA CredentialsInitially == CredentialsInit => CredentialsInv
<1> SUFFICES ASSUME CredentialsInit PROVE CredentialsInv
  OBVIOUS
<1>1. StoresTyped /\ NewestAccepted
  BY NoSessionTyped DEF CredentialsInit, StoresTyped, NewestAccepted, Purposes
<1>2. RequestTyped
  BY DEF CredentialsInit, RequestTyped, NoAttempt
<1>3. RequestKept
  BY DEF CredentialsInit, RequestKept, NoSession
<1> QED
  BY <1>1, <1>2, <1>3 DEF CredentialsInv

(* The steps that neither store nor issue credentials.                     *)
StoresNothing ==
  \/ StartFails \/ OperationEnds \/ CloseFails \/ ReadUsage \/ Reset \/ Consume
  \/ ConsumeUnanswered \/ ConsumeRefused \/ Confirm \/ Reread \/ SaveUsage \/ UsageChanges
  \/ ClaudeAdopt \/ ClaudeRefresh \/ ClaudeRotate \/ ClaudePersist \/ Crash \/ Initialized

LEMMA StoresNothingKeeps ==
  ASSUME StoresNothing PROVE UNCHANGED <<vault, homes, valid, lastIssued, exposed>>
  BY Zenon DEF StoresNothing, StartFails, OperationEnds, CloseFails, ReadUsage, Reset, Consume,
     ConsumeUnanswered, ConsumeRefused, Confirm, Reread, SaveUsage, UsageChanges, ClaudeAdopt,
     ClaudeRefresh, ClaudeRotate, ClaudePersist, Crash, Initialized, credentialVars

LEMMA SessionTypes == ASSUME StoresTyped, RequestTyped, CredentialsNext PROVE session' \in SessionRec
<1>0. session \in SessionRec
  BY DEF StoresTyped
<1>1. ASSUME NEW p \in Purposes, NEW why \in {"none", "poll", "discover", "rotate", "adopt"},
             session' = [NoSession EXCEPT !.purpose = p, !.why = why, !.step = "open"]
      PROVE  session' \in SessionRec
  BY <1>1, NoSessionTyped DEF SessionRec, Steps
<1>2. CASE StartSession
  <2>1. PICK use \in {<<"monitor", "poll">>, <<"discovery", "discover">>, <<"monitor", "rotate">>} :
          OpenSession(use[1], use[2])
    BY <1>2 DEF StartSession
  <2>2. use[1] \in Purposes /\ use[2] \in {"none", "poll", "discover", "rotate", "adopt"}
    BY <2>1 DEF Purposes
  <2> QED
    BY <1>1, <2>1, <2>2 DEF OpenSession
<1>3. CASE Adopt
  BY <1>3, NoSessionTyped DEF Adopt, SessionRec, Steps
<1>4. ASSUME NEW step \in Steps, NEW b \in BOOLEAN,
             \/ session' = [session EXCEPT !.step = step]
             \/ session' = [session EXCEPT !.step = step, !.failed = b]
             \/ session' = [session EXCEPT !.step = step, !.confirmed = b]
      PROVE  session' \in SessionRec
  BY <1>0, <1>4, Zenon DEF SessionRec
<1>5. CASE session' = NoSession \/ session' = session
  BY <1>0, <1>5, NoSessionTyped
<1>6. CASE Close \/ CloseFails \/ OperationEnds
  BY <1>4, <1>5, <1>6 DEF Close, CloseFails, OperationEnds, Step, Steps
<1>7. CASE Reset
  <2>1. (attempt.confirmed /\ reading = "restored") \in BOOLEAN
    OBVIOUS
  <2>2. \/ Step("save") \/ Step("consume")
        \/ session' = [session EXCEPT !.step = "save", !.confirmed = attempt.confirmed /\ reading = "restored"]
    BY <1>7, Zenon DEF Reset
  <2> QED
    BY <1>4, <2>1, <2>2 DEF Step, Steps
<1>8. CASE Reread
  <2>1. (capacity = "restored") \in BOOLEAN
    OBVIOUS
  <2>2. Step("save") \/ session' = [session EXCEPT !.step = "save", !.confirmed = capacity = "restored"]
    BY <1>8, Zenon DEF Reread
  <2> QED
    BY <1>4, <2>1, <2>2 DEF Step, Steps
<1>9. CASE ReadUsage \/ Consume \/ ConsumeUnanswered \/ ConsumeRefused \/ Confirm \/ SaveUsage
  <2>1. \E step \in Steps : Step(step)
    BY <1>9 DEF ReadUsage, Consume, ConsumeUnanswered, ConsumeRefused, Confirm, SaveUsage, Steps
  <2> QED
    BY <1>4, <2>1 DEF Step
<1>10. CASE StartFails \/ CliRotates \/ RestorePrevious \/ UsageChanges \/ ClaudeAdopt \/ ClaudeRefresh
            \/ ClaudeRotate \/ ClaudePersist \/ Crash \/ (\E p \in Purposes : RecoverSession(p)) \/ Initialized
  BY <1>5, <1>10 DEF StartFails, CliRotates, RestorePrevious, UsageChanges, ClaudeAdopt, ClaudeRefresh,
     ClaudeRotate, ClaudePersist, Crash, RecoverSession, Initialized, credentialVars
<1> QED
  BY <1>2, <1>3, <1>6, <1>7, <1>8, <1>9, <1>10 DEF CredentialsNext

LEMMA PreviousTypes == ASSUME StoresTyped, CredentialsNext PROVE previous' \in Nat
<1>1. previous' \in {previous, vault, 0}
  BY Zenon DEF CredentialsNext, StartSession, StartFails, CliRotates, OperationEnds, Close, CloseFails,
     Adopt, RestorePrevious, ReadUsage, Reset, Consume, ConsumeUnanswered, ConsumeRefused, Confirm,
     Reread, SaveUsage, UsageChanges, ClaudeAdopt, ClaudeRefresh, ClaudeRotate, ClaudePersist, Crash,
     RecoverSession, Initialized, credentialVars
<1> QED
  BY <1>1 DEF StoresTyped

LEMMA StoresStep ==
  ASSUME CredentialsInv, CredentialsNext PROVE StoresTyped' /\ NewestAccepted'
<1>0. StoresTyped /\ NewestAccepted /\ session.purpose \in Purposes
  BY DEF CredentialsInv, StoresTyped, SessionRec
<1>a. session' \in SessionRec /\ previous' \in Nat
  BY SessionTypes, PreviousTypes DEF CredentialsInv
<1> USE DEF StoresTyped, NewestAccepted
<1>1. CASE StoresNothing
  BY <1>0, <1>a, <1>1, StoresNothingKeeps
<1>2. ASSUME NEW p \in Purposes, NEW why, OpenSession(p, why), UNCHANGED <<valid, lastIssued>>
      PROVE  StoresTyped' /\ NewestAccepted'
  <2>1. /\ homes' = [homes EXCEPT ![p] = vault']
        /\ vault' = IF homes[p] # 0 THEN homes[p] ELSE vault
    BY <1>2 DEF OpenSession, Captured
  <2>2. ~exposed' => ~exposed /\ \A q \in Purposes \ {p} : homes[q] = 0
    BY <1>2, Zenon DEF OpenSession
  <2>3. vault' \in Nat /\ homes' \in [Purposes -> Nat]
    BY <1>0, <2>1
  <2>4. ~exposed' => vault' \in valid
    BY <1>0, <2>1, <2>2
  <2> QED
    BY <1>0, <1>a, <1>2, <2>1, <2>2, <2>3, <2>4
<1>3. CASE StartSession
  BY <1>2, <1>3 DEF StartSession, Purposes
<1>4. CASE CliRotates
  <2>1. PICK p \in Purposes : p = session.purpose
    BY <1>0
  <2>2. /\ homes[p] \in valid /\ lastIssued' = lastIssued + 1
        /\ valid' = (valid \ {homes[p]}) \cup {lastIssued'}
        /\ homes' = [homes EXCEPT ![p] = lastIssued'] /\ UNCHANGED <<vault, exposed>>
    BY <1>4, <2>1 DEF CliRotates
  <2>3. homes[p] # 0 /\ lastIssued' \in Nat \ {0}
    BY <1>0, <2>2
  <2> QED
    BY <1>0, <1>a, <2>2, <2>3
<1>5. CASE Close
  <2>1. PICK p \in Purposes : p = session.purpose
    BY <1>0
  <2>2. /\ homes[p] # 0 /\ vault' = homes[p] /\ homes' = [homes EXCEPT ![p] = 0]
        /\ UNCHANGED <<valid, lastIssued, exposed>>
    BY <1>5, <2>1 DEF Close, Captured
  <2> QED
    BY <1>0, <1>a, <2>2
<1>6. CASE Adopt
  <2>1. /\ lastIssued' = lastIssued + 1 /\ valid' = valid \cup {lastIssued'}
        /\ vault' = IF homes["monitor"] # 0 THEN homes["monitor"] ELSE lastIssued'
        /\ homes' = [homes EXCEPT !["monitor"] = vault']
    BY <1>6 DEF Adopt
  <2>2. ~exposed' => ~exposed /\ homes["discovery"] = 0
    BY <1>6, Zenon DEF Adopt
  <2>3. "monitor" \in Purposes /\ \A q \in Purposes \ {"monitor"} : q = "discovery"
    BY DEF Purposes
  <2>4. vault' \in Nat /\ homes' \in [Purposes -> Nat] /\ lastIssued' \in Nat \ {0}
    BY <1>0, <2>1, <2>3
  <2>5. ~exposed' => vault' \in valid'
    BY <1>0, <2>1, <2>2, <2>3
  <2> QED
    BY <1>0, <1>a, <2>1, <2>2, <2>3, <2>4, <2>5
<1>7. CASE RestorePrevious
  BY <1>0, <1>a, <1>7 DEF RestorePrevious
<1>8. ASSUME NEW p \in Purposes, RecoverSession(p) PROVE StoresTyped' /\ NewestAccepted'
  <2>2. /\ homes[p] # 0 /\ vault' = homes[p] /\ homes' = [homes EXCEPT ![p] = 0]
        /\ UNCHANGED <<valid, lastIssued, exposed>>
    BY <1>8 DEF RecoverSession, Captured
  <2> QED
    BY <1>0, <1>a, <2>2
<1> QED
  BY <1>1, <1>3, <1>4, <1>5, <1>6, <1>7, <1>8 DEF CredentialsNext, StoresNothing

(* The steps that touch neither the request nor what it waits for.         *)
RequestAside ==
  \/ StartFails \/ CliRotates \/ RestorePrevious \/ ClaudeAdopt \/ ClaudeRefresh \/ ClaudeRotate
  \/ ClaudePersist \/ Crash \/ (\E p \in Purposes : RecoverSession(p)) \/ Initialized
  \/ StartSession \/ Adopt \/ Close \/ CloseFails \/ OperationEnds \/ SaveUsage

LEMMA RequestAsideKeeps ==
  ASSUME StoresTyped, RequestAside
  PROVE  /\ UNCHANGED <<unshown, keys, redeemed, attempt, reading>>
         /\ session' = session \/ session'.step \notin {"consume", "confirm", "reset"}
<1>0. session \in SessionRec
  BY DEF StoresTyped
<1>1. UNCHANGED <<unshown, keys, redeemed, attempt, reading>>
  BY Zenon DEF RequestAside, StartFails, CliRotates, RestorePrevious, ClaudeAdopt, ClaudeRefresh,
     ClaudeRotate, ClaudePersist, Crash, RecoverSession, Initialized, StartSession, Adopt, Close,
     CloseFails, OperationEnds, SaveUsage, resetVars
<1>2. CASE StartFails \/ CliRotates \/ ClaudeAdopt \/ ClaudeRefresh \/ ClaudeRotate \/ ClaudePersist
           \/ (\E p \in Purposes : RecoverSession(p)) \/ Initialized
  BY <1>1, <1>2, Zenon DEF StartFails, CliRotates, ClaudeAdopt, ClaudeRefresh, ClaudeRotate, ClaudePersist,
     RecoverSession, Initialized, credentialVars
<1>3. CASE RestorePrevious \/ Crash
  BY <1>1, <1>3 DEF RestorePrevious, Crash, NoSession
<1>4. CASE StartSession \/ Adopt
  BY <1>1, <1>4 DEF StartSession, OpenSession, Adopt, NoSession
<1>5. CASE Close \/ CloseFails
  <2>1. NoSession.step = "idle"
    BY DEF NoSession
  <2>2. \/ session' = NoSession
        \/ session' = [session EXCEPT !.step = "restoring"]
        \/ session' = [session EXCEPT !.step = "restoring", !.failed = TRUE]
    BY <1>5, Zenon DEF Close, CloseFails
  <2>3. session' = NoSession \/ session'.step = "restoring"
    BY <1>0, <2>2 DEF SessionRec
  <2> QED
    BY <1>1, <2>1, <2>3
<1>6. CASE OperationEnds \/ SaveUsage
  BY <1>0, <1>1, <1>6 DEF OperationEnds, SaveUsage, Step, SessionRec
<1> QED
  BY <1>2, <1>3, <1>4, <1>5, <1>6 DEF RequestAside

LEMMA RequestStep == ASSUME CredentialsInv, CredentialsNext PROVE RequestTyped' /\ RequestKept'
<1>0. StoresTyped /\ RequestTyped /\ RequestKept /\ session \in SessionRec
  BY DEF CredentialsInv, StoresTyped
<1>1. CASE RequestAside
  BY <1>0, <1>1, RequestAsideKeeps DEF RequestTyped, RequestKept
<1>2. CASE UsageChanges
  BY <1>0, <1>2 DEF UsageChanges, credentialVars, RequestTyped, RequestKept
<1>3. CASE ReadUsage
  <2>1. /\ reading' = capacity /\ unshown' = (IF capacity = "restored" THEN 0 ELSE unshown)
        /\ session'.step = "reset" /\ UNCHANGED <<keys, redeemed, attempt>>
    BY <1>0, <1>3 DEF ReadUsage, Show, Step, SessionRec
  <2> QED
    BY <1>0, <2>1 DEF RequestTyped, RequestKept
<1>4. CASE Reset
  <2>0. session.step = "reset" /\ UNCHANGED <<unshown, redeemed, reading>>
    BY <1>4 DEF Reset
  <2>1. CASE attempt # NoAttempt /\ Settled
    <3>1. /\ attempt' = (IF reading = "restored" THEN NoAttempt ELSE attempt)
          /\ session'.step = "save" /\ keys' = keys
      BY <1>0, <1>4, <2>1 DEF Reset, SessionRec
    <3>2. reading = "restored" => unshown = 0
      BY <1>0, <2>0 DEF RequestKept
    <3>3. RequestTyped'
      BY <1>0, <2>0, <3>1 DEF RequestTyped, NoAttempt
    <3> QED
      BY <1>0, <2>0, <3>1, <3>2, <3>3 DEF RequestKept
  <2>2. CASE Step("save") /\ UNCHANGED <<attempt, keys>>
    BY <1>0, <2>0, <2>2 DEF Step, SessionRec, RequestTyped, RequestKept
  <2>3. CASE attempt # NoAttempt /\ UNCHANGED <<attempt, keys>> /\ Step("consume")
    BY <1>0, <2>0, <2>3 DEF Step, SessionRec, RequestTyped, RequestKept
  <2>4. CASE attempt = NoAttempt /\ keys' = keys + 1 /\ attempt' = [key |-> keys', confirmed |-> FALSE]
             /\ Step("consume")
    <3>1. ~(unshown > 0)
      BY <1>0, <2>4 DEF RequestTyped, RequestKept, NoAttempt
    <3>2. keys' \in Nat \ {0} /\ attempt'.key = keys'
      BY <1>0, <2>4 DEF RequestTyped
    <3>3. RequestTyped'
      BY <1>0, <2>0, <2>4, <3>2 DEF RequestTyped
    <3>4. session'.step = "consume"
      BY <1>0, <2>4 DEF Step, SessionRec
    <3> QED
      BY <1>0, <2>0, <3>1, <3>2, <3>3, <3>4 DEF RequestKept
  <2> QED
    BY <1>4, <2>1, <2>2, <2>3, <2>4 DEF Reset
<1>5. CASE Consume \/ ConsumeUnanswered
  <2>1. /\ session.step = "consume" /\ redeemed' = redeemed \cup {attempt.key}
        /\ UNCHANGED <<keys, attempt, reading>>
        /\ unshown' = (IF attempt.key \in redeemed THEN unshown ELSE unshown + 1)
    BY <1>5 DEF Consume, ConsumeUnanswered, Honour
  <2>2. session'.step \in {"confirm", "save"}
    BY <1>0, <1>5 DEF Consume, ConsumeUnanswered, Step, SessionRec
  <2>3. attempt.key \in Nat \ {0}
    BY <1>0, <2>1 DEF RequestTyped, RequestKept
  <2>4. RequestTyped'
    <3>1. redeemed' \subseteq Nat \ {0}
      BY <1>0, <2>1, <2>3, Zenon DEF RequestTyped
    <3>2. unshown' = unshown \/ unshown' = unshown + 1
      BY <2>1, Zenon
    <3>3. unshown' \in Nat
      BY <1>0, <3>2 DEF RequestTyped
    <3> QED
      BY <1>0, <2>1, <3>1, <3>3, Zenon DEF RequestTyped, NoAttempt
  <2> QED
    BY <1>0, <2>1, <2>2, <2>3, <2>4 DEF RequestTyped, RequestKept
<1>6. CASE ConsumeRefused
  <2>1. /\ attempt' = attempt \/ (attempt' = NoAttempt /\ attempt.key \notin redeemed)
        /\ UNCHANGED <<unshown, keys, redeemed, reading>>
    BY <1>6 DEF ConsumeRefused
  <2>2. session'.step = "save"
    BY <1>0, <1>6 DEF ConsumeRefused, Step, SessionRec
  <2>3. RequestTyped'
    <3>1. CASE attempt' = attempt
      BY <1>0, <2>1, <3>1, Zenon DEF RequestTyped, NoAttempt
    <3>2. CASE attempt' = NoAttempt
      BY <1>0, <2>1, <3>2 DEF RequestTyped, NoAttempt
    <3> QED
      BY <2>1, <3>1, <3>2
  <2> QED
    BY <1>0, <2>1, <2>2, <2>3 DEF RequestKept
<1>7. CASE Confirm
  <2>1. /\ session.step = "confirm" /\ attempt' = [attempt EXCEPT !.confirmed = TRUE]
        /\ UNCHANGED <<unshown, keys, redeemed, reading>>
    BY <1>7 DEF Confirm
  <2>2. session'.step = "reread"
    BY <1>0, <1>7 DEF Confirm, Step, SessionRec
  <2>3. attempt'.key = attempt.key /\ attempt.key # 0
    BY <1>0, <2>1 DEF RequestTyped, RequestKept
  <2>4. attempt' \in [key : Nat, confirmed : BOOLEAN]
    BY <1>0, <2>1, Zenon DEF RequestTyped
  <2> QED
    BY <1>0, <2>1, <2>2, <2>3, <2>4 DEF RequestTyped, RequestKept
<1>8. CASE Reread
  <2>1. session'.step = "save"
    BY <1>0, <1>8 DEF Reread, Step, SessionRec
  <2>2. CASE Show(capacity) /\ attempt' = (IF capacity = "restored" THEN NoAttempt ELSE attempt)
    <3>1. unshown' = (IF capacity = "restored" THEN 0 ELSE unshown) /\ UNCHANGED <<keys, redeemed>>
      BY <1>8, <2>2 DEF Reread, Show
    <3>2. RequestTyped'
      BY <1>0, <2>2, <3>1 DEF RequestTyped, NoAttempt
    <3> QED
      BY <1>0, <2>1, <2>2, <3>1, <3>2 DEF RequestKept
  <2>3. CASE UNCHANGED <<unshown, attempt>>
    BY <1>0, <1>8, <2>1, <2>3 DEF Reread, RequestTyped, RequestKept
  <2> QED
    BY <1>8, <2>2, <2>3 DEF Reread
<1> QED
  BY <1>1, <1>2, <1>3, <1>4, <1>5, <1>6, <1>7, <1>8 DEF CredentialsNext, RequestAside

LEMMA CredentialsInductive ==
  ASSUME CredentialsInv, [CredentialsNext]_agentVars PROVE CredentialsInv'
<1>1. CASE CredentialsNext
  BY <1>1, StoresStep, RequestStep DEF CredentialsInv
<1>2. CASE UNCHANGED agentVars
  BY <1>2 DEF agentVars, credentialVars, resetVars, CredentialsInv, StoresTyped, NewestAccepted, RequestTyped,
     RequestKept
<1> QED
  BY <1>1, <1>2

----------------------------------------
\* Through rotations, failed vault writes, crashes and recovery, some credential
\* the provider accepts is on disk, unless a sign-in was rolled back or two
\* homes overlapped; and at most one banked reset is spent until usage shows
\* capacity again (accounts/codex.rs with_session, recover_sessions, reset and
\* redeem).
THEOREM CredentialsSurvive == CredentialsSpec => []CredentialsKept
<1>1. CredentialsInv => CredentialsKept
  BY DEF CredentialsInv, NewestAccepted, RequestKept, CredentialsKept, FreshCredentialsKept, Stored,
     OneResetUntilShown
<1> QED
  BY <1>1, CredentialsInitially, CredentialsInductive, PTL DEF CredentialsSpec

----------------------------------------
(***************************************************************************)
(* A generated title never relabels a conversation that went on.  The      *)
(* titler's answer names what the conversation held when it was generated, *)
(* after the chat was read; messages only grow, so an answer that is       *)
(* applied to the chat as it was read names all of it.                     *)
(***************************************************************************)

Conversation == [messages : Nat, run : Nat, title : Nat, renames : Nat,
                 succeeded : BOOLEAN, active : BOOLEAN]
Request == [run : Nat, revision : Nat]
Titler == [step : {"resting", "request", "stale", "due", "answered"},
           chat : [messages : Nat, run : Nat, title : Nat], request : Request, title : Nat]

TitlesTyped ==
  /\ conversation \in Conversation /\ titler \in Titler
  /\ request \in Request /\ revision \in Nat

\* What the titler read and generated lies behind the conversation, in that order.
AnswerInOrder ==
  /\ titler.step \in {"due", "answered"} => titler.chat.messages <= conversation.messages
  /\ titler.step = "answered" => /\ titler.chat.messages <= titler.title
                                 /\ titler.title <= conversation.messages

TitlesInv == TitlesTyped /\ AnswerInOrder

LEMMA RestingTyped == NoRequest \in Request /\ Resting \in Titler
  BY DEF Request, Titler, Resting, NoRequest

LEMMA TitlesInitially == TitlesInit => TitlesInv
<1> SUFFICES ASSUME TitlesInit PROVE TitlesInv
  OBVIOUS
<1>1. 0 \in Nat /\ 1 \in Nat
  OBVIOUS
<1>2. conversation \in Conversation
  BY <1>1, Zenon DEF TitlesInit, Conversation
<1>3. titler.step = "resting"
  BY DEF TitlesInit, Resting
<1> QED
  BY <1>1, <1>2, <1>3, RestingTyped DEF TitlesInit, TitlesInv, TitlesTyped, AnswerInOrder

(* The owner's steps: the conversation keeps its type and its messages are *)
(* never fewer, and the titler is left alone.                              *)
LEMMA OwnerTyped ==
  ASSUME TitlesInv, Message \/ TurnEnds \/ NewSession \/ Rename \/ Lifecycle
  PROVE  /\ TitlesTyped'
         /\ conversation'.messages >= conversation.messages /\ titler' = titler
<1> DEFINE c == conversation
<1>1. /\ c \in Conversation /\ request \in Request /\ titler \in Titler
      /\ c.messages \in Nat /\ c.run \in Nat /\ c.renames \in Nat /\ revision \in Nat
  BY Zenon DEF TitlesInv, TitlesTyped, Conversation
<1>2. /\ c.messages + 1 \in Nat /\ c.run + 1 \in Nat /\ c.renames + 1 \in Nat
      /\ MaxMessages + c.renames + 1 \in Nat /\ revision + 1 \in Nat
  BY <1>1, TitleConstants
<1>3. c.messages <= c.messages /\ c.messages <= c.messages + 1
  BY <1>1
<1>4. CASE Message
  <2>1. /\ conversation' \in Conversation /\ conversation'.messages = c.messages + 1
        /\ UNCHANGED <<request, revision, titler>>
    BY <1>1, <1>2, <1>4, Zenon DEF Message, Conversation
  <2> QED
    BY <1>1, <1>3, <2>1 DEF TitlesTyped
<1>5. CASE TurnEnds
  <2>1. /\ conversation' \in Conversation /\ conversation'.messages = c.messages
        /\ revision' = revision + 1 /\ titler' = titler
    BY <1>1, <1>5, Zenon DEF TurnEnds, Conversation
  <2>2. request' \in Request
    BY <1>1, <1>2, <1>5, <2>1, Zenon DEF TurnEnds, Request
  <2> QED
    BY <1>1, <1>2, <1>3, <2>1, <2>2 DEF TitlesTyped
<1>6. CASE NewSession
  <2>1. /\ conversation' \in Conversation /\ conversation'.messages = c.messages + 1
        /\ UNCHANGED <<request, revision, titler>>
    BY <1>1, <1>2, <1>6, Zenon DEF NewSession, Conversation
  <2> QED
    BY <1>1, <1>3, <2>1 DEF TitlesTyped
<1>7. CASE Rename
  <2>1. /\ conversation' \in Conversation /\ conversation'.messages = c.messages
        /\ UNCHANGED <<request, revision, titler>>
    BY <1>1, <1>2, <1>7, Zenon DEF Rename, Conversation
  <2> QED
    BY <1>1, <1>3, <2>1 DEF TitlesTyped
<1>8. CASE Lifecycle
  <2>1. /\ conversation' \in Conversation /\ conversation'.messages = c.messages
        /\ UNCHANGED <<request, revision, titler>>
    BY <1>1, <1>8, Zenon DEF Lifecycle, Conversation
  <2> QED
    BY <1>1, <1>3, <2>1 DEF TitlesTyped
<1> QED
  BY <1>4, <1>5, <1>6, <1>7, <1>8

LEMMA TitlesInductive == TitlesInv /\ [TitlesNext]_titleVars => TitlesInv'
<1> SUFFICES ASSUME TitlesInv, [TitlesNext]_titleVars
             PROVE  TitlesInv'
  OBVIOUS
<1>0. /\ conversation \in Conversation /\ request \in Request /\ titler \in Titler
      /\ conversation.messages \in Nat /\ revision \in Nat
      /\ titler.chat.messages \in Nat /\ titler.title \in Nat
  BY Zenon DEF TitlesInv, TitlesTyped, Conversation, Titler
<1>1. CASE Message \/ TurnEnds \/ NewSession \/ Rename \/ Lifecycle
  <2>1. TitlesTyped' /\ conversation'.messages \in Nat
        /\ conversation'.messages >= conversation.messages /\ titler' = titler
    BY <1>1, OwnerTyped, Zenon DEF TitlesTyped, Conversation
  <2> QED
    BY <1>0, <2>1 DEF TitlesInv, AnswerInOrder
<1>2. CASE TitleTick
  <2>1. titler' \in Titler /\ titler'.step = "request"
        /\ UNCHANGED <<conversation, request, revision>>
    BY <1>0, <1>2, RestingTyped, Zenon DEF TitleTick, Titler
  <2> QED
    BY <1>0, <2>1 DEF TitlesInv, TitlesTyped, AnswerInOrder
<1>3. CASE ReadChat
  <2>1. Compared(conversation) \in [messages : Nat, run : Nat, title : Nat]
        /\ Compared(conversation).messages = conversation.messages
    BY <1>0, Zenon DEF Compared, Conversation
  <2>2. /\ titler' \in Titler /\ titler'.step \in {"due", "stale"}
        /\ titler'.chat.messages = conversation.messages
        /\ UNCHANGED <<conversation, request, revision>>
    BY <1>0, <1>3, <2>1 DEF ReadChat, Titler
  <2> QED
    BY <1>0, <2>2 DEF TitlesInv, TitlesTyped, AnswerInOrder
<1>4. CASE Generate
  <2>1. CASE conversation.succeeded
    <3>1. /\ titler' \in Titler /\ titler'.title = conversation.messages
          /\ titler'.chat = titler.chat /\ titler.step = "due"
          /\ UNCHANGED <<conversation, request, revision>>
      BY <1>0, <1>4, <2>1, Zenon DEF Generate, Titler
    <3> QED
      BY <1>0, <3>1 DEF TitlesInv, TitlesTyped, AnswerInOrder
  <2>2. CASE ~conversation.succeeded
    <3>1. titler' = Resting /\ UNCHANGED <<conversation, request, revision>>
      BY <1>4, <2>2, Zenon DEF Generate
    <3> QED
      BY <1>0, <3>1, RestingTyped DEF TitlesInv, TitlesTyped, AnswerInOrder, Resting
  <2> QED
    BY <2>1, <2>2
<1>5. CASE DropStale \/ Deferred
  <2>1. titler' = Resting /\ request' \in Request /\ UNCHANGED <<conversation, revision>>
    BY <1>0, <1>5, RestingTyped DEF DropStale, Deferred
  <2> QED
    BY <1>0, <2>1, RestingTyped DEF TitlesInv, TitlesTyped, AnswerInOrder, Resting
<1>6. CASE Apply
  <2>1. titler' = Resting /\ request' \in Request /\ revision' = revision
    BY <1>0, <1>6, RestingTyped, Zenon DEF Apply
  <2>2. conversation' \in Conversation
    BY <1>0, <1>6, Zenon DEF Apply, Conversation
  <2> QED
    BY <1>0, <2>1, <2>2, RestingTyped DEF TitlesInv, TitlesTyped, AnswerInOrder, Resting
<1>7. CASE UNCHANGED titleVars
  BY <1>7 DEF titleVars, TitlesInv, TitlesTyped, AnswerInOrder
<1> QED
  BY <1>1, <1>2, <1>3, <1>4, <1>5, <1>6, <1>7 DEF TitlesNext

(* What one step does to the title.                                        *)
LEMMA TitleStep ==
  ASSUME TitlesInv, TitlesNext,
         titler.step = "answered", conversation'.title # conversation.title,
         conversation'.renames = conversation.renames
  PROVE  /\ conversation'.title = conversation.messages
         /\ conversation.title = titler.chat.title
<1> USE DEF TitlesInv, TitlesTyped, AnswerInOrder, Conversation, Titler
<1>1. CASE Apply
  BY <1>1 DEF Apply, Applies, Compared
<1>2. CASE Rename
  BY <1>2 DEF Rename
<1> QED
  BY <1>1, <1>2 DEF TitlesNext, Message, TurnEnds, NewSession, Lifecycle, TitleTick,
     ReadChat, DropStale, Generate, Deferred

(* A generated title names the conversation as it stands and replaces no   *)
(* title chosen while it was generated (chat_titles.rs, apply), for any    *)
(* number of messages, sessions and renames.                               *)
THEOREM TitlesNeverRelabel == TitlesSpec => NeverRelabelled
<1>1. TitlesInv /\ [TitlesNext]_titleVars =>
        [titler.step = "answered" /\ conversation'.title # conversation.title
           /\ conversation'.renames = conversation.renames
           => /\ conversation'.title = conversation.messages
              /\ conversation.title = titler.chat.title]_titleVars
  BY TitleStep
<1> QED
  BY <1>1, TitlesInitially, TitlesInductive, PTL DEF TitlesSpec, NeverRelabelled
=============================================================================

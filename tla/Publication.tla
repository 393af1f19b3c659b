---------------------------- MODULE Publication ----------------------------
(***************************************************************************)
(* Continuous publication of conversation disks to object storage, and the *)
(* moves of conversations between nodes that rest on it                    *)
(* (nodes/publication.rs, disk_grants.rs, restore.rs, coordination.rs,     *)
(* storage.rs, moves.rs, snapshots.rs, checkpoint.rs).                     *)
(*                                                                         *)
(* Per conversation one operation at a time holds the operation lock: a    *)
(* publication, a collection, the issue of a grant for a restore, or the   *)
(* purge.  Disk reads of the nodes hold a separate reader lock that a      *)
(* collection drains.  The storage monitor and the block collector take    *)
(* neither.  A node's journal is the one of LazyJournal, seen here as the  *)
(* generations it has sealed, the completed one and the published base.    *)
(*                                                                         *)
(* Contents are versions: a write makes a new version of the disk, a       *)
(* capture fixes one, a restored disk starts at the version of its point.  *)
(* Points in the formats before shared blocks are not modelled.            *)
(***************************************************************************)
EXTENDS SharedBlocks

CONSTANTS Runs, Nodes, MaxGrants, MaxRunWrites, MaxTurns, MaxMoves, MaxMishaps

ASSUME PublicationConstants ==
  /\ Runs # {} /\ Nodes # {} /\ 0 \notin Runs \cup Nodes
  /\ Cardinality(Runs) <= MaxGrants
  /\ MaxGrants \in Nat /\ MaxRunWrites \in Nat /\ MaxTurns \in Nat
  /\ MaxMoves \in Nat /\ MaxMishaps \in Nat

VARIABLES
  point,      \* the candidate of every publication so far
  recorded,   \* node-backups
  uploadIntents,      \* the local upload intents
  backup,     \* run.backup: head, requested and acknowledged revision, status
  grants,     \* node-disk-grants
  disks,      \* the journal behind every grant
  owner,      \* the node of the resume checkpoint
  mounted,    \* the disk of a conversation on a node
  turn,       \* what the conversation executes
  move,       \* run.moveRequest and its progress
  op,         \* the operation holding the conversation's operation lock
  reading,    \* the objects a node's read is downloading
  monitor,    \* what the storage monitor last read of a disk
  late,       \* receipts still on their way to a node
  want,       \* history: the version the last request must cover
  spent       \* bounds on writes, turns, moves and mishaps

publicationVars == <<objects, remote, corrupt, uploaded, deletions, gc, point, recorded,
          uploadIntents, backup, grants, disks, owner, mounted, turn, move, op, reading,
          monitor, late, want, spent>>

Grants == 1 .. MaxGrants
None   == 0

NoPoint == [run |-> None, node |-> None, disk |-> None, gen |-> 0, ver |-> 0,
            blocks |-> {}]
NoGrant == [run |-> None, node |-> None, backups |-> {}, pending |-> {},
            gen |-> 0, published |-> None]
NewDisk(v, p) == [ver |-> v, gen |-> 1, sealed |-> {}, completed |-> 0,
                  pubGen |-> 0, pubVer |-> v, base |-> p, from |-> p,
                  receipt |-> None]
NoOp   == [pc |-> "idle", goal |-> "none", rev |-> 0, keep |-> {}, point |-> None,
           hashes |-> {}]
NoMove == [pc |-> "none", to |-> None, backup |-> None, point |-> None,
           auto |-> FALSE]
NoRead == [busy |-> FALSE, objs |-> {}]
NoStatus == [known |-> FALSE, disk |-> None, point |-> None, clean |-> FALSE]

Used(p)      == point[p].run # None
Current(r)   == mounted[r][owner[r]]
Alive(r)     == op[r].goal # "gone"
Requested(r) == backup[r].req > backup[r].ack
Clean(g)     == disks[g].ver = disks[g].pubVer
Pins(r)      == UNION {grants[g].backups : g \in {h \in Grants : grants[h].run = r}}
Mishap       == /\ spent.mishaps < MaxMishaps
                /\ spent' = [spent EXCEPT !.mishaps = @ + 1]

nodeVars == <<disks, mounted, turn, late, want>>
runVars  == <<backup, grants, owner, move, monitor>>
pubVars  == <<point, recorded, uploadIntents>>

PublicationInit ==
  \E first \in [Runs -> Grants], home \in Nodes :
  /\ \A r, q \in Runs : r # q => first[r] # first[q]
  /\ \A r \in Runs : first[r] <= Cardinality(Runs)
  /\ BlocksInit
  /\ point = [p \in Points |-> NoPoint]
  /\ recorded = {} /\ uploadIntents = {}
  /\ backup = [r \in Runs |-> [head |-> None, req |-> 0, ack |-> 0, status |-> "none"]]
  /\ grants = [g \in Grants |->
       IF \E r \in Runs : first[r] = g
       THEN [NoGrant EXCEPT !.run = CHOOSE r \in Runs : first[r] = g, !.node = home]
       ELSE NoGrant]
  /\ disks = [g \in Grants |-> NewDisk(0, None)]
  /\ owner = [r \in Runs |-> home]
  /\ mounted = [r \in Runs |-> [n \in Nodes |-> IF n = home THEN first[r] ELSE None]]
  /\ turn = [r \in Runs |-> "idle"]
  /\ move = [r \in Runs |-> NoMove]
  /\ op = [r \in Runs |-> NoOp]
  /\ reading = [r \in Runs |-> NoRead]
  /\ monitor = [r \in Runs |-> NoStatus]
  /\ late = {}
  /\ want = [r \in Runs |-> 0]
  /\ spent = [writes |-> 0, turns |-> 0, moves |-> 0, mishaps |-> 0]

---------------------------------------------------------------------------
(* The conversation on its node.                                           *)
StartTurn(r) ==
  /\ Alive(r) /\ turn[r] = "idle" /\ move[r] = NoMove
  /\ spent.turns < MaxTurns
  /\ turn' = [turn EXCEPT ![r] = "running"]
  /\ spent' = [spent EXCEPT !.turns = @ + 1]
  /\ UNCHANGED <<blockVars, pubVars, runVars, op, reading, disks, mounted, late, want>>

Write(r) ==
  /\ turn[r] = "running" /\ spent.writes < MaxRunWrites
  /\ disks' = [disks EXCEPT ![Current(r)].ver = @ + 1]
  /\ spent' = [spent EXCEPT !.writes = @ + 1]
  /\ UNCHANGED <<blockVars, pubVars, runVars, op, reading, turn, mounted, late, want>>

(* seal_completed precedes the release of the execution lease.             *)
CompleteTurn(r) ==
  LET g == Current(r) IN
  /\ turn[r] = "running"
  /\ disks' = [disks EXCEPT ![g].sealed = @ \cup {[gen |-> disks[g].gen, ver |-> disks[g].ver]},
                            ![g].completed = disks[g].gen,
                            ![g].gen = @ + 1]
  /\ turn' = [turn EXCEPT ![r] = "ended"]
  /\ UNCHANGED <<blockVars, pubVars, runVars, op, reading, mounted, late, want, spent>>

(* request: durable, coalesced demand for the final publication, made by   *)
(* the execution of the turn.  A conversation that is being recovered has  *)
(* none.                                                                   *)
Request(r) ==
  /\ turn[r] = "ended" /\ ~move[r].auto
  /\ turn' = [turn EXCEPT ![r] = "idle"]
  /\ backup' = [backup EXCEPT ![r].req = @ + 1, ![r].status = "pending"]
  /\ want' = [want EXCEPT ![r] = disks[Current(r)].ver]
  /\ UNCHANGED <<blockVars, pubVars, grants, owner, move, monitor, op, reading,
                 disks, mounted, late, spent>>

---------------------------------------------------------------------------
(* Collection, within the operation lock: the points that nothing retains  *)
(* are retired once the readers have drained; then the abandoned intents   *)
(* and the references of publications that never committed.                *)
Retained(r) == Pins(r) \cup ({backup[r].head, move[r].backup} \ {None})

PointsOf(r) == {p \in recorded : point[p].run = r}
Deferred(r) == \/ ~(Retained(r) \subseteq PointsOf(r))
               \/ backup[r].head = None /\ PointsOf(r) # {}

Drained(r) == ~reading[r].busy

RetirePoints(r) ==
  LET keep == Retained(r)
      old  == PointsOf(r) \ keep
  IN  /\ op[r].pc = "collect" /\ Drained(r) /\ ~Deferred(r)
      /\ objects' = Released(old)
      /\ deletions' = deletions \cup (old \ uploadIntents)
      /\ recorded' = recorded \ old
      /\ op' = [op EXCEPT ![r].pc = "tidy", ![r].keep = keep]
      /\ UNCHANGED <<remote, corrupt, uploaded, gc, point, uploadIntents, runVars,
                     nodeVars, reading, spent>>

(* The end of an operation: a move goes on to the restore.                 *)
Finish(r) ==
  /\ op' = [op EXCEPT ![r] = NoOp]
  /\ move' = IF op[r].goal = "move"
             THEN [move EXCEPT ![r].pc = "restore",
                     ![r].point = IF op[r].point = None THEN disks[Current(r)].receipt
                                  ELSE op[r].point]
             ELSE move

(* What follows a collection: the capture, or the end of the operation.    *)
AfterTidy(r) ==
  IF op[r].goal \in {"sync", "move"} /\ op[r].point = None
  THEN /\ op' = [op EXCEPT ![r].pc = "snapshot", ![r].keep = {}]
       /\ UNCHANGED move
  ELSE Finish(r)

QueueAbandoned(r) ==
  LET lost == {p \in uploadIntents : point[p].run = r /\ p \notin op[r].keep}
      dead == {p \in Points : point[p].run = r /\ p \notin op[r].keep}
  IN  /\ op[r].pc = "tidy"
      /\ deletions' = deletions \cup lost
      /\ uploadIntents' = uploadIntents \ lost
      /\ objects' = Released(dead)
      /\ AfterTidy(r)
      /\ UNCHANGED <<remote, corrupt, uploaded, gc, point, recorded, backup,
                     grants, owner, monitor, nodeVars, reading, spent>>

(* collect: the scheduled cleanup of a conversation.                       *)
CollectStart(r) ==
  /\ op[r].pc = "idle" /\ Alive(r) /\ PointsOf(r) \cup uploadIntents # {}
  /\ op' = [op EXCEPT ![r] = [NoOp EXCEPT !.pc = "collect", !.goal = "clean"]]
  /\ UNCHANGED <<blockVars, pubVars, runVars, nodeVars, reading, spent>>

---------------------------------------------------------------------------
(* A publication: attempt, capture and publish up to the capture.          *)
Due(r) ==
  /\ move[r].pc \in {"none", "picked"} \/ Requested(r)
  /\ ~(Clean(Current(r)) /\ backup[r].status = "ready")
  /\ backup[r].status # "none" \/ disks[Current(r)].ver > 0

PublishStart(r) ==
  /\ op[r].pc = "idle" /\ Alive(r) /\ Due(r)
  /\ op' = [op EXCEPT ![r] = [NoOp EXCEPT !.pc = "collect", !.goal = "sync",
                                          !.rev = backup[r].req]]
  /\ backup' = [backup EXCEPT ![r].status = "saving"]
  /\ UNCHANGED <<blockVars, pubVars, grants, owner, move, monitor, nodeVars,
                 reading, spent>>

Candidate(r, g, generation, v) ==
  [run |-> r, node |-> owner[r], disk |-> g, gen |-> generation, ver |-> v,
   blocks |-> {}]
NextPoint == CHOOSE p \in Points : ~Used(p) /\ \A q \in Points : q < p => Used(q)

(* request_snapshot of a completed turn: its sealed generation is captured *)
(* without pausing a following turn.                                       *)
CaptureCompleted(r, hs) ==
  LET g == Current(r) IN
  /\ op[r].pc = "snapshot" /\ Requested(r)
  /\ \E p \in Points : ~Used(p)
  /\ \E s \in disks[g].sealed :
       /\ s.gen = disks[g].completed
       /\ point' = [point EXCEPT ![NextPoint] = Candidate(r, g, s.gen, s.ver)]
  /\ op' = [op EXCEPT ![r].pc = "reserve", ![r].point = NextPoint, ![r].hashes = hs]
  /\ UNCHANGED <<blockVars, recorded, uploadIntents, runVars, nodeVars, reading, spent>>

(* disk_grants::update.                                                    *)
Extended(g, p) == [grants EXCEPT ![g].backups = @ \cup {p}, ![g].pending = @ \cup {p}]
ReceiptTaken(g, p) ==
  LET newer == {q \in grants[g].pending : point[q].gen > point[p].gen}
  IN  IF point[p].gen <= grants[g].gen THEN grants
      ELSE [grants EXCEPT ![g].backups = {p} \cup newer, ![g].pending = newer,
                          ![g].gen = point[p].gen, ![g].published = p]

(* A completion that acknowledges whatever is requested by now.            *)
CompletedLatest(r) == [backup EXCEPT ![r].ack = backup[r].req, ![r].status = "ready"]

(* complete_request: the revision that the publication read at its start.  *)
Completed(r) ==
  [backup EXCEPT ![r].ack = op[r].rev,
                 ![r].status = IF backup[r].req > op[r].rev THEN "pending" ELSE "ready"]

(* The node already mounted a publication of that generation; only its     *)
(* acknowledgement was lost.                                               *)
AlreadyPublished(r) ==
  LET g == Current(r)
      p == disks[g].receipt IN
  /\ op[r].pc = "snapshot" /\ Requested(r)
  /\ disks[g].completed > 0 /\ disks[g].pubGen >= disks[g].completed
  /\ p \in recorded /\ point[p].node = owner[r]
  /\ grants' = ReceiptTaken(g, p)
  /\ backup' = Completed(r)
  /\ Finish(r)
  /\ UNCHANGED <<blockVars, pubVars, owner, monitor, nodeVars, reading, spent>>

(* request_snapshot of the disk as it is: a running turn is captured at a  *)
(* crash-consistent boundary, a stopped disk as a whole.                   *)
CaptureNow(r, hs) ==
  LET g == Current(r) IN
  /\ op[r].pc = "snapshot"
  /\ ~Requested(r) \/ disks[g].completed = 0
  /\ \E p \in Points : ~Used(p)
  /\ disks' = [disks EXCEPT ![g].sealed = @ \cup {[gen |-> disks[g].gen, ver |-> disks[g].ver]},
                            ![g].gen = @ + 1]
  /\ point' = [point EXCEPT ![NextPoint] = Candidate(r, g, disks[g].gen, disks[g].ver)]
  /\ op' = [op EXCEPT ![r].pc = "reserve", ![r].point = NextPoint, ![r].hashes = hs]
  /\ UNCHANGED <<blockVars, recorded, uploadIntents, runVars, turn, mounted, late, want,
                 reading, spent>>

(* write_intent: references first, then the durable local intent.          *)
ReserveBlocks(r) ==
  LET p == op[r].point
      given == Assigned(op[r].hashes) IN
  /\ op[r].pc = "reserve" /\ HasRoom(op[r].hashes)
  /\ Reserve(p, op[r].hashes)
  /\ point' = [point EXCEPT ![p].blocks = {given[h] : h \in op[r].hashes}]
  /\ op' = [op EXCEPT ![r].pc = "intent"]
  /\ UNCHANGED <<remote, corrupt, uploaded, deletions, gc, recorded, uploadIntents,
                 runVars, nodeVars, reading, spent>>

WriteIntent(r) ==
  /\ op[r].pc = "intent"
  /\ uploadIntents' = uploadIntents \cup {op[r].point}
  /\ op' = [op EXCEPT ![r].pc = "upload"]
  /\ UNCHANGED <<blockVars, point, recorded, runVars, nodeVars, reading, spent>>

(* transfer_blocks: every object that was not ready at the reservation.    *)
Missing(r) == {o \in point[op[r].point].blocks : objects[o].state = "pending"}
TransferBlocks(r) ==
  /\ op[r].pc = "upload"
  /\ PutObjects(Missing(r))
  /\ op' = [op EXCEPT ![r].pc = "settle"]
  /\ UNCHANGED <<objects, uploaded, deletions, gc, pubVars, runVars, nodeVars,
                 reading, spent>>

(* publish_manifest: duplicates are settled, then the manifest uploaded.   *)
PublishManifest(r) ==
  LET p == op[r].point
      rows == Settled(p) IN
  /\ op[r].pc = "settle" /\ Verified(p, rows)
  /\ objects' = rows
  /\ point' = [point EXCEPT ![p].blocks = {o \in Objects : p \in rows[o].refs}]
  /\ uploaded' = uploaded \cup {p}
  /\ op' = [op EXCEPT ![r].pc = "commit"]
  /\ UNCHANGED <<remote, corrupt, deletions, gc, recorded, uploadIntents, runVars,
                 nodeVars, reading, spent>>

(* commit: the point and the pointer in one transaction, unless the disk   *)
(* changed owner or a block was invalidated meanwhile.                     *)
SameDisk(r) ==
  LET c == point[op[r].point] IN
  grants[c.disk].run = r /\ grants[c.disk].node = c.node /\ owner[r] = c.node

Commit(r) ==
  LET p == op[r].point IN
  /\ op[r].pc = "commit" /\ SameDisk(r) /\ Verified(p, objects)
  /\ recorded' = recorded \cup {p}
  /\ backup' = [backup EXCEPT ![r].head = p, ![r].status = "saving"]
  /\ op' = [op EXCEPT ![r].pc = "extend"]
  /\ UNCHANGED <<blockVars, point, uploadIntents, grants, owner, move, monitor, nodeVars,
                 reading, spent>>

(* acknowledge: the grant is widened before the node may mount the point,  *)
(* and narrowed after the node's answer.                                   *)
ExtendGrant(r) ==
  LET p == op[r].point IN
  /\ op[r].pc = "extend"
  /\ grants' = Extended(point[p].disk, p)
  /\ op' = [op EXCEPT ![r].pc = "receipt"]
  /\ UNCHANGED <<blockVars, pubVars, backup, owner, move, monitor, nodeVars,
                 reading, spent>>

(* commit_published of the node's journal, refused for a disk that was     *)
(* replaced and for a generation that is no longer sealed.                 *)
Publishable(p) ==
  LET c == point[p] IN
  /\ mounted[c.run][c.node] = c.disk
  /\ \/ disks[c.disk].receipt = p
     \/ \E s \in disks[c.disk].sealed : s.gen = c.gen
Published(p) ==
  LET c == point[p]
      d == disks[c.disk] IN
  IF d.receipt = p THEN disks
  ELSE [disks EXCEPT ![c.disk].base = p, ![c.disk].receipt = p,
                     ![c.disk].pubGen = c.gen, ![c.disk].pubVer = c.ver,
                     ![c.disk].sealed = {s \in @ : s.gen > c.gen}]

Receipt(r) ==
  LET p == op[r].point IN
  /\ op[r].pc = "receipt" /\ Publishable(p)
  /\ disks' = Published(p)
  /\ grants' = ReceiptTaken(point[p].disk, p)
  /\ op' = [op EXCEPT ![r].pc = "complete"]
  /\ UNCHANGED <<blockVars, pubVars, backup, owner, move, monitor, turn, mounted,
                 late, want, reading, spent>>

CompleteRequest(r) ==
  /\ op[r].pc = "complete"
  /\ backup' = Completed(r)
  /\ op' = [op EXCEPT ![r].pc = "collect"]
  /\ UNCHANGED <<blockVars, pubVars, grants, owner, move, monitor, nodeVars,
                 reading, spent>>

---------------------------------------------------------------------------
(* Failures of a publication.  fail_transfer gives up a move; attempt      *)
(* records the error without touching the pointer.                         *)
Abandon(r) ==
  /\ op' = [op EXCEPT ![r] = NoOp]
  /\ move' = IF op[r].goal = "move" THEN [move EXCEPT ![r] = NoMove] ELSE move
  /\ backup' = IF op[r].goal = "sync" THEN [backup EXCEPT ![r].status = "error"]
               ELSE backup

Publishing == {"collect", "tidy", "snapshot", "reserve", "intent", "upload",
               "settle", "commit", "extend", "receipt", "complete"}

(* Refusals that need no fault: a deferred collection, a changed owner, an *)
(* invalidated block, a receipt of a replaced disk.                        *)
Refused(r) ==
  /\ \/ op[r].pc = "collect" /\ Deferred(r)
     \/ op[r].pc = "settle" /\ ~Verified(op[r].point, Settled(op[r].point))
     \/ op[r].pc = "commit" /\ ~(SameDisk(r) /\ Verified(op[r].point, objects))
     \/ op[r].pc = "receipt" /\ ~Publishable(op[r].point)
  /\ Abandon(r)
  /\ UNCHANGED <<blockVars, pubVars, grants, owner, monitor, nodeVars, reading, spent>>

(* A request that fails, with the part of its uploads that succeeded: all  *)
(* started ones end before the operation lock is released.                 *)
PublishFails(r, os) ==
  /\ op[r].goal \in {"sync", "move"} /\ op[r].pc \in Publishing \ {"receipt"}
  /\ IF op[r].pc = "upload" THEN os \subseteq Missing(r) ELSE os = {}
  /\ Mishap
  /\ PutObjects(os)
  /\ Abandon(r)
  /\ UNCHANGED <<objects, uploaded, deletions, gc, pubVars, grants, owner,
                 monitor, nodeVars, reading>>

(* The node's answer to a receipt is lost, or the receipt itself is still  *)
(* on its way when the publication gives up.                               *)
ReceiptLost(r) ==
  /\ op[r].pc = "receipt" /\ Mishap
  /\ late' = late \cup {op[r].point}
  /\ Abandon(r)
  /\ UNCHANGED <<blockVars, pubVars, grants, owner, monitor, disks, mounted, turn,
                 want, reading>>

LateReceipt(p) ==
  /\ p \in late
  /\ late' = late \ {p}
  /\ disks' = IF Publishable(p) THEN Published(p) ELSE disks
  /\ UNCHANGED <<blockVars, pubVars, runVars, turn, mounted, want, op, reading, spent>>

(* The installation dies: locks, readers and the collector are gone, the   *)
(* database, the intents and the bucket remain.                            *)
ManagerCrash ==
  /\ Mishap
  /\ \E r \in Runs : op[r].pc # "idle" \/ gc # Idle
  /\ op' = [r \in Runs |-> IF Alive(r) THEN NoOp ELSE op[r]]
  /\ reading' = [r \in Runs |-> NoRead]
  /\ monitor' = [r \in Runs |-> NoStatus]
  /\ move' = [r \in Runs |->
       CASE move[r].pc = "picked" -> NoMove
         [] ~move[r].auto /\ move[r].pc \in {"save", "restore", "resume"} ->
              [move[r] EXCEPT !.pc = "fence", !.point = None]
         [] move[r].auto /\ move[r].pc \in {"restore", "resume"} ->
              [move[r] EXCEPT !.pc = "fence"]
         [] OTHER -> move[r]]
  /\ gc' = Idle
  /\ UNCHANGED <<objects, remote, corrupt, uploaded, deletions, pubVars, backup,
                 grants, owner, nodeVars>>

---------------------------------------------------------------------------
(* Reads of a mounted disk, under the reader lock of its conversation.     *)
Authorized(r, g) == grants[g].node \in {owner[r], move[r].to}

ReadStart(r, g) ==
  LET b == disks[g].base IN
  /\ grants[g].run = r /\ Authorized(r, g) /\ b # None /\ ~reading[r].busy
  /\ b \in grants[g].backups \cap recorded
  /\ reading' = [reading EXCEPT ![r] = [busy |-> TRUE, objs |-> point[b].blocks]]
  /\ UNCHANGED <<blockVars, pubVars, runVars, nodeVars, op, spent>>

ReadServed(r) ==
  /\ reading[r].busy /\ reading[r].objs \subseteq remote \ corrupt
  /\ reading' = [reading EXCEPT ![r] = NoRead]
  /\ UNCHANGED <<blockVars, pubVars, runVars, nodeVars, op, spent>>

(* read_manifest_block: an altered or missing object is never reused.      *)
ReadInvalid(r) ==
  /\ reading[r].busy
  /\ \E o \in reading[r].objs \ (remote \ corrupt) : objects' = Invalidated(o)
  /\ reading' = [reading EXCEPT ![r] = NoRead]
  /\ UNCHANGED <<remote, corrupt, uploaded, deletions, gc, pubVars, runVars,
                 nodeVars, op, spent>>

Corrupt(o) ==
  /\ o \in remote \ corrupt /\ Mishap
  /\ corrupt' = corrupt \cup {o}
  /\ UNCHANGED <<objects, remote, uploaded, deletions, gc, pubVars, runVars,
                 nodeVars, op, reading>>

---------------------------------------------------------------------------
(* storage::refresh: the monitor reads a disk's status, and applies it     *)
(* after the publication may have moved on.                                *)
RefreshRead(r) ==
  LET g == Current(r)
      p == disks[g].receipt IN
  /\ Alive(r) /\ ~monitor[r].known
  /\ p \in recorded /\ point[p].node = owner[r]
  /\ monitor' = [monitor EXCEPT ![r] = [known |-> TRUE, disk |-> g, point |-> p,
                                        clean |-> Clean(g)]]
  /\ UNCHANGED <<blockVars, pubVars, backup, grants, owner, move, nodeVars, op,
                 reading, spent>>

(* Points are compared by the time of their capture: two captures of one   *)
(* completed generation share it.                                          *)
NotOlder(p, q) == \/ q = None
                  \/ IF point[p].disk = point[q].disk
                     THEN point[p].gen >= point[q].gen ELSE p > q
RecordStatus(r) ==
  LET m == monitor[r] IN
  IF m.clean /\ owner[r] = point[m.point].node /\ NotOlder(m.point, backup[r].head)
  THEN [backup EXCEPT ![r].head = m.point,
                      ![r].status = IF Requested(r) THEN "pending" ELSE "ready"]
  ELSE backup

RefreshApply(r) ==
  /\ monitor[r].known
  /\ monitor' = [monitor EXCEPT ![r] = NoStatus]
  /\ IF Alive(r) /\ grants[monitor[r].disk].run = r
     THEN /\ grants' = ReceiptTaken(monitor[r].disk, monitor[r].point)
          /\ backup' = RecordStatus(r)
     ELSE UNCHANGED <<grants, backup>>
  /\ UNCHANGED <<blockVars, pubVars, owner, move, nodeVars, op, reading, spent>>

---------------------------------------------------------------------------
(* Moves.  A requested one captures the fenced disk; recovery from an      *)
(* unavailable node resumes the last published point.                      *)
RequestMove(r, n) ==
  /\ Alive(r) /\ move[r] = NoMove /\ n # owner[r]
  /\ turn[r] # "ended" /\ spent.moves < MaxMoves
  /\ move' = [move EXCEPT ![r] = [NoMove EXCEPT !.pc = "fence", !.to = n]]
  /\ spent' = [spent EXCEPT !.moves = @ + 1]
  /\ UNCHANGED <<blockVars, pubVars, backup, grants, owner, monitor, nodeVars, op, reading>>

(* latest takes the operation lock only to read the pointer; the choice is *)
(* recorded in a later transaction.                                        *)
PickRecovery(r, n) ==
  /\ Alive(r) /\ op[r].pc = "idle" /\ move[r] = NoMove /\ n # owner[r]
  /\ turn[r] # "ended" /\ ~Requested(r) /\ spent.moves < MaxMoves
  /\ backup[r].head \in recorded
  /\ move' = [move EXCEPT ![r] = [NoMove EXCEPT !.pc = "picked", !.to = n,
                                    !.point = backup[r].head, !.auto = TRUE]]
  /\ spent' = [spent EXCEPT !.moves = @ + 1]
  /\ UNCHANGED <<blockVars, pubVars, backup, grants, owner, monitor, nodeVars, op, reading>>

RecordRecovery(r) ==
  /\ move[r].pc = "picked"
  /\ move' = [move EXCEPT ![r].pc = "fence", ![r].backup = move[r].point]
  /\ UNCHANGED <<blockVars, pubVars, backup, grants, owner, monitor, nodeVars, op,
                 reading, spent>>

(* A transfer that captures the source while its turn may still write.     *)
FenceLater(r) ==
  /\ move[r].pc = "fence" /\ ~Requested(r)
  /\ turn[r] = "ended" => move[r].auto
  /\ move' = [move EXCEPT ![r].pc = IF move[r].auto THEN "restore" ELSE "save"]
  /\ UNCHANGED <<blockVars, pubVars, backup, grants, owner, monitor, op, reading,
                 nodeVars, spent>>

(* advance: a pending demand keeps the journal on its source; then the     *)
(* source is fenced, which ends the turn it may still run.                 *)
Fence(r) ==
  /\ move[r].pc = "fence" /\ ~Requested(r)
  /\ turn[r] = "ended" => move[r].auto
  /\ turn' = [turn EXCEPT ![r] = "idle"]
  /\ move' = [move EXCEPT ![r].pc = IF move[r].auto THEN "restore" ELSE "save"]
  /\ UNCHANGED <<blockVars, pubVars, backup, grants, owner, monitor, op, reading,
                 disks, mounted, late, want, spent>>

(* transfer: the capture of a requested move.                              *)
SaveSource(r) ==
  /\ move[r].pc = "save" /\ op[r].pc = "idle"
  /\ op' = [op EXCEPT ![r] = [NoOp EXCEPT !.pc = "collect", !.goal = "move",
                                          !.rev = backup[r].req]]
  /\ UNCHANGED <<blockVars, pubVars, runVars, nodeVars, reading, spent>>

Issued(r, n, p) == [NoGrant EXCEPT !.run = r, !.node = n, !.backups = {p}]

(* A new grant is a new identifier, which no disk or publication has had.  *)
Unissued == {h \in Grants : /\ grants[h].run = None
                            /\ \A q \in Runs, n \in Nodes : mounted[q][n] # h
                            /\ \A p \in Points : point[p].disk # h}

(* restore::start under the operation lock: a grant for the point, and the *)
(* destination's disk, which is kept when it was restored from that point  *)
(* before.                                                                 *)
Restore(r) ==
  LET p == move[r].point
      n == move[r].to
      g == CHOOSE h \in Unissued : TRUE
      old == mounted[r][n]
      kept == old # None /\ disks[old].from = p IN
  /\ move[r].pc = "restore" /\ op[r].pc = "idle"
  /\ p \in recorded /\ Unissued # {}
  /\ grants' = [grants EXCEPT ![g] = Issued(r, n, p)]
  /\ IF kept THEN UNCHANGED <<disks, mounted>>
     ELSE /\ disks' = [disks EXCEPT ![g] = NewDisk(point[p].ver, p)]
          /\ mounted' = [mounted EXCEPT ![r][n] = g]
  /\ move' = [move EXCEPT ![r].pc = "resume"]
  /\ UNCHANGED <<blockVars, pubVars, backup, owner, monitor, op, reading, turn,
                 late, want, spent>>

(* fail_transfer: the conversation stays where it is; a grant that was     *)
(* issued remains.                                                         *)
RestoreFails(r) ==
  /\ move[r].pc = "restore" /\ op[r].pc = "idle"
  /\ IF move[r].point \in recorded THEN Mishap ELSE UNCHANGED spent
  /\ move' = [move EXCEPT ![r] = NoMove]
  /\ UNCHANGED <<blockVars, pubVars, backup, grants, owner, monitor, nodeVars, op, reading>>

(* resume_at_destination: the checkpoint points at the new node.           *)
Resume(r) ==
  /\ move[r].pc = "resume"
  /\ owner' = [owner EXCEPT ![r] = move[r].to]
  /\ move' = [move EXCEPT ![r] = NoMove]
  /\ UNCHANGED <<blockVars, pubVars, backup, grants, monitor, nodeVars, op, reading, spent>>

---------------------------------------------------------------------------
(* purge of a deleted conversation.                                        *)
PurgeStart(r) ==
  /\ op[r].pc = "idle" /\ Alive(r) /\ Drained(r)
  /\ turn[r] = "idle" /\ move[r] = NoMove
  /\ deletions' = deletions \cup {p \in recorded \cup uploadIntents : point[p].run = r}
  /\ uploadIntents' = {p \in uploadIntents : point[p].run # r}
  /\ op' = [op EXCEPT ![r] = [NoOp EXCEPT !.pc = "purge", !.goal = "purge"]]
  /\ UNCHANGED <<objects, remote, corrupt, uploaded, gc, point, recorded, runVars,
                 nodeVars, reading, spent>>

PurgeFinish(r) ==
  LET mine == {p \in Points : point[p].run = r} IN
  /\ op[r].pc = "purge" /\ Drained(r)
  /\ objects' = Released(mine)
  /\ recorded' = recorded \ mine
  /\ grants' = [g \in Grants |-> IF grants[g].run = r THEN NoGrant ELSE grants[g]]
  /\ op' = [op EXCEPT ![r] = [NoOp EXCEPT !.pc = "gone", !.goal = "gone"]]
  /\ UNCHANGED <<remote, corrupt, uploaded, deletions, gc, point, uploadIntents, backup,
                 owner, move, monitor, nodeVars, reading, spent>>

---------------------------------------------------------------------------
Collector ==
  /\ \/ Claim
     \/ Forget
     \/ \E os \in SUBSET gc.objs, ks \in SUBSET gc.keys : Delete(os, ks)
  /\ UNCHANGED <<pubVars, runVars, nodeVars, op, reading, spent>>

Node(r) == StartTurn(r) \/ Write(r) \/ CompleteTurn(r) \/ Request(r)

PublishTurn(r) ==
  \/ PublishStart(r) \/ CollectStart(r) \/ RetirePoints(r) \/ QueueAbandoned(r)
  \/ \E hs \in (SUBSET Hashes) \ {{}} : CaptureCompleted(r, hs) \/ CaptureNow(r, hs)
  \/ AlreadyPublished(r) \/ ReserveBlocks(r) \/ WriteIntent(r) \/ TransferBlocks(r)
  \/ PublishManifest(r) \/ Commit(r) \/ ExtendGrant(r)
  \/ Receipt(r) \/ CompleteRequest(r)
  \/ Refused(r) \/ ReceiptLost(r)
  \/ \E os \in SUBSET Objects : PublishFails(r, os)

Disk(r) ==
  \/ \E g \in Grants : ReadStart(r, g)
  \/ ReadServed(r) \/ ReadInvalid(r) \/ RefreshRead(r) \/ RefreshApply(r)

Move(r) ==
  \/ \E n \in Nodes : RequestMove(r, n) \/ PickRecovery(r, n)
  \/ RecordRecovery(r) \/ Fence(r) \/ SaveSource(r) \/ Restore(r)
  \/ RestoreFails(r) \/ Resume(r)

PublicationNext ==
  \/ \E r \in Runs : Node(r) \/ PublishTurn(r) \/ Disk(r) \/ Move(r)
                     \/ PurgeStart(r) \/ PurgeFinish(r)
  \/ Collector
  \/ \E p \in Points : LateReceipt(p)
  \/ \E o \in Objects : Corrupt(o)
  \/ ManagerCrash

PublicationSpec == PublicationInit /\ [][PublicationNext]_publicationVars

---------------------------------------------------------------------------
(* The state of publication has its type, and every reference in it leads  *)
(* to something that exists.                                               *)
PublicationTypeOK ==
  /\ BlocksTypeOK
  /\ recorded \subseteq {p \in Points : Used(p)}
  /\ uploadIntents \subseteq {p \in Points : Used(p)}
  /\ \A r \in Runs :
       /\ backup[r].head \in Points \cup {None} /\ backup[r].ack <= backup[r].req
       /\ backup[r].status \in {"none", "pending", "saving", "ready", "error"}
       /\ owner[r] \in Nodes /\ mounted[r] \in [Nodes -> Grants \cup {None}]
       /\ turn[r] \in {"idle", "running", "ended"}
       /\ op[r].pc \in Publishing \cup {"idle", "purge", "gone"}
       /\ op[r].pc \in {"reserve", "intent", "upload", "settle", "commit",
                        "extend", "receipt", "complete"} => Used(op[r].point)
       /\ Alive(r) => grants[Current(r)].run = r /\ grants[Current(r)].node = owner[r]
  /\ \A g \in Grants : grants[g].backups \subseteq Points
  /\ late \subseteq Points

(* Whatever a conversation may still read exists: every point pinned by a  *)
(* grant is recorded, and every block of these, of the published pointer's *)
(* point, of a move's point and of a read in progress is in the bucket,    *)
(* whatever the collectors deleted.                                        *)
RetainedReadable ==
  \A r \in {q \in Runs : Alive(q)} :
    /\ Pins(r) \subseteq recorded
    /\ \A p \in Retained(r) \cap recorded : point[p].blocks \subseteq remote
    /\ reading[r].objs \subseteq remote

(* The published pointer leads to a recorded point: "The publication       *)
(* pointer is authoritative even if timestamps are equal or clocks         *)
(* regress" (publication.rs:1103), and a collection is refused without it. *)
HeadRecorded ==
  \A r \in {q \in Runs : Alive(q)} : backup[r].head \in recorded \cup {None}

(* The base under a disk that its conversation uses is readable with the   *)
(* disk's own grant: a node never mounts a point before it may read it,    *)
(* nor loses the right while it is mounted, even when receipts are late.   *)
MountedBaseGranted ==
  \A r \in {q \in Runs : Alive(q)} :
    LET g == Current(r) IN
    disks[g].base # None => disks[g].base \in grants[g].backups \cap recorded

(* Nothing is left in the bucket that no later collection can find: every  *)
(* object has its inventory row and every manifest a record, an upload     *)
(* intent or a queued deletion, wherever a publication crashed.            *)
RemoteAccounted ==
  /\ remote \subseteq Stored
  /\ uploaded \subseteq recorded \cup uploadIntents \cup deletions

(* An acknowledged demand is a published one: the pointer covers the turn  *)
(* whose end asked for it, and a demand that is not acknowledged keeps the *)
(* conversation due.                                                       *)
DemandHonoured ==
  \A r \in {q \in Runs : Alive(q)} :
    IF Requested(r) THEN backup[r].status # "ready"
    ELSE backup[r].req > 0 => point[backup[r].head].ver >= want[r]

(* A requested move loses nothing: the destination resumes with every      *)
(* write of the fenced source.                                             *)
MoveKeepsWork ==
  [][\A r \in Runs :
       owner'[r] # owner[r] /\ ~move[r].auto =>
         disks[mounted[r][owner'[r]]].ver = disks[Current(r)].ver]_publicationVars

(* A conversation recovered from an unavailable node resumes from its      *)
(* latest recovery point.                                                  *)
RecoversLatest ==
  [][\A r \in Runs :
       owner'[r] # owner[r] /\ move[r].auto => backup[r].head = move[r].point]_publicationVars

(* The objects of a recovery point are there for as long as it is          *)
(* retained, every object in the bucket is accounted for by a row that     *)
(* will delete it, and the base that a disk reads stays granted to it      *)
(* (publication.rs, shared_blocks.rs, disk_grants.rs).                     *)
PointsBacked ==
  /\ RetainedReadable
  /\ RemoteAccounted
  /\ MountedBaseGranted
=============================================================================

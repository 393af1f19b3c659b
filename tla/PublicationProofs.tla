------------------------- MODULE PublicationProofs -------------------------
(***************************************************************************)
(* What publication keeps, for any runs, nodes, grants, contents and       *)
(* bounds: the blocks of every recovery point that is recorded are in the  *)
(* bucket, whatever the collectors delete; everything in the bucket can    *)
(* still be found; the base under a mounted disk stays granted to it.      *)
(***************************************************************************)
EXTENDS Publication, FiniteSetTheorems, TLAPS

PointRec  == [run : Runs \cup {None}, node : Nodes \cup {None}, disk : Grants \cup {None},
              gen : Nat, ver : Nat, blocks : SUBSET Objects]
ObjectRec == [hash : Hashes, state : {"absent", "pending", "ready", "invalid", "deleting"},
              unused : BOOLEAN, refs : SUBSET Points]
GrantRec  == [run : Runs \cup {None}, node : Nodes \cup {None}, backups : SUBSET Points,
              pending : SUBSET Points, gen : Nat, published : Points \cup {None}]
SealRec   == [gen : Nat, ver : Nat]
DiskRec   == [ver : Nat, gen : Nat, sealed : SUBSET SealRec, completed : Nat, pubGen : Nat,
              pubVer : Nat, base : Points \cup {None}, from : Points \cup {None},
              receipt : Points \cup {None}]
MoveRec   == [pc : {"none", "fence", "picked", "save", "restore", "resume"},
              to : Nodes \cup {None}, backup : Points \cup {None},
              point : Points \cup {None}, auto : BOOLEAN]
OpRec     == [pc : Publishing \cup {"idle", "purge", "gone"},
              goal : {"none", "clean", "sync", "move", "purge", "gone"}, rev : Nat,
              keep : SUBSET Points, point : Points \cup {None}, hashes : SUBSET Hashes]
BackupRec == [head : Points \cup {None}, req : Nat, ack : Nat,
              status : {"none", "pending", "saving", "ready", "error"}]
ReadRec   == [busy : BOOLEAN, objs : SUBSET Objects]
StatusRec == [known : BOOLEAN, disk : Grants \cup {None}, point : Points \cup {None},
              clean : BOOLEAN]

BlocksTyped ==
  /\ objects \in [Objects -> ObjectRec]
  /\ remote \subseteq Objects
  /\ uploaded \subseteq Points /\ deletions \subseteq Points
  /\ gc \in [busy : BOOLEAN, objs : SUBSET Objects, keys : SUBSET Points]

StoreTyped ==
  /\ point \in [Points -> PointRec]
  /\ recorded \subseteq Points /\ uploadIntents \subseteq Points
  /\ backup \in [Runs -> BackupRec] /\ grants \in [Grants -> GrantRec]
  /\ owner \in [Runs -> Nodes] /\ move \in [Runs -> MoveRec]

NodesTyped ==
  /\ disks \in [Grants -> DiskRec]
  /\ mounted \in [Runs -> [Nodes -> Grants \cup {None}]]
  /\ late \subseteq Points

TasksTyped ==
  /\ op \in [Runs -> OpRec] /\ reading \in [Runs -> ReadRec]
  /\ monitor \in [Runs -> StatusRec]

\* Objects: what is claimed for deletion has no reference, what is ready was uploaded,
\* what is in the bucket has its row.
ObjectsSound ==
  /\ \A o \in Objects : objects[o].state = "deleting" => objects[o].refs = {}
  /\ \A o \in Objects : objects[o].state \in {"ready", "invalid"} => o \in remote
  /\ \A o \in Objects : objects[o].state = "absent" => o \notin remote /\ objects[o].refs = {}

\* The collector holds only what was claimed, and what it has deleted stays deleted
\* until its rows are gone.
CollectorSound ==
  /\ \A o \in gc.objs : objects[o].state = "deleting"
  /\ gc.keys \subseteq deletions
  /\ ~gc.busy => gc.objs \cap remote = {} /\ gc.keys \cap uploaded = {}

\* Nothing refers to a publication that was not created.
PointSound(p) ==
  IF Used(p)
  THEN /\ point[p].run \in Runs /\ point[p].disk \in Grants /\ point[p].node \in Nodes
       /\ point[p].gen > 0
       /\ grants[point[p].disk].run \in {point[p].run, None}
       /\ Alive(point[p].run) => /\ grants[point[p].disk].run = point[p].run
                                 /\ grants[point[p].disk].node = point[p].node
  ELSE point[p] = NoPoint
UsedSound ==
  /\ \A p \in recorded \cup uploadIntents \cup deletions \cup late : Used(p)
  /\ \A o \in Objects : \A p \in objects[o].refs : Used(p)
  /\ \A p \in Points : PointSound(p)

\* A recovery point holds references to its blocks, which are in the bucket.
Backed(p) == \A o \in point[p].blocks : p \in objects[o].refs
RecordedSound ==
  \A p \in recorded : Backed(p) /\ \A o \in point[p].blocks :
                                     objects[o].state \in {"ready", "invalid"}

\* Every manifest in the bucket can still be found.
ManifestsFound == uploaded \subseteq recorded \cup uploadIntents \cup deletions

Uncommitted == {"reserve", "intent", "upload", "settle", "commit"}

\* A publication under way, as far as it has come.
CandidateSound(r) ==
  LET p == op[r].point IN
  /\ p # None => point[p].run = r
  /\ op[r].pc \in Uncommitted => p # None /\ p \notin recorded \cup deletions
  /\ op[r].pc = "reserve" => RefsOf(p) = {}
  /\ op[r].pc \in {"intent", "upload", "settle"} => point[p].blocks = RefsOf(p)
  /\ op[r].pc \in {"upload", "settle"} => p \in uploadIntents
  /\ op[r].pc = "settle" => \A o \in point[p].blocks : objects[o].state = "pending" => o \in remote
  /\ op[r].pc = "commit" => Backed(p)
  /\ op[r].pc \in {"extend", "receipt", "complete"} => p \in recorded

\* The other operations, and what they leave behind.
OperationSound(r) ==
  /\ op[r].pc = "idle" => op[r].goal = "none"
  /\ op[r].pc = "gone" <=> op[r].goal = "gone"
  /\ op[r].pc = "tidy" => PointsOf(r) \subseteq op[r].keep
  /\ op[r].pc = "purge" => {p \in uploaded : point[p].run = r} \subseteq deletions
  /\ ~Alive(r) => \A g \in Grants : grants[g].run # r

\* A read holds the objects of a point of its conversation that is recorded.
ReadSound(r) ==
  reading[r].objs # {} => /\ reading[r].busy
                          /\ \E b \in recorded : /\ point[b].run = r
                                                 /\ reading[r].objs = point[b].blocks

\* A disk is mounted for one conversation, under a grant of its own, which covers
\* the base that it reads.
MountSound ==
  /\ \A r \in Runs : mounted[r][owner[r]] # None
  /\ \A r, q \in Runs, n, m \in Nodes :
       mounted[r][n] = mounted[q][m] /\ mounted[r][n] # None => r = q /\ n = m
  /\ \A r \in Runs, n \in Nodes : Alive(r) /\ mounted[r][n] # None =>
       LET g == mounted[r][n] IN
       /\ grants[g].run = r /\ grants[g].node = n
       /\ disks[g].base # None => disks[g].base \in grants[g].backups

\* A move leads to a node, and from a point of its conversation.
MoveSound(r) ==
  /\ move[r].pc # "none" => move[r].to \in Nodes
  /\ move[r].pc = "resume" => mounted[r][move[r].to] # None
  /\ move[r].point # None => point[move[r].point].run = r
  /\ op[r].goal = "move" => move[r].pc = "save"
HeadSound(r) == backup[r].head # None => point[backup[r].head].run = r

\* Grants pin recorded points of their conversation.
GrantSound(g) ==
  /\ \A p \in grants[g].backups : p \in recorded /\ point[p].run = grants[g].run
  /\ grants[g].pending \subseteq grants[g].backups
  /\ grants[g].gen <= disks[g].pubGen

\* What a disk has published, and what it has sealed since.
DiskSound(g) ==
  /\ disks[g].receipt # None =>
       /\ point[disks[g].receipt].disk = g /\ point[disks[g].receipt].gen = disks[g].pubGen
       /\ disks[g].base = disks[g].receipt
  /\ disks[g].receipt = None => disks[g].pubGen = 0
  /\ disks[g].pubGen < disks[g].gen
  /\ \A s \in disks[g].sealed : disks[g].pubGen < s.gen /\ s.gen < disks[g].gen

\* A receipt that the grant has not taken yet leaves its point pinned.
Listed(p) ==
  LET g == point[p].disk IN
  grants[g].run # None /\ grants[g].gen < point[p].gen => p \in grants[g].pending
StatusSound(r) ==
  monitor[r].known =>
    LET p == monitor[r].point
        g == monitor[r].disk IN
    /\ p # None /\ g # None /\ point[p].disk = g /\ Used(p)
    /\ point[p].gen <= disks[g].pubGen
    /\ point[p].gen = disks[g].pubGen => p = disks[g].receipt
    /\ Listed(p)
ReceiptsListed ==
  /\ \A p \in late : Listed(p)
  /\ \A g \in Grants : disks[g].receipt # None => Listed(disks[g].receipt)
  /\ \A r \in Runs : op[r].pc = "receipt" => Listed(op[r].point)

GrantSide ==
  /\ UsedSound /\ MountSound /\ ReceiptsListed
  /\ \A r \in Runs : MoveSound(r) /\ HeadSound(r) /\ StatusSound(r)
  /\ \A g \in Grants : GrantSound(g) /\ DiskSound(g)
BlockSide ==
  /\ ObjectsSound /\ CollectorSound /\ RecordedSound /\ ManifestsFound
  /\ \A r \in Runs : CandidateSound(r) /\ OperationSound(r) /\ ReadSound(r)
Typed == BlocksTyped /\ StoreTyped /\ NodesTyped /\ TasksTyped

PublicationInv == Typed /\ GrantSide /\ BlockSide

----------------------------------------
(* What the choices of the model return.                                   *)

\* A nonempty set of numbers has a least one.
LEMMA Least ==
  ASSUME NEW S, S \subseteq Nat, S # {}
  PROVE  \E m \in S : \A x \in S : m <= x
<1>1. PICK m \in S : \A y \in S : <<y, m>> \notin OpToRel(<, Nat)
  BY WFMin, NatLessThanWellFounded, Zenon
<1>2. \A y \in S : ~(y < m)
  BY <1>1 DEF OpToRel
<1> QED
  BY <1>2

\* Publications are numbered in the order of their captures.
LEMMA NextPointFree ==
  ASSUME \E p \in Points : ~Used(p)
  PROVE  NextPoint \in Points /\ ~Used(NextPoint) /\ \A q \in Points : q < NextPoint => Used(q)
<1> DEFINE free == {p \in Points : ~Used(p)}
<1>1. free \subseteq Nat /\ free # {}
  BY BlockConstants DEF Points
<1>2. PICK p \in free : \A x \in free : p <= x
  BY <1>1, Least
<1>3. p \in Points /\ ~Used(p) /\ \A q \in Points : q < p => Used(q)
  <2>1. ASSUME NEW q \in Points, q < p, ~Used(q)  PROVE FALSE
    <3>1. q \in free /\ q \in Int /\ p \in Int
      BY <2>1, <1>1
    <3> QED
      BY <1>2, <2>1, <3>1
  <2> QED
    BY <2>1
<1> QED
  BY <1>3, Zenon DEF NextPoint

\* A finite set that is no larger than another has an injection into it.
LEMMA InjectionExists ==
  ASSUME NEW A, NEW B, IsFiniteSet(A), IsFiniteSet(B), Cardinality(A) <= Cardinality(B)
  PROVE  \E f \in [A -> B] : \A g, h \in A : g # h => f[g] # f[h]
<1> DEFINE m == Cardinality(A)
           n == Cardinality(B)
<1>1. m \in Nat /\ ExistsBijection(1 .. m, A) /\ n \in Nat /\ ExistsBijection(1 .. n, B)
  BY FS_CardinalityType
<1>2. PICK a \in [1 .. m -> A] : \A x \in A : \E i \in 1 .. m : a[i] = x
  BY <1>1 DEF ExistsBijection, Bijection, Surjection
<1>3. PICK b \in [1 .. n -> B] : \A i, j \in 1 .. n : b[i] = b[j] => i = j
  BY <1>1 DEF ExistsBijection, Bijection, Injection, IsInjective
<1> DEFINE at(x) == CHOOSE i \in 1 .. m : a[i] = x
           f == [x \in A |-> b[at(x)]]
<1>4. \A x \in A : at(x) \in 1 .. m /\ a[at(x)] = x
  BY <1>2
<1>5. \A x \in A : at(x) \in 1 .. n
  BY <1>1, <1>4
<1> HIDE DEF at
<1>6. f \in [A -> B]
  BY <1>5
<1>7. \A g, h \in A : g # h => f[g] # f[h]
  BY <1>3, <1>4, <1>5
<1> QED
  BY <1>6, <1>7

\* A reservation gets a ready incarnation of each content, or a row of its own.
LEMMA AssignedSound ==
  ASSUME BlocksTyped, NEW hs, hs \subseteq Hashes, HasRoom(hs)
  PROVE  \A h \in hs : /\ Assigned(hs)[h] \in Objects
                       /\ objects[Assigned(hs)[h]].state \in {"absent", "ready"}
<1> DEFINE A == {h \in hs : ReadyFor(h) = {}}
           B == Objects \ Stored
<1>1. IsFiniteSet(A)
  BY BlockConstants, FS_Subset
<1>2. IsFiniteSet(B)
  <2>1. IsFiniteSet(Objects)
    BY BlockConstants, FS_Interval DEF Objects
  <2> QED
    BY <2>1, FS_Subset
<1>3. \E f \in [A -> B] : \A g, h \in A : g # h => f[g] # f[h]
  BY <1>1, <1>2, InjectionExists DEF HasRoom
<1>4. Fresh(hs) \in [A -> B]
  <2> DEFINE Good(f) == \A g, h \in DOMAIN f : g # h => f[g] # f[h]
  <2>1. PICK f \in [A -> B] : \A g, h \in A : g # h => f[g] # f[h]
    BY <1>3
  <2>2. Good(f)
    BY <2>1
  <2>3. Fresh(hs) = CHOOSE x \in [A -> B] : Good(x)
    BY DEF Fresh
  <2> HIDE DEF Good, A, B
  <2> QED
    BY <2>2, <2>3
<1>5. ASSUME NEW h \in hs
      PROVE  Assigned(hs)[h] \in Objects /\ objects[Assigned(hs)[h]].state \in {"absent", "ready"}
  <2>1. CASE h \in A
    <3>1. h \in DOMAIN Fresh(hs) /\ Fresh(hs)[h] \in B
      BY <1>4, <2>1
    <3>2. Assigned(hs)[h] = Fresh(hs)[h]
      BY <3>1 DEF Assigned
    <3> QED
      BY <3>1, <3>2 DEF Stored
  <2>2. CASE h \notin A
    <3>1. h \notin DOMAIN Fresh(hs)
      BY <1>4, <2>2
    <3>2. Assigned(hs)[h] = CHOOSE o \in ReadyFor(h) : TRUE
      BY <3>1 DEF Assigned
    <3>3. ReadyFor(h) # {}
      BY <2>2
    <3>4. Assigned(hs)[h] \in ReadyFor(h)
      BY <3>2, <3>3
    <3> QED
      BY <3>4 DEF ReadyFor
  <2> QED
    BY <2>1, <2>2
<1> QED
  BY <1>5

----------------------------------------
(* Types.                                                                  *)

\* The transactions on the rows of the objects.
LEMMA RowsTyped ==
  ASSUME Typed
  PROVE  /\ \A ps \in SUBSET Points : Released(ps) \in [Objects -> ObjectRec]
         /\ \A p \in Points : Settled(p) \in [Objects -> ObjectRec]
         /\ \A o \in Objects : Invalidated(o) \in [Objects -> ObjectRec]
<1>1. \A x \in Objects : objects[x] \in ObjectRec
  BY DEF Typed, BlocksTyped
<1>2. ASSUME NEW ps \in SUBSET Points  PROVE Released(ps) \in [Objects -> ObjectRec]
  <2> SUFFICES ASSUME NEW x \in Objects  PROVE Released(ps)[x] \in ObjectRec
    BY DEF Released
  <2>1. \A u \in BOOLEAN : [objects[x] EXCEPT !.refs = @ \ ps, !.unused = u] \in ObjectRec
    BY <1>1 DEF ObjectRec
  <2>2. objects[x].unused \in BOOLEAN
    BY <1>1 DEF ObjectRec
  <2> QED
    BY <1>1, <2>1, <2>2 DEF Released
<1>3. ASSUME NEW p \in Points  PROVE Settled(p) \in [Objects -> ObjectRec]
  <2> SUFFICES ASSUME NEW x \in Objects  PROVE Settled(p)[x] \in ObjectRec
    BY DEF Settled
  <2>1. /\ [objects[x] EXCEPT !.refs = @ \ {p}, !.unused = TRUE] \in ObjectRec
        /\ [objects[x] EXCEPT !.state = "ready"] \in ObjectRec
        /\ [objects[x] EXCEPT !.refs = @ \cup {p}, !.unused = FALSE] \in ObjectRec
    BY <1>1 DEF ObjectRec
  <2> QED
    BY <1>1, <2>1, Zenon DEF Settled
<1>4. ASSUME NEW o \in Objects  PROVE Invalidated(o) \in [Objects -> ObjectRec]
  BY DEF Typed, BlocksTyped, Invalidated, ObjectRec
<1> QED
  BY <1>2, <1>3, <1>4

LEMMA ReceiptTyped ==
  ASSUME Typed, NEW g \in Grants, NEW p \in Points
  PROVE  ReceiptTaken(g, p) \in [Grants -> GrantRec]
<1> DEFINE newer == {q \in grants[g].pending : point[q].gen > point[p].gen}
<1>1. grants[g] \in GrantRec /\ point[p].gen \in Nat
  BY DEF Typed, StoreTyped, PointRec
<1>2. newer \subseteq Points
  BY <1>1 DEF GrantRec
<1>3. [grants[g] EXCEPT !.backups = {p} \cup newer, !.pending = newer,
                        !.gen = point[p].gen, !.published = p] \in GrantRec
  BY <1>1, <1>2 DEF GrantRec
<1> HIDE DEF newer
<1>4. ReceiptTaken(g, p) =
        IF point[p].gen <= grants[g].gen THEN grants
        ELSE [grants EXCEPT ![g].backups = {p} \cup newer, ![g].pending = newer,
                            ![g].gen = point[p].gen, ![g].published = p]
  BY DEF ReceiptTaken, newer
<1> QED
  BY <1>3, <1>4, Zenon DEF Typed, StoreTyped

LEMMA PublishedTyped ==
  ASSUME Typed, NEW p \in Points
  PROVE  Published(p) \in [Grants -> DiskRec]
<1> DEFINE g == point[p].disk
           newer == {s \in disks[g].sealed : s.gen > point[p].gen}
<1>1. point[p].gen \in Nat /\ point[p].ver \in Nat
  BY DEF Typed, StoreTyped, PointRec
<1>2. CASE g \in Grants
  <2>1. disks[g] \in DiskRec
    BY <1>2 DEF Typed, NodesTyped
  <2>2. newer \subseteq SealRec
    BY <2>1 DEF DiskRec
  <2>3. [disks[g] EXCEPT !.base = p, !.receipt = p, !.pubGen = point[p].gen,
                         !.pubVer = point[p].ver, !.sealed = newer] \in DiskRec
    BY <1>1, <2>1, <2>2 DEF DiskRec
  <2> HIDE DEF newer
  <2>4. Published(p) =
          IF disks[g].receipt = p THEN disks
          ELSE [disks EXCEPT ![g].base = p, ![g].receipt = p,
                     ![g].pubGen = point[p].gen, ![g].pubVer = point[p].ver,
                     ![g].sealed = newer]
    BY <1>2 DEF Published, newer, Typed, NodesTyped
  <2> QED
    BY <2>3, <2>4, Zenon DEF Typed, NodesTyped
<1>3. CASE g \notin Grants
  BY <1>3 DEF Published, Typed, NodesTyped
<1> QED
  BY <1>2, <1>3

LEMMA RetainedTyped ==
  ASSUME Typed, NEW r \in Runs
  PROVE  Retained(r) \subseteq Points /\ PointsOf(r) \subseteq Points
<1>1. Pins(r) \subseteq Points
  BY DEF Pins, Typed, StoreTyped, GrantRec
<1>2. backup[r].head \in Points \cup {None} /\ move[r].backup \in Points \cup {None}
  BY DEF Typed, StoreTyped, BackupRec, MoveRec
<1> QED
  BY <1>1, <1>2 DEF Retained, PointsOf, Typed, StoreTyped

\* Patches of the records of a conversation and of a disk.
LEMMA RecordPatches ==
  ASSUME Typed, NEW r \in Runs
  PROVE  /\ \A c \in Publishing \cup {"idle", "purge", "gone"} :
              [op[r] EXCEPT !.pc = c] \in OpRec
         /\ \A c \in Publishing, k \in SUBSET Points :
              [op[r] EXCEPT !.pc = c, !.keep = k] \in OpRec
         /\ \A c \in Publishing, p \in Points, hs \in SUBSET Hashes :
              [op[r] EXCEPT !.pc = c, !.point = p, !.hashes = hs] \in OpRec
         /\ \A c \in {"none", "fence", "picked", "save", "restore", "resume"} :
              /\ [move[r] EXCEPT !.pc = c] \in MoveRec
              /\ \A p \in Points \cup {None} :
                   [move[r] EXCEPT !.pc = c, !.point = p] \in MoveRec
         /\ \A p \in Points \cup {None} : [move[r] EXCEPT !.pc = "fence", !.backup = p] \in MoveRec
         /\ \A s \in {"none", "pending", "saving", "ready", "error"} :
              /\ [backup[r] EXCEPT !.status = s] \in BackupRec
              /\ \A p \in Points : [backup[r] EXCEPT !.head = p, !.status = s] \in BackupRec
              /\ \A n \in Nat : [backup[r] EXCEPT !.ack = n, !.status = s] \in BackupRec
              /\ [backup[r] EXCEPT !.req = @ + 1, !.status = s] \in BackupRec
<1>1. op[r] \in OpRec /\ move[r] \in MoveRec /\ backup[r] \in BackupRec
  BY DEF Typed, StoreTyped, TasksTyped
<1>2. /\ \A c \in Publishing \cup {"idle", "purge", "gone"} : [op[r] EXCEPT !.pc = c] \in OpRec
      /\ \A c \in Publishing, k \in SUBSET Points : [op[r] EXCEPT !.pc = c, !.keep = k] \in OpRec
      /\ \A c \in Publishing, p \in Points, hs \in SUBSET Hashes :
           [op[r] EXCEPT !.pc = c, !.point = p, !.hashes = hs] \in OpRec
  BY <1>1 DEF OpRec
<1>3. /\ \A c \in {"none", "fence", "picked", "save", "restore", "resume"} :
           /\ [move[r] EXCEPT !.pc = c] \in MoveRec
           /\ \A p \in Points \cup {None} : [move[r] EXCEPT !.pc = c, !.point = p] \in MoveRec
      /\ \A p \in Points \cup {None} : [move[r] EXCEPT !.pc = "fence", !.backup = p] \in MoveRec
  BY <1>1 DEF MoveRec
<1>4. ASSUME NEW s \in {"none", "pending", "saving", "ready", "error"}
      PROVE  /\ [backup[r] EXCEPT !.status = s] \in BackupRec
             /\ \A p \in Points : [backup[r] EXCEPT !.head = p, !.status = s] \in BackupRec
             /\ \A n \in Nat : [backup[r] EXCEPT !.ack = n, !.status = s] \in BackupRec
             /\ [backup[r] EXCEPT !.req = @ + 1, !.status = s] \in BackupRec
  <2>1. [backup[r] EXCEPT !.status = s] \in BackupRec
    BY <1>1 DEF BackupRec
  <2>2. \A p \in Points : [backup[r] EXCEPT !.head = p, !.status = s] \in BackupRec
    BY <1>1 DEF BackupRec
  <2>3. \A n \in Nat : [backup[r] EXCEPT !.ack = n, !.status = s] \in BackupRec
    BY <1>1 DEF BackupRec
  <2>4. backup[r].req + 1 \in Nat
    BY <1>1 DEF BackupRec
  <2>5. \A n \in Nat : [backup[r] EXCEPT !.req = n, !.status = s] \in BackupRec
    BY <1>1 DEF BackupRec
  <2> QED
    BY <2>1, <2>2, <2>3, <2>4, <2>5
<1> QED
  BY <1>2, <1>3, <1>4, Zenon

\* The end of an operation, and one that gives up.
LEMMA EndsTyped ==
  ASSUME Typed, NEW r \in Runs, Current(r) \in Grants
  PROVE  /\ Finish(r) => op' \in [Runs -> OpRec] /\ move' \in [Runs -> MoveRec]
         /\ Abandon(r) => /\ op' \in [Runs -> OpRec] /\ move' \in [Runs -> MoveRec]
                          /\ backup' \in [Runs -> BackupRec]
         /\ AfterTidy(r) => op' \in [Runs -> OpRec] /\ move' \in [Runs -> MoveRec]
<1>1. NoOp \in OpRec /\ NoMove \in MoveRec
  BY DEF NoOp, OpRec, NoMove, MoveRec
<1>2. op[r].point \in Points \cup {None} /\ disks[Current(r)].receipt \in Points \cup {None}
  BY DEF Typed, TasksTyped, OpRec, NodesTyped, DiskRec
<1>3. op \in [Runs -> OpRec] /\ move \in [Runs -> MoveRec] /\ backup \in [Runs -> BackupRec]
  BY DEF Typed, TasksTyped, StoreTyped
<1>4. Finish(r) => op' \in [Runs -> OpRec] /\ move' \in [Runs -> MoveRec]
  <2>1. \A p \in Points \cup {None} : [move[r] EXCEPT !.pc = "restore", !.point = p] \in MoveRec
    BY RecordPatches
  <2> QED
    BY <1>1, <1>2, <1>3, <2>1 DEF Finish
<1>5. Abandon(r) => /\ op' \in [Runs -> OpRec] /\ move' \in [Runs -> MoveRec]
                    /\ backup' \in [Runs -> BackupRec]
  <2>1. [backup[r] EXCEPT !.status = "error"] \in BackupRec
    BY RecordPatches
  <2> QED
    BY <1>1, <1>3, <2>1 DEF Abandon
<1>6. AfterTidy(r) => op' \in [Runs -> OpRec] /\ move' \in [Runs -> MoveRec]
  <2>1. [op[r] EXCEPT !.pc = "snapshot", !.keep = {}] \in OpRec
    BY RecordPatches DEF Publishing
  <2> QED
    BY <1>3, <1>4, <2>1 DEF AfterTidy
<1> QED
  BY <1>4, <1>5, <1>6

LEMMA CurrentDisk ==
  ASSUME Typed, MountSound, NEW r \in Runs
  PROVE  Current(r) \in Grants /\ Current(r) # None /\ disks[Current(r)] \in DiskRec
<1>1. mounted[r][owner[r]] \in Grants \cup {None} /\ mounted[r][owner[r]] # None
  BY DEF Typed, StoreTyped, NodesTyped, MountSound
<1> QED
  BY <1>1 DEF Current, Typed, NodesTyped

\* The conversation on its node.
LEMMA NodeTyped ==
  ASSUME Typed, MountSound, NEW r \in Runs, Node(r)
  PROVE  Typed'
<1> USE DEF blockVars, pubVars, runVars, nodeVars
<1>1. CASE StartTurn(r)
  BY <1>1 DEF StartTurn, Typed, BlocksTyped, StoreTyped, NodesTyped, TasksTyped
<1> DEFINE g == Current(r)
<1>0. g \in Grants /\ disks[g] \in DiskRec /\ disks \in [Grants -> DiskRec]
  BY CurrentDisk DEF Typed, NodesTyped
<1>2. CASE Write(r)
  <2>1. disks[g].ver + 1 \in Nat
    BY <1>0 DEF DiskRec
  <2>2. \A v \in Nat : [disks[g] EXCEPT !.ver = v] \in DiskRec
    BY <1>0 DEF DiskRec
  <2>3. disks' = [disks EXCEPT ![g] = [disks[g] EXCEPT !.ver = disks[g].ver + 1]]
    BY <1>2 DEF Write
  <2>4. disks' \in [Grants -> DiskRec]
    BY <1>0, <2>1, <2>2, <2>3, Zenon
  <2> QED
    BY <1>2, <2>4 DEF Write, Typed, BlocksTyped, StoreTyped, NodesTyped, TasksTyped
<1>3. CASE CompleteTurn(r)
  <2> DEFINE more == disks[g].sealed \cup {[gen |-> disks[g].gen, ver |-> disks[g].ver]}
  <2>1. /\ more \in SUBSET SealRec /\ disks[g].gen + 1 \in Nat /\ disks[g].gen \in Nat
    BY <1>0 DEF DiskRec, SealRec
  <2>2. \A S \in SUBSET SealRec, c, n \in Nat :
          [disks[g] EXCEPT !.sealed = S, !.completed = c, !.gen = n] \in DiskRec
    BY <1>0 DEF DiskRec
  <2>3. disks' = [disks EXCEPT ![g] = [disks[g] EXCEPT !.sealed = more,
                    !.completed = disks[g].gen, !.gen = disks[g].gen + 1]]
    BY <1>3, <1>0 DEF CompleteTurn
  <2> HIDE DEF more
  <2>4. disks' \in [Grants -> DiskRec]
    BY <1>0, <2>1, <2>2, <2>3, Zenon
  <2> QED
    BY <1>3, <2>4 DEF CompleteTurn, Typed, BlocksTyped, StoreTyped, NodesTyped, TasksTyped
<1>4. CASE Request(r)
  <2>1. [backup[r] EXCEPT !.req = @ + 1, !.status = "pending"] \in BackupRec
    BY RecordPatches
  <2>2. backup' = [backup EXCEPT ![r] = [backup[r] EXCEPT !.req = @ + 1, !.status = "pending"]]
    BY <1>4 DEF Request, Typed, StoreTyped
  <2> QED
    BY <1>4, <2>1, <2>2 DEF Request, Typed, BlocksTyped, StoreTyped, NodesTyped, TasksTyped
<1> QED
  BY <1>1, <1>2, <1>3, <1>4 DEF Node

\* Captures, and what the node answers.
LEMMA CaptureTyped ==
  ASSUME Typed, MountSound, NEW r \in Runs, NEW hs \in SUBSET Hashes,
         CaptureCompleted(r, hs) \/ CaptureNow(r, hs)
  PROVE  Typed'
<1> USE DEF blockVars, pubVars, runVars, nodeVars
<1> DEFINE g == Current(r)
<1>0. g \in Grants /\ disks[g] \in DiskRec /\ disks \in [Grants -> DiskRec]
  BY CurrentDisk DEF Typed, NodesTyped
<1>1. NextPoint \in Points
  BY NextPointFree DEF CaptureCompleted, CaptureNow
<1>2. op' \in [Runs -> OpRec]
  <2>1. [op[r] EXCEPT !.pc = "reserve", !.point = NextPoint, !.hashes = hs] \in OpRec
    BY <1>1, RecordPatches DEF Publishing
  <2>2. op' = [op EXCEPT ![r] = [op[r] EXCEPT !.pc = "reserve", !.point = NextPoint, !.hashes = hs]]
    BY DEF CaptureCompleted, CaptureNow
  <2> QED
    BY <2>1, <2>2, Zenon DEF Typed, TasksTyped
<1>3. \A n, v \in Nat : Candidate(r, g, n, v) \in PointRec
  BY <1>0 DEF Candidate, PointRec, Typed, StoreTyped
<1>4. CASE CaptureCompleted(r, hs)
  <2>1. PICK s \in disks[g].sealed : point' = [point EXCEPT ![NextPoint] = Candidate(r, g, s.gen, s.ver)]
    BY <1>4 DEF CaptureCompleted
  <2>2. s.gen \in Nat /\ s.ver \in Nat
    BY <1>0 DEF DiskRec, SealRec
  <2>3. point' \in [Points -> PointRec]
    BY <1>1, <1>3, <2>1, <2>2, Zenon DEF Typed, StoreTyped
  <2> QED
    BY <1>2, <1>4, <2>3 DEF CaptureCompleted, Typed, BlocksTyped, StoreTyped, NodesTyped, TasksTyped
<1>5. CASE CaptureNow(r, hs)
  <2> DEFINE more == disks[g].sealed \cup {[gen |-> disks[g].gen, ver |-> disks[g].ver]}
  <2>1. /\ more \in SUBSET SealRec /\ disks[g].gen + 1 \in Nat
        /\ disks[g].gen \in Nat /\ disks[g].ver \in Nat
    BY <1>0 DEF DiskRec, SealRec
  <2>2. \A S \in SUBSET SealRec, n \in Nat :
          [disks[g] EXCEPT !.sealed = S, !.gen = n] \in DiskRec
    BY <1>0 DEF DiskRec
  <2>3. disks' = [disks EXCEPT ![g] = [disks[g] EXCEPT !.sealed = more, !.gen = disks[g].gen + 1]]
    BY <1>5, <1>0 DEF CaptureNow
  <2> HIDE DEF more
  <2>4. disks' \in [Grants -> DiskRec]
    BY <1>0, <2>1, <2>2, <2>3, Zenon
  <2>5. point' \in [Points -> PointRec]
    BY <1>1, <1>3, <1>5, <2>1, Zenon DEF CaptureNow, Typed, StoreTyped
  <2> QED
    BY <1>2, <1>5, <2>4, <2>5 DEF CaptureNow, Typed, BlocksTyped, StoreTyped, NodesTyped, TasksTyped
<1> QED
  BY <1>4, <1>5

\* Upload, commit and acknowledgement.
LEMMA UploadTyped ==
  ASSUME Typed, MountSound, NEW r \in Runs, op[r].point \in Points,
         \/ ReserveBlocks(r) \/ WriteIntent(r) \/ TransferBlocks(r) \/ PublishManifest(r)
         \/ Commit(r) \/ ExtendGrant(r) \/ Receipt(r) \/ CompleteRequest(r)
  PROVE  Typed'
<1> USE DEF blockVars, pubVars, runVars, nodeVars
<1> DEFINE p == op[r].point
           Next(c) == [op EXCEPT ![r] = [op[r] EXCEPT !.pc = c]]
<1>0. \A c \in Publishing : Next(c) \in [Runs -> OpRec]
  BY RecordPatches DEF Typed, TasksTyped
<1>1. CASE ReserveBlocks(r)
  <2> DEFINE hs == op[r].hashes
             given == Assigned(hs)
  <2>1. hs \subseteq Hashes
    BY DEF Typed, TasksTyped, OpRec
  <2>2. \A h \in hs : given[h] \in Objects
    BY <1>1, <2>1, AssignedSound DEF ReserveBlocks, Typed
  <2>3. objects' \in [Objects -> ObjectRec]
    <3> SUFFICES ASSUME NEW o \in Objects  PROVE objects'[o] \in ObjectRec
      BY <1>1 DEF ReserveBlocks, Reserve
    <3>1. objects[o] \in ObjectRec
      BY DEF Typed, BlocksTyped
    <3>2. CASE \A h \in hs : given[h] # o
      BY <1>1, <3>1, <3>2 DEF ReserveBlocks, Reserve
    <3>3. CASE \E h \in hs : given[h] = o
      <4> DEFINE hash == CHOOSE h \in hs : given[h] = o
                 state == IF objects[o].state = "absent" THEN "pending" ELSE objects[o].state
      <4>1. hash \in Hashes
        BY <2>1, <3>3
      <4>2. state \in {"absent", "pending", "ready", "invalid", "deleting"}
        BY <3>1 DEF ObjectRec
      <4>3. objects[o].refs \cup {p} \in SUBSET Points
        BY <3>1 DEF ObjectRec
      <4>4. objects'[o] = [hash |-> hash, state |-> state, unused |-> FALSE,
                           refs |-> objects[o].refs \cup {p}]
        BY <1>1, <3>3 DEF ReserveBlocks, Reserve
      <4> HIDE DEF hash, state
      <4> QED
        BY <4>1, <4>2, <4>3, <4>4 DEF ObjectRec
    <3> QED
      BY <3>2, <3>3
  <2> DEFINE bs == {given[h] : h \in hs}
  <2>4. bs \in SUBSET Objects
    BY <2>2
  <2> HIDE DEF given
  <2>5. \A b \in SUBSET Objects : [point[p] EXCEPT !.blocks = b] \in PointRec
    BY DEF Typed, StoreTyped, PointRec
  <2>6. point' = [point EXCEPT ![p] = [point[p] EXCEPT !.blocks = bs]]
    BY <1>1 DEF ReserveBlocks, given
  <2> HIDE DEF bs
  <2>7. point' \in [Points -> PointRec]
    BY <2>4, <2>5, <2>6, Zenon DEF Typed, StoreTyped
  <2>8. op' = Next("intent")
    BY <1>1 DEF ReserveBlocks
  <2>9. UNCHANGED <<remote, uploaded, deletions, gc, recorded, uploadIntents, runVars, nodeVars, reading>>
    BY <1>1 DEF ReserveBlocks
  <2> QED
    BY <1>0, <2>3, <2>7, <2>8, <2>9
    DEF Publishing, Typed, BlocksTyped, StoreTyped, NodesTyped, TasksTyped
<1>2. CASE WriteIntent(r)
  <2>1. op' = Next("upload")
    BY <1>2 DEF WriteIntent
  <2> QED
    BY <1>0, <1>2, <2>1
    DEF WriteIntent, Publishing, Typed, BlocksTyped, StoreTyped, NodesTyped, TasksTyped
<1>3. CASE TransferBlocks(r)
  <2>1. op' = Next("settle")
    BY <1>3 DEF TransferBlocks
  <2>2. Missing(r) \subseteq Objects
    BY DEF Missing, Typed, StoreTyped, PointRec
  <2> QED
    BY <1>0, <1>3, <2>1, <2>2
    DEF TransferBlocks, PutObjects, Publishing, Typed, BlocksTyped, StoreTyped, NodesTyped, TasksTyped
<1>4. CASE PublishManifest(r)
  <2>1. op' = Next("commit")
    BY <1>4 DEF PublishManifest
  <2>2. Settled(p) \in [Objects -> ObjectRec]
    BY RowsTyped
  <2> DEFINE bs == {o \in Objects : p \in Settled(p)[o].refs}
  <2>3. \A b \in SUBSET Objects : [point[p] EXCEPT !.blocks = b] \in PointRec
    BY DEF Typed, StoreTyped, PointRec
  <2>4. bs \in SUBSET Objects
    OBVIOUS
  <2>5. point' = [point EXCEPT ![p] = [point[p] EXCEPT !.blocks = bs]]
    BY <1>4 DEF PublishManifest
  <2> HIDE DEF bs
  <2>6. point' \in [Points -> PointRec]
    BY <2>3, <2>4, <2>5, Zenon DEF Typed, StoreTyped
  <2>7. /\ objects' = Settled(p) /\ uploaded' = uploaded \cup {p}
        /\ UNCHANGED <<remote, deletions, gc, recorded, uploadIntents, runVars, nodeVars, reading>>
    BY <1>4 DEF PublishManifest
  <2> QED
    BY <1>0, <2>1, <2>2, <2>6, <2>7
    DEF Publishing, Typed, BlocksTyped, StoreTyped, NodesTyped, TasksTyped
<1>5. CASE Commit(r)
  <2>1. op' = Next("extend")
    BY <1>5 DEF Commit
  <2>2. [backup[r] EXCEPT !.head = p, !.status = "saving"] \in BackupRec
    BY RecordPatches
  <2>3. backup' \in [Runs -> BackupRec]
    BY <1>5, <2>2 DEF Commit, Typed, StoreTyped
  <2> QED
    BY <1>0, <1>5, <2>1, <2>3
    DEF Commit, Publishing, Typed, BlocksTyped, StoreTyped, NodesTyped, TasksTyped
<1>6. CASE ExtendGrant(r)
  <2>1. op' = Next("receipt")
    BY <1>6 DEF ExtendGrant
  <2> DEFINE g == point[p].disk
  <2>2. CASE g \in Grants
    <3>1. grants[g] \in GrantRec
      BY <2>2 DEF Typed, StoreTyped
    <3>2. \A b, q \in SUBSET Points : [grants[g] EXCEPT !.backups = b, !.pending = q] \in GrantRec
      BY <3>1 DEF GrantRec
    <3>3. grants[g].backups \cup {p} \in SUBSET Points /\ grants[g].pending \cup {p} \in SUBSET Points
      BY <3>1 DEF GrantRec
    <3>4. grants' = [grants EXCEPT ![g] = [grants[g] EXCEPT
                       !.backups = grants[g].backups \cup {p}, !.pending = grants[g].pending \cup {p}]]
      BY <1>6, <2>2 DEF ExtendGrant, Extended, Typed, StoreTyped
    <3>5. grants' \in [Grants -> GrantRec]
      BY <3>2, <3>3, <3>4, Zenon DEF Typed, StoreTyped
    <3> QED
      BY <1>0, <1>6, <2>1, <3>5
      DEF ExtendGrant, Publishing, Typed, BlocksTyped, StoreTyped, NodesTyped, TasksTyped
  <2>3. CASE g \notin Grants
    <3>1. grants' = grants
      BY <1>6, <2>3 DEF ExtendGrant, Extended, Typed, StoreTyped
    <3> QED
      BY <1>0, <1>6, <2>1, <3>1
      DEF ExtendGrant, Publishing, Typed, BlocksTyped, StoreTyped, NodesTyped, TasksTyped
  <2> QED
    BY <2>2, <2>3
<1>7. CASE Receipt(r)
  <2>1. op' = Next("complete")
    BY <1>7 DEF Receipt
  <2>2. disks' \in [Grants -> DiskRec]
    BY <1>7, PublishedTyped DEF Receipt
  <2>3. grants' \in [Grants -> GrantRec]
    <3>1. CASE point[p].disk \in Grants
      BY <1>7, <3>1, ReceiptTyped DEF Receipt
    <3>2. CASE point[p].disk \notin Grants
      BY <1>7, <3>2 DEF Receipt, ReceiptTaken, Typed, StoreTyped
    <3> QED
      BY <3>1, <3>2
  <2> QED
    BY <1>0, <1>7, <2>1, <2>2, <2>3
    DEF Receipt, Publishing, Typed, BlocksTyped, StoreTyped, NodesTyped, TasksTyped
<1>8. CASE CompleteRequest(r)
  <2>1. op' = Next("collect")
    BY <1>8 DEF CompleteRequest
  <2>2. \A s \in {"pending", "ready"} : [backup[r] EXCEPT !.ack = op[r].rev, !.status = s] \in BackupRec
    BY RecordPatches DEF Typed, TasksTyped, OpRec
  <2>3. backup' \in [Runs -> BackupRec]
    BY <1>8, <2>2 DEF CompleteRequest, Completed, Typed, StoreTyped
  <2> QED
    BY <1>0, <1>8, <2>1, <2>3
    DEF CompleteRequest, Publishing, Typed, BlocksTyped, StoreTyped, NodesTyped, TasksTyped
<1> QED
  BY <1>1, <1>2, <1>3, <1>4, <1>5, <1>6, <1>7, <1>8

\* The start of an operation, the collection of its conversation and its end.
LEMMA CollectTyped ==
  ASSUME Typed, MountSound, NEW r \in Runs,
         \/ PublishStart(r) \/ CollectStart(r) \/ RetirePoints(r) \/ QueueAbandoned(r)
         \/ AlreadyPublished(r) \/ SaveSource(r)
  PROVE  Typed'
<1> USE DEF blockVars, pubVars, runVars, nodeVars
<1>1. CASE PublishStart(r)
  <2>1. [NoOp EXCEPT !.pc = "collect", !.goal = "sync", !.rev = backup[r].req] \in OpRec
    BY DEF NoOp, OpRec, Publishing, Typed, StoreTyped, BackupRec
  <2>2. [backup[r] EXCEPT !.status = "saving"] \in BackupRec
    BY RecordPatches
  <2>3. op' \in [Runs -> OpRec] /\ backup' \in [Runs -> BackupRec]
    BY <1>1, <2>1, <2>2 DEF PublishStart, Typed, StoreTyped, TasksTyped
  <2> QED
    BY <1>1, <2>3 DEF PublishStart, Typed, BlocksTyped, StoreTyped, NodesTyped, TasksTyped
<1>2. CASE CollectStart(r)
  <2>1. [NoOp EXCEPT !.pc = "collect", !.goal = "clean"] \in OpRec
    BY DEF NoOp, OpRec, Publishing
  <2>2. op' \in [Runs -> OpRec]
    BY <1>2, <2>1 DEF CollectStart, Typed, TasksTyped
  <2> QED
    BY <1>2, <2>2 DEF CollectStart, Typed, BlocksTyped, StoreTyped, NodesTyped, TasksTyped
<1>3. CASE RetirePoints(r)
  <2> DEFINE old == PointsOf(r) \ Retained(r)
  <2>1. Retained(r) \in SUBSET Points /\ old \in SUBSET Points
    BY RetainedTyped
  <2>2. objects' \in [Objects -> ObjectRec]
    BY <1>3, <2>1, RowsTyped DEF RetirePoints
  <2>3. op' = [op EXCEPT ![r] = [op[r] EXCEPT !.pc = "tidy", !.keep = Retained(r)]]
    BY <1>3 DEF RetirePoints
  <2>4. op' \in [Runs -> OpRec]
    BY <2>1, <2>3, RecordPatches DEF Typed, TasksTyped, Publishing
  <2>5. recorded' \subseteq Points /\ deletions' \subseteq Points
    BY <1>3, <2>1 DEF RetirePoints, Typed, BlocksTyped, StoreTyped
  <2>6. UNCHANGED <<remote, corrupt, uploaded, gc, point, uploadIntents, runVars, nodeVars, reading>>
    BY <1>3 DEF RetirePoints
  <2> QED
    BY <2>2, <2>4, <2>5, <2>6 DEF Typed, BlocksTyped, StoreTyped, NodesTyped, TasksTyped
<1>4. CASE QueueAbandoned(r)
  <2>1. op' \in [Runs -> OpRec] /\ move' \in [Runs -> MoveRec]
    BY <1>4, CurrentDisk, EndsTyped DEF QueueAbandoned
  <2>2. objects' \in [Objects -> ObjectRec]
    BY <1>4, RowsTyped DEF QueueAbandoned
  <2>3. uploadIntents' \subseteq Points /\ deletions' \subseteq Points
    BY <1>4 DEF QueueAbandoned, Typed, BlocksTyped, StoreTyped
  <2>4. UNCHANGED <<remote, corrupt, uploaded, gc, point, recorded, backup, grants, owner, monitor,
                    nodeVars, reading>>
    BY <1>4 DEF QueueAbandoned
  <2> QED
    BY <2>1, <2>2, <2>3, <2>4 DEF Typed, BlocksTyped, StoreTyped, NodesTyped, TasksTyped
<1>5. CASE AlreadyPublished(r)
  <2>1. op' \in [Runs -> OpRec] /\ move' \in [Runs -> MoveRec]
    BY <1>5, CurrentDisk, EndsTyped DEF AlreadyPublished
  <2>2. disks[Current(r)].receipt \in Points /\ Current(r) \in Grants
    BY <1>5, CurrentDisk DEF AlreadyPublished, Typed, StoreTyped
  <2>3. grants' \in [Grants -> GrantRec]
    BY <1>5, <2>2, ReceiptTyped DEF AlreadyPublished
  <2>4. \A s \in {"pending", "ready"} : [backup[r] EXCEPT !.ack = op[r].rev, !.status = s] \in BackupRec
    BY RecordPatches DEF Typed, TasksTyped, OpRec
  <2>5. backup' \in [Runs -> BackupRec]
    BY <1>5, <2>4 DEF AlreadyPublished, Completed, Typed, StoreTyped
  <2>6. UNCHANGED <<blockVars, pubVars, owner, monitor, nodeVars, reading>>
    BY <1>5 DEF AlreadyPublished
  <2> QED
    BY <2>1, <2>3, <2>5, <2>6 DEF Typed, BlocksTyped, StoreTyped, NodesTyped, TasksTyped
<1>6. CASE SaveSource(r)
  <2>1. [NoOp EXCEPT !.pc = "collect", !.goal = "move", !.rev = backup[r].req] \in OpRec
    BY DEF NoOp, OpRec, Publishing, Typed, StoreTyped, BackupRec
  <2>2. op' \in [Runs -> OpRec]
    BY <1>6, <2>1 DEF SaveSource, Typed, TasksTyped
  <2> QED
    BY <1>6, <2>2 DEF SaveSource, Typed, BlocksTyped, StoreTyped, NodesTyped, TasksTyped
<1> QED
  BY <1>1, <1>2, <1>3, <1>4, <1>5, <1>6

\* Failures, late receipts and the death of the installation.
LEMMA FailureTyped ==
  ASSUME Typed, MountSound, NEW r \in Runs, ReceiptLost(r) => op[r].point \in Points,
         \/ Refused(r) \/ ReceiptLost(r)
         \/ \E os \in SUBSET Objects : PublishFails(r, os)
  PROVE  Typed'
<1> USE DEF blockVars, pubVars, runVars, nodeVars
<1>1. Current(r) \in Grants
  BY CurrentDisk
<1>2. Abandon(r) /\ UNCHANGED <<objects, uploaded, deletions, gc, pubVars, grants, owner, monitor,
                                disks, mounted, reading>>
  BY DEF Refused, ReceiptLost, PublishFails
<1>3. op' \in [Runs -> OpRec] /\ move' \in [Runs -> MoveRec] /\ backup' \in [Runs -> BackupRec]
  BY <1>1, <1>2, EndsTyped
<1>4. remote' \subseteq Objects /\ late' \subseteq Points
  BY DEF Refused, ReceiptLost, PublishFails, PutObjects, Typed, BlocksTyped, NodesTyped
<1> QED
  BY <1>2, <1>3, <1>4 DEF Typed, BlocksTyped, StoreTyped, NodesTyped, TasksTyped

LEMMA LateTyped ==
  ASSUME Typed, NEW p \in Points, LateReceipt(p)
  PROVE  Typed'
<1>1. disks' \in [Grants -> DiskRec]
  BY PublishedTyped DEF LateReceipt, Typed, NodesTyped
<1> QED
  BY <1>1 DEF LateReceipt, blockVars, pubVars, runVars, nodeVars, Typed, BlocksTyped, StoreTyped,
              NodesTyped, TasksTyped

LEMMA CrashTyped ==
  ASSUME Typed, ManagerCrash
  PROVE  Typed'
<1>1. NoOp \in OpRec /\ NoMove \in MoveRec /\ NoRead \in ReadRec /\ NoStatus \in StatusRec
  BY SMTT(40) DEF NoOp, OpRec, NoMove, MoveRec, NoRead, ReadRec, NoStatus, StatusRec
<1>2. op' \in [Runs -> OpRec] /\ reading' \in [Runs -> ReadRec] /\ monitor' \in [Runs -> StatusRec]
  BY <1>1 DEF ManagerCrash, Typed, TasksTyped
<1>3. move' \in [Runs -> MoveRec]
  <2>1. \A r \in Runs : move[r] \in MoveRec
    BY DEF Typed, StoreTyped
  <2>2. \A r \in Runs : /\ [move[r] EXCEPT !.pc = "fence", !.point = None] \in MoveRec
                        /\ [move[r] EXCEPT !.pc = "fence"] \in MoveRec
    BY RecordPatches
  <2> DEFINE m(r) ==
       CASE move[r].pc = "picked" -> NoMove
         [] ~move[r].auto /\ move[r].pc \in {"save", "restore", "resume"} ->
              [move[r] EXCEPT !.pc = "fence", !.point = None]
         [] move[r].auto /\ move[r].pc \in {"restore", "resume"} ->
              [move[r] EXCEPT !.pc = "fence"]
         [] OTHER -> move[r]
  <2>3. move' = [r \in Runs |-> m(r)]
    BY DEF ManagerCrash
  <2>4. \A r \in Runs : m(r) \in MoveRec
    BY <1>1, <2>1, <2>2
  <2> HIDE DEF m
  <2> QED
    BY <2>3, <2>4
<1>4. gc' \in [busy : BOOLEAN, objs : SUBSET Objects, keys : SUBSET Points]
  BY DEF ManagerCrash, Idle
<1>5. UNCHANGED <<objects, remote, uploaded, deletions, pubVars, backup, grants, owner, nodeVars>>
  BY DEF ManagerCrash
<1> QED
  BY <1>2, <1>3, <1>4, <1>5 DEF pubVars, nodeVars, Typed, BlocksTyped, StoreTyped, NodesTyped, TasksTyped

LEMMA StatusTyped ==
  ASSUME Typed, NEW r \in Runs, StatusSound(r), monitor[r].known
  PROVE  /\ monitor[r].disk \in Grants /\ monitor[r].point \in Points
         /\ ReceiptTaken(monitor[r].disk, monitor[r].point) \in [Grants -> GrantRec]
         /\ RecordStatus(r) \in [Runs -> BackupRec]
<1>1. monitor[r] \in StatusRec
  BY DEF Typed, TasksTyped
<1>2. monitor[r].disk \in Grants /\ monitor[r].point \in Points
  BY <1>1 DEF StatusRec, StatusSound
<1>3. \A s \in {"pending", "ready"} : [backup[r] EXCEPT !.head = monitor[r].point, !.status = s] \in BackupRec
  BY <1>2, RecordPatches
<1>4. RecordStatus(r) \in [Runs -> BackupRec]
  BY <1>3 DEF RecordStatus, Typed, StoreTyped
<1> QED
  BY <1>2, <1>4, ReceiptTyped

\* Reads of the disks, and the storage monitor.
LEMMA DiskTyped ==
  ASSUME Typed, MountSound, NEW r \in Runs, StatusSound(r), Disk(r)
  PROVE  Typed'
<1> USE DEF blockVars, pubVars, runVars, nodeVars
<1>0. NoRead \in ReadRec /\ NoStatus \in StatusRec
  BY DEF NoRead, ReadRec, NoStatus, StatusRec
<1>1. ASSUME NEW g \in Grants, ReadStart(r, g)  PROVE Typed'
  <2>1. disks[g].base \in Points
    BY <1>1 DEF ReadStart, Typed, StoreTyped
  <2>2. point[disks[g].base].blocks \in SUBSET Objects
    BY <2>1 DEF Typed, StoreTyped, PointRec
  <2>3. [busy |-> TRUE, objs |-> point[disks[g].base].blocks] \in ReadRec
    BY <2>2 DEF ReadRec
  <2>4. reading' \in [Runs -> ReadRec]
    BY <1>1, <2>3 DEF ReadStart, Typed, TasksTyped
  <2> QED
    BY <1>1, <2>4 DEF ReadStart, Typed, BlocksTyped, StoreTyped, NodesTyped, TasksTyped
<1>2. CASE ReadServed(r)
  BY <1>0, <1>2 DEF ReadServed, Typed, BlocksTyped, StoreTyped, NodesTyped, TasksTyped
<1>3. CASE ReadInvalid(r)
  <2>1. PICK o \in reading[r].objs : objects' = Invalidated(o)
    BY <1>3 DEF ReadInvalid
  <2>2. o \in Objects
    BY <2>1 DEF Typed, TasksTyped, ReadRec
  <2>3. objects' \in [Objects -> ObjectRec]
    BY <2>1, <2>2, RowsTyped
  <2>4. reading' = [reading EXCEPT ![r] = NoRead]
        /\ UNCHANGED <<remote, corrupt, uploaded, deletions, gc, pubVars, runVars, nodeVars, op>>
    BY <1>3 DEF ReadInvalid
  <2> QED
    BY <1>0, <2>3, <2>4 DEF Typed, BlocksTyped, StoreTyped, NodesTyped, TasksTyped
<1>4. CASE RefreshRead(r)
  <2>1. Current(r) \in Grants /\ disks[Current(r)].receipt \in Points
    BY <1>4, CurrentDisk DEF RefreshRead, Typed, StoreTyped
  <2>2. Clean(Current(r)) \in BOOLEAN
    BY DEF Clean
  <2>3. [known |-> TRUE, disk |-> Current(r), point |-> disks[Current(r)].receipt,
         clean |-> Clean(Current(r))] \in StatusRec
    BY <2>1, <2>2 DEF StatusRec
  <2>4. monitor' \in [Runs -> StatusRec]
    BY <1>4, <2>3 DEF RefreshRead, Typed, TasksTyped
  <2> QED
    BY <1>4, <2>4 DEF RefreshRead, Typed, BlocksTyped, StoreTyped, NodesTyped, TasksTyped
<1>5. CASE RefreshApply(r)
  <2> DEFINE m == monitor[r]
  <2>1. m \in StatusRec
    BY DEF Typed, TasksTyped
  <2>2. monitor' \in [Runs -> StatusRec]
    BY <1>0, <1>5 DEF RefreshApply, Typed, TasksTyped
  <2>3. UNCHANGED <<blockVars, pubVars, owner, move, nodeVars, op, reading>>
    BY <1>5 DEF RefreshApply
  <2>4. CASE UNCHANGED <<grants, backup>>
    BY <2>2, <2>3, <2>4 DEF Typed, BlocksTyped, StoreTyped, NodesTyped, TasksTyped
  <2>5. CASE /\ grants[m.disk].run = r
             /\ grants' = ReceiptTaken(m.disk, m.point)
             /\ backup' = RecordStatus(r)
    <3>1. grants' \in [Grants -> GrantRec] /\ backup' \in [Runs -> BackupRec]
      BY <1>5, <2>5, StatusTyped DEF RefreshApply
    <3> QED
      BY <2>2, <2>3, <3>1 DEF Typed, BlocksTyped, StoreTyped, NodesTyped, TasksTyped
  <2> QED
    BY <1>5, <2>4, <2>5 DEF RefreshApply
<1> QED
  BY <1>1, <1>2, <1>3, <1>4, <1>5 DEF Disk

\* Moves, the purge and the collector of blocks.
LEMMA MoveTyped ==
  ASSUME Typed, MountSound, NEW r \in Runs, MoveSound(r), NEW n \in Nodes,
         \/ RequestMove(r, n) \/ PickRecovery(r, n) \/ RecordRecovery(r) \/ Fence(r)
         \/ Restore(r) \/ RestoreFails(r) \/ Resume(r)
  PROVE  Typed'
<1> USE DEF blockVars, pubVars, runVars, nodeVars
<1>0. /\ move[r] \in MoveRec /\ NoMove \in MoveRec /\ move \in [Runs -> MoveRec]
      /\ backup[r] \in BackupRec /\ NoMove \in MoveRec
  BY DEF Typed, StoreTyped, NoMove, MoveRec
<1>1. CASE RequestMove(r, n)
  <2>1. [NoMove EXCEPT !.pc = "fence", !.to = n] \in MoveRec
    BY <1>0 DEF MoveRec, NoMove
  <2>2. move' \in [Runs -> MoveRec]
    BY <1>0, <1>1, <2>1 DEF RequestMove
  <2> QED
    BY <1>1, <2>2 DEF RequestMove, Typed, BlocksTyped, StoreTyped, NodesTyped, TasksTyped
<1>2. CASE PickRecovery(r, n)
  <2>1. [NoMove EXCEPT !.pc = "picked", !.to = n, !.point = backup[r].head, !.auto = TRUE] \in MoveRec
    BY <1>0 DEF MoveRec, NoMove, BackupRec
  <2>2. move' \in [Runs -> MoveRec]
    BY <1>0, <1>2, <2>1 DEF PickRecovery
  <2> QED
    BY <1>2, <2>2 DEF PickRecovery, Typed, BlocksTyped, StoreTyped, NodesTyped, TasksTyped
<1>3. CASE RecordRecovery(r)
  <2>1. [move[r] EXCEPT !.pc = "fence", !.backup = move[r].point] \in MoveRec
    <3>1. move[r].point \in Points \cup {None}
      BY <1>0 DEF MoveRec
    <3> QED
      BY <3>1, RecordPatches, Zenon
  <2>2. move' \in [Runs -> MoveRec]
    BY <1>0, <1>3, <2>1 DEF RecordRecovery
  <2> QED
    BY <1>3, <2>2 DEF RecordRecovery, Typed, BlocksTyped, StoreTyped, NodesTyped, TasksTyped
<1>4. CASE Fence(r)
  <2>1. \A c \in {"restore", "save"} : [move[r] EXCEPT !.pc = c] \in MoveRec
    BY RecordPatches
  <2>2. move' \in [Runs -> MoveRec]
    BY <1>0, <1>4, <2>1 DEF Fence
  <2> QED
    BY <1>4, <2>2 DEF Fence, Typed, BlocksTyped, StoreTyped, NodesTyped, TasksTyped
<1>5. CASE Restore(r)
  <2> DEFINE p == move[r].point
             m == move[r].to
             g == CHOOSE h \in Unissued : TRUE
  <2>1. g \in Grants /\ p \in Points /\ m \in Nodes \cup {None}
    <3>1. g \in Unissued /\ p \in recorded
      BY <1>5 DEF Restore
    <3> QED
      BY <1>0, <3>1 DEF Unissued, Typed, StoreTyped, MoveRec
  <2>2. Issued(r, m, p) \in GrantRec
    BY <2>1 DEF Issued, NoGrant, GrantRec
  <2>3. NewDisk(point[p].ver, p) \in DiskRec
    BY <2>1 DEF NewDisk, DiskRec, Typed, StoreTyped, PointRec
  <2> HIDE DEF g
  <2>4. /\ grants' = [grants EXCEPT ![g] = Issued(r, m, p)]
        /\ \/ UNCHANGED <<disks, mounted>>
           \/ /\ disks' = [disks EXCEPT ![g] = NewDisk(point[p].ver, p)]
              /\ mounted' = [mounted EXCEPT ![r][m] = g]
        /\ move' = [move EXCEPT ![r].pc = "resume"]
        /\ UNCHANGED <<blockVars, pubVars, backup, owner, monitor, op, reading, late>>
    BY <1>5 DEF Restore, g
  <2>5. grants' \in [Grants -> GrantRec] /\ disks' \in [Grants -> DiskRec]
    BY <2>2, <2>3, <2>4, ZenonT(60) DEF Typed, StoreTyped, NodesTyped
  <2>6. mounted' \in [Runs -> [Nodes -> Grants \cup {None}]]
    BY <2>1, <2>4 DEF Typed, NodesTyped
  <2>7. move' \in [Runs -> MoveRec]
    BY <1>0, <2>4, RecordPatches
  <2> QED
    BY <2>4, <2>5, <2>6, <2>7 DEF Typed, BlocksTyped, StoreTyped, NodesTyped, TasksTyped
<1>6. CASE RestoreFails(r)
  BY <1>0, <1>6 DEF RestoreFails, Typed, BlocksTyped, StoreTyped, NodesTyped, TasksTyped
<1>7. CASE Resume(r)
  <2>1. move[r].to \in Nodes
    BY <1>7 DEF Resume, MoveSound
  <2> QED
    BY <1>0, <1>7, <2>1 DEF Resume, Typed, BlocksTyped, StoreTyped, NodesTyped, TasksTyped
<1> QED
  BY <1>1, <1>2, <1>3, <1>4, <1>5, <1>6, <1>7

LEMMA PurgeTyped ==
  ASSUME Typed, NEW r \in Runs, PurgeStart(r) \/ PurgeFinish(r)
  PROVE  Typed'
<1> USE DEF blockVars, pubVars, runVars, nodeVars
<1>1. CASE PurgeStart(r)
  <2>1. [NoOp EXCEPT !.pc = "purge", !.goal = "purge"] \in OpRec
    BY DEF NoOp, OpRec
  <2>2. op' \in [Runs -> OpRec]
    BY <1>1, <2>1 DEF PurgeStart, Typed, TasksTyped
  <2> QED
    BY <1>1, <2>2 DEF PurgeStart, Typed, BlocksTyped, StoreTyped, NodesTyped, TasksTyped
<1>2. CASE PurgeFinish(r)
  <2>1. [NoOp EXCEPT !.pc = "gone", !.goal = "gone"] \in OpRec /\ NoGrant \in GrantRec
    BY DEF NoOp, OpRec, NoGrant, GrantRec
  <2>2. op' \in [Runs -> OpRec] /\ grants' \in [Grants -> GrantRec]
    BY <1>2, <2>1 DEF PurgeFinish, Typed, StoreTyped, TasksTyped
  <2>3. objects' \in [Objects -> ObjectRec]
    BY <1>2, RowsTyped DEF PurgeFinish
  <2>4. recorded' \subseteq recorded
        /\ UNCHANGED <<remote, uploaded, deletions, gc, point, uploadIntents, backup,
                       owner, move, monitor, nodeVars, reading>>
    BY <1>2 DEF PurgeFinish
  <2> QED
    BY <2>2, <2>3, <2>4 DEF Typed, BlocksTyped, StoreTyped, NodesTyped, TasksTyped
<1> QED
  BY <1>1, <1>2

LEMMA CollectorTyped ==
  ASSUME Typed, Collector \/ \E o \in Objects : Corrupt(o)
  PROVE  Typed'
<1> USE DEF pubVars, runVars, nodeVars
<1>1. StoreTyped' /\ NodesTyped' /\ TasksTyped'
  BY DEF Collector, Corrupt, Typed, StoreTyped, NodesTyped, TasksTyped
<1>2. Idle \in [busy : BOOLEAN, objs : SUBSET Objects, keys : SUBSET Points] /\ Nobody \in ObjectRec
  BY BlockConstants DEF Idle, Nobody, ObjectRec
<1>3. CASE Claim
  <2>1. \A o \in Objects : [objects[o] EXCEPT !.state = "deleting"] \in ObjectRec
    BY DEF Typed, BlocksTyped, ObjectRec
  <2>2. objects' \in [Objects -> ObjectRec]
    BY <1>3, <2>1 DEF Claim, Typed, BlocksTyped
  <2>3. Garbage \in SUBSET Objects
    BY DEF Garbage, Stored
  <2>4. gc' \in [busy : BOOLEAN, objs : SUBSET Objects, keys : SUBSET Points]
    BY <1>3, <2>3 DEF Claim, Typed, BlocksTyped
  <2> QED
    BY <1>1, <1>3, <2>2, <2>4 DEF Claim, Typed, BlocksTyped
<1>4. CASE Forget
  <2>1. objects' \in [Objects -> ObjectRec]
    BY <1>2, <1>4 DEF Forget, Typed, BlocksTyped
  <2> QED
    BY <1>1, <1>2, <1>4, <2>1 DEF Forget, Typed, BlocksTyped
<1>5. ASSUME NEW os \in SUBSET gc.objs, NEW ks \in SUBSET gc.keys, Delete(os, ks)  PROVE Typed'
  <2>1. gc' \in [busy : BOOLEAN, objs : SUBSET Objects, keys : SUBSET Points]
    BY <1>5 DEF Delete, Typed, BlocksTyped
  <2> QED
    BY <1>1, <1>5, <2>1 DEF Delete, PurgeKeys, Typed, BlocksTyped
<1>6. ASSUME NEW o \in Objects, Corrupt(o)  PROVE Typed'
  BY <1>1, <1>6 DEF Corrupt, Typed, BlocksTyped
<1> QED
  BY <1>3, <1>4, <1>5, <1>6 DEF Collector

\* Each publication that an operation works on exists.
LEMMA TypesKept ==
  ASSUME PublicationInv, PublicationNext
  PROVE  Typed'
<1>1. Typed /\ MountSound /\ \A r \in Runs : StatusSound(r) /\ MoveSound(r) /\ CandidateSound(r)
  BY DEF PublicationInv, GrantSide, BlockSide
<1>2. ASSUME NEW r \in Runs, PublishTurn(r)  PROVE Typed'
  <2>1. op[r].pc \in {"reserve", "intent", "upload", "settle", "commit", "extend", "receipt", "complete"}
          => op[r].point \in Points
    BY <1>1 DEF CandidateSound, Uncommitted, Typed, StoreTyped, TasksTyped, OpRec
  <2>2. CASE op[r].point \in Points /\ (\/ ReserveBlocks(r) \/ WriteIntent(r) \/ TransferBlocks(r)
              \/ PublishManifest(r) \/ Commit(r) \/ ExtendGrant(r) \/ Receipt(r) \/ CompleteRequest(r))
    BY <1>1, <2>2, UploadTyped
  <2>3. \/ ReserveBlocks(r) \/ WriteIntent(r) \/ TransferBlocks(r) \/ PublishManifest(r)
        \/ Commit(r) \/ ExtendGrant(r) \/ Receipt(r) \/ CompleteRequest(r) \/ ReceiptLost(r)
        => op[r].point \in Points
    <3>1. /\ ReserveBlocks(r) => op[r].pc = "reserve"
          /\ WriteIntent(r) => op[r].pc = "intent"
          /\ TransferBlocks(r) => op[r].pc = "upload"
      BY DEF ReserveBlocks, WriteIntent, TransferBlocks
    <3>2. /\ PublishManifest(r) => op[r].pc = "settle"
          /\ Commit(r) => op[r].pc = "commit"
          /\ ExtendGrant(r) => op[r].pc = "extend"
      <4>1. PublishManifest(r) => op[r].pc = "settle"
        BY Zenon DEF PublishManifest
      <4>2. Commit(r) => op[r].pc = "commit"
        BY Zenon DEF Commit
      <4>3. ExtendGrant(r) => op[r].pc = "extend"
        BY Zenon DEF ExtendGrant
      <4> QED
        BY <4>1, <4>2, <4>3
    <3>3. /\ Receipt(r) => op[r].pc = "receipt"
          /\ CompleteRequest(r) => op[r].pc = "complete"
          /\ ReceiptLost(r) => op[r].pc = "receipt"
      BY DEF Receipt, CompleteRequest, ReceiptLost
    <3> QED
      BY <2>1, <3>1, <3>2, <3>3
  <2>4. CASE \/ Refused(r) \/ ReceiptLost(r) \/ \E os \in SUBSET Objects : PublishFails(r, os)
    BY <1>1, <2>3, <2>4, FailureTyped, Zenon
  <2>5. CASE \/ PublishStart(r) \/ CollectStart(r) \/ RetirePoints(r) \/ QueueAbandoned(r)
             \/ AlreadyPublished(r)
    BY <1>1, <2>5, CollectTyped
  <2>6. CASE \E hs \in (SUBSET Hashes) \ {{}} : CaptureCompleted(r, hs) \/ CaptureNow(r, hs)
    BY <1>1, <2>6, CaptureTyped
  <2> QED
    BY <1>2, <2>2, <2>3, <2>4, <2>5, <2>6 DEF PublishTurn
<1>3. ASSUME NEW r \in Runs, Move(r)  PROVE Typed'
  BY <1>1, <1>3, MoveTyped, CollectTyped, PublicationConstants DEF Move
<1> QED
  BY <1>1, <1>2, <1>3, NodeTyped, DiskTyped, PurgeTyped, CollectorTyped, LateTyped, CrashTyped
  DEF PublicationNext

----------------------------------------
(* The grants, the disks and what they refer to.                           *)

LEMMA NoneIsNothing ==
  None \notin Points /\ None \notin Grants /\ None \notin Runs /\ None \notin Nodes
BY PublicationConstants, BlockConstants DEF None, Points, Grants

\* What an action keeps when it changes neither grants nor mounts.
PointsStay ==
  \A p \in Points : Used(p) => /\ point'[p].run = point[p].run
                               /\ point'[p].node = point[p].node
                               /\ point'[p].disk = point[p].disk
                               /\ point'[p].gen = point[p].gen
NewPointsSound == \A p \in Points : ~Used(p) => PointSound(p)'
BasesStay ==
  \A g \in Grants : /\ disks'[g].base = disks[g].base
                    /\ disks'[g].receipt = disks[g].receipt
                    /\ disks'[g].pubGen = disks[g].pubGen
RunsStay(r) ==
  /\ Alive(r)' = Alive(r)
  /\ mounted[r][owner'[r]] # None
  /\ monitor'[r] = monitor[r] \/ StatusSound(r)'
  /\ backup'[r].head # None => point[backup'[r].head].run = r
  /\ op'[r].pc = "receipt" => op'[r].point \in Points /\ Used(op'[r].point) /\ Listed(op'[r].point)
OnlyUsed ==
  /\ \A p \in late' : Used(p) /\ Listed(p)
  /\ \A p \in recorded' \cup uploadIntents' \cup deletions' : Used(p)
  /\ \A o \in Objects : \A p \in objects'[o].refs : Used(p)
PinsStay == \A g \in Grants : grants[g].backups \subseteq recorded'

LEMMA GrantSideKept ==
  ASSUME PublicationInv, Typed', PointsStay, NewPointsSound, BasesStay, OnlyUsed, PinsStay,
         \A g \in Grants : DiskSound(g)', UNCHANGED <<grants, mounted>>,
         \A r \in Runs : RunsStay(r) /\ MoveSound(r)'
  PROVE  GrantSide'
<1> USE NoneIsNothing
<1>0. /\ UsedSound /\ MountSound /\ ReceiptsListed
      /\ \A r \in Runs : MoveSound(r) /\ StatusSound(r)
      /\ \A g \in Grants : GrantSound(g) /\ DiskSound(g)
  BY DEF PublicationInv, GrantSide
<1>1. /\ recorded \subseteq Points /\ late' \subseteq Points
      /\ \A g \in Grants : grants[g].backups \subseteq Points /\ disks[g].receipt \in Points \cup {None}
      /\ \A r \in Runs : monitor[r].point \in Points \cup {None} /\ monitor[r].disk \in Grants \cup {None}
      /\ recorded' \cup uploadIntents' \cup deletions' \subseteq Points
      /\ \A o \in Objects : objects'[o].refs \subseteq Points
  BY DEF PublicationInv, Typed, BlocksTyped, StoreTyped, NodesTyped, TasksTyped, GrantRec, DiskRec, StatusRec,
         ObjectRec
<1>2. \A p \in Points : Used(p) => Used(p)'
  BY <1>0 DEF Used, UsedSound, PointSound, PointsStay
<1>3. \A p \in Points : Used(p) /\ Listed(p) => Listed(p)'
  BY DEF Listed, PointsStay
<1>4. UsedSound'
  <2>1. \A p \in Points : Used(p) => PointSound(p)'
    BY <1>0, <1>2 DEF UsedSound, PointSound, PointsStay, RunsStay
  <2>2. \A p \in Points : PointSound(p)'
    BY <2>1 DEF NewPointsSound
  <2>3. ASSUME NEW p \in recorded' \cup uploadIntents' \cup deletions' \cup late'  PROVE Used(p)'
    <3>1. p \in Points /\ Used(p)
      BY <1>1 DEF OnlyUsed
    <3> QED
      BY <1>2, <3>1
  <2>4. ASSUME NEW o \in Objects, NEW p \in objects'[o].refs  PROVE Used(p)'
    <3>1. p \in Points /\ Used(p)
      BY <1>1 DEF OnlyUsed
    <3> QED
      BY <1>2, <3>1
  <2> QED
    BY <2>2, <2>3, <2>4 DEF UsedSound
<1>5. MountSound'
  BY <1>0 DEF MountSound, PublicationInv, Typed, NodesTyped, RunsStay, BasesStay
<1>6. ASSUME NEW r \in Runs  PROVE StatusSound(r)'
  <2>1. CASE monitor'[r] = monitor[r] /\ monitor[r].known
    <3> DEFINE p == monitor[r].point
               g == monitor[r].disk
    <3>1. /\ p \in Points /\ g \in Grants /\ point[p].disk = g /\ Used(p)
          /\ point[p].gen <= disks[g].pubGen /\ Listed(p)
          /\ point[p].gen = disks[g].pubGen => p = disks[g].receipt
      BY <1>0, <1>1, <2>1 DEF StatusSound
    <3> QED
      BY <2>1, <3>1, <1>2, <1>3 DEF StatusSound, Used, Listed, PointsStay, BasesStay
  <2> QED
    BY <2>1 DEF RunsStay, StatusSound
<1>7. ASSUME NEW g \in Grants  PROVE GrantSound(g)'
  <2>1. \A p \in grants[g].backups : p \in Points /\ p \in recorded /\ p \in recorded' /\ Used(p)
    BY <1>0, <1>1 DEF GrantSound, UsedSound, PinsStay
  <2> QED
    BY <1>0, <2>1 DEF GrantSound, PointsStay, BasesStay
<1>8. ReceiptsListed'
  <2>1. \A g \in Grants : disks[g].receipt # None => Used(disks[g].receipt) /\ Listed(disks[g].receipt)
    <3>1. \A g \in Grants : disks[g].receipt # None => point[disks[g].receipt].disk = g
      BY SMTT(40), <1>0 DEF DiskSound
    <3> QED
      BY <1>0, <1>1, <3>1 DEF ReceiptsListed, UsedSound, PointSound, NoPoint
  <2>2. \A r \in Runs : (op[r].pc = "receipt" => Listed(op[r].point))'
    BY SMTT(40) DEF Listed, RunsStay, PointsStay
  <2>3. \A g \in Grants : (disks[g].receipt # None => Listed(disks[g].receipt))'
    BY <1>1, <2>1 DEF Listed, PointsStay, BasesStay
  <2>4. \A p \in late' : Listed(p)'
    BY <1>1, <1>3 DEF OnlyUsed
  <2> QED
    BY <2>2, <2>3, <2>4 DEF ReceiptsListed
<1>9. ASSUME NEW r \in Runs  PROVE HeadSound(r)'
  <2>1. backup'[r].head \in Points \cup {None}
    BY DEF Typed, StoreTyped, BackupRec
  <2> QED
    BY <2>1 DEF HeadSound, RunsStay, PointsStay, Used
<1> QED
  BY <1>4, <1>5, <1>6, <1>7, <1>8, <1>9 DEF GrantSide

\* The pieces of it, for actions that leave the variables of a piece alone.
LEMMA PointsStill ==
  ASSUME PublicationInv, UNCHANGED <<point, grants>>, \A r \in Runs : Alive(r)' = Alive(r)
  PROVE  PointsStay /\ NewPointsSound
BY DEF PublicationInv, GrantSide, UsedSound, PointSound, PointsStay, NewPointsSound, Used

LEMMA ReceiptUsed ==
  ASSUME PublicationInv, NEW g \in Grants, disks[g].receipt # None
  PROVE  disks[g].receipt \in Points /\ Used(disks[g].receipt)
<1>1. disks[g].receipt \in Points /\ point[disks[g].receipt].disk = g
  BY DEF PublicationInv, GrantSide, DiskSound, Typed, NodesTyped, DiskRec
<1> QED
  BY <1>1, NoneIsNothing DEF PublicationInv, GrantSide, UsedSound, PointSound, NoPoint

LEMMA DisksStill ==
  ASSUME PublicationInv, disks' = disks, PointsStay
  PROVE  BasesStay /\ \A g \in Grants : DiskSound(g)'
<1>1. BasesStay
  BY DEF BasesStay
<1>2. ASSUME NEW g \in Grants  PROVE DiskSound(g)'
  <2>1. DiskSound(g)
    BY DEF PublicationInv, GrantSide
  <2>2. disks[g].receipt # None => disks[g].receipt \in Points /\ Used(disks[g].receipt)
    BY ReceiptUsed
  <2> QED
    BY <2>1, <2>2 DEF DiskSound, PointsStay
<1> QED
  BY <1>1, <1>2

LEMMA MovesStill ==
  ASSUME PublicationInv, NEW r \in Runs, move'[r] = move[r], mounted' = mounted, PointsStay,
         op'[r].goal = "move" => op[r].goal = "move" \/ move[r].pc = "save"
  PROVE  MoveSound(r)'
<1>1. MoveSound(r) /\ move[r].point \in Points \cup {None}
  BY DEF PublicationInv, GrantSide, Typed, StoreTyped, MoveRec
<1>2. move[r].point # None => Used(move[r].point)
  BY <1>1, NoneIsNothing DEF MoveSound, Used
<1> QED
  BY <1>1, <1>2 DEF MoveSound, PointsStay

LEMMA CandidateUsed ==
  ASSUME PublicationInv, NEW r \in Runs
  PROVE  op[r].point # None => /\ op[r].point \in Points /\ Used(op[r].point)
                               /\ point[op[r].point].run = r
<1>1. CandidateSound(r) /\ op[r].point \in Points \cup {None}
  BY DEF PublicationInv, BlockSide, Typed, TasksTyped, OpRec
<1> QED
  BY <1>1, NoneIsNothing DEF CandidateSound, Used

\* An operation with a candidate has one that exists.
LEMMA CandidateThere ==
  ASSUME PublicationInv, NEW r \in Runs,
         op[r].pc \in {"reserve", "intent", "upload", "settle", "commit", "extend", "receipt", "complete"}
  PROVE  /\ op[r].point \in Points /\ Used(op[r].point) /\ point[op[r].point].run = r
         /\ op[r].point # None
<1>1. CandidateSound(r) /\ Typed
  BY DEF PublicationInv, BlockSide
<1>2. op[r].point # None
  BY <1>1, NoneIsNothing DEF CandidateSound, Uncommitted, Typed, StoreTyped
<1> QED
  BY <1>2, CandidateUsed

LEMMA RunsStill ==
  ASSUME PublicationInv, NEW q \in Runs, UNCHANGED <<owner, monitor>>,
         backup'[q].head \in {backup[q].head, op[q].point},
         op'[q] = op[q] \/ (Alive(q) /\ op'[q].goal # "gone" /\ op'[q].pc # "receipt")
  PROVE  RunsStay(q)
<1>1. mounted[q][owner'[q]] # None
  BY DEF PublicationInv, GrantSide, MountSound
<1>2. Alive(q)' = Alive(q)
  BY DEF Alive
<1>5. backup'[q].head # None => point[backup'[q].head].run = q
  BY CandidateUsed DEF PublicationInv, GrantSide, HeadSound
<1>3. CASE op'[q] = op[q]
  <2>1. op[q].pc = "receipt" => op[q].point \in Points /\ Used(op[q].point) /\ Listed(op[q].point)
    <3>1. op[q].pc = "receipt" => Listed(op[q].point)
      BY DEF PublicationInv, GrantSide, ReceiptsListed
    <3> QED
      BY <3>1, CandidateThere
  <2> QED
    BY <1>1, <1>2, <1>3, <1>5, <2>1 DEF RunsStay
<1>4. CASE op'[q].pc # "receipt"
  BY <1>1, <1>2, <1>4, <1>5 DEF RunsStay
<1> QED
  BY <1>3, <1>4

LEMMA UsedStill ==
  ASSUME PublicationInv, NEW P \in SUBSET Points, \A p \in P : Used(p), late' \subseteq late,
         recorded' \cup uploadIntents' \cup deletions'
           \subseteq recorded \cup uploadIntents \cup deletions \cup P,
         \A o \in Objects : objects'[o].refs \subseteq objects[o].refs \cup P
  PROVE  OnlyUsed
BY DEF PublicationInv, GrantSide, UsedSound, ReceiptsListed, OnlyUsed

LEMMA PinsStill ==
  ASSUME PublicationInv, recorded \subseteq recorded'
  PROVE  PinsStay
BY DEF PublicationInv, GrantSide, GrantSound, PinsStay

\* An action that touches neither disks nor grants nor publications.
LEMMA GrantSideStill ==
  ASSUME PublicationInv, Typed', UNCHANGED <<point, grants, mounted, disks>>, OnlyUsed, PinsStay,
         \A q \in Runs : RunsStay(q),
         \A q \in Runs : \/ MoveSound(q)'
                        \/ /\ move'[q] = move[q]
                           /\ op'[q].goal = "move" => op[q].goal = "move" \/ move[q].pc = "save"
  PROVE  GrantSide'
<1>1. PointsStay /\ NewPointsSound
  BY PointsStill DEF RunsStay
<1>2. BasesStay /\ \A g \in Grants : DiskSound(g)'
  BY <1>1, DisksStill
<1>3. \A r \in Runs : MoveSound(r)'
  BY <1>1, MovesStill
<1> QED
  BY <1>1, <1>2, <1>3, GrantSideKept

\* An action that touches none of it but operations and contents.
LEMMA GrantSideAlone ==
  ASSUME PublicationInv, Typed', NEW P \in SUBSET Points, \A p \in P : Used(p),
         UNCHANGED <<point, grants, mounted, owner, move, disks, monitor>>,
         late' \subseteq late, recorded \subseteq recorded',
         recorded' \cup uploadIntents' \cup deletions'
           \subseteq recorded \cup uploadIntents \cup deletions \cup P,
         \A o \in Objects : objects'[o].refs \subseteq objects[o].refs \cup P,
         \A q \in Runs : backup'[q].head \in {backup[q].head, op[q].point},
         \A q \in Runs : op'[q].goal = "move" => op[q].goal = "move" \/ move[q].pc = "save",
         \A q \in Runs : op'[q] = op[q] \/ (Alive(q) /\ op'[q].goal # "gone" /\ op'[q].pc # "receipt")
  PROVE  GrantSide'
<1>1. \A q \in Runs : RunsStay(q)
  BY RunsStill
<1>2. OnlyUsed /\ PinsStay
  BY UsedStill, PinsStill
<1> QED
  BY <1>1, <1>2, GrantSideStill

\* What the row transactions do to references.
LEMMA RowsRefs ==
  ASSUME Typed
  PROVE  /\ \A ps \in SUBSET Points, o \in Objects : Released(ps)[o].refs = objects[o].refs \ ps
         /\ \A p \in Points, o \in Objects : Settled(p)[o].refs \subseteq objects[o].refs \cup {p}
         /\ \A b, o \in Objects : Invalidated(b)[o].refs = objects[o].refs
<1>0. \A o \in Objects : objects[o] \in ObjectRec
  BY DEF Typed, BlocksTyped
<1>1. ASSUME NEW ps \in SUBSET Points, NEW o \in Objects
      PROVE  Released(ps)[o].refs = objects[o].refs \ ps
  <2>1. \A u : [objects[o] EXCEPT !.refs = @ \ ps, !.unused = u].refs = objects[o].refs \ ps
    BY <1>0 DEF ObjectRec
  <2>2. objects[o].refs \cap ps = {} => objects[o].refs = objects[o].refs \ ps
    OBVIOUS
  <2> QED
    BY <2>1, <2>2 DEF Released
<1>2. ASSUME NEW p \in Points, NEW o \in Objects
      PROVE  Settled(p)[o].refs \subseteq objects[o].refs \cup {p}
  <2>1. /\ [objects[o] EXCEPT !.refs = @ \ {p}, !.unused = TRUE].refs \subseteq objects[o].refs \cup {p}
        /\ [objects[o] EXCEPT !.state = "ready"].refs \subseteq objects[o].refs \cup {p}
        /\ [objects[o] EXCEPT !.refs = @ \cup {p}, !.unused = FALSE].refs \subseteq objects[o].refs \cup {p}
        /\ objects[o].refs \subseteq objects[o].refs \cup {p}
    BY <1>0 DEF ObjectRec
  <2> QED
    BY <2>1 DEF Settled
<1>3. ASSUME NEW b \in Objects, NEW o \in Objects  PROVE Invalidated(b)[o].refs = objects[o].refs
  BY <1>0 DEF Invalidated, ObjectRec, Typed, BlocksTyped
<1> QED
  BY <1>1, <1>2, <1>3

LEMMA QuietGrants ==
  ASSUME PublicationInv, Typed', NEW r \in Runs,
         \/ StartTurn(r) \/ Request(r) \/ CollectStart(r) \/ PublishStart(r) \/ TransferBlocks(r)
         \/ CompleteRequest(r) \/ SaveSource(r) \/ PurgeStart(r) \/ ReadServed(r)
         \/ (\E g \in Grants : ReadStart(r, g))
  PROVE  GrantSide'
<1> USE DEF blockVars, pubVars, runVars, nodeVars
<1>1. /\ UNCHANGED <<point, grants, mounted, owner, move, disks, monitor, late, recorded, objects>>
      /\ uploadIntents' \cup deletions' \subseteq recorded \cup uploadIntents \cup deletions
  BY DEF StartTurn, Request, CollectStart, PublishStart, TransferBlocks, CompleteRequest, SaveSource,
         PurgeStart, ReadServed, ReadStart
<1>2. \A q \in Runs : op'[q] = op[q] \/ (Alive(q) /\ op'[q].goal # "gone" /\ op'[q].pc # "receipt")
  <2>1. op \in [Runs -> OpRec] /\ OperationSound(r)
    BY DEF PublicationInv, BlockSide, Typed, TasksTyped
  <2>2. CASE UNCHANGED op
    BY <2>2
  <2>3. CASE CollectStart(r) \/ PublishStart(r) \/ SaveSource(r) \/ PurgeStart(r)
    <3>1. Alive(r)
      BY <2>1, <2>3 DEF OperationSound, Alive, CollectStart, PublishStart, SaveSource, PurgeStart
    <3>2. (\A q \in Runs : q # r => op'[q] = op[q]) /\ op'[r].goal # "gone" /\ op'[r].pc # "receipt"
      BY <2>1, <2>3 DEF CollectStart, PublishStart, SaveSource, PurgeStart, NoOp
    <3> QED
      BY <3>1, <3>2
  <2>4. CASE TransferBlocks(r) \/ CompleteRequest(r)
    <3>1. Alive(r)
      BY <2>1, <2>4 DEF OperationSound, Alive, TransferBlocks, CompleteRequest
    <3>2. (\A q \in Runs : q # r => op'[q] = op[q]) /\ op'[r].goal = op[r].goal /\ op'[r].pc # "receipt"
      BY <2>1, <2>4 DEF TransferBlocks, CompleteRequest, OpRec
    <3> QED
      BY <3>1, <3>2 DEF Alive
  <2> QED
    BY <2>2, <2>3, <2>4 DEF StartTurn, Request, ReadServed, ReadStart
<1>6. \A q \in Runs : op'[q].goal = "move" => op[q].goal = "move" \/ move[q].pc = "save"
  <2>1. op \in [Runs -> OpRec]
    BY DEF PublicationInv, Typed, TasksTyped
  <2>2. CASE UNCHANGED op
    BY <2>2
  <2>3. CASE CollectStart(r) \/ PublishStart(r) \/ SaveSource(r) \/ PurgeStart(r)
    BY <2>1, <2>3 DEF CollectStart, PublishStart, SaveSource, PurgeStart, NoOp
  <2>4. CASE TransferBlocks(r) \/ CompleteRequest(r)
    BY <2>1, <2>4 DEF TransferBlocks, CompleteRequest, OpRec
  <2> QED
    BY <2>2, <2>3, <2>4 DEF StartTurn, Request, ReadServed, ReadStart
<1>7. \A q \in Runs : backup'[q].head \in {backup[q].head, op[q].point}
  BY SMTT(40) DEF Request, PublishStart, CompleteRequest, Completed, StartTurn, CollectStart,
         TransferBlocks, SaveSource, PurgeStart, ReadServed, ReadStart, PublicationInv, Typed, StoreTyped, BackupRec
<1> DEFINE P == {}
<1>3. P \in SUBSET Points /\ \A p \in P : Used(p)
  OBVIOUS
<1>4. \A o \in Objects : objects'[o].refs \subseteq objects[o].refs \cup P
  BY <1>1
<1>5. recorded' \cup uploadIntents' \cup deletions' \subseteq recorded \cup uploadIntents \cup deletions \cup P
  BY <1>1
<1> HIDE DEF P
<1> QED
  BY <1>1, <1>2, <1>3, <1>4, <1>5, <1>6, <1>7, GrantSideAlone

LEMMA RowsGrants ==
  ASSUME PublicationInv, Typed',
         Collector \/ (\E o \in Objects : Corrupt(o)) \/ (\E r \in Runs : ReadInvalid(r))
  PROVE  GrantSide'
<1> USE DEF blockVars, pubVars, runVars, nodeVars
<1>0. Typed
  BY DEF PublicationInv
<1>1. /\ UNCHANGED <<point, grants, mounted, owner, move, disks, monitor, late, recorded, uploadIntents, op, backup>>
      /\ deletions' \subseteq deletions
  BY DEF Collector, Corrupt, ReadInvalid, Claim, Forget, Delete
<1> DEFINE P == {}
<1>3. P \in SUBSET Points /\ \A p \in P : Used(p)
  OBVIOUS
<1>4. \A o \in Objects : objects'[o].refs \subseteq objects[o].refs \cup P
  <2>1. CASE Claim
    BY <1>0, <2>1 DEF Claim, Typed, BlocksTyped, ObjectRec
  <2>2. CASE Forget
    BY <1>0, <2>2 DEF Forget, Typed, BlocksTyped, ObjectRec, Nobody
  <2>3. CASE UNCHANGED objects
    BY <2>3
  <2>4. ASSUME NEW r \in Runs, ReadInvalid(r)
        PROVE  \A o \in Objects : objects'[o].refs \subseteq objects[o].refs \cup P
    <3>1. PICK b \in reading[r].objs : objects' = Invalidated(b)
      BY <2>4 DEF ReadInvalid
    <3>2. b \in Objects
      BY <1>0, <3>1 DEF Typed, TasksTyped, ReadRec
    <3> QED
      BY <1>0, <3>1, <3>2, RowsRefs
  <2> QED
    BY <2>1, <2>2, <2>3, <2>4 DEF Collector, Corrupt, Delete
<1>5. recorded' \cup uploadIntents' \cup deletions' \subseteq recorded \cup uploadIntents \cup deletions \cup P
  BY <1>1
<1> HIDE DEF P
<1> QED
  BY <1>1, <1>3, <1>4, <1>5, GrantSideAlone

\* The intent, the commit and the references of a candidate.
LEMMA CandidateGrants ==
  ASSUME PublicationInv, Typed', NEW r \in Runs, WriteIntent(r) \/ Commit(r)
  PROVE  GrantSide'
<1> USE DEF blockVars, pubVars, runVars, nodeVars
<1> DEFINE P == {op[r].point}
<1>1. op[r].pc \in {"intent", "commit"} /\ op \in [Runs -> OpRec] /\ OperationSound(r)
  BY DEF WriteIntent, Commit, PublicationInv, BlockSide, Typed, TasksTyped
<1>2. P \in SUBSET Points /\ \A p \in P : Used(p)
  BY <1>1, CandidateThere
<1>3. \A q \in Runs : op'[q] = op[q] \/ (Alive(q) /\ op'[q].goal # "gone" /\ op'[q].pc # "receipt")
  BY <1>1 DEF WriteIntent, Commit, Alive, OperationSound, OpRec
<1>4. /\ UNCHANGED <<point, grants, mounted, owner, move, disks, monitor, late, objects, deletions>>
      /\ recorded' \subseteq recorded \cup P /\ recorded \subseteq recorded'
      /\ uploadIntents' \subseteq uploadIntents \cup P
  BY DEF WriteIntent, Commit
<1>5. \A q \in Runs : op'[q].goal = op[q].goal
  BY <1>1 DEF WriteIntent, Commit, OpRec
<1>6. \A q \in Runs : backup'[q].head \in {backup[q].head, op[q].point}
  BY DEF WriteIntent, Commit, PublicationInv, Typed, StoreTyped, BackupRec
<1> HIDE DEF P
<1> QED
  BY <1>2, <1>3, <1>4, <1>5, <1>6, GrantSideAlone

LEMMA ReserveGrants ==
  ASSUME PublicationInv, Typed', NEW r \in Runs, ReserveBlocks(r) \/ PublishManifest(r)
  PROVE  GrantSide'
<1> USE DEF blockVars, pubVars, runVars, nodeVars
<1> DEFINE p == op[r].point
           P == {p}
<1>1. op[r].pc \in {"reserve", "settle"} /\ op \in [Runs -> OpRec] /\ OperationSound(r) /\ Typed
      /\ UsedSound
  BY Zenon DEF ReserveBlocks, PublishManifest, PublicationInv, BlockSide, GrantSide, Typed, TasksTyped
<1>2. p \in Points /\ Used(p)
  BY <1>1, CandidateThere
<1>3. \A q \in Runs : op'[q] = op[q] \/ (Alive(q) /\ op'[q].goal # "gone" /\ op'[q].pc # "receipt")
  BY <1>1 DEF ReserveBlocks, PublishManifest, Alive, OperationSound, OpRec
<1>4. UNCHANGED <<grants, mounted, owner, move, disks, monitor, late, deletions, recorded, uploadIntents, backup>>
  BY DEF ReserveBlocks, PublishManifest
<1>5. \A q \in Runs : RunsStay(q)
  BY <1>3, <1>4, RunsStill
<1>6. \E b : point' = [point EXCEPT ![p].blocks = b]
  BY DEF ReserveBlocks, PublishManifest
<1>7. PointsStay /\ NewPointsSound
  <2>1. point \in [Points -> PointRec]
    BY <1>1 DEF Typed, StoreTyped
  <2>2. PointsStay
    BY <1>6, <2>1 DEF PointsStay, PointRec
  <2>3. \A x \in Points : ~Used(x) => point'[x] = point[x]
    BY <1>2, <1>6, <2>1
  <2> QED
    BY <1>1, <2>2, <2>3 DEF NewPointsSound, UsedSound, PointSound, Used
<1>8. OnlyUsed
  <2>1. \A o \in Objects : objects'[o].refs \subseteq objects[o].refs \cup P
    <3>1. CASE ReserveBlocks(r)
      <4> SUFFICES ASSUME NEW o \in Objects  PROVE objects'[o].refs \subseteq objects[o].refs \cup P
        OBVIOUS
      <4>1. objects'[o].refs \in {objects[o].refs, objects[o].refs \cup {p}}
        BY <3>1 DEF ReserveBlocks, Reserve
      <4> QED
        BY <4>1
    <3>2. CASE PublishManifest(r)
      <4>1. objects' = Settled(p)
        BY <3>2 DEF PublishManifest
      <4> QED
        BY <1>1, <1>2, <4>1, RowsRefs
    <3> QED
      BY <3>1, <3>2
  <2>2. P \in SUBSET Points /\ \A x \in P : Used(x)
    BY <1>2
  <2> HIDE DEF P
  <2> QED
    BY <1>4, <2>1, <2>2, UsedStill
<1>9. PinsStay /\ BasesStay /\ \A g \in Grants : DiskSound(g)'
  BY <1>4, <1>7, PinsStill, DisksStill
<1>10. \A q \in Runs : MoveSound(q)'
  <2>1. \A q \in Runs : op'[q].goal = op[q].goal
    BY <1>1 DEF ReserveBlocks, PublishManifest, OpRec
  <2> QED
    BY <1>4, <1>7, <2>1, MovesStill
<1> QED
  BY <1>4, <1>5, <1>7, <1>8, <1>9, <1>10, GrantSideKept

\* Ends of operations: the move that goes on has its node and a point of its conversation.
LEMMA EndsGrants ==
  ASSUME PublicationInv, NEW r \in Runs, Alive(r), op[r].pc # "idle",
         UNCHANGED <<point, mounted>>, Finish(r) \/ Abandon(r) \/ AfterTidy(r)
  PROVE  /\ \A q \in Runs : op'[q] = op[q] \/ (Alive(q) /\ op'[q].goal # "gone" /\ op'[q].pc # "receipt")
         /\ \A q \in Runs : \/ MoveSound(q)'
                            \/ /\ move'[q] = move[q]
                               /\ op'[q].goal = "move" => op[q].goal = "move" \/ move[q].pc = "save"
<1>0. /\ op \in [Runs -> OpRec] /\ move \in [Runs -> MoveRec] /\ op[r] \in OpRec
      /\ UsedSound /\ MountSound /\ MoveSound(r)
  BY DEF PublicationInv, Typed, TasksTyped, StoreTyped, GrantSide
<1>1. CASE op' = [op EXCEPT ![r].pc = "snapshot", ![r].keep = {}] /\ UNCHANGED move
  <2>1. op'[r].goal = op[r].goal /\ op'[r].pc = "snapshot" /\ \A q \in Runs : q # r => op'[q] = op[q]
    BY <1>0, <1>1 DEF OpRec
  <2> QED
    BY <1>1, <2>1 DEF Alive
<1>2. CASE op' = [op EXCEPT ![r] = NoOp] /\ (op[r].goal # "move" => move' = move)
  <2>1. op'[r] = NoOp /\ op'[r].goal = "none" /\ op'[r].pc = "idle" /\ \A q \in Runs : q # r => op'[q] = op[q]
    BY <1>0, <1>2 DEF NoOp
  <2>2. CASE op[r].goal # "move"
    BY <1>2, <2>1, <2>2
  <2>3. CASE op[r].goal = "move"
    <3>1. /\ move[r].pc = "save" /\ move[r].to \in Nodes
          /\ \A q \in Runs : q # r => move'[q] = move[q]
      BY <1>0, <2>3 DEF MoveSound, Finish, Abandon, AfterTidy
    <3>2. CASE move' = [move EXCEPT ![r] = NoMove]
      <4>1. move'[r] = NoMove
        BY <1>0, <3>2
      <4>2. MoveSound(r)'
        BY <2>1, <4>1 DEF MoveSound, NoMove
      <4> QED
        BY <2>1, <3>1, <4>2
    <3>3. ASSUME NEW p, p \in {op[r].point, disks[Current(r)].receipt},
                 move' = [move EXCEPT ![r].pc = "restore", ![r].point = p]
          PROVE  MoveSound(r)'
      <4>1. move'[r].pc = "restore" /\ move'[r].to = move[r].to /\ move'[r].point = p
        BY <1>0, <3>3 DEF MoveRec
      <4>2. p # None => point[p].run = r
        <5>1. CASE p = op[r].point
          BY <5>1, CandidateUsed
        <5>2. CASE p = disks[Current(r)].receipt
          <6>1. Current(r) \in Grants /\ Current(r) # None
            BY <1>0, CurrentDisk DEF PublicationInv
          <6>2. grants[Current(r)].run = r
            BY <1>0, <6>1 DEF MountSound, Current, PublicationInv, Typed, StoreTyped, NodesTyped
          <6>3. p # None => p \in Points /\ Used(p) /\ point[p].disk = Current(r)
            BY <5>2, <6>1, ReceiptUsed DEF PublicationInv, GrantSide, DiskSound
          <6> QED
            BY <1>0, <6>2, <6>3, NoneIsNothing DEF UsedSound, PointSound
        <5> QED
          BY <3>3, <5>1, <5>2
      <4> QED
        BY <2>1, <3>1, <4>1, <4>2 DEF MoveSound
    <3> QED
      BY <1>0, <2>1, <2>3, <3>1, <3>2, <3>3 DEF Finish, Abandon, AfterTidy
  <2> QED
    BY <2>2, <2>3
<1>3. op[r].goal # "move" => \/ op' = [op EXCEPT ![r].pc = "snapshot", ![r].keep = {}] /\ UNCHANGED move
                             \/ op' = [op EXCEPT ![r] = NoOp] /\ move' = move
  BY DEF Finish, Abandon, AfterTidy
<1>4. op[r].goal = "move" => \/ op' = [op EXCEPT ![r].pc = "snapshot", ![r].keep = {}] /\ UNCHANGED move
                             \/ op' = [op EXCEPT ![r] = NoOp]
  BY DEF Finish, Abandon, AfterTidy
<1> QED
  BY <1>1, <1>2, <1>3, <1>4

LEMMA AliveWhileBusy ==
  ASSUME PublicationInv, NEW r \in Runs, op[r].pc # "gone"
  PROVE  Alive(r)
BY DEF PublicationInv, BlockSide, OperationSound, Alive

\* Collection, and publications that give up.
LEMMA CollectGrants ==
  ASSUME PublicationInv, Typed', NEW r \in Runs,
         \/ RetirePoints(r) \/ QueueAbandoned(r) \/ Refused(r) \/ ReceiptLost(r)
         \/ (\E os \in SUBSET Objects : PublishFails(r, os))
  PROVE  GrantSide'
<1> USE DEF blockVars, pubVars, runVars, nodeVars
<1>0. /\ op[r].pc # "idle" /\ op[r].pc # "gone" /\ op \in [Runs -> OpRec] /\ Typed
      /\ (ReceiptLost(r) => op[r].pc = "receipt")
  BY DEF RetirePoints, QueueAbandoned, Refused, ReceiptLost, PublishFails, Publishing, PublicationInv,
         Typed, TasksTyped
<1>1. Alive(r)
  BY <1>0, AliveWhileBusy
<1>2. UNCHANGED <<point, grants, mounted, disks, owner, monitor>>
  BY DEF RetirePoints, QueueAbandoned, Refused, ReceiptLost, PublishFails
<1>3. /\ \A q \in Runs : op'[q] = op[q] \/ (Alive(q) /\ op'[q].goal # "gone" /\ op'[q].pc # "receipt")
      /\ \A q \in Runs : \/ MoveSound(q)'
                         \/ /\ move'[q] = move[q]
                            /\ op'[q].goal = "move" => op[q].goal = "move" \/ move[q].pc = "save"
  <2>1. CASE RetirePoints(r)
    BY <1>0, <1>1, <2>1 DEF RetirePoints, OpRec, Alive
  <2>2. CASE ~RetirePoints(r)
    <3>1. Finish(r) \/ Abandon(r) \/ AfterTidy(r)
      BY <2>2 DEF QueueAbandoned, Refused, ReceiptLost, PublishFails
    <3> QED
      BY <1>0, <1>1, <1>2, <3>1, EndsGrants
  <2> QED
    BY <2>1, <2>2
<1>7. \A q \in Runs : backup'[q].head = backup[q].head
  BY <1>0 DEF RetirePoints, QueueAbandoned, Refused, ReceiptLost, PublishFails, Abandon, Typed, StoreTyped, BackupRec
<1>4. \A q \in Runs : RunsStay(q)
  BY <1>2, <1>3, <1>7, RunsStill
<1>5. OnlyUsed
  <2> DEFINE P == {}
  <2>1. P \in SUBSET Points /\ \A p \in P : Used(p)
    OBVIOUS
  <2>2. recorded' \cup uploadIntents' \cup deletions'
          \subseteq recorded \cup uploadIntents \cup deletions \cup P
    BY DEF RetirePoints, QueueAbandoned, Refused, ReceiptLost, PublishFails, PointsOf
  <2>3. \A o \in Objects : objects'[o].refs \subseteq objects[o].refs \cup P
    <3>1. (\E ps \in SUBSET Points : objects' = Released(ps)) \/ UNCHANGED objects
      <4>1. PointsOf(r) \ Retained(r) \in SUBSET Points
        BY <1>0, RetainedTyped
      <4>2. {p \in Points : point[p].run = r /\ p \notin op[r].keep} \in SUBSET Points
        OBVIOUS
      <4> QED
        BY <4>1, <4>2 DEF RetirePoints, QueueAbandoned, Refused, ReceiptLost, PublishFails
    <3> QED
      BY <1>0, <3>1, RowsRefs
  <2> HIDE DEF P
  <2>4. CASE late' \subseteq late
    BY <2>1, <2>2, <2>3, <2>4, UsedStill
  <2>5. CASE ReceiptLost(r)
    <3>1. op[r].point \in Points /\ Used(op[r].point) /\ Listed(op[r].point)
      BY <1>0, <2>5, CandidateThere DEF PublicationInv, GrantSide, ReceiptsListed
    <3>2. late' = late \cup {op[r].point} /\ UNCHANGED <<recorded, uploadIntents, deletions, objects>>
      BY <2>5 DEF ReceiptLost
    <3> QED
      BY <3>1, <3>2 DEF OnlyUsed, PublicationInv, GrantSide, UsedSound, ReceiptsListed
  <2> QED
    BY <2>4, <2>5 DEF RetirePoints, QueueAbandoned, Refused, PublishFails
<1>6. PinsStay
  <2>1. CASE RetirePoints(r)
    <3> SUFFICES ASSUME NEW g \in Grants, NEW p \in grants[g].backups  PROVE p \in recorded'
      BY DEF PinsStay
    <3>1. p \in recorded /\ point[p].run = grants[g].run
      BY DEF PublicationInv, GrantSide, GrantSound
    <3>2. point[p].run = r => p \in Retained(r)
      BY <3>1 DEF Retained, Pins
    <3> QED
      BY <2>1, <3>1, <3>2 DEF RetirePoints, PointsOf
  <2>2. CASE UNCHANGED recorded
    BY <2>2, PinsStill
  <2> QED
    BY <2>1, <2>2 DEF QueueAbandoned, Refused, ReceiptLost, PublishFails
<1> QED
  BY <1>2, <1>3, <1>4, <1>5, <1>6, GrantSideStill

\* The death of the installation, and the steps of a move on this side.
LEMMA CrashGrants ==
  ASSUME PublicationInv, Typed', ManagerCrash
  PROVE  GrantSide'
<1>0. /\ op \in [Runs -> OpRec] /\ move \in [Runs -> MoveRec]
      /\ \A r \in Runs : MoveSound(r) /\ HeadSound(r) /\ OperationSound(r)
      /\ MountSound
  BY DEF PublicationInv, Typed, TasksTyped, StoreTyped, GrantSide, BlockSide
<1>1. UNCHANGED <<point, grants, mounted, disks, owner, backup, recorded, uploadIntents, deletions,
                  objects, late>>
  BY DEF ManagerCrash, pubVars, nodeVars
<1>2. \A r \in Runs : RunsStay(r)
  <2>1. ASSUME NEW r \in Runs  PROVE RunsStay(r)
    <3>1. op'[r].pc # "receipt" /\ Alive(r)' = Alive(r)
      BY <1>0 DEF ManagerCrash, OperationSound, Alive, NoOp
    <3>2. StatusSound(r)'
      BY DEF ManagerCrash, StatusSound, NoStatus
    <3> QED
      BY <1>0, <1>1, <3>1, <3>2 DEF RunsStay, MountSound, HeadSound
  <2> QED
    BY <2>1
<1>3. ASSUME NEW r \in Runs  PROVE MoveSound(r)'
  <2>1. op'[r].goal # "move"
    BY <1>0 DEF ManagerCrash, NoOp, Alive
  <2>2. move'[r] \in {move[r], NoMove, [move[r] EXCEPT !.pc = "fence", !.point = None],
                      [move[r] EXCEPT !.pc = "fence"]}
    BY DEF ManagerCrash
  <2>3. CASE move'[r] = [move[r] EXCEPT !.pc = "fence", !.point = None]
    <3>1. /\ move'[r].pc = "fence" /\ move'[r].point = None /\ move'[r].to = move[r].to
          /\ move[r].pc # "none"
      BY ZenonT(60), <1>0, <2>2, <2>3 DEF ManagerCrash, MoveRec, NoMove
    <3> QED
      BY <1>0, <2>1, <3>1 DEF MoveSound
  <2>4. CASE move'[r] = [move[r] EXCEPT !.pc = "fence"] /\ move[r].pc # "none"
    <3>1. move'[r].pc = "fence" /\ move'[r].point = move[r].point /\ move'[r].to = move[r].to
      BY <1>0, <2>4 DEF MoveRec
    <3> QED
      BY <1>0, <1>1, <2>1, <2>4, <3>1 DEF MoveSound
  <2>5. CASE move'[r] \in {move[r], NoMove}
    BY <1>0, <1>1, <2>1, <2>5 DEF MoveSound, NoMove
  <2>6. move'[r] = [move[r] EXCEPT !.pc = "fence"] => move[r].pc # "none" \/ move'[r] = move[r]
    BY DEF ManagerCrash
  <2> QED
    BY <2>2, <2>3, <2>4, <2>5, <2>6
<1>4. OnlyUsed /\ PinsStay
  <2>1. OnlyUsed
    BY <1>1 DEF PublicationInv, GrantSide, UsedSound, ReceiptsListed, OnlyUsed
  <2>2. PinsStay
    BY <1>1, PinsStill
  <2> QED
    BY <2>1, <2>2
<1> QED
  BY <1>1, <1>2, <1>3, <1>4, GrantSideStill

LEMMA StepGrants ==
  ASSUME PublicationInv, Typed', NEW r \in Runs, NEW n \in Nodes,
         \/ RequestMove(r, n) \/ PickRecovery(r, n) \/ RecordRecovery(r) \/ Fence(r)
         \/ RestoreFails(r) \/ Resume(r) \/ RefreshRead(r)
  PROVE  GrantSide'
<1> USE DEF blockVars, pubVars, runVars, nodeVars
<1>0. /\ op \in [Runs -> OpRec] /\ move \in [Runs -> MoveRec]
      /\ \A q \in Runs : MoveSound(q) /\ HeadSound(q) /\ OperationSound(q) /\ backup[q].head \in Points \cup {None}
      /\ MountSound /\ owner \in [Runs -> Nodes]
  BY DEF PublicationInv, Typed, TasksTyped, StoreTyped, GrantSide, BlockSide, BackupRec
<1>1. UNCHANGED <<point, grants, mounted, disks, backup, op, recorded, uploadIntents, deletions,
                  objects, late>>
  BY DEF RequestMove, PickRecovery, RecordRecovery, Fence, RestoreFails, Resume, RefreshRead
<1>2. ASSUME NEW q \in Runs
      PROVE  /\ move'[q] = move[q] \/ MoveSound(q)'
             /\ mounted[q][owner'[q]] # None
  <2>1. CASE q # r \/ RefreshRead(r)
    BY <1>0, <2>1 DEF RequestMove, PickRecovery, RecordRecovery, Fence, RestoreFails, Resume, RefreshRead,
                      MountSound
  <2>2. CASE q = r /\ RequestMove(r, n)
    <3>1. move'[r] = [NoMove EXCEPT !.pc = "fence", !.to = n] /\ owner' = owner /\ move[r] = NoMove
      BY <1>0, <2>2 DEF RequestMove
    <3> QED
      BY <1>0, <1>1, <2>2, <3>1 DEF MoveSound, NoMove, MountSound
  <2>3. CASE q = r /\ PickRecovery(r, n)
    <3>1. /\ move'[r] = [NoMove EXCEPT !.pc = "picked", !.to = n, !.point = backup[r].head, !.auto = TRUE]
          /\ owner' = owner /\ move[r] = NoMove
      BY <1>0, <2>3 DEF PickRecovery
    <3> QED
      BY <1>0, <1>1, <2>3, <3>1 DEF MoveSound, NoMove, MountSound, HeadSound
  <2>4. CASE q = r /\ RecordRecovery(r)
    <3>1. /\ move'[r] = [move[r] EXCEPT !.pc = "fence", !.backup = move[r].point]
          /\ owner' = owner /\ move[r].pc = "picked" /\ move[r] \in MoveRec
      BY <1>0, <2>4 DEF RecordRecovery
    <3>2. move'[r].pc = "fence" /\ move'[r].to = move[r].to /\ move'[r].point = move[r].point
      BY <3>1 DEF MoveRec
    <3> QED
      BY <1>0, <1>1, <2>4, <3>1, <3>2 DEF MoveSound, MountSound
  <2>5. CASE q = r /\ Fence(r)
    <3>1. /\ move'[r] = [move[r] EXCEPT !.pc = IF move[r].auto THEN "restore" ELSE "save"]
          /\ owner' = owner /\ move[r].pc = "fence" /\ move[r] \in MoveRec
      BY <1>0, <2>5 DEF Fence
    <3>2. /\ move'[r].pc \in {"restore", "save"} /\ move'[r].to = move[r].to
          /\ move'[r].point = move[r].point
      BY <3>1 DEF MoveRec
    <3> QED
      BY <1>0, <1>1, <2>5, <3>1, <3>2 DEF MoveSound, MountSound
  <2>6. CASE q = r /\ RestoreFails(r)
    <3>1. /\ move'[r] = NoMove /\ owner' = owner /\ op[r].pc = "idle"
      BY <1>0, <2>6 DEF RestoreFails
    <3> QED
      BY <1>0, <1>1, <2>6, <3>1 DEF MoveSound, MountSound, NoMove, OperationSound
  <2>7. CASE q = r /\ Resume(r)
    <3>1. move'[r] = NoMove /\ owner'[r] = move[r].to /\ move[r].pc = "resume"
      BY <1>0, <2>7 DEF Resume
    <3> QED
      BY <1>0, <1>1, <2>7, <3>1 DEF MoveSound, NoMove
  <2> QED
    BY <2>1, <2>2, <2>3, <2>4, <2>5, <2>6, <2>7
<1>3. ASSUME NEW q \in Runs  PROVE monitor'[q] = monitor[q] \/ StatusSound(q)'
  <2>1. CASE RefreshRead(r) /\ q = r
    <3> DEFINE g == Current(r)
               p == disks[g].receipt
    <3>1. monitor'[r] = [known |-> TRUE, disk |-> g, point |-> p, clean |-> Clean(g)] /\ p \in recorded
      BY <2>1 DEF RefreshRead, PublicationInv, Typed, TasksTyped
    <3>2. g \in Grants /\ g # None
      BY CurrentDisk DEF PublicationInv, GrantSide
    <3>3. p \in Points /\ p # None
      BY <3>1, NoneIsNothing DEF PublicationInv, Typed, StoreTyped
    <3>4. /\ Used(p) /\ point[p].disk = g /\ point[p].gen = disks[g].pubGen /\ Listed(p)
          /\ p = disks[g].receipt
      BY <3>2, <3>3, ReceiptUsed DEF PublicationInv, GrantSide, ReceiptsListed, DiskSound
    <3>5. disks[g].pubGen \in Nat
      BY <3>2 DEF PublicationInv, Typed, NodesTyped, DiskRec
    <3> HIDE DEF g, p
    <3> QED
      BY <1>1, <2>1, <3>1, <3>2, <3>3, <3>4, <3>5 DEF StatusSound, Used, Listed
  <2>2. CASE ~(RefreshRead(r) /\ q = r)
    <3>1. monitor \in [Runs -> StatusRec]
      BY DEF PublicationInv, Typed, TasksTyped
    <3>2. CASE RefreshRead(r)
      BY <2>2, <3>1, <3>2 DEF RefreshRead
    <3>3. CASE UNCHANGED monitor
      BY <3>3
    <3> QED
      BY <3>2, <3>3 DEF RequestMove, PickRecovery, RecordRecovery, Fence, RestoreFails, Resume
  <2> QED
    BY <2>1, <2>2
<1>4. ASSUME NEW q \in Runs  PROVE RunsStay(q)
  <2>1. op[q].pc = "receipt" => op[q].point \in Points /\ Used(op[q].point) /\ Listed(op[q].point)
    BY CandidateThere DEF PublicationInv, GrantSide, ReceiptsListed
  <2> QED
    BY <1>0, <1>1, <1>2, <1>3, <2>1 DEF RunsStay, HeadSound, Alive
<1>5. OnlyUsed /\ PinsStay
  <2>1. OnlyUsed
    BY <1>1 DEF PublicationInv, GrantSide, UsedSound, ReceiptsListed, OnlyUsed
  <2>2. PinsStay
    BY <1>1, PinsStill
  <2> QED
    BY <2>1, <2>2
<1>6. \A q \in Runs : \/ MoveSound(q)'
                      \/ /\ move'[q] = move[q]
                         /\ op'[q].goal = "move" => op[q].goal = "move" \/ move[q].pc = "save"
  BY <1>1, <1>2
<1> QED
  BY <1>1, <1>4, <1>5, <1>6, GrantSideStill

\* Writes and seals of a disk, and captures.
LEMMA SealSound ==
  ASSUME PublicationInv, NEW g \in Grants, disks' = [disks EXCEPT ![g] = disks'[g]],
         disks'[g].base = disks[g].base, disks'[g].receipt = disks[g].receipt,
         disks'[g].pubGen = disks[g].pubGen, PointsStay,
         \/ disks'[g].sealed = disks[g].sealed /\ disks'[g].gen = disks[g].gen
         \/ /\ disks'[g].sealed = disks[g].sealed \cup {[gen |-> disks[g].gen, ver |-> disks[g].ver]}
            /\ disks'[g].gen = disks[g].gen + 1
  PROVE  BasesStay /\ \A d \in Grants : DiskSound(d)'
<1>0. disks \in [Grants -> DiskRec] /\ \A d \in Grants : DiskSound(d)
  BY DEF PublicationInv, Typed, NodesTyped, GrantSide
<1>1. \A d \in Grants : d # g => disks'[d] = disks[d]
  BY <1>0
<1>2. BasesStay
  BY <1>1 DEF BasesStay
<1>3. ASSUME NEW d \in Grants  PROVE DiskSound(d)'
  <2>1. disks[d].receipt # None => disks[d].receipt \in Points /\ Used(disks[d].receipt)
    BY ReceiptUsed
  <2>2. CASE d # g \/ (disks'[g].sealed = disks[g].sealed /\ disks'[g].gen = disks[g].gen)
    <3>1. /\ disks'[d].base = disks[d].base /\ disks'[d].receipt = disks[d].receipt
          /\ disks'[d].pubGen = disks[d].pubGen /\ disks'[d].sealed = disks[d].sealed
          /\ disks'[d].gen = disks[d].gen
      BY <1>1, <2>2
    <3> QED
      BY <1>0, <2>1, <3>1 DEF DiskSound, PointsStay
  <2>3. CASE /\ d = g
             /\ disks'[g].sealed = disks[g].sealed \cup {[gen |-> disks[g].gen, ver |-> disks[g].ver]}
             /\ disks'[g].gen = disks[g].gen + 1
    <3>1. disks[g].gen \in Nat /\ disks[g].pubGen \in Nat /\ \A s \in disks[g].sealed : s.gen \in Nat
      BY <1>0 DEF DiskRec, SealRec
    <3>2. DiskSound(g)
      BY <1>0
    <3>3. \A s \in disks'[g].sealed : disks[g].pubGen < s.gen /\ s.gen < disks[g].gen + 1
      BY <2>3, <3>1, <3>2 DEF DiskSound
    <3> QED
      BY <2>1, <2>3, <3>1, <3>2, <3>3 DEF DiskSound, PointsStay
  <2> QED
    BY <2>2, <2>3
<1> QED
  BY <1>2, <1>3

LEMMA WriteGrants ==
  ASSUME PublicationInv, Typed', NEW r \in Runs, Write(r) \/ CompleteTurn(r)
  PROVE  GrantSide'
<1> USE DEF blockVars, pubVars, runVars, nodeVars
<1> DEFINE g == Current(r)
<1>0. g \in Grants /\ disks \in [Grants -> DiskRec] /\ disks[g] \in DiskRec
  BY CurrentDisk DEF PublicationInv, GrantSide, Typed, NodesTyped
<1>1. UNCHANGED <<point, grants, mounted, owner, move, monitor, late, recorded, uploadIntents,
                  deletions, objects, op, backup>>
  BY DEF Write, CompleteTurn
<1>2. \A q \in Runs : RunsStay(q)
  BY <1>1, RunsStill
<1>3. PointsStay /\ NewPointsSound
  BY <1>1, <1>2, PointsStill DEF RunsStay
<1>4. BasesStay /\ \A d \in Grants : DiskSound(d)'
  <2>1. CASE Write(r)
    <3>1. disks' = [disks EXCEPT ![g] = [disks[g] EXCEPT !.ver = @ + 1]]
      BY <2>1 DEF Write
    <3>2. disks'[g] = [disks[g] EXCEPT !.ver = @ + 1] /\ disks' = [disks EXCEPT ![g] = disks'[g]]
      BY <1>0, <3>1
    <3>3. /\ disks'[g].base = disks[g].base /\ disks'[g].receipt = disks[g].receipt
          /\ disks'[g].pubGen = disks[g].pubGen
          /\ disks'[g].sealed = disks[g].sealed /\ disks'[g].gen = disks[g].gen
      BY <1>0, <3>2 DEF DiskRec
    <3> HIDE DEF g
    <3> QED
      BY <1>0, <1>3, <3>2, <3>3, SealSound
  <2>2. CASE CompleteTurn(r)
    <3> DEFINE more == disks[g].sealed \cup {[gen |-> disks[g].gen, ver |-> disks[g].ver]}
    <3>1. disks' = [disks EXCEPT ![g] = [disks[g] EXCEPT !.sealed = more,
                      !.completed = disks[g].gen, !.gen = disks[g].gen + 1]]
      BY <1>0, <2>2 DEF CompleteTurn
    <3> HIDE DEF more
    <3>2. /\ disks'[g] = [disks[g] EXCEPT !.sealed = more, !.completed = disks[g].gen,
                                          !.gen = disks[g].gen + 1]
          /\ disks' = [disks EXCEPT ![g] = disks'[g]]
      BY <1>0, <3>1
    <3>3. /\ disks'[g].base = disks[g].base /\ disks'[g].receipt = disks[g].receipt
          /\ disks'[g].pubGen = disks[g].pubGen
          /\ disks'[g].sealed = more /\ disks'[g].gen = disks[g].gen + 1
      BY <1>0, <3>2 DEF DiskRec
    <3> HIDE DEF g
    <3> QED
      BY <1>0, <1>3, <3>2, <3>3, SealSound DEF more
  <2> QED
    BY <2>1, <2>2
<1>5. OnlyUsed /\ PinsStay
  BY <1>1, PinsStill DEF PublicationInv, GrantSide, UsedSound, ReceiptsListed, OnlyUsed
<1>6. \A q \in Runs : MoveSound(q)'
  BY <1>1, <1>3, MovesStill
<1> QED
  BY <1>1, <1>2, <1>3, <1>4, <1>5, <1>6, GrantSideKept

\* The grant of the current disk of a live conversation.
LEMMA CurrentGrant ==
  ASSUME PublicationInv, NEW r \in Runs, Alive(r)
  PROVE  /\ Current(r) \in Grants /\ Current(r) # None /\ owner[r] \in Nodes
         /\ grants[Current(r)].run = r /\ grants[Current(r)].node = owner[r]
         /\ disks[Current(r)].base # None => disks[Current(r)].base \in grants[Current(r)].backups
<1>1. Typed /\ MountSound /\ owner[r] \in Nodes
  BY DEF PublicationInv, GrantSide, Typed, StoreTyped
<1>2. Current(r) \in Grants /\ Current(r) # None
  BY <1>1, CurrentDisk
<1> QED
  BY <1>1, <1>2 DEF MountSound, Current

LEMMA CaptureGrants ==
  ASSUME PublicationInv, Typed', NEW r \in Runs, NEW hs \in SUBSET Hashes,
         CaptureCompleted(r, hs) \/ CaptureNow(r, hs)
  PROVE  GrantSide'
<1> USE DEF blockVars, pubVars, runVars, nodeVars
<1> DEFINE g == Current(r)
<1>0. op[r].pc = "snapshot" /\ op \in [Runs -> OpRec] /\ point \in [Points -> PointRec]
      /\ disks \in [Grants -> DiskRec] /\ UsedSound
  BY DEF CaptureCompleted, CaptureNow, PublicationInv, Typed, TasksTyped, StoreTyped, NodesTyped, GrantSide
<1>1. Alive(r)
  BY <1>0, AliveWhileBusy
<1>2. /\ g \in Grants /\ g # None /\ grants[g].run = r /\ grants[g].node = owner[r] /\ owner[r] \in Nodes
      /\ disks[g] \in DiskRec /\ DiskSound(g)
  BY <1>0, <1>1, CurrentGrant DEF PublicationInv, GrantSide
<1>3. PICK p \in Points : p = NextPoint /\ ~Used(p)
  BY NextPointFree DEF CaptureCompleted, CaptureNow
<1>4. UNCHANGED <<grants, mounted, owner, move, monitor, late, recorded, uploadIntents, deletions,
                  objects, backup>>
  BY DEF CaptureCompleted, CaptureNow
<1>5. op'[r].pc = "reserve" /\ op'[r].goal = op[r].goal /\ \A q \in Runs : q # r => op'[q] = op[q]
  BY <1>0 DEF CaptureCompleted, CaptureNow, OpRec
<1>6. PICK s \in SealRec : point' = [point EXCEPT ![p] = Candidate(r, g, s.gen, s.ver)] /\ s.gen > 0
  <2>1. CASE CaptureCompleted(r, hs)
    <3>1. PICK s \in disks[g].sealed : point' = [point EXCEPT ![p] = Candidate(r, g, s.gen, s.ver)]
      BY <1>3, <2>1 DEF CaptureCompleted
    <3>2. s \in SealRec /\ s.gen > disks[g].pubGen /\ disks[g].pubGen \in Nat /\ s.gen \in Nat
      BY <1>2 DEF DiskRec, DiskSound, SealRec
    <3>3. s \in SealRec /\ s.gen > 0
      BY <3>2
    <3> HIDE DEF g
    <3> QED
      BY <3>1, <3>3
  <2>2. CASE CaptureNow(r, hs)
    <3> DEFINE s == [gen |-> disks[g].gen, ver |-> disks[g].ver]
    <3>1. disks[g].gen \in Nat /\ disks[g].ver \in Nat /\ disks[g].pubGen \in Nat /\ disks[g].pubGen < disks[g].gen
      BY <1>2 DEF DiskRec, DiskSound
    <3>2. s \in SealRec /\ s.gen > 0
      BY <3>1 DEF SealRec
    <3>3. point' = [point EXCEPT ![p] = Candidate(r, g, s.gen, s.ver)]
      BY <1>3, <2>2 DEF CaptureNow
    <3> QED
      BY <3>2, <3>3
  <2> QED
    BY <2>1, <2>2
<1>7. \A q \in Runs : RunsStay(q)
  BY <1>1, <1>4, <1>5, RunsStill DEF Alive
<1>8. PointsStay /\ NewPointsSound
  <2>1. \A x \in Points : x # p => point'[x] = point[x]
    BY <1>0, <1>6
  <2>2. PointSound(p)'
    <3>1. point'[p] = Candidate(r, g, s.gen, s.ver)
      BY <1>0, <1>3, <1>6
    <3>2. /\ point'[p].run = r /\ point'[p].disk = g /\ point'[p].node = owner[r] /\ point'[p].gen > 0
      BY <1>6, <3>1 DEF Candidate
    <3> HIDE DEF g
    <3> QED
      BY <1>2, <1>4, <3>2, NoneIsNothing DEF PointSound, Used
  <2>3. \A x \in Points : ~Used(x) => PointSound(x)'
    <3>1. \A x \in Points : ~Used(x) => point[x] = NoPoint
      BY <1>0 DEF UsedSound, PointSound
    <3>2. \A x \in Points : ~Used(x) /\ x # p => PointSound(x)'
      BY <2>1, <3>1 DEF PointSound, Used, NoPoint
    <3> QED
      BY <2>2, <3>2
  <2> QED
    BY <1>3, <2>1, <2>3 DEF PointsStay, NewPointsSound
<1>9. BasesStay /\ \A d \in Grants : DiskSound(d)'
  <2>1. CASE CaptureCompleted(r, hs)
    <3>1. disks' = disks
      BY <2>1 DEF CaptureCompleted
    <3> QED
      BY <1>8, <3>1, DisksStill
  <2>2. CASE CaptureNow(r, hs)
    <3> DEFINE more == disks[g].sealed \cup {[gen |-> disks[g].gen, ver |-> disks[g].ver]}
    <3>1. disks' = [disks EXCEPT ![g] = [disks[g] EXCEPT !.sealed = more, !.gen = disks[g].gen + 1]]
      BY <1>0, <1>2, <2>2 DEF CaptureNow
    <3> HIDE DEF more
    <3>2. /\ disks'[g] = [disks[g] EXCEPT !.sealed = more, !.gen = disks[g].gen + 1]
          /\ disks' = [disks EXCEPT ![g] = disks'[g]]
      BY <1>0, <1>2, <3>1
    <3>3. /\ disks'[g].base = disks[g].base /\ disks'[g].receipt = disks[g].receipt
          /\ disks'[g].pubGen = disks[g].pubGen
          /\ disks'[g].sealed = more /\ disks'[g].gen = disks[g].gen + 1
      BY <1>2, <3>2 DEF DiskRec
    <3> HIDE DEF g
    <3> QED
      BY <1>2, <1>8, <3>2, <3>3, SealSound DEF more
  <2> QED
    BY <2>1, <2>2
<1>10. OnlyUsed /\ PinsStay
  BY <1>4, PinsStill DEF PublicationInv, GrantSide, UsedSound, ReceiptsListed, OnlyUsed
<1>11. \A q \in Runs : MoveSound(q)'
  BY <1>4, <1>5, <1>8, MovesStill
<1> QED
  BY <1>4, <1>7, <1>8, <1>9, <1>10, <1>11, GrantSideKept

\* Receipts: what an action keeps that widens or narrows a grant, or publishes a disk.
Covers(g) == disks[g].base # None => disks[g].base \in grants[g].backups
GrantsMove(g) ==
  /\ grants'[g].run = grants[g].run /\ grants'[g].node = grants[g].node
  /\ GrantSound(g)' /\ DiskSound(g)'
  /\ disks[g].pubGen <= disks'[g].pubGen
  /\ disks'[g].pubGen = disks[g].pubGen => disks'[g].receipt = disks[g].receipt
  /\ (disks[g].receipt # None => Listed(disks[g].receipt))'
  /\ grants[g].run # None /\ Covers(g) => Covers(g)'
ListedStays == \A p \in Points : Used(p) /\ Listed(p) => Listed(p)'
RunsMove(r) ==
  /\ Alive(r)' = Alive(r) /\ MoveSound(r)' /\ HeadSound(r)'
  /\ monitor'[r] \in {monitor[r], NoStatus}
  /\ (op[r].pc = "receipt" => Listed(op[r].point))'

LEMMA GrantSideMoved ==
  ASSUME PublicationInv, Typed', ListedStays, late' \subseteq late,
         UNCHANGED <<point, owner, mounted, recorded, uploadIntents, deletions, objects>>,
         \A g \in Grants : GrantsMove(g), \A r \in Runs : RunsMove(r)
  PROVE  GrantSide'
<1> USE NoneIsNothing
<1>0. UsedSound /\ MountSound /\ ReceiptsListed /\ Typed /\ \A r \in Runs : StatusSound(r)
  BY DEF PublicationInv, GrantSide
<1>1. UsedSound'
  BY <1>0 DEF UsedSound, PointSound, Used, GrantsMove, RunsMove
<1>2. MountSound'
  <2>1. ASSUME NEW r \in Runs, NEW n \in Nodes, Alive(r)', mounted[r][n] # None
        PROVE  LET g == mounted[r][n] IN
               grants'[g].run = r /\ grants'[g].node = n /\ Covers(g)'
    <3>1. mounted[r][n] \in Grants /\ Alive(r)
      BY <1>0, <2>1 DEF Typed, NodesTyped, RunsMove
    <3>2. grants[mounted[r][n]].run = r /\ grants[mounted[r][n]].node = n /\ Covers(mounted[r][n])
      BY <1>0, <2>1, <3>1 DEF MountSound, Covers
    <3> QED
      BY <3>1, <3>2 DEF GrantsMove
  <2> QED
    BY <1>0, <2>1 DEF MountSound, Covers
<1>3. ReceiptsListed'
  <2>1. \A p \in late' : Listed(p)'
    BY <1>0 DEF Typed, NodesTyped, UsedSound, ReceiptsListed, ListedStays
  <2> QED
    BY <2>1 DEF ReceiptsListed, GrantsMove, RunsMove
<1>4. ASSUME NEW r \in Runs  PROVE StatusSound(r)'
  <2>1. CASE monitor'[r] = NoStatus
    BY <2>1 DEF StatusSound, NoStatus
  <2>2. CASE monitor'[r] = monitor[r] /\ monitor[r].known
    <3> DEFINE p == monitor[r].point
               g == monitor[r].disk
    <3>1. /\ p \in Points /\ g \in Grants /\ point[p].disk = g /\ Used(p)
          /\ point[p].gen <= disks[g].pubGen /\ Listed(p)
          /\ point[p].gen = disks[g].pubGen => p = disks[g].receipt
      BY <1>0, <2>2 DEF StatusSound, Typed, TasksTyped, StatusRec
    <3>2. /\ point[p].gen \in Nat /\ disks[g].pubGen \in Nat /\ disks'[g].pubGen \in Nat
      BY <1>0, <3>1 DEF Typed, StoreTyped, NodesTyped, PointRec, DiskRec
    <3>3. /\ disks[g].pubGen <= disks'[g].pubGen
          /\ disks'[g].pubGen = disks[g].pubGen => disks'[g].receipt = disks[g].receipt
      BY <3>1 DEF GrantsMove
    <3>4. \A x \in Points : x = p => Listed(x)'
      BY <3>1 DEF ListedStays
    <3> QED
      BY <2>2, <3>1, <3>2, <3>3, <3>4 DEF StatusSound, Used, Listed
  <2> QED
    BY <2>1, <2>2 DEF RunsMove, StatusSound
<1> QED
  BY <1>1, <1>2, <1>3, <1>4 DEF GrantSide, GrantsMove, RunsMove

\* A grant that takes a receipt of its disk keeps what may still come.
LEMMA TakenKeeps ==
  ASSUME PublicationInv, NEW g \in Grants, NEW p \in Points, Used(p), point[p].disk = g, Listed(p),
         grants[g].run \in Runs, grants[g].run = point[p].run,
         grants' = ReceiptTaken(g, p), UNCHANGED <<point, recorded>>
  PROVE  /\ ListedStays
         /\ \A d \in Grants : d # g => grants'[d] = grants[d]
         /\ grants'[g].run = grants[g].run /\ grants'[g].node = grants[g].node
         /\ \A q \in grants'[g].backups : q \in recorded /\ point[q].run = grants[g].run
         /\ grants'[g].pending \subseteq grants'[g].backups
         /\ grants'[g].gen \in {grants[g].gen, point[p].gen}
         /\ grants[g].gen <= grants'[g].gen
         /\ grants[g].gen < point[p].gen => p \in grants'[g].backups
         /\ point[p].gen <= grants[g].gen => grants'[g] = grants[g]
         /\ \A q \in Points : q \in grants[g].pending /\ point[p].gen < point[q].gen => q \in grants'[g].backups
<1> USE NoneIsNothing
<1>0. grants \in [Grants -> GrantRec] /\ grants[g] \in GrantRec /\ GrantSound(g) /\ point \in [Points -> PointRec]
  BY DEF PublicationInv, Typed, StoreTyped, GrantSide
<1>1. point[p].gen \in Nat /\ grants[g].gen \in Nat /\ \A q \in Points : point[q].gen \in Nat
  BY <1>0 DEF PointRec, GrantRec
<1> DEFINE newer == {q \in grants[g].pending : point[q].gen > point[p].gen}
<1>2. CASE point[p].gen <= grants[g].gen
  BY <1>0, <1>1, <1>2 DEF ReceiptTaken, GrantSound, ListedStays, Listed
<1>3. CASE grants[g].gen < point[p].gen
  <2> HIDE DEF newer
  <2>0. grants' = IF point[p].gen <= grants[g].gen THEN grants
                  ELSE [grants EXCEPT ![g].backups = {p} \cup newer, ![g].pending = newer,
                                      ![g].gen = point[p].gen, ![g].published = p]
    BY DEF ReceiptTaken, newer
  <2>1. ~(point[p].gen <= grants[g].gen)
    BY <1>1, <1>3
  <2>7. grants' = [grants EXCEPT ![g].backups = {p} \cup newer, ![g].pending = newer,
                                 ![g].gen = point[p].gen, ![g].published = p]
    BY <2>0, <2>1, Zenon
  <2>2. /\ grants'[g].backups = {p} \cup newer /\ grants'[g].pending = newer
        /\ grants'[g].gen = point[p].gen /\ grants'[g].run = grants[g].run
        /\ grants'[g].node = grants[g].node
    BY <1>0, <2>7 DEF GrantRec
  <2>3. \A d \in Grants : d # g => grants'[d] = grants[d]
    BY <1>0, <2>7
  <2>4. p \in grants[g].pending
    BY <1>3 DEF Listed
  <2>5. \A q \in grants'[g].backups : q \in grants[g].backups
    BY <1>0, <2>2, <2>4 DEF newer, GrantSound
  <2>6. ListedStays
    <3> SUFFICES ASSUME NEW q \in Points, Used(q), Listed(q)  PROVE Listed(q)'
      BY DEF ListedStays
    <3>1. CASE point[q].disk # g
      <4>1. point[q].disk \in Grants
        BY DEF PublicationInv, GrantSide, UsedSound, PointSound
      <4> QED
        BY <2>3, <3>1, <4>1 DEF Listed
    <3>2. CASE point[q].disk = g
      <4>1. point[p].gen < point[q].gen => q \in newer
        BY <1>1, <1>3, <3>2 DEF Listed, newer
      <4> QED
        BY <2>2, <3>2, <4>1 DEF Listed
    <3> QED
      BY <3>1, <3>2
  <2> QED
    BY SMTT(40), <1>0, <1>1, <1>3, <2>2, <2>3, <2>5, <2>6 DEF GrantSound, newer
<1> QED
  BY <1>1, <1>2, <1>3

\* A disk that mounts a publication.
LEMMA PublishedFacts ==
  ASSUME PublicationInv, NEW p \in Points, Used(p), Publishable(p), disks' = Published(p), point' = point
  PROVE  LET g == point[p].disk IN
         /\ g \in Grants
         /\ \A d \in Grants : d # g => disks'[d] = disks[d]
         /\ disks'[g].base = p /\ disks'[g].receipt = p /\ disks'[g].pubGen = point[p].gen
         /\ disks[g].pubGen <= point[p].gen
         /\ disks[g].pubGen = point[p].gen => disks' = disks /\ disks[g].receipt = p
         /\ \A d \in Grants : DiskSound(d)'
<1> USE NoneIsNothing
<1> DEFINE g == point[p].disk
<1>0. /\ g \in Grants /\ point[p].gen > 0 /\ disks \in [Grants -> DiskRec] /\ point[p].gen \in Nat
      /\ \A d \in Grants : DiskSound(d)
  BY DEF PublicationInv, GrantSide, UsedSound, PointSound, Typed, NodesTyped, StoreTyped, PointRec
<1>1. disks[g] \in DiskRec /\ DiskSound(g) /\ disks[g].pubGen \in Nat /\ disks[g].gen \in Nat
      /\ \A s \in disks[g].sealed : s.gen \in Nat
  BY <1>0 DEF DiskRec, SealRec
<1>2. CASE disks[g].receipt = p
  BY <1>0, <1>1, <1>2 DEF Published, DiskSound
<1>3. CASE disks[g].receipt # p
  <2> DEFINE left == {s \in disks[g].sealed : s.gen > point[p].gen}
  <2>1. disks' = [disks EXCEPT ![g] = [disks[g] EXCEPT !.base = p, !.receipt = p,
                     !.pubGen = point[p].gen, !.pubVer = point[p].ver, !.sealed = left]]
    BY <1>0, <1>3 DEF Published
  <2> HIDE DEF left
  <2>2. /\ disks'[g].base = p /\ disks'[g].receipt = p /\ disks'[g].pubGen = point[p].gen
        /\ disks'[g].sealed = left /\ disks'[g].gen = disks[g].gen
    BY <1>0, <1>1, <2>1 DEF DiskRec
  <2>3. \A d \in Grants : d # g => disks'[d] = disks[d]
    BY <1>0, <2>1
  <2>4. disks[g].pubGen < point[p].gen /\ point[p].gen < disks[g].gen
    BY <1>1, <1>3 DEF Publishable, DiskSound
  <2>6. \A d \in Grants : d # g => DiskSound(d)'
    BY <1>0, <2>3 DEF DiskSound
  <2>7. \A d \in Grants : d = g => DiskSound(d)'
    <3>1. \A s \in left : point[p].gen < s.gen /\ s.gen < disks[g].gen
      BY <1>0, <1>1 DEF left, DiskSound
    <3> QED
      BY <1>0, <2>2, <2>4, <3>1 DEF DiskSound
  <2> HIDE DEF g
  <2>8. \A d \in Grants : DiskSound(d)'
    BY <2>6, <2>7
  <2> QED
    BY SMTT(40), <1>0, <1>1, <2>2, <2>3, <2>4, <2>8 DEF g
<1> QED
  BY <1>2, <1>3

\* Receipts taken by a grant.
LEMMA TakenGrants ==
  ASSUME PublicationInv, Typed', NEW g \in Grants, NEW p \in Points, Used(p), point[p].disk = g,
         Listed(p), grants[g].run \in Runs, grants[g].run = point[p].run,
         grants' = ReceiptTaken(g, p), late' \subseteq late,
         UNCHANGED <<point, owner, mounted, recorded, uploadIntents, deletions, objects>>,
         \A r \in Runs : RunsMove(r),
         \/ /\ disks' = disks /\ point[p].gen <= disks[g].pubGen
            /\ point[p].gen = disks[g].pubGen => p = disks[g].receipt
         \/ disks' = Published(p) /\ Publishable(p)
  PROVE  GrantSide'
<1> USE NoneIsNothing
<1>0. /\ point \in [Points -> PointRec] /\ grants \in [Grants -> GrantRec] /\ grants' \in [Grants -> GrantRec]
      /\ disks \in [Grants -> DiskRec] /\ disks' \in [Grants -> DiskRec]
      /\ \A d \in Grants : GrantSound(d) /\ DiskSound(d)
  BY DEF PublicationInv, Typed, StoreTyped, NodesTyped, GrantSide
<1>1. /\ ListedStays
      /\ \A d \in Grants : d # g => grants'[d] = grants[d]
      /\ grants'[g].run = grants[g].run /\ grants'[g].node = grants[g].node
      /\ \A q \in grants'[g].backups : q \in recorded /\ point[q].run = grants[g].run
      /\ grants'[g].pending \subseteq grants'[g].backups
      /\ grants'[g].gen \in {grants[g].gen, point[p].gen} /\ grants[g].gen <= grants'[g].gen
      /\ grants[g].gen < point[p].gen => p \in grants'[g].backups
      /\ point[p].gen <= grants[g].gen => grants'[g] = grants[g]
      /\ \A q \in Points : q \in grants[g].pending /\ point[p].gen < point[q].gen => q \in grants'[g].backups
  BY TakenKeeps
<1>2. /\ \A d \in Grants : d # g => disks'[d] = disks[d]
      /\ \A d \in Grants : DiskSound(d)'
      /\ point[p].gen <= disks'[g].pubGen /\ disks[g].pubGen <= disks'[g].pubGen
      /\ disks'[g].pubGen = disks[g].pubGen => disks' = disks
      /\ point[p].gen = disks'[g].pubGen => disks'[g].receipt = p /\ disks'[g].base = p
      /\ point[p].gen # disks'[g].pubGen => disks' = disks
  <2>1. CASE disks' = disks /\ point[p].gen <= disks[g].pubGen
             /\ (point[p].gen = disks[g].pubGen => p = disks[g].receipt)
    <3>1. \A d \in Grants : DiskSound(d)'
      BY <1>0, <2>1 DEF DiskSound
    <3>2. disks[g].pubGen \in Nat
      BY <1>0 DEF DiskRec
    <3> QED
      BY <1>0, <2>1, <3>1, <3>2 DEF DiskSound
  <2>2. CASE disks' = Published(p) /\ Publishable(p)
    <3>1. point[p].gen \in Nat /\ disks[g].pubGen \in Nat
      BY <1>0 DEF PointRec, DiskRec
    <3> QED
      BY <2>2, <3>1, PublishedFacts
  <2> QED
    BY <2>1, <2>2
<1>3. ASSUME NEW d \in Grants  PROVE GrantsMove(d)
  <2>1. /\ disks[d].receipt # None => disks[d].receipt \in Points /\ Used(disks[d].receipt)
        /\ disks[d].receipt # None => Listed(disks[d].receipt)
    BY ReceiptUsed DEF PublicationInv, GrantSide, ReceiptsListed
  <2>2. /\ disks[d].pubGen \in Nat /\ disks'[d].pubGen \in Nat /\ point[p].gen \in Nat
        /\ grants[d].gen \in Nat /\ grants'[d].gen \in Nat
    BY <1>0 DEF DiskRec, GrantRec, PointRec
  <2>3. GrantSound(d)'
    <3>1. CASE d # g
      BY <1>0, <1>1, <1>2, <3>1 DEF GrantSound
    <3>2. CASE d = g
      <4>1. grants[g].gen <= disks[g].pubGen
        BY <1>0 DEF GrantSound
      <4>2. grants'[g].gen <= disks'[g].pubGen
        BY <1>1, <1>2, <2>2, <3>2, <4>1
      <4> QED
        BY <1>1, <3>2, <4>2 DEF GrantSound
    <3> QED
      BY <3>1, <3>2
  <2>4. (disks[d].receipt # None => Listed(disks[d].receipt))'
    <3>1. \A q \in Points : Used(q) /\ Listed(q) => Listed(q)'
      BY <1>1 DEF ListedStays
    <3>2. disks'[d].receipt = disks[d].receipt \/ disks'[d].receipt = p
      BY <1>2
    <3>3. \A q \in Points : q \in {disks[d].receipt, p} => Listed(q)'
      BY <2>1, <3>1
    <3> QED
      BY <2>1, <3>2, <3>3 DEF Listed
  <2>5. grants[d].run # None /\ Covers(d) => Covers(d)'
    <3>1. CASE d # g
      BY <1>1, <1>2, <3>1 DEF Covers
    <3>2. CASE d = g /\ grants[g].gen < point[p].gen
      <4>1. CASE disks'[g].base = p
        BY <1>1, <3>2, <4>1 DEF Covers
      <4>2. CASE disks'[g].base # p
        <5>1. disks' = disks /\ point[p].gen < disks[g].pubGen
          BY <1>2, <2>2, <3>2, <4>2
        <5>2. disks[g].receipt # None /\ disks[g].base = disks[g].receipt
          BY <1>0, <2>2, <3>2, <5>1 DEF DiskSound
        <5>3. point[disks[g].receipt].gen = disks[g].pubGen /\ point[disks[g].receipt].disk = g
          BY <1>0, <5>2 DEF DiskSound
        <5>4. disks[g].receipt \in grants[g].pending
          BY <2>1, <2>2, <3>2, <5>1, <5>2, <5>3 DEF Listed
        <5> QED
          BY <1>1, <2>1, <3>2, <5>1, <5>2, <5>3, <5>4 DEF Covers
      <4> QED
        BY <4>1, <4>2
    <3>3. CASE d = g /\ point[p].gen <= grants[g].gen
      <4>1. grants[g].gen <= disks[g].pubGen
        BY <1>0 DEF GrantSound
      <4>2. disks' = disks
        BY <1>2, <2>2, <3>3, <4>1
      <4> QED
        BY <1>1, <3>3, <4>2 DEF Covers
    <3> QED
      BY <2>2, <3>1, <3>2, <3>3
  <2> QED
    BY <1>1, <1>2, <2>2, <2>3, <2>4, <2>5 DEF GrantsMove
<1> QED
  BY <1>1, <1>3, GrantSideMoved

\* The actions that take receipts.
LEMMA AlreadyGrants ==
  ASSUME PublicationInv, Typed', NEW r \in Runs, AlreadyPublished(r)
  PROVE  GrantSide'
<1> USE DEF blockVars, pubVars, runVars, nodeVars
<1> DEFINE g == Current(r)
           p == disks[g].receipt
<1>0. op[r].pc = "snapshot" /\ op \in [Runs -> OpRec] /\ p \in recorded /\ recorded \subseteq Points
      /\ grants' = ReceiptTaken(g, p)
  BY Zenon DEF AlreadyPublished, PublicationInv, Typed, TasksTyped, StoreTyped
<1>1. Alive(r)
  BY <1>0, AliveWhileBusy
<1>2. g \in Grants /\ grants[g].run = r
  BY <1>1, CurrentGrant
<1>3. p \in Points /\ p # None /\ Used(p) /\ Listed(p) /\ point[p].disk = g
      /\ point[p].gen = disks[g].pubGen /\ disks[g].pubGen \in Nat /\ point[p].run = r
  <2>1. p \in Points /\ p # None
    BY <1>0, NoneIsNothing
  <2>2. Used(p) /\ point[p].disk = g /\ point[p].gen = disks[g].pubGen /\ Listed(p)
    BY <1>2, <2>1, ReceiptUsed DEF PublicationInv, GrantSide, DiskSound, ReceiptsListed
  <2>3. point[p].run = r
    BY <1>2, <2>1, <2>2, NoneIsNothing DEF PublicationInv, GrantSide, UsedSound, PointSound
  <2>4. disks[g].pubGen \in Nat
    BY <1>2 DEF PublicationInv, Typed, NodesTyped, DiskRec
  <2> QED
    BY <2>1, <2>2, <2>3, <2>4
<1>4. UNCHANGED <<point, owner, mounted, recorded, uploadIntents, deletions, objects, disks, monitor, late>>
      /\ Finish(r) /\ backup' = Completed(r)
  BY DEF AlreadyPublished
<1>5. PointsStay
  BY <1>4 DEF PointsStay
<1>6. ASSUME NEW q \in Runs  PROVE RunsMove(q)
  <2>1. op'[q] = op[q] \/ (Alive(q) /\ op'[q].goal # "gone" /\ op'[q].pc # "receipt")
    BY <1>0, <1>1, <1>4, EndsGrants
  <2>2. MoveSound(q)'
    BY <1>0, <1>1, <1>4, <1>5, EndsGrants, MovesStill
  <2>3. backup'[q].head = backup[q].head /\ HeadSound(q)
    BY <1>4 DEF Completed, PublicationInv, GrantSide, Typed, StoreTyped, BackupRec
  <2>4. (op[q].pc = "receipt" => Listed(op[q].point))'
    <3>1. CASE op'[q] = op[q] /\ op[q].pc = "receipt"
      <4>1. op[q].point \in Points /\ Used(op[q].point) /\ Listed(op[q].point)
        BY <3>1, CandidateThere DEF PublicationInv, GrantSide, ReceiptsListed
      <4>2. ListedStays
        BY <1>0, <1>2, <1>3, <1>4, TakenKeeps
      <4>3. \A x \in Points : x = op[q].point => Listed(x)'
        BY <4>1, <4>2 DEF ListedStays
      <4> QED
        BY <3>1, <4>1, <4>3 DEF Listed
    <3> QED
      BY <2>1, <3>1
  <2> QED
    BY <1>4, <2>1, <2>2, <2>3, <2>4 DEF RunsMove, HeadSound, Alive
<1>7. late' \subseteq late /\ grants[g].run \in Runs /\ grants[g].run = point[p].run
  BY <1>2, <1>3, <1>4
<1> HIDE DEF g
<1> QED
  BY <1>0, <1>2, <1>3, <1>4, <1>6, <1>7, TakenGrants

LEMMA ReceiptGrants ==
  ASSUME PublicationInv, Typed', NEW r \in Runs, Receipt(r)
  PROVE  GrantSide'
<1> USE DEF blockVars, pubVars, runVars, nodeVars
<1> DEFINE p == op[r].point
           g == point[p].disk
<1>0. op[r].pc = "receipt" /\ op \in [Runs -> OpRec]
  BY DEF Receipt, PublicationInv, Typed, TasksTyped
<1>1. Alive(r)
  BY <1>0, AliveWhileBusy
<1>2. p \in Points /\ Used(p) /\ point[p].run = r /\ Listed(p)
  BY <1>0, CandidateThere DEF PublicationInv, GrantSide, ReceiptsListed
<1>3. g \in Grants /\ grants[g].run = r
  BY <1>1, <1>2 DEF PublicationInv, GrantSide, UsedSound, PointSound
<1>4. UNCHANGED <<point, owner, mounted, recorded, uploadIntents, deletions, objects, move, backup, monitor, late>>
      /\ disks' = Published(p) /\ grants' = ReceiptTaken(g, p) /\ Publishable(p)
  BY DEF Receipt
<1>5. op'[r].pc = "complete" /\ op'[r].goal = op[r].goal /\ \A q \in Runs : q # r => op'[q] = op[q]
  BY <1>0 DEF Receipt, OpRec
<1>6. ASSUME NEW q \in Runs  PROVE RunsMove(q)
  <2>1. PointsStay
    BY <1>4 DEF PointsStay
  <2>2. MoveSound(q)'
    BY <1>4, <1>5, <2>1, MovesStill
  <2>3. HeadSound(q)
    BY DEF PublicationInv, GrantSide
  <2>4. (op[q].pc = "receipt" => Listed(op[q].point))'
    <3>1. CASE op'[q] = op[q] /\ op[q].pc = "receipt"
      <4>1. op[q].point \in Points /\ Used(op[q].point) /\ Listed(op[q].point)
        BY <3>1, CandidateThere DEF PublicationInv, GrantSide, ReceiptsListed
      <4>2. ListedStays
        BY <1>2, <1>3, <1>4, TakenKeeps
      <4>3. \A x \in Points : x = op[q].point => Listed(x)'
        BY <4>1, <4>2 DEF ListedStays
      <4> QED
        BY <3>1, <4>1, <4>3 DEF Listed
    <3> QED
      BY <1>5, <3>1
  <2>5. Alive(q)' = Alive(q)
    BY <1>5 DEF Alive
  <2> QED
    BY <1>4, <2>2, <2>3, <2>4, <2>5 DEF RunsMove, HeadSound
<1> HIDE DEF p, g
<1>7. late' \subseteq late /\ grants[g].run \in Runs /\ grants[g].run = point[p].run
  BY <1>2, <1>3, <1>4
<1> QED
  BY <1>2, <1>3, <1>4, <1>6, <1>7, TakenGrants DEF g

LEMMA RefreshGrants ==
  ASSUME PublicationInv, Typed', NEW r \in Runs, RefreshApply(r)
  PROVE  GrantSide'
<1> USE DEF blockVars, pubVars, runVars, nodeVars
<1> DEFINE p == monitor[r].point
           g == monitor[r].disk
<1>0. /\ monitor[r].known /\ monitor \in [Runs -> StatusRec] /\ StatusSound(r) /\ Typed
      /\ backup \in [Runs -> BackupRec]
  BY DEF RefreshApply, PublicationInv, GrantSide, Typed, TasksTyped, StoreTyped
<1>1. /\ p \in Points /\ g \in Grants /\ point[p].disk = g /\ Used(p) /\ Listed(p)
      /\ point[p].gen <= disks[g].pubGen
      /\ point[p].gen = disks[g].pubGen => p = disks[g].receipt
  BY <1>0, StatusTyped DEF StatusSound
<1>2. UNCHANGED <<point, owner, mounted, recorded, uploadIntents, deletions, objects, move, disks, op, late>>
  BY DEF RefreshApply
<1>3. \A q \in Runs : monitor'[q] \in {monitor[q], NoStatus}
  BY <1>0 DEF RefreshApply
<1>4. CASE UNCHANGED <<grants, backup>>
  <2>1. OnlyUsed /\ PinsStay
    BY <1>2, PinsStill DEF PublicationInv, GrantSide, UsedSound, ReceiptsListed, OnlyUsed
  <2>2. ASSUME NEW q \in Runs  PROVE RunsStay(q)
    <3>1. op[q].pc = "receipt" => op[q].point \in Points /\ Used(op[q].point) /\ Listed(op[q].point)
      BY CandidateThere DEF PublicationInv, GrantSide, ReceiptsListed
    <3>2. monitor'[q] = monitor[q] \/ StatusSound(q)'
      BY <1>3 DEF StatusSound, NoStatus
    <3> QED
      BY <1>2, <1>4, <3>1, <3>2 DEF RunsStay, Alive, PublicationInv, GrantSide, MountSound, HeadSound
  <2> QED
    BY <1>2, <1>4, <2>1, <2>2, GrantSideStill
<1>5. CASE /\ Alive(r) /\ grants[g].run = r
           /\ grants' = ReceiptTaken(g, p) /\ backup' = RecordStatus(r)
  <2>1. point[p].run = r
    BY <1>1, <1>5, NoneIsNothing DEF PublicationInv, GrantSide, UsedSound, PointSound
  <2>2. \A q \in Runs : backup'[q].head = backup[q].head \/ (q = r /\ backup'[q].head = p)
    BY SMTT(40), <1>0, <1>5 DEF RecordStatus, BackupRec
  <2>3. ListedStays
    BY <1>1, <1>2, <1>5, <2>1, TakenKeeps
  <2>4. ASSUME NEW q \in Runs  PROVE RunsMove(q)
    <3>1. PointsStay
      BY <1>2 DEF PointsStay
    <3>2. MoveSound(q)'
      BY <1>2, <3>1, MovesStill
    <3>3. HeadSound(q)'
      BY <1>2, <2>1, <2>2 DEF HeadSound, PublicationInv, GrantSide
    <3>4. (op[q].pc = "receipt" => Listed(op[q].point))'
      <4>1. CASE op[q].pc = "receipt"
        <5>1. op[q].point \in Points /\ Used(op[q].point) /\ Listed(op[q].point)
          BY <4>1, CandidateThere DEF PublicationInv, GrantSide, ReceiptsListed
        <5>2. \A x \in Points : x = op[q].point => Listed(x)'
          BY <2>3, <5>1 DEF ListedStays
        <5> QED
          BY <1>2, <5>1, <5>2 DEF Listed
      <4> QED
        BY <1>2, <4>1
    <3> QED
      BY <1>2, <1>3, <3>2, <3>3, <3>4 DEF RunsMove, Alive
  <2>5. late' \subseteq late /\ grants[g].run \in Runs /\ grants[g].run = point[p].run
    BY <1>2, <1>5, <2>1
  <2> HIDE DEF p, g
  <2> QED
    BY <1>1, <1>2, <1>5, <2>4, <2>5, TakenGrants
<1> QED
  BY <1>4, <1>5 DEF RefreshApply

\* The other changes of grants and mounts.
LEMMA ExtendGrants ==
  ASSUME PublicationInv, Typed', NEW r \in Runs, ExtendGrant(r)
  PROVE  GrantSide'
<1> USE DEF blockVars, pubVars, runVars, nodeVars
<1> USE NoneIsNothing
<1> DEFINE p == op[r].point
           g == point[p].disk
<1>0. /\ op[r].pc = "extend" /\ op \in [Runs -> OpRec] /\ grants \in [Grants -> GrantRec]
      /\ disks \in [Grants -> DiskRec]
  BY DEF ExtendGrant, PublicationInv, Typed, TasksTyped, StoreTyped, NodesTyped
<1>1. Alive(r)
  BY <1>0, AliveWhileBusy
<1>2. p \in Points /\ Used(p) /\ point[p].run = r /\ p \in recorded
  BY <1>0, CandidateThere DEF PublicationInv, BlockSide, CandidateSound
<1>3. g \in Grants /\ grants[g].run = r /\ grants[g] \in GrantRec
  BY <1>0, <1>1, <1>2 DEF PublicationInv, GrantSide, UsedSound, PointSound
<1>4. UNCHANGED <<point, owner, mounted, recorded, uploadIntents, deletions, objects, move, backup,
                  monitor, late, disks>>
  BY DEF ExtendGrant
<1>5. op'[r].pc = "receipt" /\ op'[r].goal = op[r].goal /\ op'[r].point = p
      /\ \A q \in Runs : q # r => op'[q] = op[q]
  BY <1>0 DEF ExtendGrant, OpRec
<1>6. /\ \A d \in Grants : d # g => grants'[d] = grants[d]
      /\ grants'[g].backups = grants[g].backups \cup {p}
      /\ grants'[g].pending = grants[g].pending \cup {p}
      /\ grants'[g].run = grants[g].run /\ grants'[g].node = grants[g].node
      /\ grants'[g].gen = grants[g].gen
  <2> HIDE DEF p, g
  <2>1. grants' = [grants EXCEPT ![g].backups = @ \cup {p}, ![g].pending = @ \cup {p}]
    BY DEF ExtendGrant, Extended, p, g
  <2> QED
    BY <1>0, <1>3, <2>1 DEF GrantRec
<1>7. /\ \A x \in Points : Used(x) /\ Listed(x) => Listed(x)'
      /\ \A x \in Points : x = p => Listed(x)'
  <2>1. \A x \in Points : Used(x) => point[x].disk \in Grants
    BY DEF PublicationInv, GrantSide, UsedSound, PointSound
  <2> QED
    BY <1>2, <1>3, <1>4, <1>6, <2>1 DEF Listed
<1>8. ASSUME NEW d \in Grants  PROVE GrantsMove(d)
  <2>1. GrantSound(d) /\ DiskSound(d)
    BY DEF PublicationInv, GrantSide
  <2>2. GrantSound(d)'
    <3> HIDE DEF p, g
    <3>1. CASE d = g
      BY <1>2, <1>3, <1>4, <1>6, <2>1, <3>1 DEF GrantSound
    <3>2. CASE d # g
      BY <1>4, <1>6, <2>1, <3>2 DEF GrantSound
    <3> QED
      BY <3>1, <3>2
  <2>3. (disks[d].receipt # None => Listed(disks[d].receipt))'
    <3>1. disks[d].receipt # None => /\ disks[d].receipt \in Points /\ Used(disks[d].receipt)
                                     /\ Listed(disks[d].receipt)
      BY ReceiptUsed DEF PublicationInv, GrantSide, ReceiptsListed
    <3>2. disks[d].receipt # None => \A x \in Points : x = disks[d].receipt => Listed(x)'
      BY <1>7, <3>1
    <3> QED
      BY <1>4, <3>1, <3>2 DEF Listed
  <2>4. disks[d].pubGen \in Nat
    BY <1>0 DEF DiskRec
  <2>5. grants[d].run # None /\ Covers(d) => Covers(d)'
    BY <1>4, <1>6 DEF Covers
  <2>6. DiskSound(d)'
    BY <1>4, <2>1 DEF DiskSound
  <2>7. grants'[d].run = grants[d].run /\ grants'[d].node = grants[d].node
    <3> HIDE DEF p, g
    <3> QED
      BY <1>6
  <2>8. disks[d].pubGen <= disks'[d].pubGen /\ disks'[d].receipt = disks[d].receipt
    BY <1>4, <2>4
  <2> QED
    BY <2>2, <2>3, <2>5, <2>6, <2>7, <2>8 DEF GrantsMove
<1>9. ASSUME NEW q \in Runs  PROVE RunsMove(q)
  <2>1. PointsStay
    BY <1>4 DEF PointsStay
  <2>2. MoveSound(q)'
    BY <1>4, <1>5, <2>1, MovesStill
  <2>3. HeadSound(q)
    BY DEF PublicationInv, GrantSide
  <2>4. (op[q].pc = "receipt" => Listed(op[q].point))'
    <3>1. CASE q = r
      BY <1>2, <1>4, <1>5, <1>7, <3>1 DEF Listed
    <3>2. CASE q # r /\ op[q].pc = "receipt"
      <4>1. op[q].point \in Points /\ Used(op[q].point) /\ Listed(op[q].point)
        BY <3>2, CandidateThere DEF PublicationInv, GrantSide, ReceiptsListed
      <4>2. \A x \in Points : x = op[q].point => Listed(x)'
        BY <1>7, <4>1
      <4> QED
        BY <1>5, <3>2, <4>1, <4>2 DEF Listed
    <3> QED
      BY <1>5, <3>1, <3>2
  <2>5. Alive(q)' = Alive(q)
    BY <1>5 DEF Alive
  <2> QED
    BY <1>4, <2>2, <2>3, <2>4, <2>5 DEF RunsMove, HeadSound
<1>10. ListedStays
  BY <1>7 DEF ListedStays
<1> QED
  BY <1>4, <1>8, <1>9, <1>10, GrantSideMoved

LEMMA LateGrants ==
  ASSUME PublicationInv, Typed', NEW p \in Points, LateReceipt(p)
  PROVE  GrantSide'
<1> USE DEF blockVars, pubVars, runVars, nodeVars
<1> USE NoneIsNothing
<1> DEFINE g == point[p].disk
<1>0. /\ disks \in [Grants -> DiskRec] /\ disks' \in [Grants -> DiskRec] /\ grants \in [Grants -> GrantRec]
      /\ point \in [Points -> PointRec]
  BY DEF PublicationInv, Typed, NodesTyped, StoreTyped
<1>1. p \in late /\ Used(p) /\ Listed(p)
  BY DEF LateReceipt, PublicationInv, GrantSide, UsedSound, ReceiptsListed
<1>2. UNCHANGED <<point, owner, mounted, recorded, uploadIntents, deletions, objects, move, backup,
                  monitor, op, grants>> /\ late' \subseteq late
  BY DEF LateReceipt
<1>3. ASSUME NEW x \in Points  PROVE Listed(x)' <=> Listed(x)
  BY <1>2 DEF Listed
<1>4. ListedStays
  BY <1>3 DEF ListedStays
<1>5. ASSUME NEW q \in Runs  PROVE RunsMove(q)
  <2>1. PointsStay
    BY <1>2 DEF PointsStay
  <2>2. MoveSound(q)'
    BY <1>2, <2>1, MovesStill
  <2> QED
    BY <1>2, <2>2 DEF RunsMove, HeadSound, Alive, PublicationInv, GrantSide, ReceiptsListed, Listed
<1>6. ASSUME NEW d \in Grants  PROVE GrantsMove(d)
  <2>1. /\ GrantSound(d) /\ DiskSound(d) /\ disks[d].pubGen \in Nat /\ grants[d].gen \in Nat
        /\ disks[d].receipt # None => /\ disks[d].receipt \in Points /\ Used(disks[d].receipt)
                                      /\ Listed(disks[d].receipt)
    BY <1>0, ReceiptUsed DEF PublicationInv, GrantSide, ReceiptsListed, DiskRec, GrantRec
  <2>2. CASE disks' = disks
    BY <1>2, <2>1, <2>2 DEF GrantsMove, GrantSound, DiskSound, Listed, Covers
  <2>3. CASE disks' = Published(p) /\ Publishable(p) /\ disks' # disks
    <3>1. /\ g \in Grants
          /\ \A e \in Grants : e # g => disks'[e] = disks[e]
          /\ disks'[g].base = p /\ disks'[g].receipt = p /\ disks'[g].pubGen = point[p].gen
          /\ disks[g].pubGen <= point[p].gen /\ disks[g].pubGen # point[p].gen
          /\ \A e \in Grants : DiskSound(e)'
      BY <1>1, <1>2, <2>3, PublishedFacts
    <3>2. CASE d # g
      BY <1>2, <2>1, <3>1, <3>2 DEF GrantsMove, GrantSound, Listed, Covers
    <3>3. CASE d = g
      <4>1. point[p].gen \in Nat /\ grants[g].gen <= disks[g].pubGen
        BY SMTT(40), <1>0, <2>1, <3>3 DEF PointRec, GrantSound
      <4>2. grants[g].run # None => p \in grants[g].backups
        BY <1>1, <2>1, <3>1, <3>3, <4>1, SMTT(40) DEF Listed, GrantSound
      <4>3. GrantSound(d)'
        BY SMTT(40), <1>2, <2>1, <3>1, <3>3, <4>1 DEF GrantSound
      <4>4. (disks[d].receipt # None => Listed(disks[d].receipt))'
        BY <1>1, <1>2, <3>1, <3>3 DEF Listed
      <4> HIDE DEF g
      <4> QED
        BY <1>2, <2>1, <3>1, <3>3, <4>1, <4>2, <4>3, <4>4 DEF GrantsMove, Covers
    <3> QED
      BY <3>2, <3>3
  <2> QED
    BY <2>2, <2>3 DEF LateReceipt
<1> QED
  BY <1>2, <1>4, <1>5, <1>6, GrantSideMoved

LEMMA PurgeGrants ==
  ASSUME PublicationInv, Typed', NEW r \in Runs, PurgeFinish(r)
  PROVE  GrantSide'
<1> USE DEF blockVars, pubVars, runVars, nodeVars
<1> USE NoneIsNothing
<1> DEFINE mine == {p \in Points : point[p].run = r}
<1>0. /\ op \in [Runs -> OpRec] /\ grants \in [Grants -> GrantRec] /\ Typed /\ op[r].pc = "purge"
      /\ UsedSound /\ MountSound /\ ReceiptsListed /\ recorded \subseteq Points /\ late \subseteq Points
      /\ disks \in [Grants -> DiskRec] /\ point \in [Points -> PointRec]
      /\ \A q \in Runs : MoveSound(q) /\ HeadSound(q) /\ StatusSound(q)
      /\ \A d \in Grants : GrantSound(d) /\ DiskSound(d)
  BY DEF PurgeFinish, PublicationInv, Typed, TasksTyped, StoreTyped, NodesTyped, GrantSide
<1>1. UNCHANGED <<point, owner, mounted, uploadIntents, deletions, move, backup, monitor, late, disks>>
      /\ recorded' = recorded \ mine /\ objects' = Released(mine)
      /\ grants' = [d \in Grants |-> IF grants[d].run = r THEN NoGrant ELSE grants[d]]
  BY DEF PurgeFinish
<1>2. op'[r].pc = "gone" /\ op'[r].goal = "gone" /\ \A q \in Runs : q # r => op'[q] = op[q]
  BY <1>0 DEF PurgeFinish, NoOp
<1>3. \A d \in Grants : \/ grants[d].run = r /\ grants'[d] = NoGrant
                        \/ grants[d].run # r /\ grants'[d] = grants[d]
  BY <1>1
<1>4. UsedSound'
  <2>1. \A o \in Objects : objects'[o].refs \subseteq objects[o].refs
    BY <1>0, <1>1, RowsRefs
  <2>2. ASSUME NEW p \in Points  PROVE PointSound(p)'
    <3>1. CASE ~Used(p)
      BY <1>0, <1>1, <3>1 DEF UsedSound, PointSound, Used
    <3>2. CASE Used(p) /\ point[p].run = r
      <4>1. ~Alive(r)'
        BY <1>2 DEF Alive
      <4>2. point[p].disk \in Grants /\ grants'[point[p].disk].run = None
        BY <1>0, <1>3, <3>2 DEF UsedSound, PointSound, NoGrant
      <4> QED
        BY <1>0, <1>1, <3>2, <4>1, <4>2 DEF UsedSound, PointSound, Used, Alive
    <3>3. CASE Used(p) /\ point[p].run # r
      <4>1. point[p].disk \in Grants /\ grants[point[p].disk].run \in {point[p].run, None}
        BY <1>0, <3>3 DEF UsedSound, PointSound
      <4>2. grants'[point[p].disk] = grants[point[p].disk] /\ point[p].run \in Runs
        BY <1>0, <1>3, <3>3, <4>1 DEF UsedSound, PointSound
      <4>3. op'[point[p].run] = op[point[p].run]
        BY <1>2, <3>3, <4>2
      <4> QED
        BY <1>0, <1>1, <3>3, <4>1, <4>2, <4>3 DEF UsedSound, PointSound, Used, Alive
    <3> QED
      BY <3>1, <3>2, <3>3
  <2> QED
    BY <1>0, <1>1, <2>1, <2>2 DEF UsedSound, Used
<1>5. MountSound'
  <2>1. \A q \in Runs : Alive(q)' => q # r /\ Alive(q)
    BY <1>2 DEF Alive
  <2>2. \A q \in Runs, n \in Nodes : mounted[q][n] \in Grants \cup {None}
    BY <1>0 DEF Typed, NodesTyped
  <2> QED
    BY <1>0, <1>1, <1>3, <2>1, <2>2 DEF MountSound
<1>6. \A x \in Points : Used(x) /\ Listed(x) => Listed(x)'
  <2>1. \A x \in Points : Used(x) => point[x].disk \in Grants
    BY <1>0 DEF UsedSound, PointSound
  <2> QED
    BY <1>1, <1>3, <2>1 DEF Listed, NoGrant
<1>7. ReceiptsListed'
  <2>1. ASSUME NEW d \in Grants  PROVE (disks[d].receipt # None => Listed(disks[d].receipt))'
    <3>1. disks[d].receipt # None => /\ disks[d].receipt \in Points /\ Used(disks[d].receipt)
                                     /\ Listed(disks[d].receipt)
      BY <1>0, ReceiptUsed DEF ReceiptsListed
    <3>2. disks[d].receipt # None => \A x \in Points : x = disks[d].receipt => Listed(x)'
      BY <1>6, <3>1
    <3> QED
      BY <1>1, <3>1, <3>2 DEF Listed
  <2>2. ASSUME NEW q \in Runs  PROVE (op[q].pc = "receipt" => Listed(op[q].point))'
    <3>1. CASE q # r /\ op[q].pc = "receipt"
      <4>1. op[q].point \in Points /\ Used(op[q].point) /\ Listed(op[q].point)
        BY <1>0, <3>1, CandidateThere DEF ReceiptsListed
      <4>2. \A x \in Points : x = op[q].point => Listed(x)'
        BY <1>6, <4>1
      <4> QED
        BY <1>2, <3>1, <4>1, <4>2 DEF Listed
    <3> QED
      BY <1>2, <3>1
  <2> QED
    BY <1>0, <1>1, <1>6, <2>1, <2>2 DEF ReceiptsListed, UsedSound
<1>8. ASSUME NEW q \in Runs  PROVE MoveSound(q)' /\ HeadSound(q)' /\ StatusSound(q)'
  <2>1. MoveSound(q)' /\ HeadSound(q)'
    BY <1>0, <1>1, <1>2 DEF MoveSound, HeadSound
  <2>2. CASE monitor[q].known
    <3> DEFINE p == monitor[q].point
               d == monitor[q].disk
    <3>1. /\ p \in Points /\ d \in Grants /\ point[p].disk = d /\ Used(p)
          /\ point[p].gen <= disks[d].pubGen /\ Listed(p)
          /\ point[p].gen = disks[d].pubGen => p = disks[d].receipt
      BY <1>0, <2>2 DEF StatusSound, Typed, TasksTyped, StatusRec
    <3>2. \A x \in Points : x = p => Listed(x)'
      BY <1>6, <3>1
    <3> QED
      BY <1>1, <2>1, <2>2, <3>1, <3>2 DEF StatusSound, Used, Listed
  <2> QED
    BY <1>1, <2>1, <2>2 DEF StatusSound
<1>9. ASSUME NEW d \in Grants  PROVE GrantSound(d)' /\ DiskSound(d)'
  <2>1. disks[d].pubGen \in Nat /\ grants[d].backups \subseteq Points
    BY <1>0 DEF DiskRec, GrantRec
  <2>2. GrantSound(d)'
    <3>1. CASE grants[d].run = r
      BY <1>1, <1>3, <2>1, <3>1 DEF GrantSound, NoGrant
    <3>2. CASE grants[d].run # r
      BY <1>0, <1>1, <1>3, <2>1, <3>2 DEF GrantSound
    <3> QED
      BY <3>1, <3>2
  <2> QED
    BY <1>0, <1>1, <2>2 DEF DiskSound
<1> QED
  BY <1>4, <1>5, <1>7, <1>8, <1>9 DEF GrantSide

LEMMA RestoreGrants ==
  ASSUME PublicationInv, Typed', NEW r \in Runs, Restore(r)
  PROVE  GrantSide'
<1> USE DEF blockVars, pubVars, runVars, nodeVars
<1> USE NoneIsNothing
<1> DEFINE p == move[r].point
           n == move[r].to
           old == mounted[r][n]
<1>0. /\ op \in [Runs -> OpRec] /\ grants \in [Grants -> GrantRec] /\ Typed /\ op[r].pc = "idle"
      /\ UsedSound /\ MountSound /\ ReceiptsListed /\ recorded \subseteq Points /\ late \subseteq Points
      /\ disks \in [Grants -> DiskRec] /\ point \in [Points -> PointRec] /\ move \in [Runs -> MoveRec]
      /\ mounted \in [Runs -> [Nodes -> Grants \cup {None}]] /\ owner \in [Runs -> Nodes]
      /\ \A q \in Runs : MoveSound(q) /\ HeadSound(q) /\ StatusSound(q) /\ OperationSound(q)
      /\ \A d \in Grants : GrantSound(d) /\ DiskSound(d)
  BY DEF Restore, PublicationInv, Typed, TasksTyped, StoreTyped, NodesTyped, GrantSide, BlockSide
<1>1. UNCHANGED <<point, owner, recorded, uploadIntents, deletions, objects, backup, monitor, late, op>>
      /\ p \in recorded /\ move[r].pc = "restore"
  BY DEF Restore
<1>2. p \in Points /\ Used(p) /\ point[p].run = r /\ n \in Nodes /\ Alive(r)
  BY <1>0, <1>1 DEF MoveSound, UsedSound, OperationSound, Alive
<1>3. PICK g \in Grants :
         /\ grants[g].run = None /\ \A q \in Runs, m \in Nodes : mounted[q][m] # g
         /\ \A q \in Points : point[q].disk # g
         /\ grants' = [grants EXCEPT ![g] = Issued(r, n, p)]
         /\ \/ UNCHANGED <<disks, mounted>> /\ old # None
            \/ /\ disks' = [disks EXCEPT ![g] = NewDisk(point[p].ver, p)]
               /\ mounted' = [mounted EXCEPT ![r][n] = g]
         /\ move' = [move EXCEPT ![r].pc = "resume"]
  <2> DEFINE g == CHOOSE h \in Unissued : TRUE
  <2>1. g \in Unissued
    BY DEF Restore
  <2>2. /\ grants' = [grants EXCEPT ![g] = Issued(r, n, p)]
        /\ \/ UNCHANGED <<disks, mounted>> /\ old # None
           \/ /\ disks' = [disks EXCEPT ![g] = NewDisk(point[p].ver, p)]
              /\ mounted' = [mounted EXCEPT ![r][n] = g]
        /\ move' = [move EXCEPT ![r].pc = "resume"]
    BY DEF Restore
  <2> HIDE DEF g
  <2> QED
    BY <2>1, <2>2 DEF Unissued
<1>4. /\ \A d \in Grants : d # g => grants'[d] = grants[d] /\ disks'[d] = disks[d]
      /\ grants'[g].run = r /\ grants'[g].node = n /\ grants'[g].backups = {p}
      /\ grants'[g].pending = {} /\ grants'[g].gen = 0
  BY <1>0, <1>3 DEF Issued, NoGrant
<1>5. UsedSound'
  <2>1. ASSUME NEW q \in Points  PROVE PointSound(q)'
    <3>1. CASE ~Used(q)
      BY <1>0, <1>1, <3>1 DEF UsedSound, PointSound, Used
    <3>2. CASE Used(q)
      <4>1. point[q].disk \in Grants /\ point[q].disk # g
        BY <1>0, <1>3, <3>2 DEF UsedSound, PointSound
      <4> QED
        BY <1>0, <1>1, <1>4, <3>2, <4>1 DEF UsedSound, PointSound, Used, Alive
    <3> QED
      BY <3>1, <3>2
  <2> QED
    BY <1>0, <1>1, <2>1 DEF UsedSound, Used
<1>6. MountSound' /\ \A q \in Runs, m \in Nodes : mounted'[q][m] # None <=> (mounted[q][m] # None \/ (q = r /\ m = n))
  <2>1. CASE UNCHANGED <<disks, mounted>> /\ old # None
    <3>1. ASSUME NEW q \in Runs, NEW m \in Nodes, mounted[q][m] # None
          PROVE  mounted[q][m] \in Grants /\ mounted[q][m] # g
      BY <1>0, <1>3, <3>1
    <3> QED
      BY <1>0, <1>1, <1>2, <1>4, <2>1, <3>1 DEF MountSound, Alive
  <2>2. CASE /\ disks' = [disks EXCEPT ![g] = NewDisk(point[p].ver, p)]
             /\ mounted' = [mounted EXCEPT ![r][n] = g]
    <3>1. /\ mounted'[r][n] = g
          /\ \A q \in Runs, m \in Nodes : (q # r \/ m # n) => mounted'[q][m] = mounted[q][m]
      BY <1>0, <1>2, <2>2
    <3>2. disks'[g].base = p
      BY <1>0, <2>2 DEF NewDisk
    <3>3. ASSUME NEW q \in Runs, NEW m \in Nodes, mounted[q][m] # None
          PROVE  mounted[q][m] \in Grants /\ mounted[q][m] # g
      BY <1>0, <1>3, <3>3
    <3>4. \A q \in Runs : mounted'[q][owner'[q]] # None
      BY <1>0, <1>1, <3>1 DEF MountSound
    <3>5. \A q, s \in Runs, m, l \in Nodes :
            mounted'[q][m] = mounted'[s][l] /\ mounted'[q][m] # None => q = s /\ m = l
      BY <1>0, <1>3, <3>1, <3>3 DEF MountSound
    <3>6. ASSUME NEW q \in Runs, NEW m \in Nodes, Alive(q)', mounted'[q][m] # None
          PROVE  LET d == mounted'[q][m] IN
                 /\ grants'[d].run = q /\ grants'[d].node = m
                 /\ disks'[d].base # None => disks'[d].base \in grants'[d].backups
      <4>1. CASE q = r /\ m = n
        BY <1>4, <3>1, <3>2, <4>1
      <4>2. CASE q # r \/ m # n
        <5>1. mounted'[q][m] = mounted[q][m] /\ mounted[q][m] \in Grants /\ mounted[q][m] # g /\ Alive(q)
          BY <1>1, <3>1, <3>3, <3>6, <4>2 DEF Alive
        <5> QED
          BY <1>0, <1>4, <3>6, <5>1 DEF MountSound
      <4> QED
        BY <4>1, <4>2
    <3> QED
      BY <3>1, <3>4, <3>5, <3>6 DEF MountSound
  <2> QED
    BY <1>3, <2>1, <2>2
<1>7. /\ \A x \in Points : point[x].disk \in Grants /\ Listed(x) => Listed(x)'
      /\ \A x \in Points : Used(x) => point[x].disk \in Grants
  BY <1>0, <1>1, <1>3, <1>4 DEF Listed, UsedSound, PointSound
<1>8. disks[g].receipt = None /\ disks'[g].receipt = None /\ DiskSound(g)
  <2>1. disks[g].receipt = None
    <3>1. disks[g].receipt \in Points \cup {None}
      BY <1>0 DEF DiskRec
    <3> QED
      BY <1>0, <1>3, <3>1 DEF DiskSound
  <2> QED
    BY <1>0, <1>3, <2>1 DEF NewDisk
<1>9. ReceiptsListed'
  <2>1. ASSUME NEW d \in Grants  PROVE (disks[d].receipt # None => Listed(disks[d].receipt))'
    <3>1. CASE d = g
      BY <1>8, <3>1
    <3>2. CASE d # g
      <4>1. disks[d].receipt # None => /\ disks[d].receipt \in Points /\ Used(disks[d].receipt)
                                       /\ Listed(disks[d].receipt)
        BY <1>0, ReceiptUsed DEF ReceiptsListed
      <4>2. disks[d].receipt # None => \A x \in Points : x = disks[d].receipt => Listed(x)'
        BY <1>7, <4>1
      <4> QED
        BY <1>1, <1>4, <3>2, <4>1, <4>2 DEF Listed
    <3> QED
      BY <3>1, <3>2
  <2>2. ASSUME NEW q \in Runs  PROVE (op[q].pc = "receipt" => Listed(op[q].point))'
    <3>1. CASE op[q].pc = "receipt"
      <4>1. op[q].point \in Points /\ Used(op[q].point) /\ Listed(op[q].point)
        BY <1>0, <3>1, CandidateThere DEF ReceiptsListed
      <4>2. \A x \in Points : x = op[q].point => Listed(x)'
        BY <1>7, <4>1
      <4> QED
        BY <1>1, <4>1, <4>2 DEF Listed
    <3> QED
      BY <1>1, <3>1
  <2> QED
    BY <1>0, <1>1, <1>7, <2>1, <2>2 DEF ReceiptsListed, UsedSound
<1>10. ASSUME NEW q \in Runs  PROVE MoveSound(q)' /\ HeadSound(q)' /\ StatusSound(q)'
  <2>1. HeadSound(q)'
    BY <1>0, <1>1 DEF HeadSound
  <2>2. MoveSound(q)'
    <3>1. CASE q = r
      <4>1. move'[r].pc = "resume" /\ move'[r].to = n /\ move'[r].point = p
        BY <1>0, <1>3 DEF MoveRec
      <4>2. op[r].goal = "none"
        BY <1>0 DEF OperationSound
      <4> QED
        BY <1>1, <1>2, <1>6, <3>1, <4>1, <4>2 DEF MoveSound
    <3>2. CASE q # r
      <4>1. move'[q] = move[q]
        BY <1>0, <1>3, <3>2
      <4> QED
        BY <1>0, <1>1, <1>6, <4>1 DEF MoveSound
    <3> QED
      BY <3>1, <3>2
  <2>3. CASE monitor[q].known
    <3> DEFINE x == monitor[q].point
               d == monitor[q].disk
    <3>1. /\ x \in Points /\ d \in Grants /\ point[x].disk = d /\ Used(x)
          /\ point[x].gen <= disks[d].pubGen /\ Listed(x)
          /\ point[x].gen = disks[d].pubGen => x = disks[d].receipt
      BY <1>0, <2>3 DEF StatusSound, Typed, TasksTyped, StatusRec
    <3>2. \A y \in Points : y = x => Listed(y)'
      BY <1>7, <3>1
    <3>3. disks'[d] = disks[d]
      BY <1>3, <1>4, <3>1
    <3> QED
      BY <1>1, <2>1, <2>2, <2>3, <3>1, <3>2, <3>3 DEF StatusSound, Used, Listed
  <2> QED
    BY <1>1, <2>1, <2>2, <2>3 DEF StatusSound
<1>11. ASSUME NEW d \in Grants  PROVE GrantSound(d)' /\ DiskSound(d)'
  <2>1. disks[d].pubGen \in Nat /\ disks'[d].pubGen \in Nat
    BY <1>0 DEF DiskRec, Typed, NodesTyped
  <2>2. CASE d # g
    BY <1>0, <1>1, <1>4, <2>2 DEF GrantSound, DiskSound
  <2>3. CASE d = g
    <3>1. GrantSound(d)'
      BY <1>1, <1>2, <1>4, <2>1, <2>3 DEF GrantSound
    <3>2. DiskSound(d)'
      BY <1>0, <1>1, <1>3, <1>8, <2>3 DEF DiskSound, NewDisk
    <3> QED
      BY <3>1, <3>2
  <2> QED
    BY <2>2, <2>3
<1> QED
  BY <1>5, <1>6, <1>9, <1>10, <1>11 DEF GrantSide

LEMMA PublishTurnGrants ==
  ASSUME PublicationInv, Typed', NEW r \in Runs, PublishTurn(r)
  PROVE  GrantSide'
<1>1. CASE PublishStart(r) \/ CollectStart(r) \/ TransferBlocks(r) \/ CompleteRequest(r)
  BY <1>1, QuietGrants
<1>2. CASE \/ RetirePoints(r) \/ QueueAbandoned(r) \/ Refused(r) \/ ReceiptLost(r)
           \/ (\E os \in SUBSET Objects : PublishFails(r, os))
  BY <1>2, CollectGrants
<1>3. CASE \E hs \in (SUBSET Hashes) \ {{}} : CaptureCompleted(r, hs) \/ CaptureNow(r, hs)
  BY <1>3, CaptureGrants
<1>4. CASE WriteIntent(r) \/ Commit(r)
  BY <1>4, CandidateGrants
<1>5. CASE ReserveBlocks(r) \/ PublishManifest(r)
  BY <1>5, ReserveGrants
<1>6. CASE AlreadyPublished(r)
  BY <1>6, AlreadyGrants
<1>7. CASE ExtendGrant(r)
  BY <1>7, ExtendGrants
<1>8. CASE Receipt(r)
  BY <1>8, ReceiptGrants
<1> QED
  BY <1>1, <1>2, <1>3, <1>4, <1>5, <1>6, <1>7, <1>8 DEF PublishTurn

\* Every action keeps the grants, the mounts and what they refer to.
LEMMA GrantsKept ==
  ASSUME PublicationInv, Typed', PublicationNext
  PROVE  GrantSide'
<1>1. ASSUME NEW r \in Runs, Node(r)  PROVE GrantSide'
  <2>1. CASE StartTurn(r) \/ Request(r)
    BY <2>1, QuietGrants
  <2>2. CASE Write(r) \/ CompleteTurn(r)
    BY <2>2, WriteGrants
  <2> QED
    BY <1>1, <2>1, <2>2 DEF Node
<1>2. ASSUME NEW r \in Runs, Disk(r)  PROVE GrantSide'
  <2>1. PICK n \in Nodes : TRUE
    BY PublicationConstants
  <2>2. CASE (\E g \in Grants : ReadStart(r, g)) \/ ReadServed(r)
    BY <2>2, QuietGrants
  <2>3. CASE ReadInvalid(r)
    BY <2>3, RowsGrants
  <2>4. CASE RefreshRead(r)
    BY <2>1, <2>4, StepGrants
  <2>5. CASE RefreshApply(r)
    BY <2>5, RefreshGrants
  <2> QED
    BY <1>2, <2>2, <2>3, <2>4, <2>5 DEF Disk
<1>3. ASSUME NEW r \in Runs, Move(r)  PROVE GrantSide'
  <2>1. PICK n \in Nodes : TRUE
    BY PublicationConstants
  <2>2. CASE \E m \in Nodes : RequestMove(r, m) \/ PickRecovery(r, m)
    BY <2>2, StepGrants
  <2>3. CASE RecordRecovery(r) \/ Fence(r) \/ RestoreFails(r) \/ Resume(r)
    BY <2>1, <2>3, StepGrants
  <2>4. CASE SaveSource(r)
    BY <2>4, QuietGrants
  <2>5. CASE Restore(r)
    BY <2>5, RestoreGrants
  <2> QED
    BY <1>3, <2>2, <2>3, <2>4, <2>5 DEF Move
<1>4. ASSUME NEW r \in Runs, PurgeStart(r)  PROVE GrantSide'
  BY <1>4, QuietGrants
<1>5. CASE Collector \/ \E o \in Objects : Corrupt(o)
  BY <1>5, RowsGrants
<1> QED
  BY <1>1, <1>2, <1>3, <1>4, <1>5, PublishTurnGrants, PurgeGrants, LateGrants, CrashGrants
  DEF PublicationNext

----------------------------------------
(* The blocks, the points that need them, and who works on which.          *)

\* What an action leaves of a publication that is not its own.
PointKept(p) ==
  /\ point'[p].run = point[p].run /\ point'[p].blocks = point[p].blocks
  /\ p \in recorded' <=> p \in recorded
  /\ p \in deletions' => p \in deletions
  /\ p \in uploadIntents => p \in uploadIntents'
  /\ \A o \in Objects :
       /\ p \in objects'[o].refs <=> p \in objects[o].refs
       /\ p \in objects[o].refs /\ objects'[o].state = "pending" =>
            objects[o].state = "pending" /\ (o \in remote => o \in remote')

\* What an action leaves to the conversations outside R.
OthersKept(R) ==
  /\ \A p \in Points : Used(p) /\ point[p].run \notin R => PointKept(p)
  /\ \A q \in Runs \ R : op'[q] = op[q]
  /\ \A p \in Points : p \in recorded' /\ point'[p].run \in Runs \ R =>
       p \in recorded /\ point'[p].run = point[p].run
  /\ \A p \in Points : p \in uploaded' /\ point'[p].run \in Runs \ R =>
       p \in uploaded /\ point'[p].run = point[p].run
  /\ deletions \cap uploaded' \subseteq deletions'
  /\ \A g \in Grants : grants'[g].run \in {grants[g].run, None} \cup R

ReadKept(q) ==
  \/ ReadSound(q)'
  \/ /\ reading'[q] = reading[q]
     /\ reading[q].busy => \A b \in recorded : point[b].run = q =>
          b \in recorded' /\ point'[b].run = q /\ point'[b].blocks = point[b].blocks

LEMMA CandidateKept ==
  ASSUME PublicationInv, NEW q \in Runs, op'[q] = op[q],
         op[q].point # None => PointKept(op[q].point)
  PROVE  CandidateSound(q)'
<1>1. CandidateSound(q)
  BY DEF PublicationInv, BlockSide
<1>2. CASE op[q].point = None
  <2>1. op[q].pc \notin {"reserve", "intent", "upload", "settle", "commit", "extend", "receipt", "complete"}
    BY <1>2, CandidateThere
  <2> QED
    BY <1>2, <2>1 DEF CandidateSound, Uncommitted
<1>3. CASE op[q].point # None
  <2> DEFINE p == op[q].point
  <2>1. PointKept(p)
    BY <1>3
  <2>2. RefsOf(p)' = RefsOf(p)
    BY <2>1 DEF RefsOf, PointKept
  <2>3. op[q].pc = "settle" => \A o \in point'[p].blocks : objects'[o].state = "pending" => o \in remote'
    BY <1>1, <2>1, NoneIsNothing DEF PointKept, CandidateSound, RefsOf
  <2>4. op[q].pc = "commit" => Backed(p)'
    <3>1. op[q].pc = "commit" => Backed(p) /\ point[p].blocks \subseteq Objects
      BY <1>1, <1>3, CandidateUsed DEF CandidateSound, PublicationInv, Typed, StoreTyped, PointRec
    <3> QED
      BY <2>1, <3>1 DEF Backed, PointKept
  <2> HIDE DEF p
  <2>5. op'[q].point = p
    BY DEF p
  <2> QED
    BY <1>1, <2>1, <2>2, <2>3, <2>4, <2>5 DEF CandidateSound, PointKept, Uncommitted, p
<1> QED
  BY <1>2, <1>3

LEMMA OperationKept ==
  ASSUME PublicationInv, Typed', NEW R, OthersKept(R), NEW q \in Runs \ R
  PROVE  OperationSound(q)'
<1>1. OperationSound(q) /\ op'[q] = op[q] /\ q # None
  BY NoneIsNothing DEF PublicationInv, BlockSide, OthersKept
<1>2. /\ recorded' \subseteq Points /\ uploaded' \subseteq Points
      /\ \A g \in Grants : grants[g].run # q => grants'[g].run # q
  BY <1>1 DEF Typed, BlocksTyped, StoreTyped, OthersKept
<1>3. PointsOf(q)' \subseteq PointsOf(q)
  BY <1>2 DEF PointsOf, OthersKept
<1>4. {p \in uploaded : point[p].run = q} \subseteq deletions
        => {p \in uploaded' : point'[p].run = q} \subseteq deletions'
  BY <1>2 DEF OthersKept
<1> QED
  BY <1>1, <1>2, <1>3, <1>4 DEF OperationSound, Alive

LEMMA ReadsKept ==
  ASSUME PublicationInv, NEW q \in Runs, ReadKept(q)
  PROVE  ReadSound(q)'
<1>1. CASE /\ reading'[q] = reading[q]
           /\ reading[q].busy => \A b \in recorded : point[b].run = q =>
                b \in recorded' /\ point'[b].run = q /\ point'[b].blocks = point[b].blocks
  <2>1. ReadSound(q)
    BY DEF PublicationInv, BlockSide
  <2>2. CASE reading[q].objs = {}
    BY <1>1, <2>2 DEF ReadSound
  <2>3. CASE reading[q].objs # {}
    <3>1. PICK b \in recorded : point[b].run = q /\ reading[q].objs = point[b].blocks
      BY <2>1, <2>3 DEF ReadSound
    <3>2. reading[q].busy
      BY <2>1, <2>3 DEF ReadSound
    <3>3. b \in recorded' /\ point'[b].run = q /\ point'[b].blocks = point[b].blocks
      BY <1>1, <3>1, <3>2
    <3>4. \E c \in recorded' : point'[c].run = q /\ reading'[q].objs = point'[c].blocks
      BY <1>1, <3>1, <3>3
    <3> QED
      BY <1>1, <3>2, <3>4 DEF ReadSound
  <2> QED
    BY <2>2, <2>3
<1> QED
  BY <1>1 DEF ReadKept

LEMMA BlockSideKept ==
  ASSUME PublicationInv, Typed', NEW R, OthersKept(R),
         ObjectsSound', CollectorSound', RecordedSound', ManifestsFound',
         \A q \in Runs \cap R : CandidateSound(q)' /\ OperationSound(q)',
         \A q \in Runs : ReadKept(q)
  PROVE  BlockSide'
<1>1. ASSUME NEW q \in Runs, q \notin R  PROVE CandidateSound(q)' /\ OperationSound(q)'
  <2>1. op[q].point # None => PointKept(op[q].point)
    BY <1>1, CandidateUsed DEF OthersKept
  <2>2. op'[q] = op[q]
    BY <1>1 DEF OthersKept
  <2> QED
    BY <1>1, <2>1, <2>2, CandidateKept, OperationKept
<1>2. \A q \in Runs : ReadSound(q)'
  BY ReadsKept
<1> QED
  BY <1>1, <1>2 DEF BlockSide

\* An action that neither changes rows nor publications: uploads at most.
LEMMA BlocksStill ==
  ASSUME PublicationInv, Typed',
         UNCHANGED <<objects, uploaded, deletions, gc, point, recorded, uploadIntents>>,
         remote \subseteq remote', \A o \in remote' \ remote : objects[o].state = "pending",
         \A g \in Grants : grants'[g].run = grants[g].run \/ \A q \in Runs : grants'[g].run = q => Alive(q),
         \A q \in Runs : op'[q] = op[q] \/ (CandidateSound(q)' /\ OperationSound(q)'),
         \A q \in Runs : reading'[q] = reading[q] \/ ReadSound(q)'
  PROVE  BlockSide'
<1>0. /\ ObjectsSound /\ CollectorSound /\ RecordedSound /\ ManifestsFound
      /\ gc.objs \subseteq Objects /\ recorded \subseteq Points /\ point \in [Points -> PointRec]
      /\ \A q \in Runs : OperationSound(q)
  BY DEF PublicationInv, BlockSide, Typed, BlocksTyped, StoreTyped
<1>1. ObjectsSound'
  BY <1>0 DEF ObjectsSound
<1>2. CollectorSound'
  BY <1>0 DEF CollectorSound
<1>3. RecordedSound' /\ ManifestsFound'
  BY <1>0 DEF RecordedSound, Backed, ManifestsFound
<1>4. \A p \in Points : PointKept(p)
  BY DEF PointKept
<1>5. ASSUME NEW q \in Runs, op'[q] = op[q]  PROVE CandidateSound(q)' /\ OperationSound(q)'
  <2>1. CandidateSound(q)'
    BY <1>4, <1>5, CandidateUsed, CandidateKept
  <2>2. OperationSound(q)'
    BY <1>0, <1>5 DEF OperationSound, PointsOf, Alive
  <2> QED
    BY <2>1, <2>2
<1>6. ASSUME NEW q \in Runs  PROVE ReadSound(q)'
  <2>1. CASE reading'[q] = reading[q]
    BY <2>1, ReadsKept DEF ReadKept
  <2> QED
    BY <2>1
<1> QED
  BY <1>1, <1>2, <1>3, <1>5, <1>6 DEF BlockSide

\* An operation that begins, ends or moves on without a candidate under way.
LEMMA OperationFree ==
  ASSUME PublicationInv, NEW r \in Runs, UNCHANGED <<point, recorded>>,
         op'[r].point = None \/ (op[r].point \in recorded /\ op'[r].point = op[r].point),
         op'[r].pc \in {"idle", "collect", "snapshot", "complete", "receipt"},
         op'[r].pc \in {"complete", "receipt"} => op'[r].point # None,
         op'[r].pc = "idle" => op'[r].goal = "none", op'[r].goal # "gone"
  PROVE  CandidateSound(r)' /\ OperationSound(r)'
<1>1. CandidateSound(r) /\ recorded \subseteq Points
  BY DEF PublicationInv, BlockSide, Typed, StoreTyped
<1>2. CandidateSound(r)'
  BY <1>1, NoneIsNothing DEF CandidateSound, Uncommitted
<1> QED
  BY <1>2 DEF OperationSound, Alive

\* The actions of the nodes, the monitor and the moves.
LEMMA QuietBlocks ==
  ASSUME PublicationInv, Typed', NEW r \in Runs, NEW n \in Nodes, NEW p \in Points, NEW o \in Objects,
         \/ StartTurn(r) \/ Write(r) \/ CompleteTurn(r) \/ Request(r)
         \/ RequestMove(r, n) \/ PickRecovery(r, n) \/ RecordRecovery(r) \/ Fence(r)
         \/ RestoreFails(r) \/ Resume(r) \/ RefreshRead(r) \/ LateReceipt(p) \/ Corrupt(o)
  PROVE  BlockSide'
<1> USE DEF blockVars, pubVars, runVars, nodeVars
<1>1. UNCHANGED <<objects, remote, uploaded, deletions, gc, point, recorded, uploadIntents, grants,
                  op, reading>>
  <2>1. CASE StartTurn(r) \/ Write(r) \/ Request(r)
    BY <2>1 DEF StartTurn, Write, Request
  <2>2. CASE CompleteTurn(r)
    BY <2>2, Zenon DEF CompleteTurn
  <2>3. CASE RequestMove(r, n) \/ PickRecovery(r, n) \/ RecordRecovery(r) \/ Fence(r)
    BY <2>3 DEF RequestMove, PickRecovery, RecordRecovery, Fence
  <2>4. CASE RestoreFails(r) \/ Resume(r) \/ LateReceipt(p) \/ Corrupt(o)
    BY <2>4 DEF RestoreFails, Resume, LateReceipt, Corrupt
  <2>5. CASE RefreshRead(r)
    BY <2>5, Zenon DEF RefreshRead
  <2> QED
    BY <2>1, <2>2, <2>3, <2>4, <2>5
<1> QED
  BY <1>1, BlocksStill

LEMMA RestoreBlocks ==
  ASSUME PublicationInv, Typed', NEW r \in Runs, Restore(r)
  PROVE  BlockSide'
<1> USE DEF blockVars, pubVars
<1>1. UNCHANGED <<objects, remote, uploaded, deletions, gc, point, recorded, uploadIntents, op, reading>>
  BY Zenon DEF Restore
<1>2. op[r].pc = "idle" /\ \E g : grants' = [grants EXCEPT ![g] = Issued(r, move[r].to, move[r].point)]
  BY Zenon DEF Restore
<1>3. Alive(r)
  BY <1>2, AliveWhileBusy
<1>4. PICK g : grants' = [grants EXCEPT ![g] = Issued(r, move[r].to, move[r].point)]
  BY <1>2
<1>5. grants \in [Grants -> GrantRec]
  BY DEF PublicationInv, Typed, StoreTyped
<1>6. ASSUME NEW d \in Grants  PROVE grants'[d].run = grants[d].run \/ grants'[d].run = r
  BY <1>4, <1>5 DEF Issued, NoGrant
<1> QED
  BY <1>1, <1>3, <1>6, BlocksStill

LEMMA GrantRuns ==
  ASSUME PublicationInv, NEW g, NEW p, grants' \in {grants, Extended(g, p), ReceiptTaken(g, p)}
  PROVE  \A d \in Grants : grants'[d].run = grants[d].run
<1>1. grants \in [Grants -> GrantRec]
  BY DEF PublicationInv, Typed, StoreTyped
<1>2. CASE grants' = Extended(g, p)
  BY <1>1, <1>2 DEF Extended, GrantRec
<1>3. CASE grants' = ReceiptTaken(g, p)
  <2> DEFINE newer == {q \in grants[g].pending : point[q].gen > point[p].gen}
  <2>1. grants' = IF point[p].gen <= grants[g].gen THEN grants
                  ELSE [grants EXCEPT ![g].backups = {p} \cup newer, ![g].pending = newer,
                                      ![g].gen = point[p].gen, ![g].published = p]
    BY <1>3 DEF ReceiptTaken
  <2> HIDE DEF newer
  <2> QED
    BY SMTT(40), <1>1, <2>1 DEF GrantRec
<1> QED
  BY <1>2, <1>3

\* The operation of r changes, and nothing that the blocks depend on does.
LEMMA OwnOperation ==
  ASSUME PublicationInv, Typed', NEW r \in Runs, NEW x,
         UNCHANGED <<objects, uploaded, deletions, gc, point, recorded, uploadIntents, reading>>,
         remote \subseteq remote', \A o \in remote' \ remote : objects[o].state = "pending",
         \A d \in Grants : grants'[d].run = grants[d].run,
         op' = [op EXCEPT ![r] = x],
         x.point = None \/ (op[r].point \in recorded /\ x.point = op[r].point),
         x.pc \in {"idle", "collect", "snapshot", "complete", "receipt"},
         x.pc \in {"complete", "receipt"} => x.point # None,
         x.pc = "idle" => x.goal = "none", x.goal # "gone"
  PROVE  BlockSide'
<1>1. op'[r] = x /\ \A q \in Runs : q # r => op'[q] = op[q]
  BY DEF PublicationInv, Typed, TasksTyped
<1>2. CandidateSound(r)' /\ OperationSound(r)'
  BY <1>1, OperationFree
<1> QED
  BY <1>1, <1>2, BlocksStill

\* The start of an operation, and its end.
LEMMA StartBlocks ==
  ASSUME PublicationInv, Typed', NEW r \in Runs, CollectStart(r) \/ PublishStart(r) \/ SaveSource(r)
  PROVE  BlockSide'
<1> USE DEF blockVars, pubVars, runVars, nodeVars
<1>1. UNCHANGED <<objects, remote, uploaded, deletions, gc, point, recorded, uploadIntents, reading, grants>>
  BY DEF CollectStart, PublishStart, SaveSource
<1>2. ASSUME NEW x, op' = [op EXCEPT ![r] = x], x.point = None, x.pc = "collect",
             x.goal \in {"clean", "sync", "move"}
      PROVE  BlockSide'
  BY <1>1, <1>2, OwnOperation
<1>3. CASE CollectStart(r)
  <2> DEFINE x == [NoOp EXCEPT !.pc = "collect", !.goal = "clean"]
  <2>1. op' = [op EXCEPT ![r] = x]
    BY <1>3 DEF CollectStart
  <2>2. x.point = None /\ x.pc = "collect" /\ x.goal = "clean"
    BY DEF NoOp
  <2> HIDE DEF x
  <2> QED
    BY <1>2, <2>1, <2>2
<1>4. CASE PublishStart(r)
  <2> DEFINE x == [NoOp EXCEPT !.pc = "collect", !.goal = "sync", !.rev = backup[r].req]
  <2>1. op' = [op EXCEPT ![r] = x]
    BY <1>4 DEF PublishStart
  <2>2. x.point = None /\ x.pc = "collect" /\ x.goal = "sync"
    BY DEF NoOp
  <2> HIDE DEF x
  <2> QED
    BY <1>2, <2>1, <2>2
<1>5. CASE SaveSource(r)
  <2> DEFINE x == [NoOp EXCEPT !.pc = "collect", !.goal = "move", !.rev = backup[r].req]
  <2>1. op' = [op EXCEPT ![r] = x]
    BY <1>5 DEF SaveSource
  <2>2. x.point = None /\ x.pc = "collect" /\ x.goal = "move"
    BY DEF NoOp
  <2> HIDE DEF x
  <2> QED
    BY <1>2, <2>1, <2>2
<1> QED
  BY <1>3, <1>4, <1>5

LEMMA EndBlocks ==
  ASSUME PublicationInv, Typed', NEW r \in Runs,
         \/ AlreadyPublished(r) \/ Refused(r) \/ ReceiptLost(r) \/ TransferBlocks(r)
         \/ (\E os \in SUBSET Objects : PublishFails(r, os))
  PROVE  BlockSide'
<1> USE DEF blockVars, pubVars, runVars, nodeVars
<1>0. point \in [Points -> PointRec] /\ op \in [Runs -> OpRec] /\ CandidateSound(r) /\ OperationSound(r)
  BY DEF PublicationInv, BlockSide, Typed, StoreTyped, TasksTyped
<1>1. /\ NoOp.point = None /\ NoOp.pc = "idle" /\ NoOp.goal = "none"
  BY DEF NoOp
<1>2. CASE AlreadyPublished(r)
  <2>1. UNCHANGED <<objects, remote, uploaded, deletions, gc, point, recorded, uploadIntents, reading>>
    BY <1>2, Zenon DEF AlreadyPublished
  <2>2. op' = [op EXCEPT ![r] = NoOp] /\ grants' = ReceiptTaken(Current(r), disks[Current(r)].receipt)
    BY <1>2, Zenon DEF AlreadyPublished, Finish
  <2>3. \A d \in Grants : grants'[d].run = grants[d].run
    BY <2>2, GrantRuns
  <2>4. remote \subseteq remote' /\ \A o \in remote' \ remote : objects[o].state = "pending"
    BY <2>1
  <2>5. op' = [op EXCEPT ![r] = NoOp]
    BY <2>2
  <2> QED
    BY <1>1, <2>1, <2>3, <2>4, <2>5, OwnOperation
<1>3. CASE Refused(r) \/ ReceiptLost(r)
  <2>1. UNCHANGED <<objects, remote, uploaded, deletions, gc, point, recorded, uploadIntents, reading, grants>>
    BY <1>3 DEF Refused, ReceiptLost
  <2>2. op' = [op EXCEPT ![r] = NoOp]
    BY <1>3 DEF Refused, ReceiptLost, Abandon
  <2> QED
    BY <1>1, <2>1, <2>2, OwnOperation
<1>4. ASSUME NEW os \in SUBSET Objects, PublishFails(r, os)  PROVE BlockSide'
  <2>1. UNCHANGED <<objects, uploaded, deletions, gc, point, recorded, uploadIntents, reading, grants>>
    BY <1>4 DEF PublishFails
  <2>2. op' = [op EXCEPT ![r] = NoOp] /\ remote' = remote \cup os
    BY <1>4 DEF PublishFails, Abandon, PutObjects
  <2>3. \A o \in os : objects[o].state = "pending"
    BY <1>4 DEF PublishFails, Missing
  <2> QED
    BY <1>1, <2>1, <2>2, <2>3, OwnOperation
<1>5. CASE TransferBlocks(r)
  <2>1. UNCHANGED <<objects, uploaded, deletions, gc, point, recorded, uploadIntents, reading, grants>>
    BY <1>5 DEF TransferBlocks
  <2>2. remote' = remote \cup Missing(r) /\ \A o \in Missing(r) : objects[o].state = "pending"
    BY <1>5 DEF TransferBlocks, PutObjects, Missing
  <2>3. /\ op[r].pc = "upload" /\ op'[r].pc = "settle" /\ op'[r].point = op[r].point
        /\ op'[r].goal = op[r].goal
        /\ \A q \in Runs : q # r => op'[q] = op[q]
    BY <1>0, <1>5 DEF TransferBlocks, OpRec
  <2>4. PICK p \in Points : p = op[r].point
    BY <2>3, CandidateThere
  <2>5. \A o \in point[p].blocks : objects[o].state = "pending" => o \in remote'
    BY <2>2, <2>4 DEF Missing
  <2>6. CandidateSound(r)'
    <3>1. /\ p # None => point[p].run = r
          /\ p # None /\ p \notin recorded \cup deletions
          /\ point[p].blocks = RefsOf(p) /\ p \in uploadIntents
      BY <1>0, <2>3, <2>4 DEF CandidateSound, Uncommitted
    <3>2. RefsOf(p)' = RefsOf(p)
      BY <2>1 DEF RefsOf
    <3> QED
      BY <2>1, <2>3, <2>4, <2>5, <3>1, <3>2 DEF CandidateSound, Uncommitted
  <2>7. OperationSound(r)'
    BY <1>0, <2>1, <2>3 DEF OperationSound, Alive
  <2> QED
    BY <2>1, <2>2, <2>3, <2>6, <2>7, BlocksStill
<1> QED
  BY <1>2, <1>3, <1>4, <1>5

LEMMA AcknowledgeBlocks ==
  ASSUME PublicationInv, Typed', NEW r \in Runs, ExtendGrant(r) \/ Receipt(r) \/ CompleteRequest(r)
  PROVE  BlockSide'
<1> USE DEF blockVars, pubVars, runVars, nodeVars
<1>0. op \in [Runs -> OpRec] /\ op[r] \in OpRec /\ CandidateSound(r) /\ OperationSound(r)
  BY DEF PublicationInv, BlockSide, Typed, TasksTyped
<1>1. UNCHANGED <<objects, remote, uploaded, deletions, gc, point, recorded, uploadIntents, reading>>
  <2>1. CASE ExtendGrant(r)
    BY <2>1, Zenon DEF ExtendGrant
  <2>2. CASE Receipt(r)
    BY <2>2, Zenon DEF Receipt
  <2>3. CASE CompleteRequest(r)
    BY <2>3 DEF CompleteRequest
  <2> QED
    BY <2>1, <2>2, <2>3
<1>2. op[r].pc \in {"extend", "receipt", "complete"}
  <2>1. CASE ExtendGrant(r)
    BY <2>1, Zenon DEF ExtendGrant
  <2>2. CASE Receipt(r)
    BY <2>2, Zenon DEF Receipt
  <2>3. CASE CompleteRequest(r)
    BY <2>3 DEF CompleteRequest
  <2> QED
    BY <2>1, <2>2, <2>3
<1>3. \E pc \in {"receipt", "complete", "collect"} : op' = [op EXCEPT ![r].pc = pc]
  <2>1. CASE ExtendGrant(r)
    BY <2>1, Zenon DEF ExtendGrant
  <2>2. CASE Receipt(r)
    BY <2>2, Zenon DEF Receipt
  <2>3. CASE CompleteRequest(r)
    BY <2>3 DEF CompleteRequest
  <2> QED
    BY <2>1, <2>2, <2>3
<1>4. \A d \in Grants : grants'[d].run = grants[d].run
  <2>1. CASE ExtendGrant(r)
    <3>1. grants' = Extended(point[op[r].point].disk, op[r].point)
      BY <2>1, Zenon DEF ExtendGrant
    <3> QED
      BY <3>1, GrantRuns
  <2>2. CASE Receipt(r)
    <3>1. grants' = ReceiptTaken(point[op[r].point].disk, op[r].point)
      BY <2>2, Zenon DEF Receipt
    <3> QED
      BY <3>1, GrantRuns
  <2>3. CASE CompleteRequest(r)
    BY <2>3 DEF CompleteRequest
  <2> QED
    BY <2>1, <2>2, <2>3
<1>5. op[r].point # None /\ op[r].point \in recorded /\ op[r].goal # "gone"
  BY <1>0, <1>2, CandidateThere DEF CandidateSound, OperationSound
<1>6. PICK pc \in {"receipt", "complete", "collect"} : op' = [op EXCEPT ![r].pc = pc]
  BY <1>3
<1>7. /\ op'[r].pc = pc /\ op'[r].point = op[r].point /\ op'[r].goal = op[r].goal
      /\ \A q \in Runs : q # r => op'[q] = op[q]
  BY <1>0, <1>6 DEF OpRec
<1>8. CandidateSound(r)' /\ OperationSound(r)'
  <2>1. op'[r].pc \in {"receipt", "complete", "collect"}
    BY <1>7
  <2> QED
    BY <1>1, <1>5, <1>7, <2>1, OperationFree
<1> QED
  BY <1>1, <1>4, <1>7, <1>8, BlocksStill

LEMMA RefreshBlocks ==
  ASSUME PublicationInv, Typed', NEW r \in Runs, RefreshApply(r)
  PROVE  BlockSide'
<1> USE DEF blockVars, pubVars, runVars, nodeVars
<1>1. UNCHANGED <<objects, remote, uploaded, deletions, gc, point, recorded, uploadIntents, reading, op>>
  BY DEF RefreshApply
<1>2. grants' \in {grants, ReceiptTaken(monitor[r].disk, monitor[r].point)}
  BY DEF RefreshApply
<1>3. \A d \in Grants : grants'[d].run = grants[d].run
  BY <1>2, GrantRuns
<1> QED
  BY <1>1, <1>3, BlocksStill

\* Reads: a point under a grant is recorded for the conversation of the grant.
LEMMA ReadBlocks ==
  ASSUME PublicationInv, Typed', NEW r \in Runs, ReadServed(r) \/ (\E g \in Grants : ReadStart(r, g))
  PROVE  BlockSide'
<1> USE DEF blockVars, pubVars, runVars, nodeVars
<1>0. reading \in [Runs -> ReadRec]
  BY DEF PublicationInv, Typed, TasksTyped
<1>1. CASE ReadServed(r)
  <2>1. UNCHANGED <<objects, remote, uploaded, deletions, gc, point, recorded, uploadIntents, grants, op>>
    BY <1>1 DEF ReadServed
  <2>2. reading' = [reading EXCEPT ![r] = NoRead]
    BY <1>1 DEF ReadServed
  <2>3. ReadSound(r)' /\ \A q \in Runs : q # r => reading'[q] = reading[q]
    BY <1>0, <2>2 DEF ReadSound, NoRead
  <2> QED
    BY <2>1, <2>3, BlocksStill
<1>2. ASSUME NEW g \in Grants, ReadStart(r, g)  PROVE BlockSide'
  <2> DEFINE b == disks[g].base
  <2>1. UNCHANGED <<objects, remote, uploaded, deletions, gc, point, recorded, uploadIntents, grants, op>>
    BY <1>2, Zenon DEF ReadStart
  <2>2. reading' = [reading EXCEPT ![r] = [busy |-> TRUE, objs |-> point[b].blocks]]
    BY <1>2, Zenon DEF ReadStart
  <2>3. b \in grants[g].backups /\ b \in recorded /\ grants[g].run = r
    BY <1>2 DEF ReadStart
  <2>4. point[b].run = r
    BY <2>3 DEF PublicationInv, GrantSide, GrantSound
  <2>5. reading'[r].busy = TRUE /\ reading'[r].objs = point[b].blocks
    BY <1>0, <2>2
  <2>6. ReadSound(r)'
    BY <2>1, <2>3, <2>4, <2>5 DEF ReadSound
  <2>7. \A q \in Runs : q # r => reading'[q] = reading[q]
    BY <1>0, <2>2
  <2> QED
    BY <2>1, <2>6, <2>7, BlocksStill
<1> QED
  BY <1>1, <1>2

\* The conversation's own publication, step by step.
LEMMA IntentBlocks ==
  ASSUME PublicationInv, Typed', NEW r \in Runs, WriteIntent(r)
  PROVE  BlockSide'
<1> USE DEF blockVars, pubVars, runVars, nodeVars
<1>0. /\ op \in [Runs -> OpRec] /\ op[r] \in OpRec /\ CandidateSound(r) /\ OperationSound(r)
      /\ ObjectsSound /\ CollectorSound /\ RecordedSound /\ ManifestsFound
  BY DEF PublicationInv, BlockSide, Typed, TasksTyped
<1>1. /\ UNCHANGED <<objects, remote, uploaded, deletions, gc, point, recorded, reading, grants>>
      /\ op[r].pc = "intent" /\ uploadIntents' = uploadIntents \cup {op[r].point}
  BY DEF WriteIntent
<1>2. PICK p \in Points : p = op[r].point
  BY <1>1, CandidateThere
<1>3. /\ op'[r].pc = "upload" /\ op'[r].point = p /\ op'[r].goal = op[r].goal
      /\ \A q \in Runs : q # r => op'[q] = op[q]
  BY <1>0, <1>2 DEF WriteIntent, OpRec
<1>4. /\ p # None => point[p].run = r
      /\ p # None /\ p \notin recorded \cup deletions
      /\ point[p].blocks = RefsOf(p) /\ p \in uploadIntents'
  BY <1>0, <1>1, <1>2 DEF CandidateSound, Uncommitted
<1>5. CandidateSound(r)'
  <2>1. RefsOf(p)' = RefsOf(p)
    BY <1>1 DEF RefsOf
  <2> QED
    BY <1>1, <1>3, <1>4, <2>1 DEF CandidateSound, Uncommitted
<1>6. OperationSound(r)'
  BY <1>0, <1>1, <1>3 DEF OperationSound, Alive
<1>7. ObjectsSound' /\ CollectorSound' /\ RecordedSound' /\ ManifestsFound'
  BY <1>0, <1>1 DEF ObjectsSound, CollectorSound, RecordedSound, Backed, ManifestsFound
<1>8. OthersKept({r})
  <2>1. \A x \in Points : PointKept(x)
    BY <1>1 DEF PointKept
  <2> QED
    BY <1>1, <1>3, <2>1 DEF OthersKept
<1>9. \A q \in Runs : ReadKept(q)
  BY <1>1 DEF ReadKept
<1> QED
  BY <1>5, <1>6, <1>7, <1>8, <1>9, BlockSideKept

LEMMA CommitBlocks ==
  ASSUME PublicationInv, Typed', NEW r \in Runs, Commit(r)
  PROVE  BlockSide'
<1> USE DEF blockVars, pubVars, runVars, nodeVars
<1>0. /\ op \in [Runs -> OpRec] /\ op[r] \in OpRec /\ CandidateSound(r) /\ OperationSound(r)
      /\ ObjectsSound /\ CollectorSound /\ RecordedSound /\ ManifestsFound
      /\ recorded \subseteq Points /\ point \in [Points -> PointRec]
  BY DEF PublicationInv, BlockSide, Typed, TasksTyped, StoreTyped
<1>1. /\ UNCHANGED <<objects, remote, uploaded, deletions, gc, point, uploadIntents, reading, grants>>
      /\ op[r].pc = "commit" /\ recorded' = recorded \cup {op[r].point}
      /\ Verified(op[r].point, objects) /\ op' = [op EXCEPT ![r].pc = "extend"]
  BY Zenon DEF Commit
<1>2. PICK p \in Points : p = op[r].point
  BY <1>1, CandidateThere
<1>3. /\ op'[r].pc = "extend" /\ op'[r].point = p /\ op'[r].goal = op[r].goal
      /\ \A q \in Runs : q # r => op'[q] = op[q]
  BY <1>0, <1>1, <1>2 DEF OpRec
<1>4. p # None /\ point[p].run = r /\ Backed(p) /\ p \notin recorded
  BY <1>0, <1>1, <1>2 DEF CandidateSound, Uncommitted
<1>5. CandidateSound(r)'
  BY <1>1, <1>2, <1>3, <1>4 DEF CandidateSound, Uncommitted
<1>6. OperationSound(r)'
  BY <1>0, <1>1, <1>3 DEF OperationSound, Alive
<1>7. ObjectsSound' /\ CollectorSound' /\ ManifestsFound'
  BY <1>0, <1>1 DEF ObjectsSound, CollectorSound, ManifestsFound
<1>8. RecordedSound'
  <2>1. \A o \in point[p].blocks : objects[o].state = "ready"
    BY <1>0, <1>1, <1>2, <1>4 DEF Backed, Verified, PointRec
  <2>2. \A x \in recorded' : Backed(x) /\ \A o \in point[x].blocks : objects[o].state \in {"ready", "invalid"}
    BY <1>0, <1>1, <1>2, <1>4, <2>1 DEF RecordedSound
  <2> QED
    BY <1>1, <2>2 DEF RecordedSound, Backed
<1>9. OthersKept({r})
  <2>1. \A x \in Points : x # p => PointKept(x)
    BY <1>1, <1>2 DEF PointKept
  <2>2. \A x \in Points : x # p /\ x \in recorded' => x \in recorded
    BY <1>1, <1>2
  <2> QED
    BY <1>1, <1>3, <1>4, <2>1, <2>2 DEF OthersKept
<1>10. \A q \in Runs : ReadKept(q)
  BY <1>1 DEF ReadKept
<1> QED
  BY <1>5, <1>6, <1>7, <1>8, <1>9, <1>10, BlockSideKept

LEMMA CaptureBlocks ==
  ASSUME PublicationInv, Typed', NEW r \in Runs, NEW hs \in SUBSET Hashes,
         CaptureCompleted(r, hs) \/ CaptureNow(r, hs)
  PROVE  BlockSide'
<1> USE DEF blockVars, pubVars, runVars, nodeVars
<1>0. /\ op \in [Runs -> OpRec] /\ op[r] \in OpRec /\ CandidateSound(r) /\ OperationSound(r)
      /\ ObjectsSound /\ CollectorSound /\ RecordedSound /\ ManifestsFound
      /\ recorded \subseteq Points /\ point \in [Points -> PointRec] /\ uploaded \subseteq Points
  BY DEF PublicationInv, BlockSide, Typed, TasksTyped, StoreTyped, BlocksTyped
<1>1. /\ UNCHANGED <<objects, remote, uploaded, deletions, gc, recorded, uploadIntents, reading, grants>>
      /\ op[r].pc = "snapshot"
      /\ \E p \in Points : ~Used(p)
      /\ op' = [op EXCEPT ![r].pc = "reserve", ![r].point = NextPoint, ![r].hashes = hs]
      /\ \E g, k, v : point' = [point EXCEPT ![NextPoint] = Candidate(r, g, k, v)]
  <2>1. CASE CaptureCompleted(r, hs)
    BY <2>1, Zenon DEF CaptureCompleted
  <2>2. CASE CaptureNow(r, hs)
    BY <2>2, Zenon DEF CaptureNow
  <2> QED
    BY <2>1, <2>2
<1>2. PICK p \in Points : p = NextPoint /\ ~Used(p)
  BY <1>1, NextPointFree
<1>3. /\ op'[r].pc = "reserve" /\ op'[r].point = p /\ op'[r].goal = op[r].goal
      /\ \A q \in Runs : q # r => op'[q] = op[q]
  BY <1>0, <1>1, <1>2 DEF OpRec
<1>4. /\ point'[p].run = r /\ \A x \in Points : x # p => point'[x] = point[x]
  BY <1>0, <1>1, <1>2 DEF Candidate
<1>5. /\ p \notin recorded \cup deletions \cup uploadIntents \cup uploaded
      /\ \A o \in Objects : p \notin objects[o].refs
  BY <1>0, <1>2 DEF PublicationInv, GrantSide, UsedSound, ManifestsFound
<1>6. CandidateSound(r)'
  <2>1. RefsOf(p)' = {}
    BY <1>1, <1>5 DEF RefsOf
  <2>2. p # None
    BY NoneIsNothing
  <2> QED
    BY <1>1, <1>3, <1>4, <1>5, <2>1, <2>2 DEF CandidateSound, Uncommitted
<1>7. OperationSound(r)'
  BY <1>0, <1>1, <1>3 DEF OperationSound, Alive
<1>8. ObjectsSound' /\ CollectorSound' /\ ManifestsFound'
  BY <1>0, <1>1 DEF ObjectsSound, CollectorSound, ManifestsFound
<1>9. RecordedSound'
  <2>1. \A x \in recorded : point'[x] = point[x]
    BY <1>0, <1>4, <1>5
  <2> QED
    BY <1>0, <1>1, <2>1 DEF RecordedSound, Backed
<1>10. OthersKept({r})
  <2>1. \A x \in Points : x # p => PointKept(x)
    BY <1>1, <1>4 DEF PointKept
  <2> QED
    BY <1>1, <1>2, <1>3, <1>4, <2>1 DEF OthersKept
<1>11. \A q \in Runs : ReadKept(q)
  BY <1>0, <1>1, <1>4, <1>5 DEF ReadKept
<1> QED
  BY <1>6, <1>7, <1>8, <1>9, <1>10, <1>11, BlockSideKept

\* The rows after a reservation and after the settlement of duplicates.
LEMMA ReservedRows ==
  ASSUME PublicationInv, NEW p \in Points, NEW hs \in SUBSET Hashes, HasRoom(hs), Reserve(p, hs)
  PROVE  \A o \in Objects :
           \/ objects'[o] = objects[o] /\ \A h \in hs : Assigned(hs)[h] # o
           \/ /\ \E h \in hs : Assigned(hs)[h] = o
              /\ objects'[o].refs = objects[o].refs \cup {p}
              /\ \/ objects[o].state = "absent" /\ objects'[o].state = "pending"
                 \/ objects[o].state = "ready" /\ objects'[o].state = "ready"
<1> DEFINE given == Assigned(hs)
<1>1. \A h \in hs : given[h] \in Objects /\ objects[given[h]].state \in {"absent", "ready"}
  BY AssignedSound DEF PublicationInv, Typed
<1> HIDE DEF given
<1>2. objects' = [o \in Objects |->
        IF \A h \in hs : given[h] # o THEN objects[o]
        ELSE [hash   |-> CHOOSE h \in hs : given[h] = o,
              state  |-> IF objects[o].state = "absent" THEN "pending" ELSE objects[o].state,
              unused |-> FALSE,
              refs   |-> objects[o].refs \cup {p}]]
  BY DEF Reserve, given
<1>3. ASSUME NEW o \in Objects
      PROVE  \/ objects'[o] = objects[o] /\ \A h \in hs : given[h] # o
             \/ /\ \E h \in hs : given[h] = o
                /\ objects'[o].refs = objects[o].refs \cup {p}
                /\ \/ objects[o].state = "absent" /\ objects'[o].state = "pending"
                   \/ objects[o].state = "ready" /\ objects'[o].state = "ready"
  <2>1. CASE \A h \in hs : given[h] # o
    BY <1>2, <2>1
  <2>2. CASE ~\A h \in hs : given[h] # o
    BY <1>1, <1>2, <2>2
  <2> QED
    BY <2>1, <2>2
<1> QED
  BY <1>3 DEF given

LEMMA SettledRows ==
  ASSUME PublicationInv, NEW p \in Points, NEW o \in Objects
  PROVE  \/ Settled(p)[o] = objects[o]
         \/ /\ p \in objects[o].refs
            /\ Settled(p)[o].state = objects[o].state
            /\ Settled(p)[o].refs = objects[o].refs \ {p}
         \/ /\ p \in objects[o].refs /\ objects[o].state = "pending"
            /\ Settled(p)[o].state = "ready" /\ Settled(p)[o].refs = objects[o].refs
         \/ /\ objects[o].state = "ready"
            /\ Settled(p)[o].state = "ready" /\ Settled(p)[o].refs = objects[o].refs \cup {p}
<1> DEFINE mine == p \in objects[o].refs
           took == \E d \in RefsOf(p) : d # o /\ Canonical(d) = o
<1>1. objects[o] \in ObjectRec
  BY DEF PublicationInv, Typed, BlocksTyped
<1>2. Settled(p)[o] = IF mine /\ Canonical(o) # o
         THEN [objects[o] EXCEPT !.refs = @ \ {p}, !.unused = TRUE]
         ELSE IF mine /\ objects[o].state = "pending"
         THEN [objects[o] EXCEPT !.state = "ready"]
         ELSE IF took
         THEN [objects[o] EXCEPT !.refs = @ \cup {p}, !.unused = FALSE]
         ELSE objects[o]
  BY DEF Settled
<1>3. took => objects[o].state = "ready"
  BY DEF Canonical, ReadyFor
<1> HIDE DEF took
<1> QED
  BY <1>1, <1>2, <1>3 DEF ObjectRec

LEMMA ReserveStep ==
  ASSUME PublicationInv, Typed', NEW r \in Runs, ReserveBlocks(r)
  PROVE  BlockSide'
<1> USE DEF blockVars, pubVars, runVars, nodeVars
<1>0. /\ op \in [Runs -> OpRec] /\ op[r] \in OpRec /\ CandidateSound(r) /\ OperationSound(r)
      /\ ObjectsSound /\ CollectorSound /\ RecordedSound /\ ManifestsFound
      /\ recorded \subseteq Points /\ point \in [Points -> PointRec] /\ objects \in [Objects -> ObjectRec]
      /\ gc.objs \subseteq Objects
  BY DEF PublicationInv, BlockSide, Typed, TasksTyped, StoreTyped, BlocksTyped
<1>1. /\ UNCHANGED <<remote, uploaded, deletions, gc, recorded, uploadIntents, reading, grants>>
      /\ op[r].pc = "reserve" /\ op' = [op EXCEPT ![r].pc = "intent"]
      /\ HasRoom(op[r].hashes) /\ Reserve(op[r].point, op[r].hashes)
      /\ point' = [point EXCEPT ![op[r].point].blocks = {Assigned(op[r].hashes)[h] : h \in op[r].hashes}]
  BY Zenon DEF ReserveBlocks
<1>2. PICK p \in Points : p = op[r].point
  BY <1>1, CandidateThere
<1>3. PICK hs \in SUBSET Hashes : hs = op[r].hashes
  BY <1>0 DEF OpRec
<1>4. /\ op'[r].pc = "intent" /\ op'[r].point = p /\ op'[r].goal = op[r].goal
      /\ \A q \in Runs : q # r => op'[q] = op[q]
  BY <1>0, <1>1, <1>2 DEF OpRec
<1>5. p # None /\ point[p].run = r /\ p \notin recorded \cup deletions /\ RefsOf(p) = {}
  BY <1>0, <1>1, <1>2 DEF CandidateSound, Uncommitted
<1>6. \A o \in Objects :
        \/ objects'[o] = objects[o] /\ \A h \in hs : Assigned(hs)[h] # o
        \/ /\ \E h \in hs : Assigned(hs)[h] = o
           /\ objects'[o].refs = objects[o].refs \cup {p}
           /\ \/ objects[o].state = "absent" /\ objects'[o].state = "pending"
              \/ objects[o].state = "ready" /\ objects'[o].state = "ready"
  BY <1>1, <1>2, <1>3, ReservedRows
<1>7. /\ point'[p].run = r /\ point'[p].blocks = {Assigned(hs)[h] : h \in hs}
      /\ \A x \in Points : x # p => point'[x] = point[x]
  BY <1>0, <1>1, <1>2, <1>3, <1>5 DEF PointRec
<1>8. point'[p].blocks = RefsOf(p)'
  <2>1. \A h \in hs : Assigned(hs)[h] \in Objects
    BY <1>1, <1>3, AssignedSound DEF PublicationInv, Typed
  <2>2. \A o \in Objects : p \in objects'[o].refs <=> \E h \in hs : Assigned(hs)[h] = o
    BY <1>5, <1>6 DEF RefsOf
  <2> QED
    BY <1>7, <2>1, <2>2 DEF RefsOf
<1>9. CandidateSound(r)'
  BY <1>1, <1>4, <1>5, <1>7, <1>8 DEF CandidateSound, Uncommitted
<1>10. OperationSound(r)'
  BY <1>0, <1>1, <1>4 DEF OperationSound, Alive
<1>11. ObjectsSound'
  BY <1>0, <1>1, <1>6 DEF ObjectsSound
<1>12. CollectorSound' /\ ManifestsFound'
  BY <1>0, <1>1, <1>6 DEF CollectorSound, ManifestsFound
<1>13. RecordedSound'
  <2>1. \A x \in recorded : point'[x] = point[x] /\ x # p
    BY <1>0, <1>5, <1>7
  <2>2. ASSUME NEW x \in recorded, NEW o \in point[x].blocks
        PROVE  x \in objects'[o].refs /\ objects'[o].state \in {"ready", "invalid"}
    <3>1. o \in Objects /\ x \in objects[o].refs /\ objects[o].state \in {"ready", "invalid"}
      BY <1>0 DEF RecordedSound, Backed, PointRec
    <3> QED
      BY <1>6, <3>1
  <2> QED
    BY <1>1, <2>1, <2>2 DEF RecordedSound, Backed
<1>14. OthersKept({r})
  <2>1. ASSUME NEW x \in Points, x # p  PROVE PointKept(x)
    <3>1. ASSUME NEW o \in Objects
          PROVE  /\ x \in objects'[o].refs <=> x \in objects[o].refs
                 /\ x \in objects[o].refs /\ objects'[o].state = "pending" => objects[o].state = "pending"
      BY <1>0, <1>6, <2>1 DEF ObjectsSound
    <3> QED
      BY <1>1, <1>7, <2>1, <3>1 DEF PointKept
  <2> QED
    BY <1>1, <1>4, <1>5, <1>7, <2>1 DEF OthersKept
<1>15. \A q \in Runs : ReadKept(q)
  BY <1>0, <1>1, <1>5, <1>7 DEF ReadKept
<1> QED
  BY <1>9, <1>10, <1>11, <1>12, <1>13, <1>14, <1>15, BlockSideKept

LEMMA ManifestStep ==
  ASSUME PublicationInv, Typed', NEW r \in Runs, PublishManifest(r)
  PROVE  BlockSide'
<1> USE DEF blockVars, pubVars, runVars, nodeVars
<1>0. /\ op \in [Runs -> OpRec] /\ op[r] \in OpRec /\ CandidateSound(r) /\ OperationSound(r)
      /\ ObjectsSound /\ CollectorSound /\ RecordedSound /\ ManifestsFound
      /\ recorded \subseteq Points /\ point \in [Points -> PointRec] /\ objects \in [Objects -> ObjectRec]
      /\ gc.objs \subseteq Objects
  BY DEF PublicationInv, BlockSide, Typed, TasksTyped, StoreTyped, BlocksTyped
<1>1. /\ UNCHANGED <<remote, deletions, gc, recorded, uploadIntents, reading, grants>>
      /\ op[r].pc = "settle" /\ op' = [op EXCEPT ![r].pc = "commit"]
      /\ uploaded' = uploaded \cup {op[r].point}
      /\ objects' = Settled(op[r].point)
      /\ point' = [point EXCEPT ![op[r].point].blocks =
                     {o \in Objects : op[r].point \in Settled(op[r].point)[o].refs}]
  BY Zenon DEF PublishManifest
<1>2. PICK p \in Points : p = op[r].point
  BY <1>1, CandidateThere
<1>4. /\ op'[r].pc = "commit" /\ op'[r].point = p /\ op'[r].goal = op[r].goal
      /\ \A q \in Runs : q # r => op'[q] = op[q]
  BY <1>0, <1>1, <1>2 DEF OpRec
<1>5. /\ p # None /\ point[p].run = r /\ p \notin recorded \cup deletions /\ p \in uploadIntents
      /\ \A o \in Objects : p \in objects[o].refs /\ objects[o].state = "pending" => o \in remote
  BY <1>0, <1>1, <1>2 DEF CandidateSound, Uncommitted, RefsOf
<1>6. \A o \in Objects :
        \/ objects'[o] = objects[o]
        \/ /\ p \in objects[o].refs
           /\ objects'[o].state = objects[o].state /\ objects'[o].refs = objects[o].refs \ {p}
        \/ /\ p \in objects[o].refs /\ objects[o].state = "pending"
           /\ objects'[o].state = "ready" /\ objects'[o].refs = objects[o].refs
        \/ /\ objects[o].state = "ready"
           /\ objects'[o].state = "ready" /\ objects'[o].refs = objects[o].refs \cup {p}
  BY <1>1, <1>2, SettledRows
<1>7. /\ point'[p].run = r /\ point'[p].blocks = {o \in Objects : p \in objects'[o].refs}
      /\ \A x \in Points : x # p => point'[x] = point[x]
  BY <1>0, <1>1, <1>2, <1>5 DEF PointRec
<1>8. CandidateSound(r)'
  <2>1. Backed(p)'
    BY <1>7 DEF Backed
  <2> QED
    BY <1>1, <1>4, <1>5, <1>7, <2>1 DEF CandidateSound, Uncommitted
<1>9. OperationSound(r)'
  BY <1>0, <1>1, <1>4 DEF OperationSound, Alive
<1>10. ObjectsSound'
  BY <1>0, <1>1, <1>5, <1>6 DEF ObjectsSound
<1>11. CollectorSound' /\ ManifestsFound'
  BY <1>0, <1>1, <1>2, <1>5, <1>6 DEF CollectorSound, ManifestsFound, ObjectsSound
<1>12. RecordedSound'
  <2>1. \A x \in recorded : point'[x] = point[x] /\ x # p
    BY <1>0, <1>5, <1>7
  <2>2. ASSUME NEW x \in recorded, NEW o \in point[x].blocks
        PROVE  x \in objects'[o].refs /\ objects'[o].state \in {"ready", "invalid"}
    <3>1. o \in Objects /\ x \in objects[o].refs /\ objects[o].state \in {"ready", "invalid"}
      BY <1>0 DEF RecordedSound, Backed, PointRec
    <3> QED
      BY <1>6, <2>1, <3>1
  <2> QED
    BY <1>1, <2>1, <2>2 DEF RecordedSound, Backed
<1>13. OthersKept({r})
  <2>1. ASSUME NEW x \in Points, x # p  PROVE PointKept(x)
    <3>1. ASSUME NEW o \in Objects
          PROVE  /\ x \in objects'[o].refs <=> x \in objects[o].refs
                 /\ x \in objects[o].refs /\ objects'[o].state = "pending" => objects[o].state = "pending"
      BY <1>6, <2>1
    <3> QED
      BY <1>1, <1>7, <2>1, <3>1 DEF PointKept
  <2> QED
    BY <1>1, <1>2, <1>4, <1>5, <1>7, <2>1 DEF OthersKept
<1>14. \A q \in Runs : ReadKept(q)
  BY <1>0, <1>1, <1>5, <1>7 DEF ReadKept
<1> QED
  BY <1>8, <1>9, <1>10, <1>11, <1>12, <1>13, <1>14, BlockSideKept

\* Points of one conversation that are not recorded any more release their blocks.
LEMMA ReleasedSound ==
  ASSUME PublicationInv, NEW ps \in SUBSET Points, objects' = Released(ps),
         recorded' \subseteq recorded \ ps, deletions \subseteq deletions',
         UNCHANGED <<remote, uploaded, gc, point>>
  PROVE  /\ ObjectsSound' /\ CollectorSound' /\ RecordedSound'
         /\ \A o \in Objects : objects'[o].state = objects[o].state
                               /\ objects'[o].refs = objects[o].refs \ ps
<1>0. /\ ObjectsSound /\ CollectorSound /\ RecordedSound /\ Typed
      /\ recorded \subseteq Points /\ point \in [Points -> PointRec] /\ objects \in [Objects -> ObjectRec]
      /\ gc.objs \subseteq Objects
  BY DEF PublicationInv, BlockSide, Typed, StoreTyped, BlocksTyped
<1>1. ASSUME NEW o \in Objects
      PROVE  objects'[o].state = objects[o].state /\ objects'[o].refs = objects[o].refs \ ps
  <2>1. objects'[o].refs = objects[o].refs \ ps
    BY <1>0, RowsRefs
  <2>2. objects'[o].state = objects[o].state
    BY <1>0 DEF Released, ObjectRec
  <2> QED
    BY <2>1, <2>2
<1>2. ObjectsSound'
  BY <1>0, <1>1 DEF ObjectsSound
<1>3. CollectorSound'
  BY <1>0, <1>1 DEF CollectorSound
<1>4. RecordedSound'
  <2>1. ASSUME NEW x \in recorded', NEW o \in point[x].blocks
        PROVE  x \in objects'[o].refs /\ objects'[o].state \in {"ready", "invalid"}
    <3>1. o \in Objects /\ x \in objects[o].refs /\ objects[o].state \in {"ready", "invalid"} /\ x \notin ps
      BY <1>0 DEF RecordedSound, Backed, PointRec
    <3> QED
      BY <1>1, <3>1
  <2> QED
    BY <2>1 DEF RecordedSound, Backed
<1> QED
  BY <1>1, <1>2, <1>3, <1>4

LEMMA RetireBlocks ==
  ASSUME PublicationInv, Typed', NEW r \in Runs, RetirePoints(r)
  PROVE  BlockSide'
<1> USE DEF blockVars, pubVars, runVars, nodeVars
<1> DEFINE old == PointsOf(r) \ Retained(r)
<1>0. /\ op \in [Runs -> OpRec] /\ op[r] \in OpRec /\ CandidateSound(r) /\ OperationSound(r)
      /\ ManifestsFound /\ recorded \subseteq Points /\ uploaded \subseteq Points /\ ReadSound(r)
  BY DEF PublicationInv, BlockSide, Typed, TasksTyped, StoreTyped, BlocksTyped
<1>1. /\ op[r].pc = "collect" /\ ~reading[r].busy
      /\ objects' = Released(old) /\ deletions' = deletions \cup (old \ uploadIntents)
      /\ recorded' = recorded \ old
      /\ op' = [op EXCEPT ![r].pc = "tidy", ![r].keep = Retained(r)]
      /\ UNCHANGED <<remote, uploaded, gc, point, uploadIntents, reading, grants>>
  BY Zenon DEF RetirePoints, Drained
<1>2. old \subseteq Points /\ \A x \in old : point[x].run = r /\ x \in recorded
  BY <1>0 DEF PointsOf
<1>3. PointsOf(r)' \subseteq Retained(r)
  BY <1>1 DEF PointsOf
<1> HIDE DEF old
<1>4. /\ op'[r].pc = "tidy" /\ op'[r].point = op[r].point /\ op'[r].goal = op[r].goal
      /\ op'[r].keep = Retained(r) /\ \A q \in Runs : q # r => op'[q] = op[q]
  BY <1>0, <1>1 DEF OpRec
<1>5. /\ ObjectsSound' /\ CollectorSound' /\ RecordedSound'
      /\ \A o \in Objects : objects'[o].state = objects[o].state
                            /\ objects'[o].refs = objects[o].refs \ old
  BY <1>1, <1>2, ReleasedSound
<1>6. ManifestsFound'
  BY <1>0, <1>1 DEF ManifestsFound
<1>7. CandidateSound(r)'
  BY <1>0, <1>1, <1>4 DEF CandidateSound, Uncommitted
<1>8. OperationSound(r)'
  BY <1>0, <1>1, <1>3, <1>4 DEF OperationSound, Alive
<1>9. OthersKept({r})
  <2>1. \A x \in Points : x \notin old /\ (x \in deletions' => x \in deletions) => PointKept(x)
    BY <1>1, <1>5 DEF PointKept
  <2> QED
    BY <1>1, <1>2, <1>4, <2>1 DEF OthersKept
<1>10. \A q \in Runs : ReadKept(q)
  BY <1>1, <1>2 DEF ReadKept
<1> QED
  BY <1>5, <1>6, <1>7, <1>8, <1>9, <1>10, BlockSideKept

LEMMA AbandonBlocks ==
  ASSUME PublicationInv, Typed', NEW r \in Runs, QueueAbandoned(r)
  PROVE  BlockSide'
<1> USE DEF blockVars, pubVars, runVars, nodeVars
<1> DEFINE lost == {p \in uploadIntents : point[p].run = r /\ p \notin op[r].keep}
           dead == {p \in Points : point[p].run = r /\ p \notin op[r].keep}
<1>0. /\ op \in [Runs -> OpRec] /\ op[r] \in OpRec /\ CandidateSound(r) /\ OperationSound(r)
      /\ ManifestsFound /\ recorded \subseteq Points /\ uploadIntents \subseteq Points
      /\ uploaded \subseteq Points
  BY DEF PublicationInv, BlockSide, Typed, TasksTyped, StoreTyped, BlocksTyped
<1>1. /\ op[r].pc = "tidy"
      /\ objects' = Released(dead) /\ deletions' = deletions \cup lost
      /\ uploadIntents' = uploadIntents \ lost
      /\ UNCHANGED <<remote, uploaded, gc, point, recorded, reading, grants>>
      /\ AfterTidy(r)
  BY Zenon DEF QueueAbandoned
<1>2. /\ dead \subseteq Points /\ \A x \in dead : point[x].run = r
      /\ \A x \in lost : point[x].run = r
      /\ recorded \cap dead = {}
  BY <1>0, <1>1 DEF OperationSound, PointsOf
<1> HIDE DEF lost, dead
<1>3. /\ op'[r].point = None /\ op'[r].pc \in {"snapshot", "idle"}
      /\ op'[r].pc = "idle" => op'[r].goal = "none"
      /\ op'[r].goal # "gone" /\ \A q \in Runs : q # r => op'[q] = op[q]
  <2>1. CASE op' = [op EXCEPT ![r] = NoOp]
    BY <1>0, <2>1 DEF NoOp
  <2>2. CASE op[r].goal \in {"sync", "move"} /\ op[r].point = None
             /\ op' = [op EXCEPT ![r].pc = "snapshot", ![r].keep = {}]
    BY <1>0, <2>2 DEF OpRec
  <2> QED
    BY <1>1, <2>1, <2>2 DEF AfterTidy, Finish
<1>4. /\ ObjectsSound' /\ CollectorSound' /\ RecordedSound'
      /\ \A o \in Objects : objects'[o].state = objects[o].state
                            /\ objects'[o].refs = objects[o].refs \ dead
  BY <1>1, <1>2, ReleasedSound
<1>5. ManifestsFound'
  BY <1>0, <1>1 DEF ManifestsFound
<1>6. CandidateSound(r)' /\ OperationSound(r)'
  BY <1>1, <1>3, OperationFree
<1>7. OthersKept({r})
  <2>1. \A x \in Points : x \notin dead /\ x \notin lost => PointKept(x)
    BY <1>1, <1>4 DEF PointKept
  <2> QED
    BY <1>1, <1>2, <1>3, <2>1 DEF OthersKept
<1>8. \A q \in Runs : ReadKept(q)
  BY <1>1 DEF ReadKept
<1> QED
  BY <1>4, <1>5, <1>6, <1>7, <1>8, BlockSideKept

LEMMA PurgeBlocks ==
  ASSUME PublicationInv, Typed', NEW r \in Runs, PurgeStart(r) \/ PurgeFinish(r)
  PROVE  BlockSide'
<1> USE DEF blockVars, pubVars, runVars, nodeVars
<1>0. /\ op \in [Runs -> OpRec] /\ op[r] \in OpRec /\ CandidateSound(r) /\ OperationSound(r)
      /\ ObjectsSound /\ CollectorSound /\ RecordedSound
      /\ ManifestsFound /\ recorded \subseteq Points /\ uploadIntents \subseteq Points
      /\ uploaded \subseteq Points /\ ReadSound(r) /\ grants \in [Grants -> GrantRec]
  BY DEF PublicationInv, BlockSide, Typed, TasksTyped, StoreTyped, BlocksTyped
<1>1. CASE PurgeStart(r)
  <2>1. /\ op' = [op EXCEPT ![r] = [NoOp EXCEPT !.pc = "purge", !.goal = "purge"]]
        /\ UNCHANGED <<objects, remote, uploaded, gc, point, recorded, reading, grants>>
        /\ deletions' = deletions \cup {p \in recorded \cup uploadIntents : point[p].run = r}
        /\ uploadIntents' = {p \in uploadIntents : point[p].run # r}
    BY <1>1 DEF PurgeStart
  <2>2. /\ op'[r].pc = "purge" /\ op'[r].goal = "purge" /\ op'[r].point = None
        /\ \A q \in Runs : q # r => op'[q] = op[q]
    BY <1>0, <2>1 DEF NoOp
  <2>3. ObjectsSound' /\ CollectorSound' /\ RecordedSound' /\ ManifestsFound'
    BY <1>0, <2>1 DEF ObjectsSound, CollectorSound, RecordedSound, Backed, ManifestsFound
  <2>4. CandidateSound(r)' /\ OperationSound(r)'
    BY <1>0, <2>1, <2>2 DEF CandidateSound, Uncommitted, OperationSound, Alive, ManifestsFound
  <2>5. OthersKept({r})
    <3>1. \A x \in Points : point[x].run # r => PointKept(x)
      BY <2>1 DEF PointKept
    <3> QED
      BY <2>1, <2>2, <3>1 DEF OthersKept
  <2>6. \A q \in Runs : ReadKept(q)
    BY <2>1 DEF ReadKept
  <2> QED
    BY <2>3, <2>4, <2>5, <2>6, BlockSideKept
<1>2. CASE PurgeFinish(r)
  <2> DEFINE mine == {p \in Points : point[p].run = r}
  <2>1. /\ op[r].pc = "purge" /\ ~reading[r].busy
        /\ objects' = Released(mine) /\ recorded' = recorded \ mine
        /\ grants' = [g \in Grants |-> IF grants[g].run = r THEN NoGrant ELSE grants[g]]
        /\ op' = [op EXCEPT ![r] = [NoOp EXCEPT !.pc = "gone", !.goal = "gone"]]
        /\ UNCHANGED <<remote, uploaded, deletions, gc, point, uploadIntents, reading>>
    BY <1>2, Zenon DEF PurgeFinish, Drained
  <2>2. /\ op'[r].pc = "gone" /\ op'[r].goal = "gone" /\ op'[r].point = None
        /\ \A q \in Runs : q # r => op'[q] = op[q]
    BY <1>0, <2>1 DEF NoOp
  <2>3. /\ mine \subseteq Points /\ (\A x \in mine : point[x].run = r)
        /\ (\A x \in Points : point[x].run = r => x \in mine)
    OBVIOUS
  <2>4. \A g \in Grants : grants'[g].run # r /\ grants'[g].run \in {grants[g].run, None}
    BY <2>1, NoneIsNothing DEF NoGrant
  <2> HIDE DEF mine
  <2>5. /\ ObjectsSound' /\ CollectorSound' /\ RecordedSound'
        /\ \A o \in Objects : objects'[o].state = objects[o].state
                              /\ objects'[o].refs = objects[o].refs \ mine
    BY <2>1, <2>3, ReleasedSound
  <2>6. ManifestsFound'
    BY <1>0, <2>1, <2>3 DEF ManifestsFound, OperationSound
  <2>7. CandidateSound(r)' /\ OperationSound(r)'
    BY <2>1, <2>2, <2>4 DEF CandidateSound, Uncommitted, OperationSound, Alive
  <2>8. OthersKept({r})
    <3>1. \A x \in Points : x \notin mine => PointKept(x)
      BY <2>1, <2>5 DEF PointKept
    <3> QED
      BY <2>1, <2>2, <2>3, <2>4, <3>1 DEF OthersKept
  <2>9. \A q \in Runs : ReadKept(q)
    BY <2>1, <2>3 DEF ReadKept
  <2> QED
    BY <2>5, <2>6, <2>7, <2>8, <2>9, BlockSideKept
<1> QED
  BY <1>1, <1>2

LEMMA CrashBlocks ==
  ASSUME PublicationInv, Typed', ManagerCrash
  PROVE  BlockSide'
<1> USE DEF blockVars, pubVars, runVars, nodeVars
<1>0. /\ ObjectsSound /\ CollectorSound /\ RecordedSound /\ ManifestsFound
      /\ recorded \subseteq Points
      /\ \A q \in Runs : CandidateSound(q) /\ OperationSound(q)
  BY SMTT(40) DEF PublicationInv, BlockSide, Typed, StoreTyped
<1>1. /\ UNCHANGED <<objects, remote, uploaded, deletions, point, recorded, uploadIntents, grants>>
      /\ op' = [r \in Runs |-> IF Alive(r) THEN NoOp ELSE op[r]]
      /\ reading' = [r \in Runs |-> NoRead]
      /\ gc' = Idle
  BY DEF ManagerCrash
<1>2. ObjectsSound' /\ CollectorSound' /\ RecordedSound' /\ ManifestsFound'
  BY <1>0, <1>1 DEF ObjectsSound, CollectorSound, RecordedSound, Backed, ManifestsFound, Idle
<1>3. ASSUME NEW q \in Runs  PROVE CandidateSound(q)' /\ OperationSound(q)'
  <2>1. CASE Alive(q)
    <3>1. op'[q].point = None /\ op'[q].pc = "idle" /\ op'[q].goal = "none"
      BY <1>1, <2>1 DEF NoOp
    <3> QED
      BY <1>1, <3>1, OperationFree
  <2>2. CASE ~Alive(q)
    <3>1. op'[q] = op[q]
      BY <1>1, <2>2
    <3>2. \A x \in Points : PointKept(x)
      BY <1>1 DEF PointKept
    <3>3. CandidateSound(q)'
      BY <3>1, <3>2, CandidateUsed, CandidateKept
    <3>4. OperationSound(q)'
      BY <1>0, <1>1, <3>1 DEF OperationSound, PointsOf, Alive
    <3> QED
      BY <3>3, <3>4
  <2> QED
    BY <2>1, <2>2
<1>4. \A q \in Runs : ReadSound(q)'
  BY <1>1 DEF ReadSound, NoRead
<1> QED
  BY <1>2, <1>3, <1>4 DEF BlockSide

\* The rows and the bucket under the collector: nothing that is referenced is touched.
LEMMA CollectorBlocks ==
  ASSUME PublicationInv, Typed', Collector
  PROVE  BlockSide'
<1> USE DEF blockVars, pubVars, runVars, nodeVars
<1>0. /\ ObjectsSound /\ CollectorSound /\ RecordedSound /\ ManifestsFound
      /\ recorded \subseteq Points /\ point \in [Points -> PointRec] /\ objects \in [Objects -> ObjectRec]
      /\ gc \in [busy : BOOLEAN, objs : SUBSET Objects, keys : SUBSET Points]
      /\ uploaded \subseteq Points
  BY DEF PublicationInv, BlockSide, Typed, StoreTyped, BlocksTyped
<1>1. UNCHANGED <<point, recorded, uploadIntents, grants, op, reading>>
  BY DEF Collector
<1>2. /\ uploaded' \subseteq uploaded /\ remote' \subseteq remote
      /\ \A p \in deletions : p \in uploaded' => p \in deletions'
      /\ deletions' \subseteq deletions
      /\ \A o \in Objects : /\ objects'[o].refs = objects[o].refs
                            /\ objects[o].refs # {} => objects'[o].state = objects[o].state
                            /\ o \in remote /\ o \notin remote' => objects[o].state = "deleting"
      /\ ObjectsSound' /\ CollectorSound'
  <2>1. CASE Claim
    <3>1. /\ UNCHANGED <<remote, uploaded, deletions>>
          /\ gc' = [busy |-> TRUE, objs |-> Garbage, keys |-> deletions]
      BY <2>1 DEF Claim
    <3>2. \A o \in Objects : /\ objects'[o].refs = objects[o].refs
                             /\ o \in Garbage => objects'[o].state = "deleting" /\ objects[o].refs = {}
                             /\ o \notin Garbage => objects'[o] = objects[o]
      BY <1>0, <2>1 DEF Claim, Garbage, ObjectRec
    <3>3. Garbage \subseteq Objects
      BY DEF Garbage, Stored
    <3>4. ObjectsSound'
      BY <1>0, <3>1, <3>2 DEF ObjectsSound
    <3>5. CollectorSound'
      BY <3>1, <3>2, <3>3 DEF CollectorSound
    <3> QED
      BY <3>1, <3>2, <3>4, <3>5
  <2>2. CASE Forget
    <3>1. /\ UNCHANGED <<remote, uploaded>> /\ ~gc.busy /\ gc' = Idle /\ deletions' = deletions \ gc.keys
          /\ objects' = [o \in Objects |->
               IF o \in gc.objs /\ objects[o].state = "deleting" /\ objects[o].refs = {}
               THEN Nobody ELSE objects[o]]
      BY <2>2, Zenon DEF Forget
    <3>2. /\ Nobody.refs = {} /\ Nobody.state = "absent"
      BY DEF Nobody
    <3>3. \A o \in Objects :
            /\ objects'[o].refs = objects[o].refs
            /\ objects[o].refs # {} => objects'[o].state = objects[o].state
            /\ objects'[o] = objects[o] \/ (o \in gc.objs /\ objects'[o].state = "absent"
                                            /\ objects'[o].refs = {})
      BY <3>1, <3>2
    <3>4. ObjectsSound'
      BY <1>0, <3>1, <3>3 DEF ObjectsSound, CollectorSound
    <3>5. CollectorSound'
      BY <3>1 DEF CollectorSound, Idle
    <3>6. \A p \in deletions : p \in uploaded' => p \in deletions'
      BY <1>0, <3>1 DEF CollectorSound
    <3> QED
      BY <1>0, <3>1, <3>3, <3>4, <3>5, <3>6
  <2>3. ASSUME NEW os \in SUBSET gc.objs, NEW ks \in SUBSET gc.keys, Delete(os, ks)
        PROVE  /\ uploaded' \subseteq uploaded /\ remote' \subseteq remote
               /\ \A p \in deletions : p \in uploaded' => p \in deletions'
               /\ deletions' \subseteq deletions
               /\ \A o \in Objects : /\ objects'[o].refs = objects[o].refs
                                     /\ objects[o].refs # {} => objects'[o].state = objects[o].state
                                     /\ o \in remote /\ o \notin remote' => objects[o].state = "deleting"
               /\ ObjectsSound' /\ CollectorSound'
    <3>1. /\ UNCHANGED <<objects, deletions>> /\ remote' = remote \ os /\ uploaded' = uploaded \ ks
          /\ gc' = [gc EXCEPT !.objs = os, !.keys = ks, !.busy = FALSE]
      BY <2>3 DEF Delete, PurgeKeys
    <3>2. gc'.objs = os /\ gc'.keys = ks
      BY <1>0, <3>1
    <3>3. ObjectsSound'
      BY <1>0, <3>1 DEF ObjectsSound, CollectorSound
    <3>4. CollectorSound'
      BY <1>0, <3>1, <3>2 DEF CollectorSound
    <3>5. \A o \in os : objects[o].state = "deleting"
      BY <1>0 DEF CollectorSound
    <3> QED
      BY <3>1, <3>3, <3>4, <3>5
  <2> QED
    BY <2>1, <2>2, <2>3 DEF Collector
<1>3. RecordedSound'
  <2>1. ASSUME NEW x \in recorded, NEW o \in point[x].blocks
        PROVE  x \in objects'[o].refs /\ objects'[o].state \in {"ready", "invalid"}
    <3>1. o \in Objects /\ x \in objects[o].refs /\ objects[o].state \in {"ready", "invalid"}
      BY <1>0 DEF RecordedSound, Backed, PointRec
    <3> QED
      BY <1>2, <3>1
  <2> QED
    BY <1>1, <2>1 DEF RecordedSound, Backed
<1>4. ManifestsFound'
  BY <1>0, <1>1, <1>2 DEF ManifestsFound
<1>5. OthersKept({})
  <2>1. ASSUME NEW x \in Points  PROVE PointKept(x)
    <3>1. ASSUME NEW o \in Objects
          PROVE  /\ x \in objects'[o].refs <=> x \in objects[o].refs
                 /\ x \in objects[o].refs /\ objects'[o].state = "pending" =>
                      objects[o].state = "pending" /\ (o \in remote => o \in remote')
      BY <1>2
    <3> QED
      BY <1>1, <1>2, <3>1 DEF PointKept
  <2> QED
    BY <1>1, <1>2, <2>1 DEF OthersKept
<1>6. \A q \in Runs : ReadKept(q)
  BY <1>1 DEF ReadKept
<1> QED
  BY <1>2, <1>3, <1>4, <1>5, <1>6, BlockSideKept

LEMMA InvalidBlocks ==
  ASSUME PublicationInv, Typed', NEW r \in Runs, ReadInvalid(r)
  PROVE  BlockSide'
<1> USE DEF blockVars, pubVars, runVars, nodeVars
<1>0. /\ ObjectsSound /\ CollectorSound /\ RecordedSound /\ ManifestsFound
      /\ recorded \subseteq Points /\ point \in [Points -> PointRec] /\ objects \in [Objects -> ObjectRec]
      /\ gc.objs \subseteq Objects /\ reading \in [Runs -> ReadRec]
  BY DEF PublicationInv, BlockSide, Typed, StoreTyped, BlocksTyped, TasksTyped
<1>1. /\ UNCHANGED <<remote, uploaded, deletions, gc, point, recorded, uploadIntents, grants, op>>
      /\ \E o \in reading[r].objs : objects' = Invalidated(o)
      /\ reading' = [reading EXCEPT ![r] = NoRead]
  BY DEF ReadInvalid
<1>2. \A o \in Objects : /\ objects'[o].refs = objects[o].refs
                         /\ \/ objects'[o].state = objects[o].state
                            \/ objects[o].state = "ready" /\ objects'[o].state = "invalid"
  <2>1. PICK b \in reading[r].objs : objects' = Invalidated(b)
    BY <1>1
  <2> QED
    BY <1>0, <2>1 DEF Invalidated, ObjectRec
<1>3. ObjectsSound' /\ CollectorSound' /\ ManifestsFound'
  BY <1>0, <1>1, <1>2 DEF ObjectsSound, CollectorSound, ManifestsFound
<1>4. RecordedSound'
  <2>1. ASSUME NEW x \in recorded, NEW o \in point[x].blocks
        PROVE  x \in objects'[o].refs /\ objects'[o].state \in {"ready", "invalid"}
    <3>1. o \in Objects /\ x \in objects[o].refs /\ objects[o].state \in {"ready", "invalid"}
      BY <1>0 DEF RecordedSound, Backed, PointRec
    <3> QED
      BY <1>2, <3>1
  <2> QED
    BY <1>1, <2>1 DEF RecordedSound, Backed
<1>5. OthersKept({})
  <2>1. ASSUME NEW x \in Points  PROVE PointKept(x)
    BY <1>1, <1>2 DEF PointKept
  <2> QED
    BY <1>1, <2>1 DEF OthersKept
<1>6. \A q \in Runs : ReadKept(q)
  BY <1>0, <1>1 DEF ReadKept, ReadSound, NoRead
<1> QED
  BY <1>3, <1>4, <1>5, <1>6, BlockSideKept

LEMMA PublishTurnBlocks ==
  ASSUME PublicationInv, Typed', NEW r \in Runs, PublishTurn(r)
  PROVE  BlockSide'
<1>1. CASE PublishStart(r) \/ CollectStart(r)
  BY <1>1, StartBlocks
<1>2. CASE RetirePoints(r)
  BY <1>2, RetireBlocks
<1>3. CASE QueueAbandoned(r)
  BY <1>3, AbandonBlocks
<1>4. CASE \E hs \in (SUBSET Hashes) \ {{}} : CaptureCompleted(r, hs) \/ CaptureNow(r, hs)
  BY <1>4, CaptureBlocks
<1>5. CASE \/ AlreadyPublished(r) \/ Refused(r) \/ ReceiptLost(r) \/ TransferBlocks(r)
           \/ (\E os \in SUBSET Objects : PublishFails(r, os))
  BY <1>5, EndBlocks
<1>6. CASE ReserveBlocks(r)
  BY <1>6, ReserveStep
<1>7. CASE WriteIntent(r)
  BY <1>7, IntentBlocks
<1>8. CASE PublishManifest(r)
  BY <1>8, ManifestStep
<1>9. CASE Commit(r)
  BY <1>9, CommitBlocks
<1>10. CASE ExtendGrant(r) \/ Receipt(r) \/ CompleteRequest(r)
  BY <1>10, AcknowledgeBlocks
<1> QED
  BY <1>1, <1>2, <1>3, <1>4, <1>5, <1>6, <1>7, <1>8, <1>9, <1>10 DEF PublishTurn

\* Every action keeps what the recovery points need.
LEMMA BlocksKept ==
  ASSUME PublicationInv, Typed', PublicationNext
  PROVE  BlockSide'
<1>0. /\ Nodes # {} /\ \E p \in Points : TRUE
      /\ \E o \in Objects : TRUE
  BY PublicationConstants, BlockConstants DEF Points, Objects
<1>1. PICK n0 \in Nodes, p0 \in Points, o0 \in Objects : TRUE
  BY <1>0
<1>2. ASSUME NEW r \in Runs, Node(r)  PROVE BlockSide'
  BY <1>1, <1>2, QuietBlocks DEF Node
<1>3. ASSUME NEW r \in Runs, Disk(r)  PROVE BlockSide'
  <2>1. CASE (\E g \in Grants : ReadStart(r, g)) \/ ReadServed(r)
    BY <2>1, ReadBlocks
  <2>2. CASE RefreshRead(r)
    BY <1>1, <2>2, QuietBlocks
  <2>3. CASE RefreshApply(r)
    BY <2>3, RefreshBlocks
  <2>4. CASE ReadInvalid(r)
    BY <2>4, InvalidBlocks
  <2> QED
    BY <1>3, <2>1, <2>2, <2>3, <2>4 DEF Disk
<1>4. ASSUME NEW r \in Runs, Move(r)  PROVE BlockSide'
  <2>1. CASE \E m \in Nodes : RequestMove(r, m) \/ PickRecovery(r, m)
    BY <1>1, <2>1, QuietBlocks
  <2>2. CASE RecordRecovery(r) \/ Fence(r) \/ RestoreFails(r) \/ Resume(r)
    BY <1>1, <2>2, QuietBlocks
  <2>3. CASE SaveSource(r)
    BY <2>3, StartBlocks
  <2>4. CASE Restore(r)
    BY <2>4, RestoreBlocks
  <2> QED
    BY <1>4, <2>1, <2>2, <2>3, <2>4 DEF Move
<1>5. PICK r0 \in Runs : TRUE
  BY PublicationConstants
<1>6. ASSUME NEW p \in Points, LateReceipt(p)  PROVE BlockSide'
  BY <1>1, <1>5, <1>6, QuietBlocks
<1>7. ASSUME NEW o \in Objects, Corrupt(o)  PROVE BlockSide'
  BY <1>1, <1>5, <1>7, QuietBlocks
<1> QED
  BY <1>2, <1>3, <1>4, <1>6, <1>7, PublishTurnBlocks, PurgeBlocks, CollectorBlocks, CrashBlocks
  DEF PublicationNext

----------------------------------------
(* The invariant holds initially and is kept, and what it says of the      *)
(* recovery points.                                                        *)

LEMMA PublicationBegins == PublicationInit => PublicationInv
<1> SUFFICES ASSUME PublicationInit  PROVE PublicationInv
  OBVIOUS
<1> USE NoneIsNothing
<1>1. PICK first \in [Runs -> Grants], home \in Nodes :
        /\ \A r, q \in Runs : r # q => first[r] # first[q]
        /\ grants = [g \in Grants |->
             IF \E r \in Runs : first[r] = g
             THEN [NoGrant EXCEPT !.run = CHOOSE r \in Runs : first[r] = g, !.node = home]
             ELSE NoGrant]
        /\ owner = [r \in Runs |-> home]
        /\ mounted = [r \in Runs |-> [n \in Nodes |-> IF n = home THEN first[r] ELSE None]]
  BY DEF PublicationInit
<1>2. /\ BlocksInit
      /\ point = [p \in Points |-> NoPoint]
      /\ recorded = {} /\ uploadIntents = {}
      /\ backup = [r \in Runs |-> [head |-> None, req |-> 0, ack |-> 0, status |-> "none"]]
      /\ disks = [g \in Grants |-> NewDisk(0, None)]
      /\ move = [r \in Runs |-> NoMove]
      /\ op = [r \in Runs |-> NoOp]
      /\ reading = [r \in Runs |-> NoRead]
      /\ monitor = [r \in Runs |-> NoStatus]
      /\ late = {}
  BY DEF PublicationInit
<1>3. /\ uploaded = {} /\ deletions = {} /\ remote = {} /\ gc = Idle
      /\ objects = [o \in Objects |-> Nobody]
      /\ Nobody \in ObjectRec /\ Nobody.state = "absent" /\ Nobody.refs = {}
  <2>1. (CHOOSE h \in Hashes : TRUE) \in Hashes
    BY BlockConstants
  <2> QED
    BY <1>2, <2>1 DEF BlocksInit, Nobody, ObjectRec
<1>4. BlocksTyped
  BY <1>3 DEF BlocksTyped, Idle
<1>5. ASSUME NEW g \in Grants
      PROVE  /\ grants[g] \in GrantRec /\ grants[g].backups = {} /\ grants[g].pending = {} /\ grants[g].gen = 0
             /\ \A r \in Runs : first[r] = g => grants[g].run = r /\ grants[g].node = home
  <2>1. NoGrant \in GrantRec /\ NoGrant.backups = {} /\ NoGrant.pending = {} /\ NoGrant.gen = 0
    BY DEF NoGrant, GrantRec
  <2>2. CASE \E r \in Runs : first[r] = g
    <3>1. PICK r \in Runs : first[r] = g
      BY <2>2
    <3>2. (CHOOSE q \in Runs : first[q] = g) = r
      BY <1>1, <3>1
    <3>3. grants[g] = [NoGrant EXCEPT !.run = r, !.node = home]
      BY <1>1, <3>1, <3>2
    <3>4. \A q \in Runs : first[q] = g => q = r
      BY <1>1, <3>1
    <3> QED
      BY <2>1, <3>3, <3>4 DEF GrantRec, NoGrant
  <2>3. CASE ~\E r \in Runs : first[r] = g
    BY <1>1, <2>1, <2>3
  <2> QED
    BY <2>2, <2>3
<1>6. grants \in [Grants -> GrantRec]
  BY <1>1, <1>5
<1>7. StoreTyped
  <2>1. /\ NoPoint \in PointRec /\ NoMove \in MoveRec
        /\ [head |-> None, req |-> 0, ack |-> 0, status |-> "none"] \in BackupRec
    BY DEF NoPoint, PointRec, NoMove, MoveRec, BackupRec
  <2> QED
    BY <1>1, <1>2, <1>6, <2>1 DEF StoreTyped
<1>8. NodesTyped
  <2>1. NewDisk(0, None) \in DiskRec
    BY DEF NewDisk, DiskRec
  <2> QED
    BY <1>1, <1>2, <2>1 DEF NodesTyped
<1>9. TasksTyped
  BY <1>2 DEF TasksTyped, NoOp, OpRec, NoRead, ReadRec, NoStatus, StatusRec, Publishing
<1>10. UsedSound /\ ReceiptsListed
  BY <1>2, <1>3 DEF UsedSound, PointSound, Used, NoPoint, ReceiptsListed, NewDisk, NoOp
<1>11. MountSound
  <2>1. /\ \A r \in Runs, n \in Nodes : mounted[r][n] # None => mounted[r][n] = first[r] /\ n = home
        /\ \A r \in Runs : mounted[r][owner[r]] = first[r] /\ first[r] \in Grants /\ first[r] # None
    BY <1>1
  <2>2. \A g \in Grants : disks[g].base = None
    BY <1>2 DEF NewDisk
  <2>3. \A r, q \in Runs, n, m \in Nodes :
          mounted[r][n] = mounted[q][m] /\ mounted[r][n] # None => r = q /\ n = m
    BY <1>1, <2>1
  <2>4. \A r \in Runs : grants[first[r]].run = r /\ grants[first[r]].node = home
    BY <1>5, <2>1
  <2> QED
    BY <2>1, <2>2, <2>3, <2>4 DEF MountSound
<1>12. \A r \in Runs : MoveSound(r) /\ HeadSound(r) /\ StatusSound(r)
  BY <1>2 DEF MoveSound, NoMove, NoOp, HeadSound, StatusSound, NoStatus
<1>13. \A g \in Grants : GrantSound(g) /\ DiskSound(g)
  BY <1>2, <1>5 DEF GrantSound, DiskSound, NewDisk
<1>14. /\ ObjectsSound /\ CollectorSound /\ RecordedSound /\ ManifestsFound
  BY <1>2, <1>3 DEF ObjectsSound, CollectorSound, RecordedSound, ManifestsFound, Idle
<1>15. \A r \in Runs : CandidateSound(r) /\ OperationSound(r) /\ ReadSound(r)
  BY <1>2 DEF NoOp, NoRead, CandidateSound, Uncommitted, OperationSound, Alive, ReadSound
<1> QED
  BY <1>4, <1>7, <1>8, <1>9, <1>10, <1>11, <1>12, <1>13, <1>14, <1>15
  DEF PublicationInv, Typed, GrantSide, BlockSide

LEMMA PublicationStutters ==
  ASSUME PublicationInv, UNCHANGED publicationVars
  PROVE  PublicationInv'
<1> USE DEF publicationVars
<1>1. Typed'
  BY DEF PublicationInv, Typed, BlocksTyped, StoreTyped, NodesTyped, TasksTyped
<1>2. PointsStay /\ BasesStay /\ \A q \in Runs : Alive(q)' = Alive(q)
  BY DEF PointsStay, BasesStay, Alive
<1>3. GrantSide'
  <2>1. PinsStay
    BY PinsStill
  <2>2. OnlyUsed
    BY DEF OnlyUsed, PublicationInv, GrantSide, UsedSound, ReceiptsListed
  <2>3. \A q \in Runs : RunsStay(q)
    BY RunsStill
  <2> QED
    BY <1>1, <2>1, <2>2, <2>3, GrantSideStill
<1>4. BlockSide'
  BY <1>1, BlocksStill
<1> QED
  BY <1>1, <1>3, <1>4 DEF PublicationInv

LEMMA PublicationKept ==
  ASSUME PublicationInv, [PublicationNext]_publicationVars
  PROVE  PublicationInv'
<1>1. CASE PublicationNext
  <2>1. Typed'
    BY <1>1, TypesKept
  <2> QED
    BY <1>1, <2>1, GrantsKept, BlocksKept DEF PublicationInv
<1> QED
  BY <1>1, PublicationStutters

LEMMA PublicationHolds == PublicationSpec => []PublicationInv
BY PublicationBegins, PublicationKept, PTL DEF PublicationSpec

LEMMA InvBacksPoints == PublicationInv => PointsBacked
<1> SUFFICES ASSUME PublicationInv  PROVE PointsBacked
  OBVIOUS
<1>0. /\ ObjectsSound /\ RecordedSound /\ ManifestsFound /\ MountSound
      /\ recorded \subseteq Points /\ point \in [Points -> PointRec] /\ remote \subseteq Objects
      /\ owner \in [Runs -> Nodes] /\ mounted \in [Runs -> [Nodes -> Grants \cup {None}]]
      /\ \A g \in Grants : GrantSound(g)
      /\ \A r \in Runs : ReadSound(r)
  BY DEF PublicationInv, GrantSide, BlockSide, Typed, BlocksTyped, StoreTyped, NodesTyped
<1>1. \A p \in recorded : point[p].blocks \subseteq remote
  <2>1. ASSUME NEW p \in recorded, NEW o \in point[p].blocks  PROVE o \in remote
    <3>1. o \in Objects /\ objects[o].state \in {"ready", "invalid"}
      BY <1>0 DEF RecordedSound, PointRec
    <3> QED
      BY <1>0, <3>1 DEF ObjectsSound
  <2> QED
    BY <2>1
<1>2. RetainedReadable
  <2>1. ASSUME NEW r \in Runs
        PROVE  /\ Pins(r) \subseteq recorded
               /\ \A p \in Retained(r) \cap recorded : point[p].blocks \subseteq remote
               /\ reading[r].objs \subseteq remote
    <3>1. Pins(r) \subseteq recorded
      BY <1>0 DEF Pins, GrantSound
    <3>2. reading[r].objs \subseteq remote
      BY <1>0, <1>1 DEF ReadSound
    <3> QED
      BY <1>1, <3>1, <3>2
  <2> QED
    BY <2>1 DEF RetainedReadable
<1>3. RemoteAccounted
  BY <1>0 DEF RemoteAccounted, Stored, ObjectsSound, ManifestsFound
<1>4. MountedBaseGranted
  <2>1. ASSUME NEW r \in Runs, Alive(r), disks[Current(r)].base # None
        PROVE  disks[Current(r)].base \in grants[Current(r)].backups \cap recorded
    <3>1. Current(r) \in Grants /\ disks[Current(r)].base \in grants[Current(r)].backups
      BY <2>1, CurrentGrant
    <3> QED
      BY <1>0, <3>1 DEF GrantSound
  <2> QED
    BY <2>1 DEF MountedBaseGranted
<1> QED
  BY <1>2, <1>3, <1>4 DEF PointsBacked

\* The objects of a recovery point are in the bucket for as long as anything pins or
\* reads it, every object and manifest in the bucket has the row or record that will
\* delete it, and the base under a mounted disk stays granted and recorded: for any
\* number of conversations, nodes, crashes, lost and late receipts, overlapping
\* publications, collections, restores and status reports (publication.rs,
\* shared_blocks.rs, disk_grants.rs, restore.rs).
THEOREM RecoveryPointsBacked == PublicationSpec => []PointsBacked
BY PublicationHolds, InvBacksPoints, PTL

=============================================================================

---------------------------- MODULE LazyJournal ----------------------------
(***************************************************************************)
(* The write journal of a conversation disk (storage/lazy): append and      *)
(* group commit by concurrent writers, segment rotation, sealing a          *)
(* generation, capturing its manifest, publishing it, reclaiming segments,  *)
(* and recovery after a crash of the process or of the machine.             *)
(*                                                                         *)
(* A write covers one block, and is named by the order in which it reached  *)
(* the journal. A frame is whole or torn; payloads, checksums and caches    *)
(* are left out, and so is the conversion of the older SQLite journal.      *)
(*                                                                         *)
(* Grain: the journal mutex is held from the choice of a segment to the     *)
(* end of the frame, the commit mutex from the capture of a batch to its    *)
(* acknowledgement; a step ends at each durable effect, where a crash may   *)
(* come.                                                                    *)
(*                                                                         *)
(* OnlyActiveSynced, PendingKept, LatestCaptured and RetiredAhead are       *)
(* faulty forms of the definitions that follow them, used by no action:     *)
(* they show which slip each property would catch.                          *)
(***************************************************************************)
EXTENDS Integers, FiniteSets, FiniteSetsExt

CONSTANTS
    Writers,       \* threads that write to the disk
    Blocks,        \* blocks of the disk
    SegmentFrames, \* frames that fit in one segment (SEGMENT_BYTES)
    MaxWrites, MaxGeneration, MaxCrashes, MaxIoErrors, \* bounds
    NoBlock        \* absent value

ASSUME JournalAssumption ==
    /\ Blocks # {} /\ NoBlock \notin Blocks
    /\ SegmentFrames \in Nat \ {0}
    /\ MaxWrites \in Nat
    /\ MaxGeneration \in Nat \ {0}
    /\ MaxCrashes \in Nat
    /\ MaxIoErrors \in Nat

VARIABLES
    \* the directory: segment files and the metadata of journal-v2.sqlite
    files,      \* names of segment files
    frames,     \* whole frames in those files
    synced,     \* frames a sync_data has made durable
    torn,       \* files that end in part of a frame
    segments,   \* the segments table: names of described segments
    meta,       \* the state row, the published receipt and the base manifest
    manifests,  \* the sealed table: [Generations -> contents, Empty, Absent]
    \* the open disk
    status,     \* "open", "closed" or "refused" (open returned an error)
    journal,    \* the Journal in memory, with the base and the receipt in memory
    writer,     \* [Writers -> WriterState]
    capture,    \* the capture in progress
    retired,    \* files commit_published has left to unlink
    \* history and bounds
    issued,     \* writes issued
    firm,       \* [Blocks -> newest write acknowledged or sealed]
    snap,       \* [Generations -> contents at the seal]
    used        \* crashes and I/O errors spent

diskVars == <<files, frames, synced, torn>>
dbVars == <<segments, meta, manifests>>
journalVars == <<files, frames, synced, torn, segments, meta, manifests, status,
          journal, writer, capture, retired, issued, firm, snap, used>>

Generations == 0 .. MaxGeneration
Writes == 0 .. MaxWrites
Sequences == 1 .. MaxWrites + 1

(* A segment is named by its generation and its first sequence number.      *)
Names == Generations \X Sequences
Frames == [segment: Names, seq: Sequences, block: Blocks, write: Writes \ {0}]
Contents == [Blocks -> Writes]

Generation(f) == f.segment[1]

NoSegment == <<0, 0>>
Empty == [b \in Blocks |-> -1]    \* sealed, manifest still NULL
Absent == [b \in Blocks |-> -2]   \* no such row
Unsealed == Empty

WriterPcs == {"idle", "describe", "frame", "staged", "syncing"}

WriterState == [pc: WriterPcs, block: Blocks \cup {NoBlock}, seq: 0 .. MaxWrites + 1,
                write: Writes, through: 0 .. MaxWrites, left: SUBSET Names]

NoCapture == [generation |-> 0, changed |-> {}, base |-> Empty]

(* Type correctness: every variable in its set; described segments have     *)
(* their file, and only existing frames are durable.                        *)
JournalTypeOK ==
    /\ files \in SUBSET Names
    /\ frames \in SUBSET Frames
    /\ synced \in SUBSET frames
    /\ torn \in SUBSET files
    /\ segments \in SUBSET files
    /\ meta \in [generation: Generations \ {0}, next: Sequences,
                 published: Generations, base: Contents]
    /\ manifests \in [Generations -> Contents \cup {Empty, Absent}]
    /\ status \in {"open", "closed", "refused"}
    /\ journal \in [records: SUBSET Frames, active: Names \cup {NoSegment},
                    generation: Generations \ {0}, next: Sequences,
                    failed: BOOLEAN, durable: 0 .. MaxWrites,
                    pending: SUBSET Names, published: Generations, base: Contents]
    /\ writer \in [Writers -> WriterState]
    /\ capture \in [generation: Generations, changed: SUBSET Blocks,
                    base: Contents \cup {Empty}]
    /\ retired \in SUBSET Names
    /\ issued \in Writes
    /\ firm \in Contents
    /\ snap \in [Generations -> Contents \cup {Unsealed}]
    /\ used \in [crash: 0 .. MaxCrashes, io: 0 .. MaxIoErrors]
----------------------------------------------------------------------------
IdleWriter == [pc |-> "idle", block |-> NoBlock, seq |-> 0,
               write |-> 0, through |-> 0, left |-> {}]

NewJournal == [records |-> {}, active |-> NoSegment, generation |-> 1,
               next |-> 1, failed |-> FALSE, durable |-> 0, pending |-> {},
               published |-> 0, base |-> [b \in Blocks |-> 0]]

JournalInit ==
    /\ files = {} /\ frames = {} /\ synced = {} /\ torn = {}
    /\ segments = {}
    /\ meta = [generation |-> 1, next |-> 1, published |-> 0,
               base |-> [b \in Blocks |-> 0]]
    /\ manifests = [g \in Generations |-> Absent]
    /\ status = "open"
    /\ journal = NewJournal
    /\ writer = [w \in Writers |-> IdleWriter]
    /\ capture = NoCapture
    /\ retired = {}
    /\ issued = 0
    /\ firm = [b \in Blocks |-> 0]
    /\ snap = [g \in Generations |-> IF g = 0 THEN firm ELSE Unsealed]
    /\ used = [crash |-> 0, io |-> 0]
----------------------------------------------------------------------------
(* The index in memory. An exact overwrite within one generation replaces   *)
(* the earlier record (Journal::insert).                                    *)
Indexed(S) ==
    {f \in S : \A g \in S : Generation(g) = Generation(f) /\ g.block = f.block
                              => g.seq <= f.seq}

(* read_generation: the newest record of a generation up to g wins over the *)
(* base.                                                                    *)
Newest(S) == CHOOSE f \in S : \A g \in S : g.seq <= f.seq

ReadFrom(records, base, g, b) ==
    LET found == {f \in records : f.block = b /\ Generation(f) <= g} IN
    IF found = {} THEN base[b] ELSE Newest(found).write

ReadGeneration(g) ==
    [b \in Blocks |-> ReadFrom(journal.records, journal.base, g, b)]

In(s) == {f \in frames : f.segment = s}

JournalFree == \A w \in Writers : writer[w].pc \notin {"describe", "frame"}
CommitFree == \A w \in Writers : writer[w].pc # "syncing"
WritersDone == \A w \in Writers : writer[w].pc = "idle"

SetWriter(w, s) == writer' = [writer EXCEPT ![w] = s]
Fail == journal' = [journal EXCEPT !.failed = TRUE]

(* Journal::append, with the journal mutex held to the end of the frame.    *)
NeedsSegment ==
    \/ journal.active = NoSegment
    \/ Cardinality(In(journal.active)) >= SegmentFrames

NewName == <<journal.generation, journal.next>>

AppendBegin(w) ==
    /\ status = "open"
    /\ writer[w].pc = "idle"
    /\ JournalFree
    /\ ~journal.failed
    /\ issued < MaxWrites
    /\ \E b \in Blocks :
         \/ /\ ~NeedsSegment
            /\ SetWriter(w, [IdleWriter EXCEPT !.pc = "frame", !.block = b])
            /\ UNCHANGED <<files, journal>>
         \/ /\ NeedsSegment
            /\ NewName \notin files
            /\ files' = files \cup {NewName}
            /\ SetWriter(w, [IdleWriter EXCEPT !.pc = "describe", !.block = b])
            /\ UNCHANGED journal
         \/ /\ NeedsSegment
            /\ NewName \in files         \* create_new refuses
            /\ Fail
            /\ UNCHANGED <<files, writer>>
    /\ UNCHANGED <<frames, synced, torn, dbVars, status, capture, retired,
                   issued, firm, snap, used>>

(* The descriptor and the sequence floor are durable before the first frame *)
(* of the segment; first_sequence is UNIQUE.                                *)
AppendDescribe(w) ==
    /\ writer[w].pc = "describe"
    /\ IF \E s \in segments : s[2] = journal.next
       THEN /\ Fail
            /\ SetWriter(w, IdleWriter)
            /\ UNCHANGED <<segments, meta>>
       ELSE /\ segments' = segments \cup {NewName}
            /\ meta' = [meta EXCEPT !.next = journal.next]
            /\ journal' = [journal EXCEPT !.active = NewName]
            /\ SetWriter(w, [writer[w] EXCEPT !.pc = "frame"])
    /\ UNCHANGED <<diskVars, manifests, status, capture, retired, issued, firm,
                   snap, used>>

AppendFrame(w) ==
    /\ writer[w].pc = "frame"
    /\ LET f == [segment |-> journal.active, seq |-> journal.next,
                 block |-> writer[w].block, write |-> issued + 1] IN
       /\ frames' = frames \cup {f}
       /\ journal' = [journal EXCEPT
                        !.records = Indexed(@ \cup {f}), !.next = @ + 1,
                        !.pending = @ \cup {journal.active}]
       /\ SetWriter(w, [writer[w] EXCEPT !.pc = "staged", !.seq = f.seq,
                                         !.write = f.write])
    /\ issued' = issued + 1
    /\ UNCHANGED <<files, synced, torn, dbVars, status, capture, retired, firm,
                   snap, used>>

(* An error of the file system or of SQLite: the journal needs recovery. A  *)
(* transaction that reports an error may have committed.                    *)
AppendError(w) ==
    /\ used.io < MaxIoErrors
    /\ used' = [used EXCEPT !.io = @ + 1]
    /\ Fail
    /\ \/ /\ writer[w].pc = "describe"
          /\ \/ UNCHANGED <<segments, meta>>
             \/ /\ ~\E s \in segments : s[2] = journal.next
                /\ segments' = segments \cup {NewName}
                /\ meta' = [meta EXCEPT !.next = journal.next]
          /\ UNCHANGED torn
       \/ /\ writer[w].pc = "frame"
          /\ \E t \in SUBSET {journal.active} : torn' = torn \cup t
          /\ UNCHANGED <<segments, meta>>
    /\ SetWriter(w, IdleWriter)
    /\ UNCHANGED <<files, frames, synced, manifests, status, capture, retired,
                   issued, firm, snap>>
----------------------------------------------------------------------------
(* commit_write: one caller syncs a captured prefix while others stage.     *)

OnlyActiveSynced == journal.pending \cap {journal.active}

BatchFiles == journal.pending

Acknowledged(w) ==
    firm' = [firm EXCEPT ![writer[w].block] =
               IF @ < writer[w].write THEN writer[w].write ELSE @]

CommitBatch(w) ==
    /\ writer[w].pc = "staged"
    /\ CommitFree /\ JournalFree
    /\ \/ /\ journal.failed \/ (writer[w].seq > journal.durable
                                /\ journal.pending = {})
          /\ SetWriter(w, IdleWriter)
          /\ UNCHANGED firm
       \/ /\ ~journal.failed
          /\ writer[w].seq <= journal.durable
          /\ Acknowledged(w)
          /\ SetWriter(w, IdleWriter)
       \/ /\ ~journal.failed
          /\ writer[w].seq > journal.durable
          /\ journal.pending # {}
          /\ SetWriter(w, [writer[w] EXCEPT !.pc = "syncing",
                             !.through = journal.next - 1, !.left = BatchFiles])
          /\ UNCHANGED firm
    /\ UNCHANGED <<diskVars, dbVars, status, journal, capture, retired, issued,
                   snap, used>>

SyncFile(w) ==
    /\ writer[w].pc = "syncing"
    /\ \E s \in writer[w].left :
         /\ synced' = synced \cup In(s)
         /\ SetWriter(w, [writer[w] EXCEPT !.left = @ \ {s}])
    /\ UNCHANGED <<files, frames, torn, dbVars, status, journal, capture,
                   retired, issued, firm, snap, used>>

SyncError(w) ==
    /\ writer[w].pc = "syncing"
    /\ JournalFree
    /\ used.io < MaxIoErrors
    /\ used' = [used EXCEPT !.io = @ + 1]
    /\ Fail
    /\ SetWriter(w, IdleWriter)
    /\ UNCHANGED <<diskVars, dbVars, status, capture, retired, issued, firm, snap>>

(* Journal::committed; a file stays pending if it got a frame since.        *)
LastSeq(s) == Max({f.seq : f \in In(s)})

StillPending(through) == {s \in journal.pending : LastSeq(s) > through}

Committed(w) ==
    /\ writer[w].pc = "syncing"
    /\ writer[w].left = {}
    /\ JournalFree
    /\ IF journal.failed
       THEN UNCHANGED <<journal, firm>>
       ELSE /\ journal' = [journal EXCEPT
                             !.durable = writer[w].through,
                             !.pending = StillPending(writer[w].through)]
            /\ Acknowledged(w)
    /\ SetWriter(w, IdleWriter)
    /\ UNCHANGED <<diskVars, dbVars, status, capture, retired, issued, snap, used>>
----------------------------------------------------------------------------
(* Disk::sync: with every writer drained, confirm or fail; nothing changes. *)
Flushed == ~journal.failed /\ journal.pending = {}

Flush ==
    /\ status = "open"
    /\ WritersDone
    /\ UNCHANGED journalVars

(* seal: the write gate drains the writers; the counters move in one        *)
(* transaction and later writes enter the next generation.                  *)
SealAllowed == WritersDone /\ Flushed

SealTransaction ==
    LET g == meta.generation IN
    /\ manifests' = [manifests EXCEPT ![g] = Empty]
    /\ meta' = [meta EXCEPT !.generation = g + 1, !.next = journal.next]
    /\ snap' = [snap EXCEPT ![g] = ReadGeneration(MaxGeneration)]
    /\ firm' = ReadGeneration(MaxGeneration)

Seal ==
    /\ status = "open"
    /\ JournalFree
    /\ SealAllowed
    /\ meta.generation < MaxGeneration
    /\ SealTransaction
    /\ journal' = [journal EXCEPT !.generation = meta.generation + 1,
                                  !.active = NoSegment]
    /\ UNCHANGED <<diskVars, segments, status, writer, capture, retired, issued,
                   used>>

SealError ==
    /\ status = "open"
    /\ JournalFree
    /\ SealAllowed
    /\ meta.generation < MaxGeneration
    /\ used.io < MaxIoErrors
    /\ used' = [used EXCEPT !.io = @ + 1]
    /\ SealTransaction \/ UNCHANGED <<manifests, meta, snap, firm>>
    /\ Fail
    /\ UNCHANGED <<diskVars, segments, status, writer, capture, retired, issued>>

(* capture rebuilds the manifest of a sealed generation beside the writers; *)
(* it holds the publication lock shared, so no base changes meanwhile.      *)
CaptureBegin ==
    /\ status = "open"
    /\ capture = NoCapture
    /\ JournalFree
    /\ \E g \in Generations :
         /\ manifests[g] = Empty
         /\ capture' = [generation |-> g, base |-> meta.base,
              changed |-> {f.block : f \in {x \in journal.records :
                                              Generation(x) <= g}}]
    /\ UNCHANGED <<diskVars, dbVars, status, journal, writer, retired, issued,
                   firm, snap, used>>

LatestCaptured(g) ==
    [b \in Blocks |-> IF b \in capture.changed THEN ReadGeneration(MaxGeneration)[b]
                      ELSE capture.base[b]]

CapturedManifest(g) ==
    [b \in Blocks |-> IF b \in capture.changed THEN ReadGeneration(g)[b]
                      ELSE capture.base[b]]

CaptureEnd ==
    /\ capture # NoCapture
    /\ JournalFree
    /\ manifests' = [manifests EXCEPT ![capture.generation] =
                       CapturedManifest(capture.generation)]
    /\ capture' = NoCapture
    /\ UNCHANGED <<diskVars, segments, meta, status, journal, writer, retired,
                   issued, firm, snap, used>>

CaptureError ==
    /\ capture # NoCapture
    /\ used.io < MaxIoErrors
    /\ used' = [used EXCEPT !.io = @ + 1]
    /\ capture' = NoCapture
    /\ UNCHANGED <<diskVars, dbVars, status, journal, writer, retired, issued,
                   firm, snap>>

(* commit_published: one transaction moves the base and forgets the         *)
(* segments it covers; memory follows (Journal::retire). A transaction      *)
(* whose answer was lost leaves memory as it was until the receipt is       *)
(* repeated.                                                                *)
KeptSegments(g) == {s \in segments : s[1] > g}

PublishTransaction(g) ==
    /\ manifests[g] \notin {Empty, Absent}
    /\ meta' = [meta EXCEPT !.base = manifests[g], !.published = g]
    /\ segments' = KeptSegments(g)
    /\ manifests' = [h \in Generations |-> IF h <= g THEN Absent ELSE manifests[h]]

Retire(g, base) ==
    /\ journal' = [journal EXCEPT !.records = {f \in @ : Generation(f) > g},
                     !.active = NoSegment, !.base = base, !.published = g]
    /\ retired' = retired \cup {s \in files : s[1] <= g}

Exclusive == status = "open" /\ WritersDone /\ capture = NoCapture

Publish ==
    /\ Exclusive
    /\ \E g \in Generations : PublishTransaction(g) /\ Retire(g, manifests[g])
    /\ UNCHANGED <<diskVars, status, writer, capture, issued, firm, snap, used>>

PublishAnswerLost ==
    /\ Exclusive
    /\ used.io < MaxIoErrors
    /\ used' = [used EXCEPT !.io = @ + 1]
    /\ \E g \in Generations : PublishTransaction(g)
    /\ UNCHANGED <<diskVars, status, journal, writer, capture, retired, issued,
                   firm, snap>>

PublishAgain ==
    /\ Exclusive
    /\ journal.published # meta.published
    /\ Retire(meta.published, meta.base)
    /\ UNCHANGED <<diskVars, dbVars, status, writer, capture, issued, firm, snap,
                   used>>

Reclaim ==
    /\ status = "open"
    /\ \E s \in retired :
         /\ retired' = retired \ {s}
         /\ files' = files \ {s}
         /\ frames' = frames \ In(s)
         /\ synced' = synced \ In(s)
         /\ torn' = torn \ {s}
    /\ UNCHANGED <<dbVars, status, journal, writer, capture, issued, firm, snap,
                   used>>
----------------------------------------------------------------------------
(* The process or the machine stops: a file may lose frames that were never *)
(* synced, from its end, and may end in part of the next frame.             *)
PowerLoss ==
    /\ status = "open"
    /\ used.crash < MaxCrashes
    /\ used' = [used EXCEPT !.crash = @ + 1]
    /\ \E lost \in SUBSET (frames \ synced) :
         /\ \A f \in lost, g \in frames :
              g.segment = f.segment /\ g.seq > f.seq => g \in lost
         /\ frames' = frames \ lost
         /\ \E t \in SUBSET ({f.segment : f \in lost}
                             \cup (IF \E w \in Writers : writer[w].pc = "frame"
                                   THEN {journal.active} ELSE {})) :
              torn' = torn \cup t
    /\ status' = "closed"
    /\ journal' = NewJournal
    /\ writer' = [w \in Writers |-> IdleWriter]
    /\ capture' = NoCapture
    /\ retired' = {}
    /\ UNCHANGED <<files, synced, dbVars, issued, firm, snap>>

(* Journal::open. Only the last described segment, if it is of the current  *)
(* generation, may end in part of a frame, which is cut off.                *)
LastDescribed(s) ==
    /\ s[1] = meta.generation
    /\ \A t \in segments : t[2] <= s[2]

Contiguous(s) ==
    {f.seq : f \in In(s)} = s[2] .. s[2] + Cardinality(In(s)) - 1

Readable(s) ==
    /\ s \in files
    /\ s[1] > meta.published /\ s[1] <= meta.generation
    /\ Contiguous(s)
    /\ \A t \in segments : t[2] < s[2] => \A f \in In(t) : f.seq < s[2]
    /\ s \in torn => LastDescribed(s)

RecoveredActive ==
    IF \E s \in segments : LastDescribed(s) THEN CHOOSE s \in segments : LastDescribed(s)
    ELSE NoSegment

Described == {f \in frames : f.segment \in segments}

Open ==
    /\ status \in {"closed", "refused"}
    /\ \/ /\ \E s \in segments : ~Readable(s)
          /\ status' = "refused"
          /\ UNCHANGED <<diskVars, journal>>
       \/ /\ \A s \in segments : Readable(s)
          /\ status' = "open"
          /\ files' = segments
          /\ frames' = Described
          /\ synced' = Described
          /\ torn' = {}
          /\ LET next == Max({meta.next} \cup {f.seq + 1 : f \in Described}) IN
             journal' = [records |-> Indexed(Described),
                         active |-> RecoveredActive,
                         generation |-> meta.generation, next |-> next,
                         failed |-> FALSE, durable |-> next - 1, pending |-> {},
                         published |-> meta.published, base |-> meta.base]
    /\ UNCHANGED <<dbVars, writer, capture, retired, issued, firm, snap, used>>
----------------------------------------------------------------------------
WriterStep(w) ==
    \/ AppendBegin(w) \/ AppendDescribe(w) \/ AppendFrame(w) \/ AppendError(w)
    \/ CommitBatch(w) \/ SyncFile(w) \/ SyncError(w) \/ Committed(w)

JournalNext ==
    \/ \E w \in Writers : WriterStep(w)
    \/ Flush
    \/ Seal \/ SealError
    \/ CaptureBegin \/ CaptureEnd \/ CaptureError
    \/ Publish \/ PublishAnswerLost \/ PublishAgain
    \/ Reclaim
    \/ PowerLoss
    \/ Open

JournalSpec == JournalInit /\ [][JournalNext]_journalVars
----------------------------------------------------------------------------
(* Properties *)

(* What reads return, or will return once the disk is open again.           *)
Visible ==
    IF status = "open" THEN ReadGeneration(MaxGeneration)
    ELSE [b \in Blocks |-> ReadFrom(Described, meta.base, MaxGeneration, b)]

Promise == INSTANCE DurableDisk WITH
    disk <- Visible, firm <- firm, issued <- issued, sealed <- snap

(* The journal keeps the promise of a durable disk: no crash, rotation,     *)
(* publication or recovery takes back an acknowledged or a sealed write,    *)
(* brings back an overwritten one, or changes what a reader sees.           *)
KeepsPromise == Promise!Spec

(* A captured manifest is the disk as it was at the seal, whatever was      *)
(* written or published since, and so is the base it becomes.               *)
CapturesTheSeal ==
    /\ \A g \in Generations :
         manifests[g] \notin {Empty, Absent} => manifests[g] = snap[g]
    /\ meta.base = snap[meta.published]

(* Once every writer has returned, a sound journal has nothing left to      *)
(* sync: neither a flush nor a seal is refused for a write that was         *)
(* acknowledged (Journal::sync).                                            *)
DrainedWhenIdle ==
    status = "open" /\ WritersDone /\ ~journal.failed => journal.pending = {}

(* ON-DEMAND-STORAGE-DESIGN.md: "Une fin de journal incomplete ne remet pas *)
(* en cause les ecritures deja acquittees". An incomplete end never keeps   *)
(* the disk from being opened again.                                        *)
IncompleteEndRecovered == status # "refused"

(* seal: "later writes enter the next generation". Without an I/O error no  *)
(* write is refused.                                                        *)
LaterWritesEnter == journal.failed => used.io > 0

(* Captures and acknowledgements agree with the journal: what a capture    *)
(* stored is the content at its seal, and nothing acknowledged is still    *)
(* waiting for a sync.                                                     *)
JournalExact ==
  /\ CapturesTheSeal
  /\ DrainedWhenIdle
=============================================================================

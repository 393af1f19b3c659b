------------------------- MODULE LazyJournalProofs -------------------------
(***************************************************************************)
(* What a conversation is stored in: the journal of its disk, and its      *)
(* messages.                                                               *)
(*                                                                         *)
(* First part: the journal implements a durable disk, for any number of    *)
(* writers, blocks, writes, generations, crashes and I/O errors: what was  *)
(* acknowledged or sealed is never taken back, and a captured manifest is  *)
(* the disk at its seal.                                                   *)
(*                                                                         *)
(* Second part: for any number of messages, turns and crashes, a message   *)
(* is delivered once and only if the agent was given it, an answer reaches *)
(* its question, and a deletion is whole.                                  *)
(***************************************************************************)
EXTENDS LazyJournal, ChatAgents, WellFoundedInduction, TLAPS

Segment == Nat \X Nat
FrameRec == [segment : Segment, seq : Nat, block : Blocks, write : Nat]
Anything == [Blocks -> Int]

JournalRec == [records : SUBSET FrameRec, active : Segment, generation : Nat, next : Nat \ {0},
               failed : BOOLEAN, durable : Nat, pending : SUBSET Segment, published : Nat,
               base : Anything]
WriterRec == [pc : WriterPcs, block : Blocks \cup {NoBlock}, seq : Nat, write : Nat,
              through : Nat, left : SUBSET Segment]

DiskTyped ==
  /\ frames \subseteq FrameRec /\ synced \subseteq frames
  /\ segments \subseteq Segment /\ issued \in Writes
  /\ meta \in [generation : Generations \ {0}, next : Nat \ {0}, published : Generations,
               base : Anything]
  /\ manifests \in [Generations -> Anything] /\ snap \in [Generations -> Anything]
  /\ firm \in Contents

MemoryTyped ==
  /\ status \in {"open", "closed", "refused"}
  /\ journal \in JournalRec /\ writer \in [Writers -> WriterRec]
  /\ capture \in [generation : Nat, changed : SUBSET Blocks, base : Anything]

----------------------------------------
(* The directory.                                                          *)

\* The frames in the order of their sequence numbers: their writes and their
\* generations follow it, and it is never ahead of the writes.
FramesOrdered ==
  /\ \A f, g \in frames : f.seq = g.seq => f = g
  /\ \A f, g \in frames : f.seq < g.seq => f.write < g.write /\ Generation(f) <= Generation(g)
  /\ \A f \in frames : f.seq <= f.write /\ f.write <= issued /\ Generation(f) <= meta.generation

Unpublished(f) == Generation(f) > meta.published

\* What is not published is described, and what is sealed is durable.
FramesDescribed ==
  /\ meta.published < meta.generation /\ meta.next <= issued + 1
  /\ \A s \in segments : meta.published < s[1]
  /\ \A f \in frames : Unpublished(f) => f.segment \in segments
  /\ \A f \in frames : Unpublished(f) /\ Generation(f) < meta.generation => f \in synced

\* What was acknowledged or sealed is published or in a durable frame.
FirmDurable ==
  \A b \in Blocks :
    \/ firm[b] <= meta.base[b]
    \/ \E f \in synced : Unpublished(f) /\ f.block = b /\ firm[b] <= f.write

\* The generations: sealed below the current one, older than the frames that
\* follow them, and captured and published as they were sealed.
SealsSound ==
  /\ \A g \in Generations : manifests[g] # Absent => meta.published < g /\ g < meta.generation
  /\ \A g \in Generations : manifests[g] \notin {Empty, Absent} => manifests[g] = snap[g]
  /\ meta.base = snap[meta.published]
  /\ \A g \in Generations : g < meta.generation => snap[g] \in [Blocks -> 0 .. issued]
  /\ \A g \in Generations : g >= meta.generation => snap[g] = Unsealed
  /\ \A g \in Generations, f \in frames :
        g < meta.generation /\ g < Generation(f) => snap[g][f.block] < f.write

(* What a read uses: the index in memory, or what recovery would index.    *)
Rec  == IF status = "open" THEN journal.records ELSE Described
Base == IF status = "open" THEN journal.base ELSE meta.base
Pub  == IF status = "open" THEN journal.published ELSE meta.published

\* A sealed generation that is not published reads as it did at its seal.
SealsReadable ==
  \A g \in Generations, b \in Blocks : Pub <= g /\ g < meta.generation =>
    snap[g][b] = ReadFrom(Rec, Base, g, b)

----------------------------------------
(* The open disk.                                                          *)

\* The index: a frame of every block and generation that has one, at least as
\* new as any other. No file of a later generation is being unlinked.
Later(g) == {n \in Nat : g < n}

IndexSound ==
  status = "open" =>
    /\ journal.published <= meta.published /\ journal.published \in Generations
    /\ journal.base = snap[journal.published]
    /\ journal.records \subseteq frames
    /\ \A r \in journal.records : journal.published < Generation(r)
    /\ \A f \in frames : journal.published < Generation(f) =>
         \E r \in journal.records :
            r.block = f.block /\ Generation(r) = Generation(f) /\ f.seq <= r.seq
    /\ \A s \in retired : s[1] \notin Later(journal.published)

\* The position of the next frame; a journal that failed takes no more.
PositionSound ==
  status = "open" =>
    /\ journal.next <= issued + 1 /\ journal.durable < journal.next
    /\ \A f \in frames : f.seq < journal.next
    /\ ~journal.failed => journal.generation = meta.generation
    /\ ~journal.failed /\ journal.active # NoSegment =>
         journal.active \in segments /\ journal.active[1] = journal.generation

Busy(w) == writer[w].pc \in {"describe", "frame"}
Waiting(w) == writer[w].pc \in {"staged", "syncing"}

\* The frame that a writer waits for.
FrameOf(w, f) ==
  /\ f.seq = writer[w].seq /\ f.block = writer[w].block /\ f.write = writer[w].write
  /\ Generation(f) = meta.generation

\* One writer appends at a time, on a journal that takes its frame.
OneAppends == \A v, w \in Writers : Busy(v) /\ Busy(w) => v = w

AppenderSound ==
  \A w \in Writers : Busy(w) =>
    /\ ~journal.failed /\ issued < MaxWrites /\ writer[w].block \in Blocks
    /\ writer[w].pc = "frame" => journal.active # NoSegment

WritersOpen == \A w \in Writers : writer[w].pc # "idle" => status = "open"

\* The others wait for frames of the current generation.
WaitersFramed == \A w \in Writers : Waiting(w) => \E f \in frames : FrameOf(w, f)

\* A sync has still to reach the files of the frames that are not durable.
SyncReaches ==
  \A w \in Writers : writer[w].pc = "syncing" =>
    /\ writer[w].seq <= writer[w].through /\ writer[w].through < journal.next
    /\ \A f \in frames \ synced :
         Unpublished(f) /\ f.seq <= writer[w].through => f.segment \in writer[w].left

WritersSound == OneAppends /\ AppenderSound /\ WritersOpen /\ WaitersFramed /\ SyncReaches

\* The newest frame of s is one that w waits for and that is not durable yet.
AwaitedBy(s, w) ==
  /\ Waiting(w) /\ journal.durable < writer[w].seq
  /\ \E f \in frames : f.segment = s /\ f.seq = writer[w].seq
  /\ \A f \in frames : f.segment = s => f.seq <= writer[w].seq

\* A sound journal knows the files that it has to sync, and somebody waits for
\* each of them.
PendingSound ==
  status = "open" /\ ~journal.failed =>
    /\ \A f \in frames \ synced : Unpublished(f) => f.segment \in journal.pending
    /\ \A f \in frames : Unpublished(f) /\ f.seq <= journal.durable => f \in synced
    /\ \A s \in journal.pending : \E w \in Writers : AwaitedBy(s, w)

\* A capture knows the blocks that changed up to its seal, and the base holds
\* the others as they were sealed.
CaptureSound ==
  capture # NoCapture =>
    /\ status = "open" /\ capture.generation \in Generations
    /\ meta.published < capture.generation /\ capture.generation < meta.generation
    /\ \A b \in Blocks \ capture.changed : capture.base[b] = snap[capture.generation][b]

Closed == status # "open" => capture = NoCapture /\ retired = {}

JournalInv ==
  /\ DiskTyped /\ MemoryTyped
  /\ FramesOrdered /\ FramesDescribed /\ FirmDurable /\ SealsSound /\ SealsReadable
  /\ IndexSound /\ PositionSound /\ WritersSound /\ PendingSound /\ CaptureSound /\ Closed
----------------------------------------
(* What a read returns.                                                    *)

\* A bounded set of numbers has a greatest element.
LEMMA BoundedMax ==
  ASSUME NEW S, S \subseteq Nat, S # {}, NEW n \in Nat, \A x \in S : x <= n
  PROVE  \E m \in S : \A x \in S : x <= m
<1> DEFINE T == {n - x : x \in S}
<1>1. T \subseteq Nat /\ T # {}
  <2>1. \A x \in S : n - x \in Nat
    OBVIOUS
  <2> QED
    BY <2>1
<1>2. PICK t \in T : \A y \in T : <<y, t>> \notin OpToRel(<, Nat)
  BY <1>1, WFMin, NatLessThanWellFounded, Zenon
<1>3. \A y \in T : ~(y < t)
  BY <1>1, <1>2 DEF OpToRel
<1>4. PICK m \in S : t = n - m
  OBVIOUS
<1>5. \A x \in S : x <= m
  <2>1. TAKE x \in S
  <2>2. n - x \in T
    OBVIOUS
  <2>3. ~(n - x < n - m)
    BY <1>3, <1>4, <2>2
  <2> QED
    BY <2>3
<1> QED
  BY <1>5

\* Frames that can be told apart by their sequence numbers.
Ordered(F) == F \subseteq FrameRec /\ \A f, g \in F : f.seq = g.seq => f = g

Holds(f, g, b) == f.block = b /\ Generation(f) <= g

\* f is the newest frame of block b in S, up to generation g.
IsNewest(S, g, b, f) ==
  f \in S /\ Holds(f, g, b) /\ \A x \in S : Holds(x, g, b) => x.seq <= f.seq

\* No frame of S has block b, up to generation g.
Without(S, g, b) == \A x \in S : ~Holds(x, g, b)

\* A read finds the newest frame.
LEMMA ReadNewest ==
  ASSUME NEW S, Ordered(S), NEW base, NEW g, NEW b, NEW f, IsNewest(S, g, b, f)
  PROVE  ReadFrom(S, base, g, b) = f.write
<1> DEFINE found == {x \in S : x.block = b /\ Generation(x) <= g}
<1>1. f \in found /\ \A x \in found : x.seq <= f.seq
  BY DEF IsNewest, Holds
<1>2. \A x \in found : (\A y \in found : y.seq <= x.seq) => x = f
  <2>1. SUFFICES ASSUME NEW x \in found, \A y \in found : y.seq <= x.seq PROVE x = f
    OBVIOUS
  <2>2. x.seq \in Nat /\ f.seq \in Nat
    BY <1>1 DEF Ordered, FrameRec
  <2>3. x.seq <= f.seq /\ f.seq <= x.seq
    BY <1>1, <2>1
  <2>4. x.seq = f.seq
    BY <2>2, <2>3
  <2> QED
    BY <1>1, <2>4 DEF Ordered
<1>3. Newest(found) = f
  BY <1>1, <1>2 DEF Newest
<1>4. found # {}
  BY <1>1
<1> HIDE DEF found
<1> QED
  BY <1>3, <1>4 DEF ReadFrom, found

\* A read that finds no frame finds the base.
LEMMA ReadBase ==
  ASSUME NEW S, NEW base, NEW g, NEW b, Without(S, g, b)
  PROVE  ReadFrom(S, base, g, b) = base[b]
BY DEF Without, Holds, ReadFrom

\* Among bounded sequence numbers there is a newest frame, or none at all.
LEMMA NewestOrNone ==
  ASSUME NEW S, Ordered(S), NEW n \in Nat, \A f \in S : f.seq <= n, NEW g, NEW b
  PROVE  Without(S, g, b) \/ \E f \in S : IsNewest(S, g, b, f)
<1> DEFINE found == {x \in S : Holds(x, g, b)}
           seqs == {x.seq : x \in found}
<1>1. CASE found = {}
  BY <1>1 DEF Without
<1>2. CASE found # {}
  <2>1. seqs \subseteq Nat /\ seqs # {} /\ \A x \in seqs : x <= n
    BY <1>2 DEF Ordered, FrameRec
  <2>2. PICK m \in seqs : \A x \in seqs : x <= m
    BY <2>1, BoundedMax
  <2>3. PICK f \in found : f.seq = m
    BY <2>2
  <2>4. IsNewest(S, g, b, f)
    BY <2>2, <2>3 DEF IsNewest
  <2> QED
    BY <2>4
<1> QED
  BY <1>1, <1>2

\* Sets that have frames of a block as new as each other's read the same.
Covers(S, T, g, b) ==
  \A x \in S : Holds(x, g, b) => \E y \in T : Holds(y, g, b) /\ x.seq <= y.seq

LEMMA SameRead ==
  ASSUME NEW F, Ordered(F), NEW n \in Nat, \A f \in F : f.seq <= n,
         NEW S, S \subseteq F, NEW T, T \subseteq F, NEW base, NEW g, NEW b,
         Covers(S, T, g, b), Covers(T, S, g, b)
  PROVE  ReadFrom(S, base, g, b) = ReadFrom(T, base, g, b)
<1>1. Ordered(S) /\ Ordered(T)
  BY DEF Ordered
<1>2. CASE Without(S, g, b)
  <2>1. Without(T, g, b)
    BY <1>2 DEF Without, Covers
  <2> QED
    BY <1>2, <2>1, ReadBase
<1>3. ASSUME NEW s \in S, IsNewest(S, g, b, s)
      PROVE  ReadFrom(S, base, g, b) = ReadFrom(T, base, g, b)
  <2>1. PICK t \in T : IsNewest(T, g, b, t)
    <3>1. ~Without(T, g, b)
      BY <1>3 DEF Without, Covers, IsNewest
    <3>2. \A f \in T : f.seq <= n
      OBVIOUS
    <3> QED
      BY <1>1, <3>1, <3>2, NewestOrNone
  <2>2. s.seq \in Nat /\ t.seq \in Nat
    BY <1>1 DEF Ordered, FrameRec
  <2>3. PICK y \in T : Holds(y, g, b) /\ s.seq <= y.seq
    BY <1>3 DEF IsNewest, Covers
  <2>4. PICK x \in S : Holds(x, g, b) /\ t.seq <= x.seq
    BY <2>1 DEF IsNewest, Covers
  <2>5. y.seq <= t.seq /\ x.seq <= s.seq /\ y.seq \in Nat /\ x.seq \in Nat
    BY <1>1, <1>3, <2>1, <2>3, <2>4 DEF IsNewest, Ordered, FrameRec
  <2>6. s.seq = t.seq
    BY <2>2, <2>3, <2>4, <2>5
  <2>7. s = t
    BY <2>6 DEF Ordered
  <2> QED
    BY <1>1, <1>3, <2>1, <2>7, ReadNewest
<1> QED
  BY <1>1, <1>2, <1>3, NewestOrNone

\* The index of a set has a frame of each block and generation that the set
\* has, at least as new as any other.
LEMMA IndexCovers ==
  ASSUME NEW S, Ordered(S), NEW n \in Nat, \A f \in S : f.seq <= n, NEW x \in S
  PROVE  \E y \in Indexed(S) :
           y.block = x.block /\ Generation(y) = Generation(x) /\ x.seq <= y.seq
<1> DEFINE same == {y \in S : Generation(y) = Generation(x) /\ y.block = x.block}
           seqs == {y.seq : y \in same}
<1>1. seqs \subseteq Nat /\ seqs # {} /\ \A m \in seqs : m <= n
  BY DEF Ordered, FrameRec
<1>2. PICK m \in seqs : \A k \in seqs : k <= m
  BY <1>1, BoundedMax
<1>3. PICK y \in same : y.seq = m
  BY <1>2
<1>4. y \in Indexed(S) /\ x.seq <= y.seq
  BY <1>2, <1>3 DEF Indexed
<1> QED
  BY <1>3, <1>4

\* Frames and generations follow the sequence numbers.
Chronicle(F) ==
  /\ Ordered(F)
  /\ \A f, g \in F : f.seq < g.seq => f.write < g.write /\ Generation(f) <= Generation(g)

\* Moving the base to the content of generation p, and leaving out the frames
\* that it contains, does not change what is read.
LEMMA Rebase ==
  ASSUME NEW F, Chronicle(F), NEW n \in Nat, \A f \in F : f.seq <= n,
         NEW S, S \subseteq F, NEW T, T \subseteq F, NEW base, NEW rebased,
         NEW p \in Nat, NEW g \in Nat, p <= g, NEW b,
         \A x \in T : Holds(x, g, b) => p < Generation(x),
         \A x \in S : Holds(x, g, b) /\ p < Generation(x) =>
                         \E y \in T : Holds(y, g, b) /\ x.seq <= y.seq,
         Covers(T, S, g, b),
         rebased[b] = ReadFrom(S, base, p, b)
  PROVE  ReadFrom(T, rebased, g, b) = ReadFrom(S, base, g, b)
<1>1. Ordered(S) /\ Ordered(T) /\ \A x \in F : Generation(x) \in Nat /\ x.seq \in Nat
  BY DEF Ordered, Chronicle, FrameRec, Segment, Generation
<1>2. CASE Without(T, g, b)
  <2>1. \A x \in S : Holds(x, g, b) <=> Holds(x, p, b)
    BY <1>1, <1>2 DEF Without, Holds
  <2>2. ReadFrom(S, base, p, b) = ReadFrom(S, base, g, b)
    <3>1. {x \in S : x.block = b /\ Generation(x) <= p}
            = {x \in S : x.block = b /\ Generation(x) <= g}
      BY <2>1 DEF Holds
    <3> QED
      BY <3>1 DEF ReadFrom
  <2> QED
    BY <1>2, <2>2, ReadBase
<1>3. ASSUME NEW t \in T, IsNewest(T, g, b, t)
      PROVE  ReadFrom(T, rebased, g, b) = ReadFrom(S, base, g, b)
  <2>1. PICK s \in S : IsNewest(S, g, b, s)
    <3>1. ~Without(S, g, b)
      BY <1>3 DEF Without, Covers, IsNewest
    <3>2. \A f \in S : f.seq <= n
      OBVIOUS
    <3> QED
      BY <1>1, <3>1, <3>2, NewestOrNone
  <2>2. t.seq <= s.seq
    <3>1. PICK x \in S : Holds(x, g, b) /\ t.seq <= x.seq
      BY <1>3 DEF IsNewest, Covers
    <3>2. x.seq <= s.seq
      BY <2>1, <3>1 DEF IsNewest
    <3> QED
      BY <1>1, <3>1, <3>2
  <2>3. p < Generation(s)
    <3>1. p < Generation(t)
      BY <1>3 DEF IsNewest
    <3>2. t = s \/ t.seq < s.seq
      BY <1>1, <2>2 DEF Chronicle, Ordered
    <3>3. Generation(t) <= Generation(s)
      BY <1>1, <3>2 DEF Chronicle
    <3> QED
      BY <1>1, <3>1, <3>3
  <2>4. s.seq <= t.seq
    <3>1. PICK y \in T : Holds(y, g, b) /\ s.seq <= y.seq
      BY <2>1, <2>3 DEF IsNewest
    <3>2. y.seq <= t.seq
      BY <1>3, <3>1 DEF IsNewest
    <3> QED
      BY <1>1, <3>1, <3>2
  <2>5. s = t
    BY <1>1, <2>2, <2>4 DEF Chronicle, Ordered
  <2> QED
    BY <1>1, <1>3, <2>1, <2>5, ReadNewest
<1> QED
  BY <1>1, <1>2, <1>3, NewestOrNone

\* A set of frames over a base that is older than each of them.
Layered(S, base, b, n) ==
  /\ Chronicle(S) /\ base[b] \in 0 .. n
  /\ \A x \in S : x.seq <= n /\ x.write <= n /\ (x.block = b => base[b] < x.write)

\* Such a read returns the base or one of the frames.
LEMMA ReadRange ==
  ASSUME NEW S, NEW base, NEW b, NEW n \in Nat, Layered(S, base, b, n), NEW g
  PROVE  /\ ReadFrom(S, base, g, b) \in base[b] .. n
         /\ base[b] \in Nat /\ ReadFrom(S, base, g, b) \in Nat
         /\ \A x \in S : Holds(x, g, b) => x.write <= ReadFrom(S, base, g, b)
<1>0. base[b] \in Nat
  BY DEF Layered
<1>1. Ordered(S) /\ \A x \in S : x.seq \in Nat /\ x.write \in Nat
  BY DEF Layered, Chronicle, Ordered, FrameRec
<1>2. CASE Without(S, g, b)
  <2>1. ReadFrom(S, base, g, b) = base[b]
    BY <1>2, ReadBase
  <2> QED
    BY <1>2, <2>1 DEF Layered, Without
<1>3. ASSUME NEW f \in S, IsNewest(S, g, b, f)
      PROVE  /\ ReadFrom(S, base, g, b) \in base[b] .. n
             /\ \A x \in S : Holds(x, g, b) => x.write <= ReadFrom(S, base, g, b)
  <2>1. ReadFrom(S, base, g, b) = f.write
    BY <1>1, <1>3, ReadNewest
  <2>2. f.write \in base[b] .. n
    BY <1>1, <1>3 DEF Layered, IsNewest, Holds
  <2>3. \A x \in S : Holds(x, g, b) => x.write <= f.write
    <3>1. SUFFICES ASSUME NEW x \in S, Holds(x, g, b) PROVE x.write <= f.write
      OBVIOUS
    <3>2. x = f \/ x.seq < f.seq
      BY <1>1, <1>3, <3>1 DEF IsNewest, Ordered
    <3> QED
      BY <1>1, <3>2 DEF Layered, Chronicle
  <2> QED
    BY <2>1, <2>2, <2>3
<1>4. \A f \in S : f.seq <= n
  BY DEF Layered
<1> QED
  BY <1>0, <1>1, <1>2, <1>3, <1>4, NewestOrNone

\* What a later generation reads was read before, or is newer.
LEMMA ReadSplit ==
  ASSUME NEW S, NEW base, NEW b, NEW n \in Nat, Layered(S, base, b, n),
         NEW p \in Nat, NEW g \in Nat, p <= g
  PROVE  \/ ReadFrom(S, base, g, b) = ReadFrom(S, base, p, b)
         \/ \E x \in S : /\ Holds(x, g, b) /\ p < Generation(x)
                         /\ ReadFrom(S, base, g, b) = x.write
<1>1. Ordered(S) /\ \A x \in S : Generation(x) \in Nat
  BY DEF Layered, Chronicle, Ordered, FrameRec, Segment, Generation
<1>2. CASE Without(S, g, b)
  <2>1. Without(S, p, b)
    BY <1>1, <1>2 DEF Without, Holds
  <2> QED
    BY <1>2, <2>1, ReadBase
<1>3. ASSUME NEW f \in S, IsNewest(S, g, b, f)
      PROVE  \/ ReadFrom(S, base, g, b) = ReadFrom(S, base, p, b)
             \/ \E x \in S : /\ Holds(x, g, b) /\ p < Generation(x)
                             /\ ReadFrom(S, base, g, b) = x.write
  <2>1. ReadFrom(S, base, g, b) = f.write
    BY <1>1, <1>3, ReadNewest
  <2>2. CASE p < Generation(f)
    BY <1>3, <2>1, <2>2 DEF IsNewest
  <2>3. CASE ~(p < Generation(f))
    <3>1. IsNewest(S, p, b, f)
      BY <1>1, <1>3, <2>3 DEF IsNewest, Holds
    <3> QED
      BY <1>1, <2>1, <3>1, ReadNewest
  <2> QED
    BY <2>2, <2>3
<1>4. \A f \in S : f.seq <= n
  BY DEF Layered
<1> QED
  BY <1>1, <1>2, <1>3, <1>4, NewestOrNone

\* Reads rise with the generation.
LEMMA ReadRises ==
  ASSUME NEW S, NEW base, NEW b, NEW n \in Nat, Layered(S, base, b, n),
         NEW p \in Nat, NEW g \in Nat, p <= g
  PROVE  ReadFrom(S, base, p, b) <= ReadFrom(S, base, g, b)
<1>1. base[b] \in Nat /\ ReadFrom(S, base, g, b) \in base[b] .. n
      /\ ReadFrom(S, base, p, b) \in base[b] .. n
  BY ReadRange
<1>2. Ordered(S) /\ \A x \in S : Generation(x) \in Nat
  BY DEF Layered, Chronicle, Ordered, FrameRec, Segment, Generation
<1>3. CASE Without(S, p, b)
  BY <1>1, <1>3, ReadBase
<1>4. ASSUME NEW f \in S, IsNewest(S, p, b, f)
      PROVE  ReadFrom(S, base, p, b) <= ReadFrom(S, base, g, b)
  <2>1. ReadFrom(S, base, p, b) = f.write
    BY <1>2, <1>4, ReadNewest
  <2>2. Holds(f, g, b)
    BY <1>2, <1>4 DEF IsNewest, Holds
  <2> QED
    BY <2>1, <2>2, ReadRange
<1>5. \A f \in S : f.seq <= n
  BY DEF Layered
<1> QED
  BY <1>2, <1>3, <1>4, <1>5, NewestOrNone
----------------------------------------
(* What the invariant says of reads.                                       *)

LEMMA Numbers ==
  ASSUME JournalInv
  PROVE  /\ issued \in Nat /\ issued <= MaxWrites
         /\ meta.generation \in Nat /\ meta.published \in Nat
         /\ meta.published \in Generations /\ meta.generation \in Generations
         /\ MaxWrites \in Nat /\ MaxGeneration \in Nat /\ MaxGeneration \in Generations
         /\ meta.generation <= MaxGeneration /\ meta.published < meta.generation
         /\ \A g \in Generations : g \in Nat /\ g <= MaxGeneration
         /\ \A f \in frames : /\ Generation(f) \in Nat /\ f.seq \in Nat /\ f.write \in Nat
                              /\ f.block \in Blocks /\ f.seq <= issued
                              /\ Generation(f) <= meta.generation
<1>1. MaxWrites \in Nat /\ MaxGeneration \in Nat
  BY JournalAssumption
<1>2. issued \in Nat /\ issued <= MaxWrites /\ meta.generation \in Generations
      /\ meta.published \in Generations
  BY <1>1 DEF JournalInv, DiskTyped, Writes
<1>3. \A f \in frames : Generation(f) \in Nat /\ f.seq \in Nat /\ f.write \in Nat
                        /\ f.block \in Blocks
  BY DEF JournalInv, DiskTyped, FrameRec, Segment, Generation
<1>4. \A f \in frames : f.seq <= f.write /\ f.write <= issued /\ Generation(f) <= meta.generation
  BY DEF JournalInv, FramesOrdered
<1>5. \A f \in frames : f.seq <= issued
  BY <1>2, <1>3, <1>4
<1>6. meta.published < meta.generation
  BY DEF JournalInv, FramesDescribed
<1> QED
  BY <1>1, <1>2, <1>3, <1>4, <1>5, <1>6 DEF Generations

LEMMA FramesChronicle ==
  ASSUME JournalInv
  PROVE  Chronicle(frames)
BY DEF JournalInv, DiskTyped, FramesOrdered, Chronicle, Ordered

LEMMA ChroniclePart ==
  ASSUME NEW F, Chronicle(F), NEW S, S \subseteq F
  PROVE  Chronicle(S)
BY DEF Chronicle, Ordered

\* A sealed content is older than the frames that follow it.
LEMMA SealLayers ==
  ASSUME JournalInv, NEW p \in Generations, p < meta.generation, NEW b \in Blocks,
         NEW S, S \subseteq frames, \A x \in S : p < Generation(x)
  PROVE  Layered(S, snap[p], b, issued)
<1>1. Chronicle(S)
  BY FramesChronicle, ChroniclePart
<1>2. snap[p] \in [Blocks -> 0 .. issued]
  BY DEF JournalInv, SealsSound
<1>3. \A x \in S : x.block = b => snap[p][b] < x.write
  BY DEF JournalInv, SealsSound
<1>4. \A x \in S : x.seq <= issued /\ x.write <= issued
  BY Numbers DEF JournalInv, FramesOrdered
<1> QED
  BY <1>1, <1>2, <1>3, <1>4 DEF Layered

LEMMA OpenLayers ==
  ASSUME JournalInv, status = "open", NEW b \in Blocks
  PROVE  Layered(journal.records, journal.base, b, issued)
<1>1. /\ journal.published \in Generations /\ journal.published <= meta.published
      /\ journal.base = snap[journal.published] /\ journal.records \subseteq frames
      /\ \A r \in journal.records : journal.published < Generation(r)
  BY DEF JournalInv, IndexSound
<1>2. journal.published < meta.generation
  BY <1>1, Numbers
<1> QED
  BY <1>1, <1>2, SealLayers

LEMMA ClosedLayers ==
  ASSUME JournalInv, NEW b \in Blocks
  PROVE  /\ Layered(Described, meta.base, b, issued)
         /\ Described \subseteq frames /\ \A f \in Described : meta.published < Generation(f)
<1>1. Described \subseteq frames /\ \A f \in Described : meta.published < Generation(f)
  BY DEF Described, JournalInv, FramesDescribed, Generation
<1>2. meta.base = snap[meta.published]
  BY DEF JournalInv, SealsSound
<1> QED
  BY <1>1, <1>2, Numbers, SealLayers

\* A frame that the index must know is in what is read.
LEMMA IndexSees ==
  ASSUME JournalInv, status = "open", NEW f \in frames, journal.published < Generation(f),
         NEW g \in Nat, Generation(f) <= g
  PROVE  f.write <= ReadFrom(journal.records, journal.base, g, f.block)
<1>1. PICK r \in journal.records :
        r.block = f.block /\ Generation(r) = Generation(f) /\ f.seq <= r.seq
  BY DEF JournalInv, IndexSound
<1>2. r \in frames
  BY DEF JournalInv, IndexSound
<1>3. f.block \in Blocks /\ Holds(r, g, f.block)
  BY <1>1, Numbers DEF Holds
<1>4. r.write <= ReadFrom(journal.records, journal.base, g, f.block)
  BY <1>3, OpenLayers, ReadRange, Numbers
<1>5. f = r \/ f.seq < r.seq
  BY <1>1, <1>2, Numbers, FramesChronicle DEF Chronicle, Ordered
<1>6. f.write <= r.write
  BY <1>2, <1>5, Numbers, FramesChronicle DEF Chronicle
<1>7. ReadFrom(journal.records, journal.base, g, f.block)
         \in journal.base[f.block] .. issued /\ journal.base[f.block] \in Nat
  BY <1>3, OpenLayers, ReadRange, Numbers
<1> QED
  BY <1>2, <1>4, <1>6, <1>7, Numbers

\* The base that was published last is what the index reads at its seal.
LEMMA PublishedRead ==
  ASSUME JournalInv, status = "open", NEW b \in Blocks
  PROVE  meta.base[b] = ReadFrom(journal.records, journal.base, meta.published, b)
<1>1. journal.published <= meta.published
  BY DEF JournalInv, IndexSound
<1>2. snap[meta.published][b] = ReadFrom(journal.records, journal.base, meta.published, b)
  BY <1>1, Numbers DEF JournalInv, SealsReadable, Rec, Base, Pub
<1> QED
  BY <1>2 DEF JournalInv, SealsSound

\* What is firm is what is read, or older.
LEMMA FirmRead ==
  ASSUME JournalInv, NEW b \in Blocks
  PROVE  /\ status = "open" =>
              firm[b] <= ReadFrom(journal.records, journal.base, MaxGeneration, b)
         /\ firm[b] <= ReadFrom(Described, meta.base, MaxGeneration, b)
         /\ firm[b] \in Nat
<1>1. firm[b] \in Nat /\ meta.base[b] \in Int
  BY JournalAssumption DEF JournalInv, DiskTyped, Contents, Writes, Anything
<1>2. /\ meta.base[b] \in Nat
      /\ ReadFrom(Described, meta.base, MaxGeneration, b) \in meta.base[b] .. issued
  BY ClosedLayers, ReadRange, Numbers
<1>3. CASE firm[b] <= meta.base[b]
  <2>1. firm[b] <= ReadFrom(Described, meta.base, MaxGeneration, b)
    BY <1>1, <1>2, <1>3
  <2>2. ASSUME status = "open"
        PROVE  firm[b] <= ReadFrom(journal.records, journal.base, MaxGeneration, b)
    <3>1. meta.base[b] <= ReadFrom(journal.records, journal.base, MaxGeneration, b)
      BY <2>2, PublishedRead, OpenLayers, ReadRises, Numbers
    <3>2. ReadFrom(journal.records, journal.base, MaxGeneration, b)
            \in journal.base[b] .. issued /\ journal.base[b] \in Nat
      BY <2>2, OpenLayers, ReadRange, Numbers
    <3> QED
      BY <1>1, <1>3, <3>1, <3>2
  <2> QED
    BY <1>1, <2>1, <2>2
<1>4. ASSUME NEW f \in synced, Unpublished(f), f.block = b, firm[b] <= f.write
      PROVE  /\ status = "open" =>
                  firm[b] <= ReadFrom(journal.records, journal.base, MaxGeneration, b)
             /\ firm[b] <= ReadFrom(Described, meta.base, MaxGeneration, b)
  <2>1. f \in frames
    BY DEF JournalInv, DiskTyped
  <2>2. Generation(f) <= MaxGeneration /\ f.write \in Nat
    BY <2>1, Numbers
  <2>3. f \in Described
    BY <1>4, <2>1 DEF Described, JournalInv, FramesDescribed
  <2>4. f.write <= ReadFrom(Described, meta.base, MaxGeneration, b)
    BY <1>4, <2>2, <2>3, ClosedLayers, ReadRange, Numbers DEF Holds
  <2>5. ASSUME status = "open"
        PROVE  firm[b] <= ReadFrom(journal.records, journal.base, MaxGeneration, b)
    <3>1. journal.published <= meta.published /\ journal.published \in Nat
      BY <2>5, Numbers DEF JournalInv, IndexSound
    <3>2. journal.published < Generation(f)
      BY <1>4, <2>1, <3>1, Numbers DEF Unpublished
    <3>3. f.write <= ReadFrom(journal.records, journal.base, MaxGeneration, b)
      BY <1>4, <2>1, <2>2, <2>5, <3>2, IndexSees, Numbers
    <3>4. ReadFrom(journal.records, journal.base, MaxGeneration, b)
            \in journal.base[b] .. issued /\ journal.base[b] \in Nat
      BY <2>5, OpenLayers, ReadRange, Numbers
    <3> QED
      BY <1>1, <1>4, <2>2, <3>3, <3>4
  <2> QED
    BY <1>1, <1>2, <1>4, <2>2, <2>4, <2>5
<1> QED
  BY <1>1, <1>3, <1>4 DEF JournalInv, FirmDurable
----------------------------------------
(* What a step leaves as it was.                                           *)

LEMMA DiskKept ==
  ASSUME JournalInv,
         UNCHANGED <<frames, synced, segments, meta, manifests, issued, firm, snap>>
  PROVE  /\ DiskTyped' /\ FramesOrdered' /\ FramesDescribed' /\ FirmDurable' /\ SealsSound'
BY DEF JournalInv, DiskTyped, FramesOrdered, FramesDescribed, FirmDurable, SealsSound, Unpublished

LEMMA ReadsKept ==
  ASSUME JournalInv, status = "open",
         UNCHANGED <<status, frames, meta, snap, retired>>,
         journal'.records = journal.records, journal'.base = journal.base,
         journal'.published = journal.published
  PROVE  SealsReadable' /\ IndexSound'
BY DEF JournalInv, SealsReadable, IndexSound, Rec, Base, Pub

LEMMA CaptureKept ==
  ASSUME JournalInv, UNCHANGED <<status, capture, meta, snap, retired>>
  PROVE  CaptureSound' /\ Closed'
BY DEF JournalInv, CaptureSound, Closed

LEMMA Failed ==
  ASSUME JournalInv, Fail
  PROVE  /\ journal' \in JournalRec /\ journal'.failed = TRUE
         /\ journal'.records = journal.records /\ journal'.base = journal.base
         /\ journal'.published = journal.published /\ journal'.active = journal.active
         /\ journal'.next = journal.next /\ journal'.durable = journal.durable
         /\ journal'.pending = journal.pending /\ journal'.generation = journal.generation
<1>1. journal \in JournalRec
  BY DEF JournalInv, MemoryTyped
<1> QED
  BY <1>1, Zenon DEF Fail, JournalRec

LEMMA IdleTyped == IdleWriter \in WriterRec
BY DEF IdleWriter, WriterRec, WriterPcs

\* A journal that failed claims nothing of its position or of its files.
LEMMA FailedSound ==
  ASSUME JournalInv, status = "open", Fail, UNCHANGED <<frames, issued>>
  PROVE  PositionSound' /\ PendingSound'
BY Failed DEF JournalInv, PositionSound, PendingSound

\* A writer that returns leaves the others as they are.
LEMMA WriterReturns ==
  ASSUME JournalInv, status = "open", NEW w \in Writers,
         writer' = [writer EXCEPT ![w] = IdleWriter],
         UNCHANGED <<status, frames, synced, issued>>,
         meta'.generation = meta.generation, meta'.published = meta.published,
         journal'.next = journal.next, journal'.active = journal.active,
         Busy(w) \/ journal'.failed = journal.failed \/ JournalFree
  PROVE  WritersSound' /\ writer' \in [Writers -> WriterRec]
<1>1. writer \in [Writers -> WriterRec]
  BY DEF JournalInv, MemoryTyped
<1>2. /\ writer' \in [Writers -> WriterRec] /\ writer'[w] = IdleWriter
      /\ \A v \in Writers : v # w => writer'[v] = writer[v]
  BY <1>1, IdleTyped
<1>3. ~Busy(w)' /\ ~Waiting(w)' /\ writer'[w].pc = "idle"
  BY <1>2 DEF IdleWriter, Busy, Waiting
<1>4. \A v \in Writers : v # w => (Busy(v)' <=> Busy(v)) /\ (Waiting(v)' <=> Waiting(v))
  BY <1>2 DEF Busy, Waiting
<1>5. OneAppends'
  BY <1>3, <1>4 DEF OneAppends, JournalInv, WritersSound
<1>6. AppenderSound'
  <2>1. SUFFICES ASSUME NEW v \in Writers, Busy(v)'
                 PROVE  /\ ~journal'.failed /\ issued' < MaxWrites /\ writer'[v].block \in Blocks
                        /\ writer'[v].pc = "frame" => journal'.active # NoSegment
    BY DEF AppenderSound
  <2>2. v # w /\ Busy(v) /\ writer'[v] = writer[v]
    BY <1>2, <1>3, <1>4, <2>1
  <2>3. journal'.failed = journal.failed
    BY <2>2 DEF JournalInv, WritersSound, OneAppends, JournalFree, Busy
  <2> QED
    BY <2>2, <2>3 DEF JournalInv, WritersSound, AppenderSound
<1>7. WritersOpen'
  BY DEF WritersOpen
<1>8. WaitersFramed'
  BY <1>2, <1>3, <1>4 DEF WaitersFramed, FrameOf, JournalInv, WritersSound
<1>9. SyncReaches'
  BY <1>2, <1>3 DEF SyncReaches, Unpublished, JournalInv, WritersSound
<1> QED
  BY <1>2, <1>5, <1>6, <1>7, <1>8, <1>9 DEF WritersSound
----------------------------------------
(* The steps of a writer.                                                  *)

\* A writer that starts to append.
LEMMA Begins ==
  ASSUME JournalInv, NEW w \in Writers, NEW b \in Blocks, NEW pc \in {"describe", "frame"},
         status = "open", writer[w].pc = "idle", JournalFree, ~journal.failed,
         issued < MaxWrites, pc = "frame" => journal.active # NoSegment,
         writer' = [writer EXCEPT ![w] = [IdleWriter EXCEPT !.pc = pc, !.block = b]],
         UNCHANGED <<journal, status, frames, synced, segments, meta, issued>>
  PROVE  /\ WritersSound' /\ PositionSound' /\ PendingSound'
         /\ writer' \in [Writers -> WriterRec]
<1>1. writer \in [Writers -> WriterRec]
  BY DEF JournalInv, MemoryTyped
<1>2. /\ writer' \in [Writers -> WriterRec]
      /\ writer'[w].pc = pc /\ writer'[w].block = b
      /\ \A v \in Writers : v # w => writer'[v] = writer[v]
  BY <1>1 DEF IdleWriter, WriterRec, WriterPcs
<1>3. /\ Busy(w)' /\ ~Waiting(w)' /\ ~Waiting(w)
      /\ \A v \in Writers : v # w => ~Busy(v)' /\ (Waiting(v)' <=> Waiting(v))
  BY <1>2 DEF Busy, Waiting, JournalFree
<1>4. OneAppends' /\ AppenderSound' /\ WritersOpen'
  BY <1>2, <1>3 DEF OneAppends, AppenderSound, WritersOpen
<1>5. WaitersFramed'
  BY <1>2, <1>3 DEF WaitersFramed, FrameOf, JournalInv, WritersSound
<1>6. SyncReaches'
  BY <1>2 DEF SyncReaches, Unpublished, JournalInv, WritersSound
<1>7. PositionSound'
  BY DEF PositionSound, JournalInv
<1>8. PendingSound'
  <2>1. \A s, v : v \in Writers /\ AwaitedBy(s, v) => AwaitedBy(s, v)'
    BY <1>2, <1>3 DEF AwaitedBy
  <2> QED
    BY <2>1 DEF PendingSound, Unpublished, JournalInv
<1> QED
  BY <1>2, <1>4, <1>5, <1>6, <1>7, <1>8 DEF WritersSound

LEMMA AppendBeginKeeps ==
  ASSUME JournalInv, NEW w \in Writers, AppendBegin(w)
  PROVE  JournalInv'
<1>0. /\ status = "open" /\ writer[w].pc = "idle" /\ JournalFree /\ ~journal.failed
      /\ issued < MaxWrites
      /\ UNCHANGED <<frames, synced, segments, meta, manifests, status, capture, retired,
                     issued, firm, snap>>
  BY DEF AppendBegin, dbVars
<1>1. DiskTyped' /\ FramesOrdered' /\ FramesDescribed' /\ FirmDurable' /\ SealsSound'
  BY <1>0, DiskKept
<1>2. CaptureSound' /\ Closed'
  BY <1>0, CaptureKept
<1>3. PICK b \in Blocks :
        \/ /\ ~NeedsSegment
           /\ writer' = [writer EXCEPT ![w] = [IdleWriter EXCEPT !.pc = "frame", !.block = b]]
           /\ UNCHANGED journal
        \/ /\ writer' = [writer EXCEPT ![w] = [IdleWriter EXCEPT !.pc = "describe", !.block = b]]
           /\ UNCHANGED journal
        \/ Fail /\ UNCHANGED writer
  BY DEF AppendBegin, SetWriter
<1>4. CASE /\ ~NeedsSegment
           /\ writer' = [writer EXCEPT ![w] = [IdleWriter EXCEPT !.pc = "frame", !.block = b]]
           /\ UNCHANGED journal
  <2>1. journal.active # NoSegment
    BY <1>4 DEF NeedsSegment
  <2>2. WritersSound' /\ PositionSound' /\ PendingSound' /\ writer' \in [Writers -> WriterRec]
    BY <1>0, <1>4, <2>1, Begins
  <2>3. SealsReadable' /\ IndexSound'
    BY <1>0, <1>4, ReadsKept
  <2>4. MemoryTyped'
    BY <1>0, <1>4, <2>2 DEF MemoryTyped, JournalInv
  <2> QED
    BY <1>1, <1>2, <2>2, <2>3, <2>4 DEF JournalInv
<1>5. CASE /\ writer' = [writer EXCEPT ![w] = [IdleWriter EXCEPT !.pc = "describe", !.block = b]]
           /\ UNCHANGED journal
  <2>2. WritersSound' /\ PositionSound' /\ PendingSound' /\ writer' \in [Writers -> WriterRec]
    BY <1>0, <1>5, Begins
  <2>3. SealsReadable' /\ IndexSound'
    BY <1>0, <1>5, ReadsKept
  <2>4. MemoryTyped'
    BY <1>0, <1>5, <2>2 DEF MemoryTyped, JournalInv
  <2> QED
    BY <1>1, <1>2, <2>2, <2>3, <2>4 DEF JournalInv
<1>6. CASE Fail /\ UNCHANGED writer
  <2>1. PositionSound' /\ PendingSound'
    BY <1>0, <1>6, FailedSound
  <2>2. SealsReadable' /\ IndexSound'
    BY <1>0, <1>6, Failed, ReadsKept
  <2>3. MemoryTyped'
    BY <1>0, <1>6, Failed DEF MemoryTyped, JournalInv
  <2>4. WritersSound'
    <3>1. \A v \in Writers : ~Busy(v)' /\ (Waiting(v)' <=> Waiting(v))
      BY <1>0, <1>6 DEF Busy, Waiting, JournalFree
    <3>2. OneAppends' /\ AppenderSound' /\ WritersOpen'
      BY <1>0, <3>1 DEF OneAppends, AppenderSound, WritersOpen
    <3>3. WaitersFramed'
      BY <1>0, <1>6, <3>1 DEF WaitersFramed, FrameOf, JournalInv, WritersSound
    <3>4. SyncReaches'
      BY <1>0, <1>6, Failed DEF SyncReaches, Unpublished, JournalInv, WritersSound
    <3> QED
      BY <3>2, <3>3, <3>4 DEF WritersSound
  <2> QED
    BY <1>1, <1>2, <2>1, <2>2, <2>3, <2>4 DEF JournalInv
<1> QED
  BY <1>3, <1>4, <1>5, <1>6

\* A transaction describes a new segment.
LEMMA DescribeKeeps ==
  ASSUME JournalInv, ~journal.failed, status = "open",
         segments' = segments \cup {NewName}, meta' = [meta EXCEPT !.next = journal.next],
         UNCHANGED <<frames, synced, manifests, issued, firm, snap>>
  PROVE  /\ DiskTyped' /\ FramesOrdered' /\ FramesDescribed' /\ FirmDurable' /\ SealsSound'
         /\ meta'.generation = meta.generation /\ meta'.published = meta.published
         /\ meta'.base = meta.base
<1>1. journal \in JournalRec
  BY DEF JournalInv, MemoryTyped
<1>2. journal.generation \in Nat /\ journal.next \in Nat \ {0} /\ journal.next <= issued + 1
      /\ journal.generation = meta.generation
  BY <1>1 DEF JournalInv, PositionSound, JournalRec
<1>3. /\ meta'.generation = meta.generation /\ meta'.published = meta.published
      /\ meta'.base = meta.base /\ meta'.next = journal.next
      /\ meta' \in [generation : Generations \ {0}, next : Nat \ {0}, published : Generations,
                    base : Anything]
  BY <1>2 DEF JournalInv, DiskTyped
<1>4. NewName \in Segment /\ NewName[1] = meta.generation
  BY <1>2 DEF NewName, Segment
<1>5. DiskTyped'
  BY <1>3, <1>4 DEF DiskTyped, JournalInv
<1>6. FramesOrdered'
  BY <1>3 DEF FramesOrdered, JournalInv
<1>7. FramesDescribed'
  BY <1>2, <1>3, <1>4 DEF FramesDescribed, Unpublished, JournalInv
<1>8. FirmDurable' /\ SealsSound'
  BY <1>3 DEF FirmDurable, SealsSound, Unpublished, JournalInv
<1> QED
  BY <1>3, <1>5, <1>6, <1>7, <1>8

LEMMA AppendDescribeKeeps ==
  ASSUME JournalInv, NEW w \in Writers, AppendDescribe(w)
  PROVE  JournalInv'
<1>0. /\ writer[w].pc = "describe"
      /\ UNCHANGED <<frames, synced, manifests, status, capture, retired, issued, firm, snap>>
  BY DEF AppendDescribe, diskVars
<1>1. Busy(w) /\ status = "open" /\ ~journal.failed /\ issued < MaxWrites
      /\ writer[w].block \in Blocks
  BY <1>0 DEF Busy, JournalInv, WritersSound, WritersOpen, AppenderSound
<1>2. CASE Fail /\ writer' = [writer EXCEPT ![w] = IdleWriter] /\ UNCHANGED <<segments, meta>>
  <2>1. DiskTyped' /\ FramesOrdered' /\ FramesDescribed' /\ FirmDurable' /\ SealsSound'
    BY <1>0, <1>2, DiskKept
  <2>2. CaptureSound' /\ Closed'
    BY <1>0, <1>2, CaptureKept
  <2>3. SealsReadable' /\ IndexSound'
    BY <1>0, <1>1, <1>2, Failed, ReadsKept
  <2>4. PositionSound' /\ PendingSound'
    BY <1>0, <1>1, <1>2, FailedSound
  <2>5. WritersSound' /\ writer' \in [Writers -> WriterRec]
    BY <1>0, <1>1, <1>2, Failed, WriterReturns
  <2>6. MemoryTyped'
    BY <1>0, <1>2, <2>5, Failed DEF MemoryTyped, JournalInv
  <2> QED
    BY <2>1, <2>2, <2>3, <2>4, <2>5, <2>6 DEF JournalInv
<1>3. CASE /\ segments' = segments \cup {NewName}
           /\ meta' = [meta EXCEPT !.next = journal.next]
           /\ journal' = [journal EXCEPT !.active = NewName]
           /\ writer' = [writer EXCEPT ![w] = [writer[w] EXCEPT !.pc = "frame"]]
  <2>1. DiskTyped' /\ FramesOrdered' /\ FramesDescribed' /\ FirmDurable' /\ SealsSound'
        /\ meta'.generation = meta.generation /\ meta'.published = meta.published
        /\ meta'.base = meta.base
    BY <1>0, <1>1, <1>3, DescribeKeeps
  <2>2. journal \in JournalRec /\ writer \in [Writers -> WriterRec]
    BY DEF JournalInv, MemoryTyped
  <2>3. journal.generation \in Nat /\ journal.generation # 0 /\ journal.next \in Nat
        /\ journal.generation = meta.generation
    <3>1. journal.generation \in Nat /\ journal.next \in Nat
      BY <2>2 DEF JournalRec
    <3>2. journal.generation = meta.generation
      BY <1>1 DEF JournalInv, PositionSound
    <3>3. meta.published \in Nat /\ meta.published < meta.generation
      BY Numbers
    <3> QED
      BY <3>1, <3>2, <3>3
  <2>4. NewName \in Segment /\ NewName # NoSegment /\ NewName[1] = journal.generation
    BY <2>3 DEF NewName, Segment, NoSegment
  <2>5. /\ journal' \in JournalRec /\ journal'.failed = journal.failed
        /\ journal'.records = journal.records /\ journal'.base = journal.base
        /\ journal'.published = journal.published /\ journal'.active = NewName
        /\ journal'.next = journal.next /\ journal'.durable = journal.durable
        /\ journal'.pending = journal.pending /\ journal'.generation = journal.generation
    BY <1>3, <2>2, <2>4, Zenon DEF JournalRec
  <2>6. /\ writer' \in [Writers -> WriterRec]
        /\ writer'[w].pc = "frame" /\ writer'[w].block = writer[w].block
        /\ \A v \in Writers : v # w => writer'[v] = writer[v]
    BY <1>3, <2>2 DEF WriterRec, WriterPcs
  <2>7. /\ Busy(w)' /\ ~Waiting(w)' /\ ~Waiting(w)
        /\ \A v \in Writers : v # w => (Busy(v)' <=> Busy(v)) /\ (Waiting(v)' <=> Waiting(v))
    BY <1>0, <2>6 DEF Busy, Waiting
  <2>8. WritersSound'
    <3>1. OneAppends'
      BY <1>1, <2>7 DEF OneAppends, JournalInv, WritersSound
    <3>2. AppenderSound'
      BY <1>0, <1>1, <2>4, <2>5, <2>6, <2>7 DEF AppenderSound, OneAppends, JournalInv, WritersSound
    <3>3. WritersOpen'
      BY <1>0, <1>1 DEF WritersOpen
    <3>4. WaitersFramed'
      BY <1>0, <2>1, <2>6, <2>7 DEF WaitersFramed, FrameOf, JournalInv, WritersSound
    <3>5. SyncReaches'
      BY <1>0, <2>1, <2>5, <2>6 DEF SyncReaches, Unpublished, JournalInv, WritersSound
    <3> QED
      BY <3>1, <3>2, <3>3, <3>4, <3>5 DEF WritersSound
  <2>9. PositionSound'
    BY <1>0, <1>1, <1>3, <2>1, <2>3, <2>4, <2>5 DEF PositionSound, JournalInv
  <2>10. PendingSound'
    <3>1. \A s, v : v \in Writers /\ AwaitedBy(s, v) => AwaitedBy(s, v)'
      BY <1>0, <2>5, <2>6, <2>7 DEF AwaitedBy
    <3> QED
      BY <1>0, <1>1, <2>1, <2>5, <3>1 DEF PendingSound, Unpublished, JournalInv
  <2>11. SealsReadable' /\ IndexSound'
    BY <1>0, <1>1, <2>1, <2>5 DEF JournalInv, SealsReadable, IndexSound, Rec, Base, Pub
  <2>12. CaptureSound' /\ Closed'
    BY <1>0, <2>1 DEF JournalInv, CaptureSound, Closed
  <2>13. MemoryTyped'
    BY <1>0, <2>5, <2>6 DEF MemoryTyped, JournalInv
  <2> QED
    BY <2>1, <2>8, <2>9, <2>10, <2>11, <2>12, <2>13 DEF JournalInv
<1> QED
  BY <1>2, <1>3 DEF AppendDescribe, SetWriter

LEMMA AppendErrorKeeps ==
  ASSUME JournalInv, NEW w \in Writers, AppendError(w)
  PROVE  JournalInv'
<1>0. /\ writer[w].pc \in {"describe", "frame"} /\ Fail
      /\ writer' = [writer EXCEPT ![w] = IdleWriter]
      /\ UNCHANGED <<frames, synced, manifests, status, capture, retired, issued, firm, snap>>
      /\ \/ UNCHANGED <<segments, meta>>
         \/ segments' = segments \cup {NewName} /\ meta' = [meta EXCEPT !.next = journal.next]
  BY DEF AppendError, SetWriter
<1>1. Busy(w) /\ status = "open" /\ ~journal.failed
  BY <1>0 DEF Busy, JournalInv, WritersSound, WritersOpen, AppenderSound
<1>2. DiskTyped' /\ FramesOrdered' /\ FramesDescribed' /\ FirmDurable' /\ SealsSound'
      /\ meta'.generation = meta.generation /\ meta'.published = meta.published
      /\ meta'.base = meta.base
  <2>1. CASE UNCHANGED <<segments, meta>>
    BY <1>0, <2>1, DiskKept
  <2>2. CASE segments' = segments \cup {NewName} /\ meta' = [meta EXCEPT !.next = journal.next]
    BY <1>0, <1>1, <2>2, DescribeKeeps
  <2> QED
    BY <1>0, <2>1, <2>2
<1>3. CaptureSound' /\ Closed'
  BY <1>0, <1>2 DEF JournalInv, CaptureSound, Closed
<1>4. SealsReadable' /\ IndexSound'
  BY <1>0, <1>1, <1>2, Failed, ZenonT(40) DEF JournalInv, SealsReadable, IndexSound, Rec, Base, Pub
<1>5. PositionSound' /\ PendingSound'
  BY <1>0, <1>1, FailedSound
<1>6. WritersSound' /\ writer' \in [Writers -> WriterRec]
  BY <1>0, <1>1, <1>2, Failed, WriterReturns
<1>7. MemoryTyped'
  BY <1>0, <1>6, Failed DEF MemoryTyped, JournalInv
<1> QED
  BY <1>2, <1>3, <1>4, <1>5, <1>6, <1>7 DEF JournalInv

LEMMA AppendFrameKeeps ==
  ASSUME JournalInv, NEW w \in Writers, AppendFrame(w)
  PROVE  JournalInv'
<1>a. PICK f : f = [segment |-> journal.active, seq |-> journal.next,
                    block |-> writer[w].block, write |-> issued + 1]
  OBVIOUS
<1>0. /\ writer[w].pc = "frame" /\ frames' = frames \cup {f} /\ issued' = issued + 1
      /\ journal' = [journal EXCEPT !.records = Indexed(@ \cup {f}), !.next = @ + 1,
                                    !.pending = @ \cup {journal.active}]
      /\ writer' = [writer EXCEPT ![w] = [writer[w] EXCEPT !.pc = "staged",
                                            !.seq = journal.next, !.write = issued + 1]]
      /\ UNCHANGED <<synced, segments, meta, manifests, status, capture, retired, firm, snap>>
  BY <1>a DEF AppendFrame, SetWriter, dbVars
<1>1. /\ Busy(w) /\ status = "open" /\ ~journal.failed /\ issued < MaxWrites
      /\ writer[w].block \in Blocks /\ journal.active # NoSegment
  BY <1>0 DEF Busy, JournalInv, WritersSound, WritersOpen, AppenderSound
<1>2. journal \in JournalRec /\ writer \in [Writers -> WriterRec] /\ journal.next \in Nat
      /\ journal.active \in Segment /\ journal.records \subseteq FrameRec
      /\ journal.pending \subseteq Segment /\ journal.durable \in Nat
  BY DEF JournalInv, MemoryTyped, JournalRec
<1>3. /\ journal.generation = meta.generation /\ journal.active \in segments
      /\ journal.active[1] = meta.generation
      /\ journal.next <= issued + 1 /\ journal.durable < journal.next
      /\ \A x \in frames : x.seq < journal.next
  BY <1>1 DEF JournalInv, PositionSound
<1>4. f \in FrameRec /\ Generation(f) = meta.generation /\ f.segment = journal.active
      /\ f.seq = journal.next /\ f.block = writer[w].block /\ f.write = issued + 1
  BY <1>a, <1>1, <1>2, <1>3, Numbers DEF FrameRec, Generation
<1>5. /\ journal' \in JournalRec /\ journal'.failed = journal.failed
      /\ journal'.records = Indexed(journal.records \cup {f}) /\ journal'.base = journal.base
      /\ journal'.published = journal.published /\ journal'.active = journal.active
      /\ journal'.next = journal.next + 1 /\ journal'.durable = journal.durable
      /\ journal'.pending = journal.pending \cup {journal.active}
      /\ journal'.generation = journal.generation
  <2>1. Indexed(journal.records \cup {f}) \subseteq FrameRec
    BY <1>2, <1>4 DEF Indexed
  <2>2. journal.next + 1 \in Nat \ {0}
    BY <1>2
  <2>3. journal.pending \cup {journal.active} \subseteq Segment
    BY <1>2
  <2> QED
    BY <1>0, <1>2, <2>1, <2>2, <2>3, Zenon DEF JournalRec
<1>6. /\ writer' \in [Writers -> WriterRec]
      /\ writer'[w].pc = "staged" /\ writer'[w].block = writer[w].block
      /\ writer'[w].seq = journal.next /\ writer'[w].write = issued + 1
      /\ \A v \in Writers : v # w => writer'[v] = writer[v]
  <2>1. issued + 1 \in Nat
    BY Numbers
  <2>2. PICK new : new = [writer[w] EXCEPT !.pc = "staged", !.seq = journal.next,
                                           !.write = issued + 1]
    OBVIOUS
  <2>3. /\ new \in WriterRec /\ new.pc = "staged" /\ new.block = writer[w].block
        /\ new.seq = journal.next /\ new.write = issued + 1
    BY <1>2, <2>1, <2>2 DEF WriterRec, WriterPcs
  <2> QED
    BY <1>0, <1>2, <2>2, <2>3
<1>7. /\ ~Busy(w)' /\ Waiting(w)' /\ ~Waiting(w)
      /\ \A v \in Writers : v # w => (Busy(v)' <=> Busy(v)) /\ (Waiting(v)' <=> Waiting(v))
  BY <1>0, <1>6 DEF Busy, Waiting
<1>8. \A v \in Writers : ~Busy(v)'
  BY <1>1, <1>7 DEF JournalInv, WritersSound, OneAppends
<1>9. DiskTyped'
  BY <1>0, <1>1, <1>4, Numbers DEF DiskTyped, Writes, JournalInv
<1>10. FramesOrdered'
  <2>1. \A x \in frames : x.seq < f.seq /\ x.write < f.write /\ Generation(x) <= Generation(f)
    BY <1>3, <1>4, Numbers DEF JournalInv, FramesOrdered
  <2>2. f.seq <= f.write /\ f.write <= issued' /\ Generation(f) <= meta'.generation
    BY <1>0, <1>3, <1>4, Numbers
  <2>3. \A x \in frames : x.seq # f.seq /\ ~(f.seq < x.seq)
    BY <1>2, <1>4, <2>1, Numbers
  <2>4. f.seq \in Nat /\ ~(f.seq < f.seq)
    BY <1>2, <1>4
  <2>5. \A x, y \in frames' : x.seq = y.seq => x = y
    BY <1>0, <2>3 DEF JournalInv, FramesOrdered
  <2>6. \A x, y \in frames' : x.seq < y.seq => x.write < y.write /\ Generation(x) <= Generation(y)
    BY <1>0, <2>1, <2>3, <2>4 DEF JournalInv, FramesOrdered
  <2>7. \A x \in frames' :
          x.seq <= x.write /\ x.write <= issued' /\ Generation(x) <= meta'.generation
    <3>1. \A x \in frames : x.write <= issued + 1
      BY Numbers DEF JournalInv, FramesOrdered
    <3> QED
      BY <1>0, <2>2, <3>1 DEF JournalInv, FramesOrdered
  <2> QED
    BY <2>5, <2>6, <2>7 DEF FramesOrdered
<1>11. FramesDescribed'
  BY <1>0, <1>3, <1>4, Numbers DEF FramesDescribed, Unpublished, JournalInv, DiskTyped
<1>12. FirmDurable'
  BY <1>0 DEF FirmDurable, Unpublished, JournalInv
<1>13. SealsSound'
  <2>1. \A g \in Generations : g < meta.generation => snap[g] \in [Blocks -> 0 .. issued + 1]
    <3>1. SUFFICES ASSUME NEW g \in Generations, g < meta.generation
                   PROVE  snap[g] \in [Blocks -> 0 .. issued + 1]
      OBVIOUS
    <3>2. snap[g] \in [Blocks -> 0 .. issued]
      BY <3>1 DEF JournalInv, SealsSound
    <3>3. 0 .. issued \subseteq 0 .. issued + 1
      BY Numbers
    <3> QED
      BY <3>2, <3>3
  <2>2. \A g \in Generations : g < meta.generation => snap[g][f.block] < f.write
    <3>1. SUFFICES ASSUME NEW g \in Generations, g < meta.generation
                   PROVE  snap[g][f.block] < f.write
      OBVIOUS
    <3>2. snap[g] \in [Blocks -> 0 .. issued]
      BY <3>1 DEF JournalInv, SealsSound
    <3>3. snap[g][f.block] \in 0 .. issued
      BY <1>1, <1>4, <3>2
    <3> QED
      BY <1>4, <3>3, Numbers
  <2> QED
    BY <1>0, <2>1, <2>2 DEF SealsSound, JournalInv
<1>14. IndexSound'
  <2>1. /\ journal.published <= meta.published /\ journal.published \in Generations
        /\ journal.base = snap[journal.published] /\ journal.records \subseteq frames
        /\ \A r \in journal.records : journal.published < Generation(r)
        /\ \A s \in retired : s[1] \notin Later(journal.published)
    BY <1>1 DEF JournalInv, IndexSound
  <2>2. Chronicle(journal.records \cup {f}) /\ \A x \in journal.records \cup {f} : x.seq <= issued + 1
    <3>1. Chronicle(frames')
      BY <1>9, <1>10 DEF DiskTyped, FramesOrdered, Chronicle, Ordered
    <3>2. journal.records \cup {f} \subseteq frames'
      BY <1>0, <2>1
    <3>3. \A x \in journal.records : x.seq <= issued + 1
      BY <2>1, Numbers
    <3> QED
      BY <1>3, <1>4, <3>1, <3>2, <3>3, ChroniclePart
  <2>3. \A x \in journal.records \cup {f} : \E y \in journal'.records :
           y.block = x.block /\ Generation(y) = Generation(x) /\ x.seq <= y.seq
    BY <1>5, <2>2, Numbers, IndexCovers DEF Chronicle
  <2>4. journal'.records \subseteq journal.records \cup {f}
    BY <1>5 DEF Indexed
  <2>5. ASSUME NEW x \in frames', journal'.published < Generation(x)
        PROVE  \E r \in journal'.records :
                  r.block = x.block /\ Generation(r) = Generation(x) /\ x.seq <= r.seq
    <3>1. CASE x = f
      BY <2>3, <3>1
    <3>2. CASE x \in frames
      <4>1. PICK r \in journal.records :
              r.block = x.block /\ Generation(r) = Generation(x) /\ x.seq <= r.seq
        BY <1>1, <1>5, <2>5, <3>2 DEF JournalInv, IndexSound
      <4>2. PICK y \in journal'.records :
              y.block = r.block /\ Generation(y) = Generation(r) /\ r.seq <= y.seq
        BY <2>3
      <4>3. x.seq \in Nat /\ r.seq \in Nat /\ y.seq \in Nat
        BY <1>2, <1>4, <2>1, <2>4, <3>2, Numbers
      <4>4. x.seq <= y.seq
        BY <4>1, <4>2, <4>3
      <4> QED
        BY <4>1, <4>2, <4>4
    <3> QED
      BY <1>0, <2>5, <3>1, <3>2
  <2>6. journal.published < Generation(f)
    BY <1>4, <2>1, Numbers
  <2> QED
    BY <1>0, <1>5, <2>1, <2>4, <2>5, <2>6 DEF IndexSound
<1>15. SealsReadable'
  <2>1. SUFFICES ASSUME NEW g \in Generations, NEW b \in Blocks,
                        journal.published <= g, g < meta.generation
                 PROVE  snap[g][b] = ReadFrom(journal'.records, journal.base, g, b)
    BY <1>0, <1>1, <1>5 DEF SealsReadable, Rec, Base, Pub
  <2>2. snap[g][b] = ReadFrom(journal.records, journal.base, g, b)
    BY <1>1, <2>1 DEF JournalInv, SealsReadable, Rec, Base, Pub
  <2>3. /\ journal.records \subseteq frames' /\ journal'.records \subseteq frames'
        /\ journal'.records \subseteq journal.records \cup {f}
    BY <1>0, <1>1, <1>5, <1>14 DEF IndexSound, Indexed, JournalInv
  <2>4. Ordered(frames') /\ \A x \in frames' : x.seq <= issued + 1
    BY <1>0, <1>3, <1>4, <1>9, <1>10, Numbers DEF DiskTyped, FramesOrdered, Ordered
  <2>5. Covers(journal'.records, journal.records, g, b)
    <3>1. \A x \in journal'.records : Holds(x, g, b) => x # f
      BY <1>4, <2>1, Numbers DEF Holds
    <3>2. \A x \in journal.records : x.seq <= x.seq
      BY <1>2 DEF FrameRec
    <3> QED
      BY <2>3, <3>1, <3>2 DEF Covers
  <2>6. Covers(journal.records, journal'.records, g, b)
    <3>1. SUFFICES ASSUME NEW x \in journal.records, Holds(x, g, b)
                   PROVE  \E y \in journal'.records : Holds(y, g, b) /\ x.seq <= y.seq
      BY DEF Covers
    <3>2. x \in frames' /\ journal'.published < Generation(x)
      BY <1>0, <1>1, <1>5 DEF JournalInv, IndexSound
    <3> QED
      BY <1>0, <1>1, <1>14, <3>1, <3>2 DEF IndexSound, Holds
  <2> QED
    BY <2>2, <2>3, <2>4, <2>5, <2>6, SameRead, Numbers
<1>16. PositionSound'
  BY <1>0, <1>1, <1>2, <1>3, <1>4, <1>5, Numbers DEF PositionSound
<1>17. WritersSound'
  <2>1. OneAppends' /\ AppenderSound' /\ WritersOpen'
    BY <1>0, <1>1, <1>8 DEF OneAppends, AppenderSound, WritersOpen
  <2>2. WaitersFramed'
    <3>1. FrameOf(w, f)'
      BY <1>0, <1>4, <1>6 DEF FrameOf
    <3> QED
      BY <1>0, <1>6, <1>7, <3>1 DEF WaitersFramed, FrameOf, JournalInv, WritersSound
  <2>3. SyncReaches'
    <3>1. SUFFICES ASSUME NEW v \in Writers, writer'[v].pc = "syncing"
                   PROVE  /\ writer'[v].seq <= writer'[v].through
                          /\ writer'[v].through < journal'.next
                          /\ \A x \in frames' \ synced' :
                               Unpublished(x)' /\ x.seq <= writer'[v].through =>
                                 x.segment \in writer'[v].left
      BY DEF SyncReaches
    <3>2. v # w /\ writer'[v] = writer[v]
      BY <1>6, <3>1
    <3>3. writer[v].through \in Nat
      BY <1>2 DEF WriterRec
    <3>4. /\ writer[v].seq <= writer[v].through /\ writer[v].through < journal.next
          /\ \A x \in frames \ synced :
               Unpublished(x) /\ x.seq <= writer[v].through => x.segment \in writer[v].left
      BY <3>1, <3>2 DEF JournalInv, WritersSound, SyncReaches
    <3>5. ~(f.seq <= writer[v].through)
      BY <1>2, <1>4, <3>3, <3>4
    <3> QED
      BY <1>0, <1>2, <1>5, <3>2, <3>3, <3>4, <3>5 DEF Unpublished
  <2> QED
    BY <2>1, <2>2, <2>3 DEF WritersSound
<1>18. PendingSound'
  <2>1. /\ \A x \in frames \ synced : Unpublished(x) => x.segment \in journal.pending
        /\ \A x \in frames : Unpublished(x) /\ x.seq <= journal.durable => x \in synced
        /\ \A s \in journal.pending : \E v \in Writers : AwaitedBy(s, v)
    BY <1>1 DEF JournalInv, PendingSound
  <2>2. ~(f.seq <= journal.durable)
    BY <1>2, <1>3, <1>4
  <2>3. AwaitedBy(journal.active, w)'
    <3>1. \A x \in frames : x.seq <= journal.next
      BY <1>2, <1>3, Numbers
    <3> QED
      BY <1>0, <1>2, <1>3, <1>4, <1>5, <1>6, <1>7, <3>1 DEF AwaitedBy
  <2>4. ASSUME NEW s \in journal.pending, s # journal.active
        PROVE  \E v \in Writers : AwaitedBy(s, v)'
    <3>1. PICK v \in Writers : AwaitedBy(s, v)
      BY <2>1
    <3>2. v # w
      BY <1>7, <3>1 DEF AwaitedBy
    <3>3. AwaitedBy(s, v)'
      BY <1>0, <1>4, <1>5, <1>6, <1>7, <2>4, <3>1, <3>2 DEF AwaitedBy
    <3> QED
      BY <3>3
  <2>5. \A s \in journal'.pending : \E v \in Writers : AwaitedBy(s, v)'
    BY <1>5, <2>3, <2>4
  <2>6. \A x \in frames' \ synced' : Unpublished(x)' => x.segment \in journal'.pending
    BY <1>0, <1>4, <1>5, <2>1 DEF Unpublished
  <2>7. \A x \in frames' : Unpublished(x)' /\ x.seq <= journal'.durable => x \in synced'
    BY <1>0, <1>5, <2>1, <2>2 DEF Unpublished
  <2> QED
    BY <2>5, <2>6, <2>7 DEF PendingSound
<1>19. CaptureSound' /\ Closed'
  BY <1>0, CaptureKept
<1>20. MemoryTyped'
  BY <1>0, <1>5, <1>6 DEF MemoryTyped, JournalInv
<1> QED
  BY <1>9, <1>10, <1>11, <1>12, <1>13, <1>14, <1>15, <1>16, <1>17, <1>18, <1>19, <1>20
     DEF JournalInv

\* A write is acknowledged once its frame is durable.
LEMMA AcknowledgeKeeps ==
  ASSUME JournalInv, NEW w \in Writers, NEW f \in synced, FrameOf(w, f), Acknowledged(w),
         UNCHANGED <<frames, synced, segments, meta, manifests, issued, snap>>
  PROVE  DiskTyped' /\ FramesOrdered' /\ FramesDescribed' /\ FirmDurable' /\ SealsSound'
<1>1. /\ f \in frames /\ f.block = writer[w].block /\ f.write = writer[w].write
      /\ Generation(f) = meta.generation
  BY DEF FrameOf, JournalInv, DiskTyped
<1>2. f.block \in Blocks /\ f.write \in Writes /\ Unpublished(f)
  BY <1>1, Numbers DEF Unpublished, Writes, JournalInv, FramesOrdered
<1>3. firm \in [Blocks -> Writes] /\ \A b \in Blocks : firm[b] \in Nat
  BY Numbers DEF JournalInv, DiskTyped, Contents, Writes
<1>4. /\ firm' \in Contents
      /\ \A b \in Blocks : firm'[b] = firm[b] \/ (b = f.block /\ firm'[b] = f.write)
  BY <1>1, <1>2, <1>3 DEF Acknowledged, Contents
<1>5. DiskTyped' /\ FramesOrdered' /\ FramesDescribed' /\ SealsSound'
  BY <1>4 DEF JournalInv, DiskTyped, FramesOrdered, FramesDescribed, SealsSound, Unpublished
<1>6. FirmDurable'
  <2>1. SUFFICES ASSUME NEW b \in Blocks
                 PROVE  \/ firm'[b] <= meta.base[b]
                        \/ \E x \in synced : Unpublished(x) /\ x.block = b /\ firm'[b] <= x.write
    BY DEF FirmDurable, Unpublished
  <2>2. CASE firm'[b] = firm[b]
    BY <2>2 DEF JournalInv, FirmDurable
  <2>3. CASE b = f.block /\ firm'[b] = f.write
    BY <1>1, <1>2, <2>3, Numbers
  <2> QED
    BY <1>4, <2>2, <2>3
<1> QED
  BY <1>5, <1>6

LEMMA WriterFramed ==
  ASSUME JournalInv, NEW w \in Writers, Waiting(w)
  PROVE  \E f \in frames : FrameOf(w, f) /\ Unpublished(f)
BY Numbers DEF JournalInv, WritersSound, WaitersFramed, FrameOf, Unpublished

LEMMA CommitBatchKeeps ==
  ASSUME JournalInv, NEW w \in Writers, CommitBatch(w)
  PROVE  JournalInv'
<1>0. /\ writer[w].pc = "staged" /\ JournalFree
      /\ UNCHANGED <<frames, synced, segments, meta, manifests, status, journal, capture,
                     retired, issued, snap>>
  BY DEF CommitBatch, diskVars, dbVars
<1>1. status = "open" /\ Waiting(w)
  BY <1>0 DEF JournalInv, WritersSound, WritersOpen, Waiting
<1>2. PICK f \in frames : FrameOf(w, f) /\ Unpublished(f)
  BY <1>1, WriterFramed
<1>3. SealsReadable' /\ IndexSound' /\ CaptureSound' /\ Closed'
  BY <1>0, <1>1, ReadsKept, CaptureKept
<1>4. PositionSound'
  BY <1>0 DEF PositionSound, JournalInv
<1>5. writer \in [Writers -> WriterRec] /\ journal \in JournalRec /\ journal.next \in Nat
      /\ journal.pending \subseteq Segment /\ journal.durable \in Nat
      /\ writer[w].seq \in Nat
  BY DEF JournalInv, MemoryTyped, JournalRec, WriterRec
<1>6. CASE /\ journal.failed \/ (writer[w].seq > journal.durable /\ journal.pending = {})
           /\ writer' = [writer EXCEPT ![w] = IdleWriter] /\ UNCHANGED firm
  <2>1. DiskTyped' /\ FramesOrdered' /\ FramesDescribed' /\ FirmDurable' /\ SealsSound'
    BY <1>0, <1>6, DiskKept
  <2>2. WritersSound' /\ writer' \in [Writers -> WriterRec]
    BY <1>0, <1>1, <1>6, WriterReturns
  <2>3. PendingSound'
    BY <1>0, <1>6 DEF PendingSound, Unpublished, JournalInv
  <2>4. MemoryTyped'
    BY <1>0, <2>2 DEF MemoryTyped, JournalInv
  <2> QED
    BY <1>3, <1>4, <2>1, <2>2, <2>3, <2>4 DEF JournalInv
<1>7. CASE /\ ~journal.failed /\ writer[w].seq <= journal.durable
           /\ Acknowledged(w) /\ writer' = [writer EXCEPT ![w] = IdleWriter]
  <2>1. f \in synced
    BY <1>1, <1>2, <1>7 DEF JournalInv, PendingSound, FrameOf
  <2>2. DiskTyped' /\ FramesOrdered' /\ FramesDescribed' /\ FirmDurable' /\ SealsSound'
    BY <1>0, <1>2, <1>7, <2>1, AcknowledgeKeeps
  <2>3. WritersSound' /\ writer' \in [Writers -> WriterRec]
    BY <1>0, <1>1, <1>7, WriterReturns
  <2>4. PendingSound'
    <3>1. \A v \in Writers : v # w => writer'[v] = writer[v]
      BY <1>5, <1>7
    <3>2. \A s, v : v \in Writers /\ AwaitedBy(s, v) => v # w
      BY <1>5, <1>7 DEF AwaitedBy
    <3>3. \A s, v : v \in Writers /\ AwaitedBy(s, v) => AwaitedBy(s, v)'
      BY <1>0, <3>1, <3>2 DEF AwaitedBy, Waiting
    <3> QED
      BY <1>0, <3>3 DEF PendingSound, Unpublished, JournalInv
  <2>5. MemoryTyped'
    BY <1>0, <2>3 DEF MemoryTyped, JournalInv
  <2> QED
    BY <1>3, <1>4, <2>2, <2>3, <2>4, <2>5 DEF JournalInv
<1>8. CASE /\ ~journal.failed /\ UNCHANGED firm
           /\ writer' = [writer EXCEPT ![w] = [writer[w] EXCEPT !.pc = "syncing",
                           !.through = journal.next - 1, !.left = journal.pending]]
  <2>1. DiskTyped' /\ FramesOrdered' /\ FramesDescribed' /\ FirmDurable' /\ SealsSound'
    BY <1>0, <1>8, DiskKept
  <2>2. journal.next - 1 \in Nat /\ journal.next - 1 < journal.next
    BY <1>5 DEF JournalRec
  <2>3. PICK new : new = [writer[w] EXCEPT !.pc = "syncing", !.through = journal.next - 1,
                                           !.left = journal.pending]
    OBVIOUS
  <2>4. /\ new \in WriterRec /\ new.pc = "syncing" /\ new.block = writer[w].block
        /\ new.seq = writer[w].seq /\ new.write = writer[w].write
        /\ new.through = journal.next - 1 /\ new.left = journal.pending
    BY <1>5, <2>2, <2>3 DEF WriterRec, WriterPcs
  <2>5. /\ writer' \in [Writers -> WriterRec] /\ writer'[w] = new
        /\ \A v \in Writers : v # w => writer'[v] = writer[v]
    BY <1>5, <1>8, <2>3, <2>4
  <2>6. \A v \in Writers : ~Busy(v)' /\ (Waiting(v)' <=> Waiting(v))
                           /\ writer'[v].seq = writer[v].seq
    BY <1>0, <2>4, <2>5 DEF Busy, Waiting, JournalFree
  <2>7. OneAppends' /\ AppenderSound' /\ WritersOpen'
    BY <1>0, <1>1, <2>6 DEF OneAppends, AppenderSound, WritersOpen
  <2>8. WaitersFramed'
    BY <1>0, <2>4, <2>5, <2>6 DEF WaitersFramed, FrameOf, JournalInv, WritersSound
  <2>9. SyncReaches'
    <3>1. writer[w].seq <= journal.next - 1
      <4>1. f.seq = writer[w].seq /\ f.seq < journal.next
        BY <1>1, <1>2 DEF JournalInv, PositionSound, FrameOf
      <4> QED
        BY <1>5, <4>1
    <3>2. \A x \in frames \ synced : Unpublished(x) => x.segment \in journal.pending
      BY <1>1, <1>8 DEF JournalInv, PendingSound
    <3> QED
      BY <1>0, <2>2, <2>4, <2>5, <3>1, <3>2
         DEF SyncReaches, Unpublished, JournalInv, WritersSound
  <2>10. PendingSound'
    <3>1. \A s, v : v \in Writers /\ AwaitedBy(s, v) => AwaitedBy(s, v)'
      BY <1>0, <2>6 DEF AwaitedBy
    <3> QED
      BY <1>0, <3>1 DEF PendingSound, Unpublished, JournalInv
  <2>11. MemoryTyped'
    BY <1>0, <2>5 DEF MemoryTyped, JournalInv
  <2> QED
    BY <1>3, <1>4, <2>1, <2>7, <2>8, <2>9, <2>10, <2>11 DEF JournalInv, WritersSound
<1> QED
  BY <1>6, <1>7, <1>8 DEF CommitBatch, SetWriter, BatchFiles

LEMMA SyncFileKeeps ==
  ASSUME JournalInv, NEW w \in Writers, SyncFile(w)
  PROVE  JournalInv'
<1>0. /\ writer[w].pc = "syncing"
      /\ UNCHANGED <<frames, segments, meta, manifests, status, journal, capture, retired,
                     issued, firm, snap>>
  BY DEF SyncFile, dbVars
<1>1. PICK s \in writer[w].left :
        /\ synced' = synced \cup In(s)
        /\ writer' = [writer EXCEPT ![w] = [writer[w] EXCEPT !.left = @ \ {s}]]
  BY DEF SyncFile, SetWriter
<1>2. status = "open"
  BY <1>0 DEF JournalInv, WritersSound, WritersOpen
<1>3. synced \subseteq synced' /\ synced' \subseteq frames
  BY <1>1 DEF In, JournalInv, DiskTyped
<1>4. DiskTyped' /\ FramesOrdered' /\ FramesDescribed' /\ SealsSound'
  BY <1>0, <1>3 DEF JournalInv, DiskTyped, FramesOrdered, FramesDescribed, SealsSound, Unpublished
<1>5. FirmDurable'
  BY <1>0, <1>3 DEF JournalInv, FirmDurable, Unpublished
<1>6. SealsReadable' /\ IndexSound' /\ CaptureSound' /\ Closed'
  BY <1>0, <1>2, ReadsKept, CaptureKept
<1>7. PositionSound'
  BY <1>0 DEF PositionSound, JournalInv
<1>8. writer \in [Writers -> WriterRec]
  BY DEF JournalInv, MemoryTyped
<1>9. /\ writer' \in [Writers -> WriterRec] /\ writer'[w].left = writer[w].left \ {s}
      /\ \A v \in Writers : /\ v # w => writer'[v] = writer[v]
                            /\ writer'[v].pc = writer[v].pc /\ writer'[v].seq = writer[v].seq
                            /\ writer'[v].block = writer[v].block
                            /\ writer'[v].write = writer[v].write
                            /\ writer'[v].through = writer[v].through
  BY <1>1, <1>8 DEF WriterRec
<1>10. OneAppends' /\ AppenderSound' /\ WritersOpen' /\ WaitersFramed'
  BY <1>0, <1>9 DEF OneAppends, AppenderSound, WritersOpen, WaitersFramed, Busy, Waiting,
                    FrameOf, JournalInv, WritersSound
<1>11. SyncReaches'
  <2>1. \A x \in frames' \ synced' : x \in frames \ synced /\ x.segment # s
    BY <1>0, <1>1 DEF In
  <2> QED
    BY <1>0, <1>9, <2>1 DEF SyncReaches, Unpublished, JournalInv, WritersSound
<1>12. PendingSound'
  <2>1. \A t, v : v \in Writers /\ AwaitedBy(t, v) => AwaitedBy(t, v)'
    BY <1>0, <1>9 DEF AwaitedBy, Waiting
  <2> QED
    BY <1>0, <1>3, <2>1 DEF PendingSound, Unpublished, JournalInv
<1>13. MemoryTyped'
  BY <1>0, <1>9 DEF MemoryTyped, JournalInv
<1> QED
  BY <1>4, <1>5, <1>6, <1>7, <1>10, <1>11, <1>12, <1>13 DEF JournalInv, WritersSound

LEMMA SyncErrorKeeps ==
  ASSUME JournalInv, NEW w \in Writers, SyncError(w)
  PROVE  JournalInv'
<1>0. /\ writer[w].pc = "syncing" /\ JournalFree /\ Fail
      /\ writer' = [writer EXCEPT ![w] = IdleWriter]
      /\ UNCHANGED <<frames, synced, segments, meta, manifests, status, capture, retired,
                     issued, firm, snap>>
  BY DEF SyncError, SetWriter, diskVars, dbVars
<1>1. status = "open"
  BY <1>0 DEF JournalInv, WritersSound, WritersOpen
<1>2. DiskTyped' /\ FramesOrdered' /\ FramesDescribed' /\ FirmDurable' /\ SealsSound'
  BY <1>0, DiskKept
<1>3. SealsReadable' /\ IndexSound' /\ CaptureSound' /\ Closed'
  BY <1>0, <1>1, Failed, ReadsKept, CaptureKept
<1>4. PositionSound' /\ PendingSound'
  BY <1>0, <1>1, FailedSound
<1>5. WritersSound' /\ writer' \in [Writers -> WriterRec]
  BY <1>0, <1>1, Failed, WriterReturns
<1>6. MemoryTyped'
  BY <1>0, <1>5, Failed DEF MemoryTyped, JournalInv
<1> QED
  BY <1>2, <1>3, <1>4, <1>5, <1>6 DEF JournalInv

\* The last frame of a file is the one that the writer who waits for it wrote.
LEMMA LastAwaited ==
  ASSUME JournalInv, NEW s, NEW v \in Writers, AwaitedBy(s, v)
  PROVE  LastSeq(s) = writer[v].seq
<1> DEFINE seqs == {f.seq : f \in In(s)}
<1>1. writer[v].seq \in seqs /\ \A m \in seqs : m <= writer[v].seq
  BY DEF AwaitedBy, In
<1>2. \A m \in seqs : m \in Nat
  BY Numbers DEF In
<1> HIDE DEF seqs
<1>3. \A m \in seqs : (\A k \in seqs : m >= k) => m = writer[v].seq
  BY <1>1, <1>2
<1>4. \A k \in seqs : writer[v].seq >= k
  BY <1>1, <1>2
<1>5. Max(seqs) = writer[v].seq
  BY <1>1, <1>3, <1>4 DEF Max
<1> QED
  BY <1>5 DEF LastSeq, seqs

LEMMA CommittedKeeps ==
  ASSUME JournalInv, NEW w \in Writers, Committed(w)
  PROVE  JournalInv'
<1>0. /\ writer[w].pc = "syncing" /\ writer[w].left = {} /\ JournalFree
      /\ writer' = [writer EXCEPT ![w] = IdleWriter]
      /\ UNCHANGED <<frames, synced, segments, meta, manifests, status, capture, retired,
                     issued, snap>>
  BY DEF Committed, SetWriter, diskVars, dbVars
<1>1. status = "open" /\ Waiting(w)
  BY <1>0 DEF JournalInv, WritersSound, WritersOpen, Waiting
<1>2. CASE journal.failed /\ UNCHANGED <<journal, firm>>
  <2>1. DiskTyped' /\ FramesOrdered' /\ FramesDescribed' /\ FirmDurable' /\ SealsSound'
    BY <1>0, <1>2, DiskKept
  <2>2. SealsReadable' /\ IndexSound' /\ CaptureSound' /\ Closed'
    BY <1>0, <1>1, <1>2, ReadsKept, CaptureKept
  <2>3. PositionSound' /\ PendingSound'
    BY <1>0, <1>2 DEF PositionSound, PendingSound, JournalInv
  <2>4. WritersSound' /\ writer' \in [Writers -> WriterRec]
    BY <1>0, <1>1, <1>2, WriterReturns
  <2>5. MemoryTyped'
    BY <1>0, <1>2, <2>4 DEF MemoryTyped, JournalInv
  <2> QED
    BY <2>1, <2>2, <2>3, <2>4, <2>5 DEF JournalInv
<1>3. CASE /\ ~journal.failed /\ Acknowledged(w)
           /\ journal' = [journal EXCEPT !.durable = writer[w].through,
                                         !.pending = StillPending(writer[w].through)]
  <2>1. journal \in JournalRec /\ writer \in [Writers -> WriterRec]
        /\ writer[w].through \in Nat /\ writer[w].seq \in Nat
    BY DEF JournalInv, MemoryTyped, WriterRec
  <2>2. /\ writer[w].seq <= writer[w].through /\ writer[w].through < journal.next
        /\ \A f \in frames : Unpublished(f) /\ f.seq <= writer[w].through => f \in synced
    BY <1>0 DEF JournalInv, WritersSound, SyncReaches
  <2>3. /\ journal' \in JournalRec /\ journal'.failed = journal.failed
        /\ journal'.records = journal.records /\ journal'.base = journal.base
        /\ journal'.published = journal.published /\ journal'.active = journal.active
        /\ journal'.next = journal.next /\ journal'.durable = writer[w].through
        /\ journal'.pending = StillPending(writer[w].through)
        /\ journal'.generation = journal.generation
    <3>1. StillPending(writer[w].through) \subseteq Segment
      BY <2>1 DEF StillPending, JournalRec
    <3> QED
      BY <1>3, <2>1, <3>1, Zenon DEF JournalRec
  <2>4. PICK f \in frames : FrameOf(w, f) /\ Unpublished(f)
    BY <1>1, WriterFramed
  <2>5. f \in synced
    BY <2>2, <2>4 DEF FrameOf
  <2>6. DiskTyped' /\ FramesOrdered' /\ FramesDescribed' /\ FirmDurable' /\ SealsSound'
    BY <1>0, <1>3, <2>4, <2>5, AcknowledgeKeeps
  <2>7. SealsReadable' /\ IndexSound' /\ CaptureSound' /\ Closed'
    BY <1>0, <1>1, <2>3, ReadsKept, CaptureKept
  <2>8. WritersSound' /\ writer' \in [Writers -> WriterRec]
    BY <1>0, <1>1, <2>3, WriterReturns
  <2>9. PositionSound'
    BY <1>0, <2>2, <2>3 DEF PositionSound, JournalInv
  <2>10. PendingSound'
    <3>1. /\ \A x \in frames \ synced : Unpublished(x) => x.segment \in journal.pending
          /\ \A s \in journal.pending : \E v \in Writers : AwaitedBy(s, v)
      BY <1>1, <1>3 DEF JournalInv, PendingSound
    <3>2. \A x \in frames \ synced : Unpublished(x) => x.segment \in journal'.pending
      <4>1. SUFFICES ASSUME NEW x \in frames \ synced, Unpublished(x)
                     PROVE  x.segment \in journal'.pending
        OBVIOUS
      <4>2. PICK v \in Writers : AwaitedBy(x.segment, v)
        BY <3>1, <4>1
      <4>3. x.seq <= writer[v].seq /\ writer[v].seq \in Nat /\ x.seq \in Nat
        BY <2>1, <4>2, Numbers DEF AwaitedBy, WriterRec
      <4>4. ~(x.seq <= writer[w].through)
        BY <2>2, <4>1
      <4>5. LastSeq(x.segment) > writer[w].through
        BY <2>1, <4>2, <4>3, <4>4, LastAwaited
      <4> QED
        BY <2>3, <3>1, <4>1, <4>5 DEF StillPending
    <3>3. ASSUME NEW s \in journal'.pending
          PROVE  \E v \in Writers : AwaitedBy(s, v)'
      <4>1. s \in journal.pending /\ LastSeq(s) > writer[w].through
        BY <2>3 DEF StillPending
      <4>2. PICK v \in Writers : AwaitedBy(s, v)
        BY <3>1, <4>1
      <4>3. writer[v].seq > writer[w].through /\ writer[v].seq \in Nat
        BY <2>1, <4>1, <4>2, LastAwaited DEF WriterRec
      <4>4. v # w
        BY <2>1, <2>2, <4>3
      <4>5. writer'[v] = writer[v]
        BY <1>0, <2>1, <4>4
      <4>6. journal'.durable < writer'[v].seq
        BY <2>1, <2>3, <4>3, <4>5
      <4>7. AwaitedBy(s, v)'
        BY <1>0, <4>2, <4>5, <4>6 DEF AwaitedBy, Waiting
      <4> QED
        BY <4>7
    <3> QED
      BY <1>0, <2>2, <2>3, <3>2, <3>3 DEF PendingSound, Unpublished
  <2>11. MemoryTyped'
    BY <1>0, <2>3, <2>8 DEF MemoryTyped, JournalInv
  <2> QED
    BY <2>6, <2>7, <2>8, <2>9, <2>10, <2>11 DEF JournalInv
<1> QED
  BY <1>2, <1>3 DEF Committed
----------------------------------------
(* Sealing a generation.                                                   *)

\* The transaction of a seal: what is visible becomes firm and sealed.
LEMMA SealTransactionKeeps ==
  ASSUME JournalInv, status = "open", Flushed, meta.generation < MaxGeneration,
         SealTransaction, UNCHANGED <<frames, synced, segments, issued>>
  PROVE  /\ DiskTyped' /\ FramesOrdered' /\ FramesDescribed' /\ FirmDurable' /\ SealsSound'
         /\ meta'.generation = meta.generation + 1 /\ meta'.published = meta.published
         /\ meta'.base = meta.base
         /\ \A g \in Generations : g # meta.generation => snap'[g] = snap[g]
         /\ snap'[meta.generation] = ReadGeneration(MaxGeneration)
<1> DEFINE g == meta.generation
           now == ReadGeneration(MaxGeneration)
<1>1. /\ now \in [Blocks -> 0 .. issued]
      /\ \A b \in Blocks : now[b] = ReadFrom(journal.records, journal.base, MaxGeneration, b)
  <2>1. \A b \in Blocks : ReadFrom(journal.records, journal.base, MaxGeneration, b) \in 0 .. issued
    BY OpenLayers, ReadRange, Numbers
  <2> QED
    BY <2>1 DEF ReadGeneration
<1>2. g \in Generations /\ g + 1 \in Generations \ {0} /\ g \in Nat
  BY Numbers DEF Generations
<1>3. journal.next \in Nat \ {0} /\ journal.next <= issued + 1
  BY DEF JournalInv, MemoryTyped, JournalRec, PositionSound
<1>4. /\ manifests' = [manifests EXCEPT ![g] = Empty]
      /\ snap' = [snap EXCEPT ![g] = now] /\ firm' = now
      /\ meta' = [meta EXCEPT !.generation = g + 1, !.next = journal.next]
  BY DEF SealTransaction
<1> HIDE DEF now
<1>5. /\ meta' \in [generation : Generations \ {0}, next : Nat \ {0}, published : Generations,
                    base : Anything]
      /\ meta'.generation = g + 1 /\ meta'.published = meta.published /\ meta'.base = meta.base
      /\ meta'.next = journal.next
  BY <1>2, <1>3, <1>4 DEF JournalInv, DiskTyped
<1>6. /\ manifests \in [Generations -> Anything] /\ snap \in [Generations -> Anything]
      /\ Empty \in Anything /\ now \in Anything /\ now \in Contents
  <2>1. 0 .. issued \subseteq Writes /\ 0 .. issued \subseteq Int
    BY Numbers DEF Writes
  <2> QED
    BY <1>1, <2>1 DEF JournalInv, DiskTyped, Empty, Anything, Contents
<1>7. /\ manifests' \in [Generations -> Anything] /\ snap' \in [Generations -> Anything]
      /\ firm' \in Contents
      /\ \A h \in Generations : h # g => manifests'[h] = manifests[h] /\ snap'[h] = snap[h]
      /\ manifests'[g] = Empty /\ snap'[g] = now
  BY <1>2, <1>4, <1>6
<1>8. DiskTyped'
  BY <1>5, <1>7 DEF DiskTyped, JournalInv
<1>9. \A f \in frames : Generation(f) <= g /\ Generation(f) <= g + 1 /\ Generation(f) < g + 1
  BY Numbers
<1>10. FramesOrdered'
  BY <1>5, <1>9 DEF FramesOrdered, JournalInv
<1>11. \A f \in frames : Unpublished(f) => f \in synced
  BY DEF Flushed, JournalInv, PendingSound
<1>12. FramesDescribed'
  BY <1>3, <1>5, <1>11, Numbers DEF FramesDescribed, Unpublished, JournalInv
<1>13. FirmDurable'
  <2>1. SUFFICES ASSUME NEW b \in Blocks
                 PROVE  \/ now[b] <= meta.base[b]
                        \/ \E f \in synced : Unpublished(f) /\ f.block = b /\ now[b] <= f.write
    BY <1>4, <1>5 DEF FirmDurable, Unpublished
  <2>2. \/ now[b] = meta.base[b]
        \/ \E x \in journal.records : /\ Holds(x, MaxGeneration, b)
                                      /\ meta.published < Generation(x) /\ now[b] = x.write
    BY <1>1, OpenLayers, ReadSplit, PublishedRead, Numbers
  <2>3. now[b] \in Nat /\ \A x \in journal.records : x \in frames
    BY <1>1, Numbers DEF JournalInv, IndexSound
  <2> QED
    BY <1>11, <2>2, <2>3 DEF Unpublished, Holds
<1>14. SealsSound'
  <2>1. \A h \in Generations : manifests'[h] # Absent =>
          meta'.published < h /\ h < meta'.generation
    BY <1>2, <1>5, <1>7, Numbers DEF JournalInv, SealsSound
  <2>2. \A h \in Generations : manifests'[h] \notin {Empty, Absent} => manifests'[h] = snap'[h]
    BY <1>7 DEF JournalInv, SealsSound
  <2>3. meta'.base = snap'[meta'.published]
    BY <1>5, <1>7, Numbers DEF JournalInv, SealsSound
  <2>4. \A h \in Generations : h < meta'.generation => snap'[h] \in [Blocks -> 0 .. issued']
    <3>1. \A h \in Generations : h < g + 1 => h = g \/ h < g
      BY <1>2, Numbers
    <3> QED
      BY <1>1, <1>5, <1>7, <3>1 DEF JournalInv, SealsSound
  <2>5. \A h \in Generations : h >= meta'.generation => snap'[h] = Unsealed
    <3>1. \A h \in Generations : h >= g + 1 => h # g /\ h >= g
      BY <1>2, Numbers
    <3> QED
      BY <1>5, <1>7, <3>1 DEF JournalInv, SealsSound
  <2>6. \A h \in Generations, f \in frames' :
          h < meta'.generation /\ h < Generation(f) => snap'[h][f.block] < f.write
    <3>1. \A h \in Generations, f \in frames : h < Generation(f) => h # g /\ h < g
      BY <1>2, <1>9, Numbers
    <3> QED
      BY <1>7, <3>1 DEF JournalInv, SealsSound
  <2> QED
    BY <2>1, <2>2, <2>3, <2>4, <2>5, <2>6 DEF SealsSound
<1> QED
  BY <1>5, <1>7, <1>8, <1>10, <1>12, <1>13, <1>14 DEF now

\* Nothing that the current generation holds is newer than its seal.
LEMMA SealReads ==
  ASSUME JournalInv, status = "open", Flushed, meta.generation < MaxGeneration,
         SealTransaction,
         UNCHANGED <<status, frames, synced, segments, issued, retired, capture>>,
         journal'.records = journal.records, journal'.base = journal.base,
         journal'.published = journal.published
  PROVE  SealsReadable' /\ IndexSound' /\ CaptureSound' /\ Closed'
<1>1. /\ meta'.generation = meta.generation + 1 /\ meta'.published = meta.published
      /\ meta'.base = meta.base
      /\ \A g \in Generations : g # meta.generation => snap'[g] = snap[g]
      /\ snap'[meta.generation] = ReadGeneration(MaxGeneration)
  BY SealTransactionKeeps
<1>2. journal.published \in Generations /\ journal.published < meta.generation
      /\ journal.records \subseteq frames
  BY Numbers DEF JournalInv, IndexSound
<1>3. SealsReadable'
  <2>1. SUFFICES ASSUME NEW g \in Generations, NEW b \in Blocks,
                        journal.published <= g, g < meta.generation + 1
                 PROVE  snap'[g][b] = ReadFrom(journal.records, journal.base, g, b)
    BY <1>1 DEF SealsReadable, Rec, Base, Pub
  <2>2. CASE g = meta.generation
    <3>1. \A x \in journal.records : Generation(x) <= g <=> Generation(x) <= MaxGeneration
      BY <1>2, <2>2, Numbers
    <3>2. {x \in journal.records : x.block = b /\ Generation(x) <= g}
            = {x \in journal.records : x.block = b /\ Generation(x) <= MaxGeneration}
      BY <3>1
    <3>3. ReadFrom(journal.records, journal.base, g, b)
            = ReadFrom(journal.records, journal.base, MaxGeneration, b)
      BY <3>2 DEF ReadFrom
    <3> QED
      BY <1>1, <2>2, <3>3 DEF ReadGeneration
  <2>3. CASE g # meta.generation
    <3>1. g < meta.generation
      BY <2>1, <2>3, Numbers
    <3> QED
      BY <1>1, <2>1, <2>3, <3>1 DEF JournalInv, SealsReadable, Rec, Base, Pub
  <2> QED
    BY <2>2, <2>3
<1>4. IndexSound'
  <2>1. snap'[journal.published] = snap[journal.published]
    BY <1>1, <1>2, Numbers
  <2> QED
    BY <1>1, <2>1 DEF JournalInv, IndexSound
<1>5. CaptureSound' /\ Closed'
  <2>1. capture # NoCapture =>
          /\ capture.generation \in Generations /\ capture.generation < meta.generation + 1
          /\ snap'[capture.generation] = snap[capture.generation]
    BY <1>1, Numbers DEF JournalInv, CaptureSound
  <2> QED
    BY <1>1, <2>1 DEF JournalInv, CaptureSound, Closed
<1> QED
  BY <1>3, <1>4, <1>5

LEMMA SealKeeps ==
  ASSUME JournalInv, Seal
  PROVE  JournalInv'
<1>0. /\ status = "open" /\ WritersDone /\ Flushed /\ meta.generation < MaxGeneration
      /\ SealTransaction
      /\ journal' = [journal EXCEPT !.generation = meta.generation + 1, !.active = NoSegment]
      /\ UNCHANGED <<frames, synced, segments, status, writer, capture, retired, issued>>
  BY DEF Seal, SealAllowed, diskVars
<1>1. /\ DiskTyped' /\ FramesOrdered' /\ FramesDescribed' /\ FirmDurable' /\ SealsSound'
      /\ meta'.generation = meta.generation + 1 /\ meta'.published = meta.published
  BY <1>0, SealTransactionKeeps
<1>2. /\ journal' \in JournalRec /\ journal'.failed = journal.failed
      /\ journal'.records = journal.records /\ journal'.base = journal.base
      /\ journal'.published = journal.published /\ journal'.active = NoSegment
      /\ journal'.next = journal.next /\ journal'.durable = journal.durable
      /\ journal'.pending = journal.pending /\ journal'.generation = meta.generation + 1
  <2>1. journal \in JournalRec
    BY DEF JournalInv, MemoryTyped
  <2>2. meta.generation + 1 \in Nat /\ NoSegment \in Segment
    BY Numbers DEF NoSegment, Segment
  <2> QED
    BY <1>0, <2>1, <2>2, Zenon DEF JournalRec
<1>3. SealsReadable' /\ IndexSound' /\ CaptureSound' /\ Closed'
  BY <1>0, <1>2, SealReads
<1>4. PositionSound'
  BY <1>0, <1>1, <1>2 DEF PositionSound, JournalInv
<1>5. \A w \in Writers : writer'[w].pc = "idle" /\ ~Busy(w)' /\ ~Waiting(w)'
  BY <1>0 DEF WritersDone, Busy, Waiting
<1>6. WritersSound'
  BY <1>5 DEF WritersSound, OneAppends, AppenderSound, WritersOpen, WaitersFramed, SyncReaches
<1>7. PendingSound'
  BY <1>0, <1>1, <1>2 DEF PendingSound, Unpublished, JournalInv, Flushed
<1>8. MemoryTyped'
  BY <1>0, <1>2 DEF MemoryTyped, JournalInv
<1> QED
  BY <1>1, <1>3, <1>4, <1>6, <1>7, <1>8 DEF JournalInv

LEMMA SealErrorKeeps ==
  ASSUME JournalInv, SealError
  PROVE  JournalInv'
<1>0. /\ status = "open" /\ WritersDone /\ Flushed /\ meta.generation < MaxGeneration
      /\ Fail /\ (SealTransaction \/ UNCHANGED <<manifests, meta, snap, firm>>)
      /\ UNCHANGED <<frames, synced, segments, status, writer, capture, retired, issued>>
  BY DEF SealError, SealAllowed, diskVars
<1>1. /\ DiskTyped' /\ FramesOrdered' /\ FramesDescribed' /\ FirmDurable' /\ SealsSound'
      /\ SealsReadable' /\ IndexSound' /\ CaptureSound' /\ Closed'
  <2>1. CASE SealTransaction
    BY <1>0, <2>1, Failed, SealTransactionKeeps, SealReads
  <2>2. CASE UNCHANGED <<manifests, meta, snap, firm>>
    BY <1>0, <2>2, Failed, DiskKept, ReadsKept, CaptureKept
  <2> QED
    BY <1>0, <2>1, <2>2
<1>2. PositionSound' /\ PendingSound'
  BY <1>0, FailedSound
<1>3. \A w \in Writers : writer'[w].pc = "idle" /\ ~Busy(w)' /\ ~Waiting(w)'
  BY <1>0 DEF WritersDone, Busy, Waiting
<1>4. WritersSound'
  BY <1>3 DEF WritersSound, OneAppends, AppenderSound, WritersOpen, WaitersFramed, SyncReaches
<1>5. MemoryTyped'
  BY <1>0, Failed DEF MemoryTyped, JournalInv
<1> QED
  BY <1>1, <1>2, <1>4, <1>5 DEF JournalInv
----------------------------------------
(* Capturing and publishing a generation.                                  *)

LEMMA BlankDiffers == Empty # Absent /\ NoSegment \in Segment
<1>1. PICK b \in Blocks : TRUE
  BY JournalAssumption
<1>2. Empty[b] = -1 /\ Absent[b] = -2
  BY <1>1 DEF Empty, Absent
<1> QED
  BY <1>2 DEF NoSegment, Segment

\* The steps that change neither the writers nor the position of the journal.
LEMMA WritersKept ==
  ASSUME JournalInv, UNCHANGED <<status, journal, writer, frames, synced, segments, meta, issued>>
  PROVE  WritersSound' /\ PositionSound' /\ PendingSound'
<1>1. OneAppends' /\ AppenderSound' /\ WritersOpen' /\ WaitersFramed' /\ SyncReaches'
  BY DEF OneAppends, AppenderSound, WritersOpen, WaitersFramed, SyncReaches, Busy, Waiting,
         FrameOf, Unpublished, JournalInv, WritersSound
<1>2. PositionSound'
  BY DEF PositionSound, JournalInv
<1>3. PendingSound'
  BY DEF PendingSound, AwaitedBy, Waiting, Unpublished, JournalInv
<1> QED
  BY <1>1, <1>2, <1>3 DEF WritersSound

LEMMA CaptureBeginKeeps ==
  ASSUME JournalInv, CaptureBegin
  PROVE  JournalInv'
<1>0. /\ status = "open"
      /\ UNCHANGED <<frames, synced, segments, meta, manifests, status, journal, writer,
                     retired, issued, firm, snap>>
  BY DEF CaptureBegin, diskVars, dbVars
<1>1. PICK g \in Generations :
        /\ manifests[g] = Empty
        /\ capture' = [generation |-> g, base |-> meta.base,
              changed |-> {f.block : f \in {x \in journal.records : Generation(x) <= g}}]
  BY DEF CaptureBegin
<1>2. /\ capture'.generation = g /\ capture'.base = meta.base
      /\ capture'.changed = {f.block : f \in {x \in journal.records : Generation(x) <= g}}
  BY <1>1
<1>3. meta.published < g /\ g < meta.generation
  BY <1>1, BlankDiffers DEF JournalInv, SealsSound
<1>4. /\ journal.published <= meta.published /\ journal.published \in Generations
      /\ journal.records \subseteq frames
  BY <1>0 DEF JournalInv, IndexSound
<1>5. ASSUME NEW b \in Blocks \ capture'.changed
      PROVE  meta.base[b] = snap[g][b]
  <2>1. Without(journal.records, g, b)
    BY <1>2, <1>5 DEF Without, Holds
  <2>2. Without(journal.records, meta.published, b)
    BY <1>3, <1>4, <2>1, Numbers DEF Without, Holds
  <2>3. snap[g][b] = ReadFrom(journal.records, journal.base, g, b)
    BY <1>0, <1>3, <1>4, Numbers DEF JournalInv, SealsReadable, Rec, Base, Pub
  <2> QED
    BY <1>0, <2>1, <2>2, <2>3, ReadBase, PublishedRead
<1>6. CaptureSound' /\ Closed'
  BY <1>0, <1>2, <1>3, <1>5 DEF CaptureSound, Closed
<1>7. MemoryTyped'
  <2>1. {f.block : f \in {x \in journal.records : Generation(x) <= g}} \subseteq Blocks
    BY <1>4, Numbers
  <2>2. meta.base \in Anything /\ g \in Nat
    BY Numbers DEF JournalInv, DiskTyped
  <2>3. capture' \in [generation : Nat, changed : SUBSET Blocks, base : Anything]
    BY <1>1, <2>1, <2>2
  <2> QED
    BY <1>0, <2>3 DEF MemoryTyped, JournalInv
<1> QED
  BY <1>0, <1>6, <1>7, DiskKept, ReadsKept, WritersKept DEF JournalInv

LEMMA CaptureEndKeeps ==
  ASSUME JournalInv, CaptureEnd
  PROVE  JournalInv'
<1>0. /\ capture # NoCapture /\ capture' = NoCapture
      /\ manifests' = [manifests EXCEPT ![capture.generation] =
                         CapturedManifest(capture.generation)]
      /\ UNCHANGED <<frames, synced, segments, meta, status, journal, writer, retired,
                     issued, firm, snap>>
  BY DEF CaptureEnd, diskVars
<1>1. /\ status = "open" /\ capture.generation \in Generations
      /\ meta.published < capture.generation /\ capture.generation < meta.generation
      /\ \A b \in Blocks \ capture.changed : capture.base[b] = snap[capture.generation][b]
  BY <1>0 DEF JournalInv, CaptureSound
<1>2. journal.published <= meta.published /\ journal.published \in Generations
  BY <1>1 DEF JournalInv, IndexSound
<1>3. CapturedManifest(capture.generation) = snap[capture.generation]
  <2>1. \A b \in Blocks : snap[capture.generation][b]
          = ReadFrom(journal.records, journal.base, capture.generation, b)
    BY <1>1, <1>2, Numbers DEF JournalInv, SealsReadable, Rec, Base, Pub
  <2>2. snap[capture.generation] \in [Blocks -> 0 .. issued]
    BY <1>1 DEF JournalInv, SealsSound
  <2>3. snap[capture.generation] = [b \in Blocks |-> snap[capture.generation][b]]
    BY <2>2
  <2>4. \A b \in Blocks : CapturedManifest(capture.generation)[b] = snap[capture.generation][b]
    BY <1>1, <2>1 DEF CapturedManifest, ReadGeneration
  <2> QED
    BY <2>3, <2>4 DEF CapturedManifest
<1>4. /\ manifests' \in [Generations -> Anything]
      /\ manifests'[capture.generation] = snap[capture.generation]
      /\ \A g \in Generations : g # capture.generation => manifests'[g] = manifests[g]
  BY <1>0, <1>1, <1>3 DEF JournalInv, DiskTyped
<1>5. DiskTyped' /\ FramesOrdered' /\ FramesDescribed' /\ FirmDurable'
  BY <1>0, <1>4 DEF JournalInv, DiskTyped, FramesOrdered, FramesDescribed, FirmDurable, Unpublished
<1>6. SealsSound'
  BY <1>0, <1>1, <1>4 DEF JournalInv, SealsSound
<1>7. CaptureSound' /\ Closed'
  BY <1>0 DEF CaptureSound, Closed, JournalInv
<1>8. MemoryTyped'
  <2>1. NoCapture \in [generation : Nat, changed : SUBSET Blocks, base : Anything]
    BY DEF NoCapture, Empty, Anything
  <2> QED
    BY <1>0, <2>1 DEF MemoryTyped, JournalInv
<1> QED
  BY <1>0, <1>1, <1>5, <1>6, <1>7, <1>8, ReadsKept, WritersKept DEF JournalInv

LEMMA CaptureErrorKeeps ==
  ASSUME JournalInv, CaptureError
  PROVE  JournalInv'
<1>0. /\ capture # NoCapture /\ capture' = NoCapture
      /\ UNCHANGED <<frames, synced, segments, meta, manifests, status, journal, writer,
                     retired, issued, firm, snap>>
  BY DEF CaptureError, diskVars, dbVars
<1>1. status = "open"
  BY <1>0 DEF JournalInv, CaptureSound
<1>2. CaptureSound' /\ Closed'
  BY <1>0 DEF CaptureSound, Closed, JournalInv
<1>3. MemoryTyped'
  <2>1. NoCapture \in [generation : Nat, changed : SUBSET Blocks, base : Anything]
    BY DEF NoCapture, Empty, Anything
  <2> QED
    BY <1>0, <2>1 DEF MemoryTyped, JournalInv
<1> QED
  BY <1>0, <1>1, <1>2, <1>3, DiskKept, ReadsKept, WritersKept DEF JournalInv

\* The transaction of a publication: the base becomes a later seal.
LEMMA PublishTransactionKeeps ==
  ASSUME JournalInv, status = "open", NEW g \in Generations, PublishTransaction(g),
         UNCHANGED <<frames, synced, issued, firm, snap>>
  PROVE  /\ DiskTyped' /\ FramesOrdered' /\ FramesDescribed' /\ FirmDurable' /\ SealsSound'
         /\ meta'.generation = meta.generation /\ meta'.published = g
         /\ meta'.base = snap[g] /\ manifests[g] = snap[g]
         /\ meta.published < g /\ g < meta.generation
<1>1. /\ manifests[g] \notin {Empty, Absent}
      /\ meta' = [meta EXCEPT !.base = manifests[g], !.published = g]
      /\ segments' = {s \in segments : s[1] > g}
      /\ manifests' = [h \in Generations |-> IF h <= g THEN Absent ELSE manifests[h]]
  BY DEF PublishTransaction, KeptSegments
<1>2. meta.published < g /\ g < meta.generation /\ manifests[g] = snap[g]
  BY <1>1 DEF JournalInv, SealsSound
<1>3. /\ meta' \in [generation : Generations \ {0}, next : Nat \ {0}, published : Generations,
                    base : Anything]
      /\ meta'.generation = meta.generation /\ meta'.published = g /\ meta'.base = snap[g]
      /\ meta'.next = meta.next
  BY <1>1, <1>2 DEF JournalInv, DiskTyped
<1>4. /\ manifests' \in [Generations -> Anything]
      /\ \A h \in Generations : manifests'[h] # Absent => manifests'[h] = manifests[h] /\ g < h
  <2>1. Absent \in Anything
    BY DEF Absent, Anything
  <2>2. \A h \in Generations : ~(h <= g) => g < h
    BY Numbers
  <2> QED
    BY <1>1, <2>1, <2>2 DEF JournalInv, DiskTyped
<1>5. DiskTyped'
  BY <1>1, <1>3, <1>4 DEF JournalInv, DiskTyped
<1>6. FramesOrdered'
  BY <1>3 DEF JournalInv, FramesOrdered
<1>7. \A f \in frames : Unpublished(f)' => Unpublished(f) /\ g < Generation(f)
  BY <1>2, <1>3, Numbers DEF Unpublished
<1>8. FramesDescribed'
  <2>1. \A s \in segments' : g < s[1]
    BY <1>1, Numbers DEF JournalInv, DiskTyped, Segment
  <2>2. \A f \in frames : Unpublished(f)' => f.segment \in segments'
    BY <1>1, <1>7, Numbers DEF JournalInv, FramesDescribed, Generation
  <2> QED
    BY <1>2, <1>3, <1>7, <2>1, <2>2, Numbers DEF JournalInv, FramesDescribed
<1>9. SealsSound'
  BY <1>2, <1>3, <1>4, Numbers DEF JournalInv, SealsSound
<1>10. FirmDurable'
  <2>1. SUFFICES ASSUME NEW b \in Blocks
                 PROVE  \/ firm[b] <= snap[g][b]
                        \/ \E f \in synced : Unpublished(f)' /\ f.block = b /\ firm[b] <= f.write
    BY <1>3 DEF FirmDurable, Unpublished
  <2>2. /\ journal.published <= meta.published /\ journal.published \in Generations
    BY DEF JournalInv, IndexSound
  <2>3. snap[g][b] = ReadFrom(journal.records, journal.base, g, b) /\ snap[g][b] \in Nat
    <3>1. snap[g][b] = ReadFrom(journal.records, journal.base, g, b)
      BY <1>2, <2>2, Numbers DEF JournalInv, SealsReadable, Rec, Base, Pub
    <3> QED
      BY <3>1, OpenLayers, ReadRange, Numbers
  <2>4. firm[b] \in Nat
    BY FirmRead
  <2>5. CASE firm[b] <= meta.base[b]
    <3>1. meta.base[b] <= snap[g][b]
      BY <1>2, <2>3, PublishedRead, OpenLayers, ReadRises, Numbers
    <3>2. meta.base[b] \in Nat
      BY PublishedRead, OpenLayers, ReadRange, Numbers
    <3> QED
      BY <2>3, <2>4, <2>5, <3>1, <3>2
  <2>6. ASSUME NEW f \in synced, Unpublished(f), f.block = b, firm[b] <= f.write
        PROVE  \/ firm[b] <= snap[g][b]
               \/ \E x \in synced : Unpublished(x)' /\ x.block = b /\ firm[b] <= x.write
    <3>1. f \in frames
      BY DEF JournalInv, DiskTyped
    <3>2. CASE g < Generation(f)
      BY <1>3, <2>6, <3>1, <3>2, Numbers DEF Unpublished
    <3>3. CASE ~(g < Generation(f))
      <4>1. Generation(f) <= g /\ journal.published < Generation(f)
        BY <2>2, <2>6, <3>1, <3>3, Numbers DEF Unpublished
      <4>2. f.write <= snap[g][b]
        BY <2>3, <2>6, <3>1, <4>1, IndexSees, Numbers
      <4> QED
        BY <2>3, <2>4, <2>6, <3>1, <4>2, Numbers
    <3> QED
      BY <3>2, <3>3
  <2> QED
    BY <2>5, <2>6 DEF JournalInv, FirmDurable
<1> QED
  BY <1>2, <1>3, <1>5, <1>6, <1>8, <1>9, <1>10

\* With no writer, every frame that is not published is durable.
LEMMA DoneDrained ==
  ASSUME JournalInv, WritersDone, status = "open", ~journal.failed
  PROVE  journal.pending = {} /\ \A f \in frames : Unpublished(f) => f \in synced
<1>1. \A w \in Writers : ~Waiting(w)
  BY DEF WritersDone, Waiting
<1>2. journal.pending = {}
  BY <1>1 DEF JournalInv, PendingSound, AwaitedBy
<1> QED
  BY <1>2 DEF JournalInv, PendingSound

LEMMA DoneSound ==
  ASSUME WritersDone, UNCHANGED writer
  PROVE  WritersSound'
<1>1. \A w \in Writers : writer'[w].pc = "idle" /\ ~Busy(w)' /\ ~Waiting(w)'
  BY DEF WritersDone, Busy, Waiting
<1> QED
  BY <1>1 DEF WritersSound, OneAppends, AppenderSound, WritersOpen, WaitersFramed, SyncReaches

\* Memory follows a publication, and reads do not change.
LEMMA Retires ==
  ASSUME JournalInv, Exclusive, NEW p \in Generations, meta.published <= p, p < meta.generation,
         Retire(p, snap[p]), meta'.generation = meta.generation, meta'.published = p,
         UNCHANGED <<frames, synced, snap, status, writer, capture, issued>>
  PROVE  /\ SealsReadable' /\ IndexSound' /\ PositionSound' /\ WritersSound' /\ PendingSound'
         /\ CaptureSound' /\ Closed' /\ MemoryTyped'
         /\ \A g \in Generations, b \in Blocks : p <= g =>
              ReadFrom(journal'.records, journal'.base, g, b)
                = ReadFrom(journal.records, journal.base, g, b)
<1>0. status = "open" /\ WritersDone /\ capture = NoCapture
  BY DEF Exclusive
<1>1. /\ journal' = [journal EXCEPT !.records = {f \in @ : Generation(f) > p},
                       !.active = NoSegment, !.base = snap[p], !.published = p]
      /\ retired' = retired \cup {s \in files : s[1] <= p}
  BY DEF Retire
<1>2. /\ journal.published <= meta.published /\ journal.published \in Generations
      /\ journal.records \subseteq frames
      /\ \A r \in journal.records : journal.published < Generation(r)
      /\ \A s \in retired : s[1] \notin Later(journal.published)
  BY <1>0 DEF JournalInv, IndexSound
<1>3. journal \in JournalRec /\ p \in Nat /\ snap[p] \in Anything
  BY Numbers DEF JournalInv, MemoryTyped, DiskTyped
<1>x. journal.published \in Nat /\ journal.published <= p
  <2>1. journal.published \in Nat /\ meta.published \in Nat
    BY <1>2, Numbers
  <2> QED
    BY <1>2, <1>3, <2>1
<1>4. /\ journal' \in JournalRec /\ journal'.failed = journal.failed
      /\ journal'.records = {f \in journal.records : Generation(f) > p}
      /\ journal'.base = snap[p] /\ journal'.published = p /\ journal'.active = NoSegment
      /\ journal'.next = journal.next /\ journal'.durable = journal.durable
      /\ journal'.pending = journal.pending /\ journal'.generation = journal.generation
  <2>1. {f \in journal.records : Generation(f) > p} \subseteq FrameRec
    BY <1>3 DEF JournalRec
  <2> QED
    BY <1>1, <1>3, <2>1, BlankDiffers, Zenon DEF JournalRec
<1>5. \A x \in frames : p < Generation(x) <=> Generation(x) > p
  BY <1>3, Numbers
<1>6. ASSUME NEW g \in Generations, NEW b \in Blocks, p <= g
      PROVE  ReadFrom(journal'.records, journal'.base, g, b)
               = ReadFrom(journal.records, journal.base, g, b)
  <2>1. snap[p][b] = ReadFrom(journal.records, journal.base, p, b)
    BY <1>0, <1>x DEF JournalInv, SealsReadable, Rec, Base, Pub
  <2>2. /\ journal'.records \subseteq frames /\ \A x \in journal'.records : p < Generation(x)
        /\ \A x \in journal.records : p < Generation(x) => x \in journal'.records
    BY <1>2, <1>4, <1>5
  <2>3. \A x \in frames : x.seq <= x.seq
    BY Numbers
  <2>4. Covers(journal'.records, journal.records, g, b)
    BY <1>2, <1>4, <2>3 DEF Covers
  <2>5. \A x \in journal.records : Holds(x, g, b) /\ p < Generation(x) =>
          \E y \in journal'.records : Holds(y, g, b) /\ x.seq <= y.seq
    BY <1>2, <2>2, <2>3
  <2>6. g \in Nat /\ issued \in Nat /\ \A f \in frames : f.seq <= issued
    BY Numbers
  <2> QED
    BY <1>2, <1>3, <1>4, <1>6, <2>1, <2>2, <2>4, <2>5, <2>6, FramesChronicle, Rebase
<1>7. SealsReadable'
  <2>1. SUFFICES ASSUME NEW g \in Generations, NEW b \in Blocks, p <= g, g < meta.generation
                 PROVE  snap[g][b] = ReadFrom(journal'.records, journal'.base, g, b)
    BY <1>0, <1>4 DEF SealsReadable, Rec, Base, Pub
  <2>2. journal.published <= g
    BY <1>3, <1>x, <2>1, Numbers
  <2>3. snap[g][b] = ReadFrom(journal.records, journal.base, g, b)
    BY <1>0, <2>1, <2>2 DEF JournalInv, SealsReadable, Rec, Base, Pub
  <2> QED
    BY <1>6, <2>1, <2>3
<1>8. IndexSound'
  <2>1. \A r \in journal'.records : p < Generation(r) /\ r \in frames
    BY <1>2, <1>4, <1>5
  <2>2. ASSUME NEW f \in frames, p < Generation(f)
        PROVE  \E r \in journal'.records :
                  r.block = f.block /\ Generation(r) = Generation(f) /\ f.seq <= r.seq
    <3>1. journal.published < Generation(f)
      BY <1>3, <1>x, <2>2, Numbers
    <3>2. PICK r \in journal.records :
            r.block = f.block /\ Generation(r) = Generation(f) /\ f.seq <= r.seq
      BY <1>0, <3>1 DEF JournalInv, IndexSound
    <3>3. r \in journal'.records
      BY <1>2, <1>4, <1>5, <2>2, <3>2
    <3> QED
      BY <3>2, <3>3
  <2>3. \A s \in retired' : s[1] \notin Later(p)
    <3>1. \A n \in Later(p) : n \in Later(journal.published) /\ ~(n <= p)
      BY <1>3, <1>x DEF Later
    <3> QED
      BY <1>1, <1>2, <3>1
  <2> QED
    BY <1>4, <2>1, <2>2, <2>3, Numbers DEF IndexSound
<1>9. PositionSound'
  BY <1>0, <1>4 DEF PositionSound, JournalInv
<1>10. PendingSound'
  <2>1. \A f \in frames : Unpublished(f)' => Unpublished(f)
    BY <1>3, Numbers DEF Unpublished
  <2> QED
    BY <1>0, <1>4, <2>1, DoneDrained DEF PendingSound
<1>11. WritersSound'
  BY <1>0, DoneSound
<1>12. CaptureSound' /\ Closed'
  BY <1>0 DEF CaptureSound, Closed
<1>13. MemoryTyped'
  BY <1>4 DEF MemoryTyped, JournalInv
<1> QED
  BY <1>6, <1>7, <1>8, <1>9, <1>10, <1>11, <1>12, <1>13

LEMMA PublishKeeps ==
  ASSUME JournalInv, Publish
  PROVE  /\ JournalInv'
         /\ \A b \in Blocks : ReadFrom(journal'.records, journal'.base, MaxGeneration, b)
                                = ReadFrom(journal.records, journal.base, MaxGeneration, b)
<1>0. /\ Exclusive
      /\ UNCHANGED <<frames, synced, status, writer, capture, issued, firm, snap>>
  BY DEF Publish, diskVars
<1>1. PICK g \in Generations : PublishTransaction(g) /\ Retire(g, manifests[g])
  BY DEF Publish
<1>2. status = "open"
  BY <1>0 DEF Exclusive
<1>3. /\ DiskTyped' /\ FramesOrdered' /\ FramesDescribed' /\ FirmDurable' /\ SealsSound'
      /\ meta'.generation = meta.generation /\ meta'.published = g /\ manifests[g] = snap[g]
      /\ meta.published < g /\ g < meta.generation
  BY <1>0, <1>1, <1>2, PublishTransactionKeeps
<1>4. meta.published <= g /\ g <= MaxGeneration
  BY <1>3, Numbers
<1>5. Retire(g, snap[g])
  BY <1>1, <1>3
<1> QED
  BY <1>0, <1>3, <1>4, <1>5, Retires, Numbers DEF JournalInv

LEMMA PublishAnswerLostKeeps ==
  ASSUME JournalInv, PublishAnswerLost
  PROVE  JournalInv'
<1>0. /\ Exclusive
      /\ UNCHANGED <<frames, synced, status, journal, writer, capture, retired, issued, firm, snap>>
  BY DEF PublishAnswerLost, diskVars
<1>1. PICK g \in Generations : PublishTransaction(g)
  BY DEF PublishAnswerLost
<1>2. status = "open" /\ WritersDone /\ capture = NoCapture
  BY <1>0 DEF Exclusive
<1>3. /\ DiskTyped' /\ FramesOrdered' /\ FramesDescribed' /\ FirmDurable' /\ SealsSound'
      /\ meta'.generation = meta.generation /\ meta'.published = g
      /\ meta.published < g /\ g < meta.generation
  BY <1>0, <1>1, <1>2, PublishTransactionKeeps
<1>4. SealsReadable'
  BY <1>0, <1>2, <1>3 DEF JournalInv, SealsReadable, Rec, Base, Pub
<1>5. IndexSound'
  <2>1. journal.published <= g
    BY <1>2, <1>3, Numbers DEF JournalInv, IndexSound
  <2> QED
    BY <1>0, <1>2, <1>3, <2>1 DEF JournalInv, IndexSound
<1>6. PositionSound'
  <2>1. ~journal.failed => journal.active = NoSegment \/ journal.active \in segments'
    <3>1. SUFFICES ASSUME ~journal.failed, journal.active # NoSegment
                   PROVE  journal.active \in segments'
      OBVIOUS
    <3>2. journal.active \in segments /\ journal.active[1] = meta.generation
      BY <1>2, <3>1 DEF JournalInv, PositionSound
    <3>3. journal.active[1] > g
      BY <1>3, <3>2, Numbers
    <3> QED
      BY <1>1, <3>2, <3>3 DEF PublishTransaction, KeptSegments
  <2> QED
    BY <1>0, <1>2, <1>3, <2>1 DEF JournalInv, PositionSound
<1>7. PendingSound'
  <2>1. \A f \in frames : Unpublished(f)' => Unpublished(f)
    BY <1>3, Numbers DEF Unpublished
  <2> QED
    BY <1>0, <1>2, <2>1, DoneDrained DEF PendingSound
<1>8. WritersSound' /\ CaptureSound' /\ Closed'
  BY <1>0, <1>2, DoneSound DEF CaptureSound, Closed
<1>9. MemoryTyped'
  BY <1>0 DEF MemoryTyped, JournalInv
<1> QED
  BY <1>3, <1>4, <1>5, <1>6, <1>7, <1>8, <1>9 DEF JournalInv

LEMMA PublishAgainKeeps ==
  ASSUME JournalInv, PublishAgain
  PROVE  /\ JournalInv'
         /\ \A b \in Blocks : ReadFrom(journal'.records, journal'.base, MaxGeneration, b)
                                = ReadFrom(journal.records, journal.base, MaxGeneration, b)
<1>0. /\ Exclusive /\ Retire(meta.published, meta.base)
      /\ UNCHANGED <<frames, synced, segments, meta, manifests, status, writer, capture,
                     issued, firm, snap>>
  BY DEF PublishAgain, diskVars, dbVars
<1>1. DiskTyped' /\ FramesOrdered' /\ FramesDescribed' /\ FirmDurable' /\ SealsSound'
  BY <1>0, DiskKept
<1>2. Retire(meta.published, snap[meta.published])
  BY <1>0 DEF JournalInv, SealsSound
<1>3. PICK p \in Generations : p = meta.published
  BY Numbers
<1>4. meta.published <= p /\ p < meta.generation /\ p <= MaxGeneration
  BY <1>3, Numbers
<1> QED
  BY <1>0, <1>1, <1>2, <1>3, <1>4, Retires, Numbers DEF JournalInv

\* Unlinking a file takes nothing that is still read or waited for.
LEMMA ReclaimKeeps ==
  ASSUME JournalInv, Reclaim
  PROVE  JournalInv'
<1>0. /\ status = "open"
      /\ UNCHANGED <<segments, meta, manifests, status, journal, writer, capture, issued,
                     firm, snap>>
  BY DEF Reclaim, dbVars
<1>1. PICK s \in retired : /\ retired' = retired \ {s} /\ frames' = frames \ In(s)
                           /\ synced' = synced \ In(s)
  BY DEF Reclaim
<1>2. /\ journal.published <= meta.published /\ journal.published \in Nat
      /\ journal.records \subseteq frames
      /\ \A r \in journal.records : journal.published < Generation(r)
      /\ s[1] \notin Later(journal.published)
  BY <1>0, Numbers DEF JournalInv, IndexSound
<1>3. frames' \subseteq frames /\ synced' \subseteq frames' /\ synced' \subseteq synced
  BY <1>1 DEF JournalInv, DiskTyped
<1>4. \A f \in frames : journal.published < Generation(f) =>
        f \in frames' /\ (f \in synced' <=> f \in synced)
  <2>1. SUFFICES ASSUME NEW f \in frames, journal.published < Generation(f)
                 PROVE  f \notin In(s)
    BY <1>1
  <2>2. Generation(f) \in Later(journal.published)
    BY <2>1, Numbers DEF Later
  <2> QED
    BY <1>2, <2>2 DEF In, Generation
<1>5. \A f \in frames : Unpublished(f) => f \in frames' /\ (f \in synced' <=> f \in synced)
  BY <1>2, <1>4, Numbers DEF Unpublished
<1>6. DiskTyped'
  BY <1>0, <1>3 DEF JournalInv, DiskTyped
<1>7. FramesOrdered'
  BY <1>0, <1>3 DEF JournalInv, FramesOrdered
<1>8. FramesDescribed'
  BY <1>0, <1>3, <1>5 DEF JournalInv, FramesDescribed, Unpublished
<1>9. FirmDurable'
  <2>1. synced \subseteq frames
    BY DEF JournalInv, DiskTyped
  <2> QED
    BY <1>0, <1>5, <2>1 DEF JournalInv, FirmDurable, Unpublished
<1>10. SealsSound'
  BY <1>0, <1>3 DEF JournalInv, SealsSound
<1>11. SealsReadable'
  BY <1>0 DEF JournalInv, SealsReadable, Rec, Base, Pub
<1>12. IndexSound'
  BY <1>0, <1>1, <1>2, <1>3, <1>4 DEF JournalInv, IndexSound
<1>13. PositionSound'
  BY <1>0, <1>3 DEF JournalInv, PositionSound
<1>14. \A f \in frames : Generation(f) = meta.generation => f \in frames'
  BY <1>2, <1>4, Numbers
<1>15. OneAppends' /\ AppenderSound' /\ WritersOpen'
  BY <1>0 DEF OneAppends, AppenderSound, WritersOpen, Busy, JournalInv, WritersSound
<1>16. WaitersFramed'
  BY <1>0, <1>14 DEF WaitersFramed, FrameOf, Waiting, JournalInv, WritersSound
<1>17. SyncReaches'
  BY <1>0, <1>3, <1>5 DEF SyncReaches, Unpublished, JournalInv, WritersSound
<1>18. PendingSound'
  <2>1. ASSUME NEW t, NEW w \in Writers, AwaitedBy(t, w)
        PROVE  AwaitedBy(t, w)'
    <3>1. PICK f \in frames : f.segment = t /\ f.seq = writer[w].seq
      BY <2>1 DEF AwaitedBy
    <3>2. PICK x \in frames : FrameOf(w, x)
      BY <2>1 DEF AwaitedBy, JournalInv, WritersSound, WaitersFramed
    <3>3. f = x
      BY <3>1, <3>2 DEF FrameOf, JournalInv, FramesOrdered
    <3>4. f \in frames'
      BY <1>14, <3>2, <3>3 DEF FrameOf
    <3> QED
      BY <1>0, <1>3, <2>1, <3>1, <3>4 DEF AwaitedBy, Waiting
  <2> QED
    BY <1>0, <1>3, <1>5, <2>1 DEF PendingSound, Unpublished, JournalInv
<1>19. CaptureSound' /\ Closed'
  BY <1>0 DEF JournalInv, CaptureSound, Closed
<1>20. MemoryTyped'
  BY <1>0 DEF MemoryTyped, JournalInv
<1> QED
  BY <1>6, <1>7, <1>8, <1>9, <1>10, <1>11, <1>12, <1>13, <1>15, <1>16, <1>17, <1>18, <1>19,
     <1>20 DEF JournalInv, WritersSound
----------------------------------------
(* A crash and the recovery.                                               *)

LEMMA PowerLossKeeps ==
  ASSUME JournalInv, PowerLoss
  PROVE  JournalInv'
<1>0. /\ status = "open" /\ status' = "closed" /\ journal' = NewJournal
      /\ writer' = [w \in Writers |-> IdleWriter] /\ capture' = NoCapture /\ retired' = {}
      /\ UNCHANGED <<synced, segments, meta, manifests, issued, firm, snap>>
  BY DEF PowerLoss, dbVars
<1>1. PICK lost \in SUBSET (frames \ synced) : frames' = frames \ lost
  BY DEF PowerLoss
<1>2. frames' \subseteq frames /\ synced \subseteq frames'
  BY <1>1 DEF JournalInv, DiskTyped
<1>3. DiskTyped'
  BY <1>0, <1>2 DEF JournalInv, DiskTyped
<1>4. FramesOrdered' /\ SealsSound'
  BY <1>0, <1>2 DEF JournalInv, FramesOrdered, SealsSound
<1>5. FramesDescribed' /\ FirmDurable'
  BY <1>0, <1>2 DEF JournalInv, FramesDescribed, FirmDurable, Unpublished
<1>6. SealsReadable'
  <2>1. SUFFICES ASSUME NEW g \in Generations, NEW b \in Blocks,
                        meta.published <= g, g < meta.generation
                 PROVE  snap[g][b] = ReadFrom(Described', meta.base, g, b)
    BY <1>0 DEF SealsReadable, Rec, Base, Pub
  <2>2. /\ journal.published <= meta.published /\ journal.published \in Nat
        /\ journal.records \subseteq frames
    BY <1>0, Numbers DEF JournalInv, IndexSound
  <2>3. snap[g][b] = ReadFrom(journal.records, journal.base, g, b)
    <3>1. journal.published <= g
      BY <2>1, <2>2, Numbers
    <3> QED
      BY <1>0, <2>1, <3>1 DEF JournalInv, SealsReadable, Rec, Base, Pub
  <2>4. meta.base[b] = ReadFrom(journal.records, journal.base, meta.published, b)
    BY <1>0, PublishedRead
  <2>5. Described' \subseteq frames /\ \A x \in Described' : meta.published < Generation(x)
    BY <1>0, <1>2, Numbers DEF Described, JournalInv, FramesDescribed, Generation
  <2>6. \A x \in frames : meta.published < Generation(x) /\ Generation(x) < meta.generation =>
          x \in Described'
    <3>1. SUFFICES ASSUME NEW x \in frames, meta.published < Generation(x),
                          Generation(x) < meta.generation
                   PROVE  x \in Described'
      OBVIOUS
    <3>2. Unpublished(x)
      BY <3>1, Numbers DEF Unpublished
    <3>3. x \in synced /\ x.segment \in segments
      BY <3>1, <3>2 DEF JournalInv, FramesDescribed
    <3> QED
      BY <1>0, <1>2, <3>3 DEF Described
  <2>7. \A x \in frames : x.seq <= x.seq
    BY Numbers
  <2>8. \A x \in Described' : Holds(x, g, b) => meta.published < Generation(x)
    BY <2>5
  <2>9. \A x \in journal.records : Holds(x, g, b) /\ meta.published < Generation(x) =>
          \E y \in Described' : Holds(y, g, b) /\ x.seq <= y.seq
    <3>1. SUFFICES ASSUME NEW x \in journal.records, Holds(x, g, b),
                          meta.published < Generation(x)
                   PROVE  x \in Described'
      BY <2>2, <2>7
    <3>2. x \in frames /\ Generation(x) < meta.generation
      BY <2>1, <2>2, <3>1, Numbers DEF Holds
    <3> QED
      BY <2>6, <3>1, <3>2
  <2>10. Covers(Described', journal.records, g, b)
    <3>1. SUFFICES ASSUME NEW x \in Described', Holds(x, g, b)
                   PROVE  \E y \in journal.records : Holds(y, g, b) /\ x.seq <= y.seq
      BY DEF Covers
    <3>2. x \in frames /\ journal.published < Generation(x)
      BY <2>2, <2>5, <3>1, Numbers
    <3> QED
      BY <1>0, <3>1, <3>2 DEF JournalInv, IndexSound, Holds
  <2>11. g \in Nat /\ issued \in Nat /\ meta.published \in Nat /\ \A f \in frames : f.seq <= issued
    BY Numbers
  <2>12. PICK S : S = Described'
    OBVIOUS
  <2>13. ReadFrom(S, meta.base, g, b) = ReadFrom(journal.records, journal.base, g, b)
    BY <2>1, <2>2, <2>4, <2>5, <2>8, <2>9, <2>10, <2>11, <2>12, FramesChronicle, Rebase
  <2> QED
    BY <2>3, <2>12, <2>13
<1>7. IndexSound' /\ PositionSound' /\ PendingSound'
  BY <1>0 DEF IndexSound, PositionSound, PendingSound
<1>8. WritersSound'
  <2>1. \A w \in Writers : writer'[w].pc = "idle" /\ ~Busy(w)' /\ ~Waiting(w)'
    BY <1>0 DEF IdleWriter, Busy, Waiting
  <2> QED
    BY <2>1 DEF WritersSound, OneAppends, AppenderSound, WritersOpen, WaitersFramed, SyncReaches
<1>9. CaptureSound' /\ Closed'
  BY <1>0 DEF CaptureSound, Closed
<1>10. MemoryTyped'
  <2>1. NoCapture \in [generation : Nat, changed : SUBSET Blocks, base : Anything]
    BY DEF NoCapture, Empty, Anything
  <2>2. NewJournal \in JournalRec
    <3>1. [b \in Blocks |-> 0] \in Anything /\ 1 \in Nat \ {0} /\ 0 \in Nat
      BY DEF Anything
    <3> QED
      BY <3>1, BlankDiffers, Zenon DEF NewJournal, JournalRec
  <2> QED
    BY <1>0, <2>1, <2>2, IdleTyped DEF MemoryTyped
<1> QED
  BY <1>3, <1>4, <1>5, <1>6, <1>7, <1>8, <1>9, <1>10 DEF JournalInv

\* The next sequence number after recovery is above every frame.
LEMMA NextRecovered ==
  ASSUME JournalInv, NEW next, next = Max({meta.next} \cup {f.seq + 1 : f \in Described})
  PROVE  /\ next \in Nat \ {0} /\ next <= issued + 1
         /\ \A f \in Described : f.seq < next
<1> DEFINE above == {meta.next} \cup {f.seq + 1 : f \in Described}
<1>1. Described \subseteq frames
  BY DEF Described
<1>2. meta.next \in Nat \ {0} /\ meta.next <= issued + 1
  BY DEF JournalInv, DiskTyped, FramesDescribed
<1>3. \A f \in Described : f.seq \in Nat /\ f.seq + 1 \in Nat \ {0} /\ f.seq + 1 <= issued + 1
  BY <1>1, Numbers
<1>4. above \subseteq Nat \ {0} /\ above # {} /\ \A m \in above : m <= issued + 1
  BY <1>2, <1>3
<1>5. PICK m \in above : \A k \in above : k <= m
  <2>1. above \subseteq Nat /\ issued + 1 \in Nat
    BY <1>4, Numbers
  <2> QED
    BY <1>4, <2>1, BoundedMax
<1>6. \A f \in Described : f.seq + 1 \in above
  OBVIOUS
<1> HIDE DEF above
<1>7. \E x \in above : \A k \in above : x >= k
  BY <1>4, <1>5
<1>8. Max(above) \in above /\ \A k \in above : Max(above) >= k
  BY <1>7 DEF Max
<1>9. next = Max(above)
  BY DEF above
<1>10. next \in Nat \ {0} /\ next <= issued + 1
  BY <1>4, <1>8, <1>9
<1>11. ASSUME NEW f \in Described PROVE f.seq < next
  <2>1. f.seq \in Nat /\ next >= f.seq + 1
    BY <1>3, <1>6, <1>8, <1>9
  <2> QED
    BY <1>10, <2>1
<1> QED
  BY <1>10, <1>11

LEMMA OpenKeeps ==
  ASSUME JournalInv, Open
  PROVE  /\ JournalInv'
         /\ status' = "open" => \A b \in Blocks, g \in Generations :
              ReadFrom(journal'.records, journal'.base, g, b) = ReadFrom(Described, meta.base, g, b)
         /\ status' # "open" => Described' = Described /\ UNCHANGED meta
<1>0. /\ status # "open"
      /\ UNCHANGED <<segments, meta, manifests, writer, capture, retired, issued, firm, snap>>
  BY DEF Open, dbVars
<1>1. /\ capture = NoCapture /\ retired = {}
      /\ \A w \in Writers : writer[w].pc = "idle"
  BY <1>0 DEF JournalInv, Closed, WritersSound, WritersOpen
<1>2. WritersSound'
  BY <1>0, <1>1, DoneSound DEF WritersDone
<1>3. CaptureSound' /\ Closed'
  BY <1>0, <1>1 DEF CaptureSound, Closed
<1>4. CASE status' = "refused" /\ UNCHANGED <<diskVars, journal>>
  <2>1. UNCHANGED <<frames, synced, journal>>
    BY <1>4 DEF diskVars
  <2>2. DiskTyped' /\ FramesOrdered' /\ FramesDescribed' /\ FirmDurable' /\ SealsSound'
    BY <1>0, <2>1, DiskKept
  <2>3. SealsReadable'
    BY <1>0, <1>4, <2>1 DEF JournalInv, SealsReadable, Rec, Base, Pub, Described
  <2>4. IndexSound' /\ PositionSound' /\ PendingSound'
    BY <1>4 DEF IndexSound, PositionSound, PendingSound
  <2>5. MemoryTyped'
    BY <1>0, <1>4, <2>1 DEF MemoryTyped, JournalInv
  <2>6. Described' = Described
    BY <1>0, <2>1 DEF Described
  <2> QED
    BY <1>0, <1>2, <1>3, <1>4, <2>2, <2>3, <2>4, <2>5, <2>6 DEF JournalInv
<1>5. CASE /\ status' = "open" /\ frames' = Described /\ synced' = Described
           /\ \E next : /\ next = Max({meta.next} \cup {f.seq + 1 : f \in Described})
                        /\ journal' = [records |-> Indexed(Described), active |-> RecoveredActive,
                             generation |-> meta.generation, next |-> next, failed |-> FALSE,
                             durable |-> next - 1, pending |-> {},
                             published |-> meta.published, base |-> meta.base]
  <2>1. PICK next : /\ next = Max({meta.next} \cup {f.seq + 1 : f \in Described})
                    /\ journal' = [records |-> Indexed(Described), active |-> RecoveredActive,
                         generation |-> meta.generation, next |-> next, failed |-> FALSE,
                         durable |-> next - 1, pending |-> {},
                         published |-> meta.published, base |-> meta.base]
    BY <1>5
  <2>2. next \in Nat \ {0} /\ next <= issued + 1 /\ \A f \in Described : f.seq < next
    BY <2>1, NextRecovered
  <2>3. /\ Described \subseteq frames /\ \A f \in Described : meta.published < Generation(f)
        /\ \A f \in Described : f.segment \in segments
    <3>1. PICK b \in Blocks : TRUE
      BY JournalAssumption
    <3> QED
      BY <3>1, ClosedLayers DEF Described
  <2>4. RecoveredActive = NoSegment
        \/ (RecoveredActive \in segments /\ RecoveredActive[1] = meta.generation)
    <3>1. CASE \E s \in segments : LastDescribed(s)
      BY <3>1 DEF RecoveredActive, LastDescribed
    <3>2. CASE ~\E s \in segments : LastDescribed(s)
      BY <3>2 DEF RecoveredActive
    <3> QED
      BY <3>1, <3>2
  <2>5. /\ journal' \in JournalRec /\ journal'.failed = FALSE
        /\ journal'.records = Indexed(Described) /\ journal'.base = meta.base
        /\ journal'.published = meta.published /\ journal'.active = RecoveredActive
        /\ journal'.next = next /\ journal'.durable = next - 1
        /\ journal'.pending = {} /\ journal'.generation = meta.generation
    <3>1. Indexed(Described) \subseteq FrameRec
      BY <2>3 DEF Indexed, JournalInv, DiskTyped
    <3>2. RecoveredActive \in Segment
      BY <2>4, BlankDiffers DEF JournalInv, DiskTyped
    <3>3. next - 1 \in Nat /\ meta.generation \in Nat /\ meta.published \in Nat
      BY <2>2, Numbers
    <3>4. meta.base \in Anything
      BY DEF JournalInv, DiskTyped
    <3> QED
      BY <2>1, <2>2, <3>1, <3>2, <3>3, <3>4, Zenon DEF JournalRec
  <2>6. DiskTyped'
    BY <1>0, <1>5, <2>3 DEF JournalInv, DiskTyped
  <2>7. FramesOrdered' /\ SealsSound'
    BY <1>0, <1>5, <2>3 DEF JournalInv, FramesOrdered, SealsSound
  <2>8. FramesDescribed'
    BY <1>0, <1>5, <2>3 DEF JournalInv, FramesDescribed, Unpublished
  <2>9. FirmDurable'
    <3>1. \A f \in synced : Unpublished(f) => f \in Described
      BY DEF JournalInv, DiskTyped, FramesDescribed, Described
    <3> QED
      BY <1>0, <1>5, <3>1 DEF JournalInv, FirmDurable, Unpublished
  <2>10. Ordered(Described) /\ Ordered(frames) /\ issued \in Nat
         /\ \A f \in frames : f.seq <= issued
    BY <2>3, Numbers, FramesChronicle, ChroniclePart DEF Chronicle
  <2>11. \A x \in Described : \E y \in Indexed(Described) :
            y.block = x.block /\ Generation(y) = Generation(x) /\ x.seq <= y.seq
    BY <2>3, <2>10, IndexCovers
  <2>12. IndexSound'
    <3>1. Indexed(Described) \subseteq Described
      BY DEF Indexed
    <3>2. meta.base = snap[meta.published] /\ meta.published <= meta.published
      BY Numbers DEF JournalInv, SealsSound
    <3> QED
      BY <1>0, <1>1, <1>5, <2>3, <2>5, <2>11, <3>1, <3>2, Numbers DEF IndexSound
  <2>13. ASSUME NEW b \in Blocks, NEW g \in Generations
         PROVE  ReadFrom(journal'.records, journal'.base, g, b)
                  = ReadFrom(Described, meta.base, g, b)
    <3>1. Indexed(Described) \subseteq Described
      BY DEF Indexed
    <3>2. Covers(Described, Indexed(Described), g, b)
      BY <2>11 DEF Covers, Holds
    <3>3. Covers(Indexed(Described), Described, g, b)
      BY <2>3, <3>1, Numbers DEF Covers
    <3> QED
      BY <2>3, <2>5, <2>10, <3>1, <3>2, <3>3, SameRead
  <2>14. SealsReadable'
    BY <1>0, <1>5, <2>5, <2>13 DEF JournalInv, SealsReadable, Rec, Base, Pub
  <2>15. PositionSound'
    <3>1. journal'.next <= issued' + 1 /\ journal'.durable < journal'.next
      BY <1>0, <2>2, <2>5
    <3>2. \A f \in frames' : f.seq < journal'.next
      BY <1>5, <2>2, <2>5
    <3>3. /\ journal'.generation = meta'.generation
          /\ journal'.active # NoSegment =>
               journal'.active \in segments' /\ journal'.active[1] = journal'.generation
      BY <1>0, <2>4, <2>5
    <3> QED
      BY <3>1, <3>2, <3>3 DEF PositionSound
  <2>16. PendingSound'
    BY <1>5, <2>5 DEF PendingSound
  <2>17. MemoryTyped'
    BY <1>0, <1>5, <2>5 DEF MemoryTyped, JournalInv
  <2> QED
    BY <1>2, <1>3, <1>5, <2>6, <2>7, <2>8, <2>9, <2>12, <2>13, <2>14, <2>15, <2>16, <2>17
       DEF JournalInv
<1> QED
  BY <1>4, <1>5 DEF Open
----------------------------------------
(* The theorems.                                                           *)

LEMMA JournalStarts == JournalInit => JournalInv
<1> SUFFICES ASSUME JournalInit PROVE JournalInv
  OBVIOUS
<1> USE DEF JournalInit
<1>1. /\ MaxWrites \in Nat /\ MaxGeneration \in Nat /\ 0 \in Generations /\ 1 \in Generations
      /\ 0 \in Writes /\ Blocks # {}
  BY JournalAssumption DEF Generations, Writes
<1>2. /\ [b \in Blocks |-> 0] \in Anything /\ [b \in Blocks |-> 0] \in Contents
      /\ Absent \in Anything /\ Unsealed \in Anything
  BY <1>1 DEF Anything, Contents, Absent, Unsealed, Empty
<1>3. snap \in [Generations -> Anything] /\ snap[0] = [b \in Blocks |-> 0]
      /\ \A g \in Generations : g # 0 => snap[g] = Unsealed
  BY <1>1, <1>2
<1>4. DiskTyped
  BY <1>1, <1>2, <1>3 DEF DiskTyped
<1>5. MemoryTyped
  <2>1. NoCapture \in [generation : Nat, changed : SUBSET Blocks, base : Anything]
    BY DEF NoCapture, Empty, Anything
  <2>2. NewJournal \in JournalRec
    <3>1. 1 \in Nat \ {0} /\ 0 \in Nat
      OBVIOUS
    <3> QED
      BY <1>2, <3>1, BlankDiffers, Zenon DEF NewJournal, JournalRec
  <2> QED
    BY <2>1, <2>2, IdleTyped DEF MemoryTyped
<1>6. FramesOrdered /\ FramesDescribed
  BY DEF FramesOrdered, FramesDescribed
<1>7. FirmDurable
  BY DEF FirmDurable
<1>8. SealsSound
  <2>1. \A g \in Generations : g < 1 => g = 0
    BY <1>1 DEF Generations
  <2>2. \A g \in Generations : g >= 1 => g # 0
    BY <1>1 DEF Generations
  <2>3. [b \in Blocks |-> 0] \in [Blocks -> 0 .. issued]
    OBVIOUS
  <2> QED
    BY <1>3, <2>1, <2>2, <2>3, BlankDiffers DEF SealsSound
<1>9. SealsReadable
  <2>1. SUFFICES ASSUME NEW g \in Generations, NEW b \in Blocks, g < 1
                 PROVE  snap[g][b] = ReadFrom({}, [c \in Blocks |-> 0], g, b)
    BY DEF SealsReadable, Rec, Base, Pub, NewJournal
  <2>2. g = 0
    BY <1>1, <2>1 DEF Generations
  <2> QED
    BY <1>3, <2>2 DEF ReadFrom
<1>10. IndexSound
  BY <1>1, <1>3 DEF IndexSound, NewJournal
<1>11. PositionSound /\ PendingSound
  BY DEF PositionSound, PendingSound, NewJournal
<1>12. WritersSound
  <2>1. \A w \in Writers : writer[w].pc = "idle" /\ ~Busy(w) /\ ~Waiting(w)
    BY DEF IdleWriter, Busy, Waiting
  <2> QED
    BY <2>1 DEF WritersSound, OneAppends, AppenderSound, WritersOpen, WaitersFramed, SyncReaches
<1>13. CaptureSound /\ Closed
  BY DEF CaptureSound, Closed
<1> QED
  BY <1>4, <1>5, <1>6, <1>7, <1>8, <1>9, <1>10, <1>11, <1>12, <1>13 DEF JournalInv

LEMMA JournalStutters ==
  ASSUME JournalInv, UNCHANGED journalVars
  PROVE  JournalInv'
<1>1. UNCHANGED <<frames, synced, segments, meta, manifests, status, journal, writer, capture,
                  retired, issued, firm, snap>>
  BY DEF journalVars
<1>2. MemoryTyped'
  BY <1>1 DEF MemoryTyped, JournalInv
<1>3. SealsReadable'
  BY <1>1 DEF JournalInv, SealsReadable, Rec, Base, Pub, Described
<1>4. IndexSound'
  BY <1>1 DEF JournalInv, IndexSound
<1> QED
  BY <1>1, <1>2, <1>3, <1>4, DiskKept, CaptureKept, WritersKept DEF JournalInv

LEMMA JournalKeeps ==
  ASSUME JournalInv, [JournalNext]_journalVars
  PROVE  JournalInv'
<1>1. ASSUME NEW w \in Writers, WriterStep(w)
      PROVE  JournalInv'
  BY <1>1, AppendBeginKeeps, AppendDescribeKeeps, AppendFrameKeeps, AppendErrorKeeps,
     CommitBatchKeeps, SyncFileKeeps, SyncErrorKeeps, CommittedKeeps DEF WriterStep
<1>2. CASE Flush
  BY <1>2, JournalStutters DEF Flush
<1>3. CASE UNCHANGED journalVars
  BY <1>3, JournalStutters
<1> QED
  BY <1>1, <1>2, <1>3, SealKeeps, SealErrorKeeps, CaptureBeginKeeps, CaptureEndKeeps,
     CaptureErrorKeeps, PublishKeeps, PublishAnswerLostKeeps, PublishAgainKeeps, ReclaimKeeps,
     PowerLossKeeps, OpenKeeps DEF JournalNext

THEOREM JournalInvariant == JournalSpec => []JournalInv
<1>1. JournalInit => JournalInv
  BY JournalStarts
<1>2. JournalInv /\ [JournalNext]_journalVars => JournalInv'
  BY JournalKeeps
<1> QED
  BY <1>1, <1>2, PTL DEF JournalSpec

\* A captured manifest, and the base that it becomes, is the disk as it was at
\* the seal; and a journal whose writers have all returned has nothing left to
\* sync, so that no flush or seal is refused for an acknowledged write.
THEOREM JournalIsExact == JournalSpec => []JournalExact
<1>1. JournalInv => JournalExact
  <2> SUFFICES ASSUME JournalInv PROVE JournalExact
    OBVIOUS
  <2>1. CapturesTheSeal
    BY DEF CapturesTheSeal, JournalInv, SealsSound
  <2>2. DrainedWhenIdle
    BY DoneDrained DEF DrainedWhenIdle
  <2> QED
    BY <2>1, <2>2 DEF JournalExact
<1> QED
  BY <1>1, JournalInvariant, PTL
----------------------------------------
(* The journal implements a durable disk.                                  *)

LEMMA VisibleRange ==
  ASSUME JournalInv
  PROVE  /\ Visible = [b \in Blocks |-> Visible[b]]
         /\ \A b \in Blocks : Visible[b] \in 0 .. issued /\ firm[b] <= Visible[b]
         /\ firm \in [Blocks -> Nat]
<1>1. firm \in [Blocks -> Nat]
  BY Numbers DEF JournalInv, DiskTyped, Contents, Writes
<1>2. CASE status = "open"
  <2>1. \A b \in Blocks : ReadFrom(journal.records, journal.base, MaxGeneration, b) \in 0 .. issued
    BY <1>2, OpenLayers, ReadRange, Numbers
  <2>2. \A b \in Blocks : firm[b] <= ReadFrom(journal.records, journal.base, MaxGeneration, b)
    BY <1>2, FirmRead
  <2> QED
    BY <1>1, <1>2, <2>1, <2>2 DEF Visible, ReadGeneration
<1>3. CASE status # "open"
  <2>1. \A b \in Blocks : ReadFrom(Described, meta.base, MaxGeneration, b) \in 0 .. issued
    BY ClosedLayers, ReadRange, Numbers
  <2>2. \A b \in Blocks : firm[b] <= ReadFrom(Described, meta.base, MaxGeneration, b)
    BY FirmRead
  <2> QED
    BY <1>1, <1>3, <2>1, <2>2 DEF Visible
<1> QED
  BY <1>2, <1>3

\* A step that leaves the index and the promised state as they are.
LEMMA Unseen ==
  ASSUME status = "open", status' = "open",
         \A b \in Blocks : ReadFrom(journal'.records, journal'.base, MaxGeneration, b)
                             = ReadFrom(journal.records, journal.base, MaxGeneration, b)
  PROVE  Visible' = Visible
BY DEF Visible, ReadGeneration

LEMMA AppendFramePromised ==
  ASSUME JournalInv, NEW w \in Writers, AppendFrame(w)
  PROVE  \E b \in Blocks : Promise!Write(b)
<1>a. PICK f : f = [segment |-> journal.active, seq |-> journal.next,
                    block |-> writer[w].block, write |-> issued + 1]
  OBVIOUS
<1>0. /\ writer[w].pc = "frame" /\ frames' = frames \cup {f} /\ issued' = issued + 1
      /\ UNCHANGED <<status, firm, snap, meta>>
      /\ journal' = [journal EXCEPT !.records = Indexed(@ \cup {f}), !.next = @ + 1,
                                    !.pending = @ \cup {journal.active}]
  BY <1>a DEF AppendFrame, SetWriter, dbVars
<1>b. journal'.published = journal.published /\ journal'.base = journal.base
  BY <1>0 DEF JournalInv, MemoryTyped, JournalRec
<1>1. /\ Busy(w) /\ status = "open" /\ ~journal.failed /\ issued < MaxWrites
      /\ writer[w].block \in Blocks /\ journal.active # NoSegment
  BY <1>0 DEF Busy, JournalInv, WritersSound, WritersOpen, AppenderSound
<1>2. /\ journal.active[1] = meta.generation /\ \A x \in frames : x.seq < journal.next
      /\ journal.next \in Nat
  BY <1>1 DEF JournalInv, PositionSound, MemoryTyped, JournalRec
<1>3. PICK b \in Blocks : b = f.block
  BY <1>a, <1>1
<1>4. Generation(f) = meta.generation /\ f.seq = journal.next /\ f.write = issued + 1
  BY <1>a, <1>2 DEF Generation
<1>5. JournalInv'
  BY AppendFrameKeeps
<1>6. /\ Chronicle(frames') /\ issued' \in Nat /\ \A x \in frames' : x.seq <= issued'
      /\ \A x \in frames' : x.seq <= f.seq
  <2>1. Chronicle(frames')
    BY <1>5 DEF JournalInv, DiskTyped, FramesOrdered, Chronicle, Ordered
  <2>2. f.seq <= issued'
    BY <1>1, <1>0, <1>2, <1>4, Numbers DEF JournalInv, PositionSound
  <2>3. \A x \in frames : x.seq <= issued' /\ x.seq <= f.seq
    BY <1>0, <1>2, <1>4, Numbers
  <2> QED
    BY <1>0, <1>2, <1>4, <2>1, <2>2, <2>3, Numbers
<1>7. /\ journal.published \in Nat /\ journal.published < Generation(f)
      /\ journal.records \subseteq frames
      /\ \A x \in journal.records : journal.published < Generation(x)
      /\ \A x \in frames : journal.published < Generation(x) => \E y \in journal.records :
            y.block = x.block /\ Generation(y) = Generation(x) /\ x.seq <= y.seq
  BY <1>1, <1>4, Numbers DEF JournalInv, IndexSound
<1>8. /\ journal'.records \subseteq frames'
      /\ \A x \in journal'.records : journal.published < Generation(x)
      /\ \A x \in frames' : journal.published < Generation(x) => \E y \in journal'.records :
            y.block = x.block /\ Generation(y) = Generation(x) /\ x.seq <= y.seq
  BY <1>0, <1>b, <1>1, <1>5 DEF JournalInv, IndexSound
<1>9. ReadFrom(journal'.records, journal'.base, MaxGeneration, b) = issued + 1
  <2>1. PICK y \in journal'.records : y.block = b /\ Generation(y) = Generation(f) /\ f.seq <= y.seq
    BY <1>0, <1>3, <1>7, <1>8
  <2>2. y.seq \in Nat /\ f.seq \in Nat /\ y \in frames' /\ f \in frames'
    BY <1>0, <1>6, <1>8 DEF Chronicle, Ordered, FrameRec
  <2>3. y = f
    BY <1>6, <2>1, <2>2 DEF Chronicle, Ordered
  <2>4. IsNewest(journal'.records, MaxGeneration, b, f)
    BY <1>3, <1>4, <1>6, <1>8, <2>3, Numbers DEF IsNewest, Holds
  <2>5. Ordered(journal'.records)
    BY <1>6, <1>8, ChroniclePart DEF Chronicle
  <2> QED
    BY <1>4, <2>4, <2>5, ReadNewest
<1>10. ASSUME NEW c \in Blocks, c # b
       PROVE  ReadFrom(journal'.records, journal'.base, MaxGeneration, c)
                = ReadFrom(journal.records, journal.base, MaxGeneration, c)
  <2>1. Covers(journal.records, journal'.records, MaxGeneration, c)
    BY <1>0, <1>7, <1>8 DEF Covers, Holds
  <2>2. Covers(journal'.records, journal.records, MaxGeneration, c)
    <3>1. \A y \in journal'.records : y.block = c => y \in frames
      BY <1>0, <1>3, <1>8, <1>10
    <3> QED
      BY <1>7, <1>8, <3>1 DEF Covers, Holds
  <2>3. journal.records \subseteq frames' /\ Ordered(frames')
    BY <1>0, <1>6, <1>7 DEF Chronicle
  <2> QED
    BY <1>b, <1>6, <1>8, <2>1, <2>2, <2>3, SameRead
<1>11. Visible' = [Visible EXCEPT ![b] = issued + 1]
  <2>1. \A c \in Blocks :
          /\ Visible[c] = ReadFrom(journal.records, journal.base, MaxGeneration, c)
          /\ Visible'[c] = ReadFrom(journal'.records, journal'.base, MaxGeneration, c)
    BY <1>0, <1>1 DEF Visible, ReadGeneration
  <2>2. /\ Visible = [c \in Blocks |-> Visible[c]] /\ Visible' = [c \in Blocks |-> Visible'[c]]
    BY <1>0, <1>1 DEF Visible, ReadGeneration
  <2>3. \A c \in Blocks : Visible'[c] = [Visible EXCEPT ![b] = issued + 1][c]
    BY <1>9, <1>10, <2>1, <2>2
  <2> QED
    BY <2>2, <2>3
<1> QED
  BY <1>0, <1>1, <1>11 DEF Promise!Write

LEMMA AcknowledgePromised ==
  ASSUME JournalInv, NEW w \in Writers, Waiting(w), Acknowledged(w),
         journal'.records = journal.records, journal'.base = journal.base,
         UNCHANGED <<status, issued, snap>>
  PROVE  \E b \in Blocks : Promise!Acknowledge(b)
<1>1. status = "open"
  BY DEF JournalInv, WritersSound, WritersOpen, Waiting
<1>2. PICK f \in frames : FrameOf(w, f) /\ Unpublished(f)
  BY WriterFramed
<1>3. /\ f.block = writer[w].block /\ f.write = writer[w].write /\ f.block \in Blocks
      /\ f.write \in Nat /\ Generation(f) <= MaxGeneration
  BY <1>2, Numbers DEF FrameOf
<1>4. journal.published < Generation(f)
  BY <1>1, <1>2, Numbers DEF JournalInv, IndexSound, Unpublished
<1>5. Visible[f.block] = ReadFrom(journal.records, journal.base, MaxGeneration, f.block)
  BY <1>1, <1>3 DEF Visible, ReadGeneration
<1>6. f.write <= Visible[f.block]
  BY <1>1, <1>3, <1>4, <1>5, IndexSees, Numbers
<1>7. Visible[f.block] \in Nat /\ firm[f.block] \in Nat /\ firm[f.block] <= Visible[f.block]
  BY <1>3, VisibleRange, Numbers
<1>8. Visible' = Visible
  BY <1>1, Unseen
<1>9. PICK v : v = IF firm[f.block] < f.write THEN f.write ELSE firm[f.block]
  OBVIOUS
<1>10. v \in firm[f.block] .. Visible[f.block]
  BY <1>3, <1>6, <1>7, <1>9
<1>11. firm' = [firm EXCEPT ![f.block] = v]
  BY <1>3, <1>9 DEF Acknowledged
<1> QED
  BY <1>3, <1>8, <1>10, <1>11 DEF Promise!Acknowledge

LEMMA SealPromised ==
  ASSUME JournalInv, status = "open", status' = "open", meta.generation < MaxGeneration,
         SealTransaction, journal'.records = journal.records, journal'.base = journal.base,
         UNCHANGED issued
  PROVE  \E g \in Generations : Promise!Seal(g)
<1>1. meta.generation \in Generations /\ meta.generation >= meta.generation
  BY Numbers
<1>2. snap[meta.generation] = Unsealed
  BY <1>1 DEF JournalInv, SealsSound
<1>3. Visible' = Visible /\ Visible = ReadGeneration(MaxGeneration)
  BY Unseen DEF Visible
<1> QED
  BY <1>1, <1>2, <1>3 DEF Promise!Seal, Promise!Unsealed, Unsealed, Empty, SealTransaction

LEMMA PowerLossPromised ==
  ASSUME JournalInv, PowerLoss
  PROVE  Promise!Lose
<1>0. /\ status = "open" /\ status' = "closed"
      /\ UNCHANGED <<synced, segments, meta, issued, firm, snap>>
  BY DEF PowerLoss, dbVars
<1>1. frames' \subseteq frames /\ synced \subseteq frames'
  <2>1. PICK lost \in SUBSET (frames \ synced) : frames' = frames \ lost
    BY DEF PowerLoss
  <2> QED
    BY <2>1 DEF JournalInv, DiskTyped
<1>2. PICK S : S = Described'
  OBVIOUS
<1>3. /\ S \subseteq frames /\ \A x \in S : meta.published < Generation(x)
      /\ \A f \in synced : Unpublished(f) => f \in S
  BY <1>0, <1>1, <1>2, Numbers DEF Described, JournalInv, FramesDescribed, Generation
<1>4. /\ Visible' = [b \in Blocks |-> ReadFrom(S, meta.base, MaxGeneration, b)]
      /\ \A b \in Blocks :
           Visible[b] = ReadFrom(journal.records, journal.base, MaxGeneration, b)
  BY <1>0, <1>2 DEF Visible, ReadGeneration
<1>5. ASSUME NEW b \in Blocks
      PROVE  ReadFrom(S, meta.base, MaxGeneration, b) \in firm[b] .. Visible[b]
             /\ ReadFrom(S, meta.base, MaxGeneration, b) \in Writes
  <2>1. Layered(S, meta.base, b, issued)
    BY <1>3, SealLayers, Numbers DEF JournalInv, SealsSound
  <2>2. /\ ReadFrom(S, meta.base, MaxGeneration, b) \in meta.base[b] .. issued
        /\ meta.base[b] \in Nat /\ ReadFrom(S, meta.base, MaxGeneration, b) \in Nat
        /\ \A x \in S : Holds(x, MaxGeneration, b) =>
              x.write <= ReadFrom(S, meta.base, MaxGeneration, b)
    BY <2>1, ReadRange, Numbers
  <2>3. firm[b] \in Nat /\ Visible[b] \in Nat
    BY VisibleRange, Numbers
  <2>4. firm[b] <= ReadFrom(S, meta.base, MaxGeneration, b)
    <3>1. CASE firm[b] <= meta.base[b]
      BY <2>2, <2>3, <3>1, Numbers
    <3>2. ASSUME NEW f \in synced, Unpublished(f), f.block = b, firm[b] <= f.write
          PROVE  firm[b] <= ReadFrom(S, meta.base, MaxGeneration, b)
      <4>1. f \in S /\ f.write \in Nat /\ Holds(f, MaxGeneration, b)
        BY <1>3, <3>2, Numbers DEF Holds
      <4> QED
        BY <2>2, <2>3, <3>2, <4>1
    <3> QED
      BY <3>1, <3>2 DEF JournalInv, FirmDurable
  <2>5. ReadFrom(S, meta.base, MaxGeneration, b) <= Visible[b]
    <3>1. \/ ReadFrom(S, meta.base, MaxGeneration, b) = ReadFrom(S, meta.base, meta.published, b)
          \/ \E x \in S : /\ Holds(x, MaxGeneration, b) /\ meta.published < Generation(x)
                          /\ ReadFrom(S, meta.base, MaxGeneration, b) = x.write
      BY <2>1, ReadSplit, Numbers
    <3>2. CASE ReadFrom(S, meta.base, MaxGeneration, b) = ReadFrom(S, meta.base, meta.published, b)
      <4>1. Without(S, meta.published, b)
        BY <1>3, Numbers DEF Without, Holds
      <4>2. meta.base[b] <= Visible[b]
        BY <1>0, <1>4, PublishedRead, OpenLayers, ReadRises, Numbers
      <4> QED
        BY <3>2, <4>1, <4>2, ReadBase
    <3>3. ASSUME NEW x \in S, Holds(x, MaxGeneration, b),
                 ReadFrom(S, meta.base, MaxGeneration, b) = x.write
          PROVE  x.write <= Visible[b]
      <4>1. x \in frames /\ meta.published < Generation(x) /\ x.block = b
        BY <1>3, <3>3 DEF Holds
      <4>2. journal.published < Generation(x)
        BY <1>0, <4>1, Numbers DEF JournalInv, IndexSound
      <4> QED
        BY <1>0, <1>4, <4>1, <4>2, IndexSees, Numbers
    <3> QED
      BY <3>1, <3>2, <3>3
  <2> QED
    BY <2>2, <2>3, <2>4, <2>5, Numbers DEF Writes
<1> QED
  BY <1>0, <1>4, <1>5 DEF Promise!Lose, Promise!Contents, Promise!Writes, Writes

LEMMA WriterPromised ==
  ASSUME JournalInv, NEW w \in Writers, WriterStep(w)
  PROVE  [Promise!Next]_Promise!vars
<1> DEFINE Quiet == UNCHANGED <<Visible, firm, issued, snap>>
<1>1. Quiet => [Promise!Next]_Promise!vars
  BY DEF Promise!vars
<1>2. (\E b \in Blocks : Promise!Write(b) \/ Promise!Acknowledge(b)) => Promise!Next
  BY DEF Promise!Next
<1>3. ASSUME status = "open", status' = "open", journal'.records = journal.records,
             journal'.base = journal.base, UNCHANGED <<firm, issued, snap>>
      PROVE  Quiet
  BY <1>3, Unseen
<1> HIDE DEF Quiet
<1>4. CASE AppendBegin(w)
  <2>1. /\ status = "open" /\ UNCHANGED <<status, firm, issued, snap>>
        /\ Fail \/ UNCHANGED journal
    BY <1>4 DEF AppendBegin
  <2> QED
    BY <1>1, <1>3, <2>1, Failed
<1>5. CASE AppendDescribe(w)
  <2>1. /\ writer[w].pc = "describe" /\ UNCHANGED <<status, firm, issued, snap>>
        /\ Fail \/ journal' = [journal EXCEPT !.active = NewName]
    BY <1>5 DEF AppendDescribe
  <2>2. journal'.records = journal.records /\ journal'.base = journal.base
    BY <2>1, Failed DEF JournalInv, MemoryTyped, JournalRec
  <2>3. status = "open"
    BY <2>1 DEF JournalInv, WritersSound, WritersOpen
  <2> QED
    BY <1>1, <1>3, <2>1, <2>2, <2>3
<1>6. CASE AppendFrame(w)
  BY <1>2, <1>6, AppendFramePromised
<1>7. CASE AppendError(w)
  <2>1. writer[w].pc # "idle" /\ Fail /\ UNCHANGED <<status, firm, issued, snap>>
    BY <1>7 DEF AppendError
  <2>2. status = "open"
    BY <2>1 DEF JournalInv, WritersSound, WritersOpen
  <2> QED
    BY <1>1, <1>3, <2>1, <2>2, Failed
<1>8. CASE CommitBatch(w)
  <2>1. /\ writer[w].pc = "staged" /\ UNCHANGED <<status, journal, issued, snap>>
        /\ UNCHANGED firm \/ Acknowledged(w)
    BY <1>8 DEF CommitBatch
  <2>2. status = "open" /\ Waiting(w)
    BY <2>1 DEF JournalInv, WritersSound, WritersOpen, Waiting
  <2>3. CASE UNCHANGED firm
    BY <1>1, <1>3, <2>1, <2>2, <2>3
  <2>4. CASE Acknowledged(w)
    BY <1>2, <2>1, <2>2, <2>4, AcknowledgePromised
  <2> QED
    BY <2>1, <2>3, <2>4
<1>9. CASE SyncFile(w)
  <2>1. writer[w].pc # "idle" /\ UNCHANGED <<status, journal, firm, issued, snap>>
    BY <1>9 DEF SyncFile
  <2>2. status = "open"
    BY <2>1 DEF JournalInv, WritersSound, WritersOpen
  <2> QED
    BY <1>1, <1>3, <2>1, <2>2
<1>10. CASE SyncError(w)
  <2>1. writer[w].pc # "idle" /\ Fail /\ UNCHANGED <<status, firm, issued, snap>>
    BY <1>10 DEF SyncError
  <2>2. status = "open"
    BY <2>1 DEF JournalInv, WritersSound, WritersOpen
  <2> QED
    BY <1>1, <1>3, <2>1, <2>2, Failed
<1>11. CASE Committed(w)
  <2>1. /\ writer[w].pc = "syncing" /\ UNCHANGED <<status, issued, snap>>
        /\ \/ UNCHANGED <<journal, firm>>
           \/ /\ Acknowledged(w)
              /\ journal' = [journal EXCEPT !.durable = writer[w].through,
                                            !.pending = StillPending(writer[w].through)]
    BY <1>11 DEF Committed
  <2>2. status = "open" /\ Waiting(w)
    BY <2>1 DEF JournalInv, WritersSound, WritersOpen, Waiting
  <2>3. journal'.records = journal.records /\ journal'.base = journal.base
    BY <2>1 DEF JournalInv, MemoryTyped, JournalRec
  <2>4. CASE UNCHANGED <<journal, firm>>
    BY <1>1, <1>3, <2>1, <2>2, <2>4
  <2>5. CASE Acknowledged(w)
    BY <1>2, <2>1, <2>2, <2>3, <2>5, AcknowledgePromised
  <2> QED
    BY <2>1, <2>4, <2>5
<1> QED
  BY <1>4, <1>5, <1>6, <1>7, <1>8, <1>9, <1>10, <1>11 DEF WriterStep

\* Every step of the journal is a step of the disk that it promises, or changes
\* nothing of it.
LEMMA JournalPromised ==
  ASSUME JournalInv, [JournalNext]_journalVars
  PROVE  [Promise!Next]_Promise!vars
<1> DEFINE Quiet == UNCHANGED <<Visible, firm, issued, snap>>
<1>1. Quiet => [Promise!Next]_Promise!vars
  BY DEF Promise!vars
<1>2. ASSUME status = "open", status' = "open", journal'.records = journal.records,
             journal'.base = journal.base, UNCHANGED <<firm, issued, snap>>
      PROVE  Quiet
  BY <1>2, Unseen
<1>3. (\E g \in Generations : Promise!Seal(g)) => Promise!Next
  BY DEF Promise!Next, Promise!Generations, Generations
<1>4. CASE UNCHANGED journalVars
  <2>1. Visible' = Visible
    BY <1>4 DEF journalVars, Visible, ReadGeneration, Described
  <2> QED
    BY <1>1, <1>4, <2>1 DEF journalVars
<1> HIDE DEF Quiet
<1>5. CASE Flush
  BY <1>4, <1>5 DEF Flush
<1>6. CASE Seal
  <2>1. /\ status = "open" /\ meta.generation < MaxGeneration /\ SealTransaction
        /\ journal' = [journal EXCEPT !.generation = meta.generation + 1, !.active = NoSegment]
        /\ UNCHANGED <<status, issued>>
    BY <1>6 DEF Seal
  <2>2. journal'.records = journal.records /\ journal'.base = journal.base
    BY <2>1 DEF JournalInv, MemoryTyped, JournalRec
  <2> QED
    BY <1>3, <2>1, <2>2, SealPromised
<1>7. CASE SealError
  <2>1. /\ status = "open" /\ meta.generation < MaxGeneration /\ Fail
        /\ SealTransaction \/ UNCHANGED <<snap, firm>>
        /\ UNCHANGED <<status, issued>>
    BY <1>7 DEF SealError
  <2> QED
    BY <1>1, <1>2, <1>3, <2>1, Failed, SealPromised
<1>8. CASE CaptureBegin \/ CaptureEnd \/ CaptureError
  <2>1. UNCHANGED <<status, journal, firm, issued, snap>>
        /\ (status = "open" \/ capture # NoCapture)
    BY <1>8 DEF CaptureBegin, CaptureEnd, CaptureError
  <2>2. status = "open"
    BY <2>1 DEF JournalInv, CaptureSound
  <2> QED
    BY <1>1, <1>2, <2>1, <2>2
<1>9. CASE Publish \/ PublishAgain
  <2>1. status = "open" /\ UNCHANGED <<status, firm, issued, snap>>
    BY <1>9 DEF Publish, PublishAgain, Exclusive
  <2>2. Visible' = Visible
    BY <1>9, <2>1, PublishKeeps, PublishAgainKeeps, Unseen
  <2> QED
    BY <1>1, <2>1, <2>2 DEF Quiet
<1>10. CASE PublishAnswerLost
  <2>1. status = "open" /\ UNCHANGED <<status, journal, firm, issued, snap>>
    BY <1>10 DEF PublishAnswerLost, Exclusive
  <2> QED
    BY <1>1, <1>2, <2>1
<1>11. CASE Reclaim
  <2>1. status = "open" /\ UNCHANGED <<status, journal, firm, issued, snap>>
    BY <1>11 DEF Reclaim
  <2> QED
    BY <1>1, <1>2, <2>1
<1>12. CASE PowerLoss
  BY <1>12, PowerLossPromised DEF Promise!Next
<1>13. CASE Open
  <2>1. status # "open" /\ UNCHANGED <<firm, issued, snap>>
    BY <1>13 DEF Open
  <2>2. Visible' = Visible
    BY <1>13, <2>1, OpenKeeps, Numbers DEF Visible, ReadGeneration
  <2> QED
    BY <1>1, <2>1, <2>2 DEF Quiet
<1> QED
  BY <1>4, <1>5, <1>6, <1>7, <1>8, <1>9, <1>10, <1>11, <1>12, <1>13, WriterPromised
     DEF JournalNext

LEMMA PromiseStarts == JournalInit => Promise!Init
<1> SUFFICES ASSUME JournalInit PROVE Promise!Init
  OBVIOUS
<1>1. Visible = [b \in Blocks |-> 0]
  <2>1. status = "open" /\ journal = NewJournal
    BY DEF JournalInit
  <2>2. \A b \in Blocks : ReadFrom({}, [c \in Blocks |-> 0], MaxGeneration, b) = 0
    BY DEF ReadFrom
  <2> QED
    BY <2>1, <2>2 DEF Visible, ReadGeneration, NewJournal
<1> QED
  BY <1>1 DEF JournalInit, Promise!Init, Promise!Generations, Promise!Unsealed, Generations,
              Unsealed, Empty

\* The journal of a disk implements the durable disk: a write is visible once it
\* is in the journal; what was acknowledged or sealed survives every crash,
\* rotation, publication, reclaimed segment and recovery; no overwritten write
\* comes back; and a sealed generation is the disk as it was at one moment.
THEOREM JournalKeepsPromise == JournalSpec => KeepsPromise
<1>1. JournalInit => Promise!Init
  BY PromiseStarts
<1>2. JournalInv /\ [JournalNext]_journalVars => [Promise!Next]_Promise!vars
  BY JournalPromised
<1> QED
  BY <1>1, <1>2, JournalInvariant, PTL DEF JournalSpec, KeepsPromise, Promise!Spec

----------------------------------------
(* The messages of a conversation: ChatQueue and ChatAgents.                *)

Ident == Messages \cup {NoMessage}
Pair == Messages \X Versions
RowRec == [status : {"none", "queued", "sending", "delivered", "cancelled"},
           mode : {"queue", "steer"}, version : Versions, answers : BOOLEAN]
ChatRec == [life : {"active", "trash", "purging", "gone"}, paused : BOOLEAN,
            byDeletion : BOOLEAN, restart : BOOLEAN]
AskedRec == [status : {"none", "pending", "answering", "answered", "cancelled"},
             blocking : BOOLEAN, message : Ident]
RunRec == [status : {"none", "queued", "running", "succeeded", "failed", "cancelled"},
           message : Ident, version : Versions, recovery : BOOLEAN, session : BOOLEAN,
           cancel : BOOLEAN, held : BOOLEAN]
TickRec == [pc : {"idle", "claim", "publish", "next", "launch", "pause"},
            paused : BOOLEAN, attention : BOOLEAN, message : Ident, version : Versions,
            claimed : SUBSET Pair]
EventRec == [kind : {"delivered", "closed", "session", "question", "completed"},
             ids : SUBSET Messages]
TurnRec == [took : SUBSET Pair, held : SUBSET Messages,
            state : {"active", "completed", "interrupted"}]
ProcRec == [pc : {"off", "open", "start", "wait", "done", "failed"}, message : Ident,
            version : Versions, recovery : BOOLEAN, resume : BOOLEAN, continuing : BOOLEAN,
            seen : SUBSET Messages, attempted : SUBSET Messages, pending : SUBSET Messages,
            consumed : SUBSET Messages, asked : BOOLEAN, background : BOOLEAN]

\* What the store and the tick hold.
StoreTyped ==
  /\ chat \in ChatRec
  /\ messages \in [Messages -> RowRec]
  /\ question \in AskedRec
  /\ run \in RunRec
  /\ inbox \subseteq Pair
  /\ tick \in TickRec
  /\ events \in Seq(EventRec)

\* What the process, its agent and its receipt hold.
AgentTyped ==
  /\ provider \in {"codex", "claude"}
  /\ proc \in ProcRec
  /\ turns \in Seq(TurnRec)
  /\ receipt \in [message : Ident, delivered : SUBSET Messages]
  /\ entered \subseteq Pair

\* Whoever is launched, run or spoken to is a message.
Named ==
  /\ run.status # "none" \/ proc.pc # "off" \/ events # <<>> => run.message \in Messages
  /\ tick.pc = "launch" => tick.message \in Messages
  /\ proc.pc \in {"open", "start", "wait"} => proc.message \in Messages

\* The messages the agent was ever given.
Given == {m \in Messages : \E v \in Versions : <<m, v>> \in entered}

\* Whatever holds a message as accepted holds one that was given.
HeldWereGiven ==
  /\ \A i \in DOMAIN turns : turns[i].took \subseteq entered /\ turns[i].held \subseteq Given
  /\ proc.seen \subseteq Given
  /\ proc.pending \subseteq Given
  /\ receipt.delivered \subseteq Given

EventsWereGiven == \A k \in DOMAIN events : events[k].ids \subseteq Given
RowsWereGiven == \A m \in Messages : messages[m].status = "delivered" => m \in Given

\* What the process knows of the thread it speaks to: whatever the thread
\* holds is something it saw or tried.
ThreadKnown ==
  /\ provider = "codex" => \A i \in DOMAIN turns : turns[i].held = Ids(turns[i])
  /\ provider = "codex" /\ proc.pc = "start" =>
       proc.seen = InThread /\ (proc.continuing <=> proc.message \in InThread)
  /\ provider = "codex" /\ proc.pc = "wait" => InThread \subseteq proc.seen \cup proc.attempted
  /\ provider = "claude" /\ proc.pc = "wait" => Ids(LastTurn) \subseteq proc.attempted
  /\ provider = "claude" /\ proc.pc = "open" /\ ~proc.resume => turns = <<>>
  /\ proc.pc = "wait" => turns # <<>>

\* The answer a question waits for is a message that is an answer.
AnswerKnown ==
  question.status = "answering" =>
    /\ question.message \in Messages
    /\ messages[question.message].status \in Pending
    /\ messages[question.message].answers

ChatInv ==
  /\ StoreTyped /\ AgentTyped /\ Named
  /\ HeldWereGiven /\ EventsWereGiven /\ RowsWereGiven
  /\ ThreadKnown /\ EnteredOnce
  /\ AnswerKnown /\ DeletedWholeOrNotAtAll

----------------------------------------
\* The values that records start from are of their types.
LEMMA ChatValues ==
  /\ 1 \in Versions /\ Versions \subseteq Nat /\ NoMessage \in Ident /\ Messages \subseteq Ident
  /\ NoMessage \notin Messages
  /\ IdleTick \in TickRec /\ NoRow \in RowRec /\ Off \in ProcRec
  /\ NoReceipt \in [message : Ident, delivered : SUBSET Messages]
<1>1. /\ 1 \in Versions /\ Versions \subseteq Nat /\ NoMessage \in Ident /\ Messages \subseteq Ident
      /\ NoMessage \notin Messages
  BY ChatConstants DEF Versions, Ident
<1>2. IdleTick \in TickRec /\ NoRow \in RowRec
  BY <1>1 DEF IdleTick, TickRec, NoRow, RowRec
<1>3. Off \in ProcRec
  BY <1>1 DEF Off, ProcRec
<1>4. NoReceipt \in [message : Ident, delivered : SUBSET Messages]
  BY <1>1 DEF NoReceipt
<1> QED
  BY <1>1, <1>2, <1>3, <1>4

\* A new conversation: nothing was sent, run or given to an agent.
LEMMA ChatStarts == ChatsInit => ChatInv
<1> SUFFICES ASSUME ChatsInit PROVE ChatInv
  OBVIOUS
<1> USE ChatValues DEF ChatsInit, ChatInit
<1>1. StoreTyped
  <2>1. chat \in ChatRec
    BY DEF ChatRec
  <2>2. messages \in [Messages -> RowRec]
    OBVIOUS
  <2>3. question \in AskedRec
    BY DEF AskedRec
  <2>4. run \in RunRec
    BY DEF RunRec
  <2> QED
    BY <2>1, <2>2, <2>3, <2>4 DEF StoreTyped
<1>2. AgentTyped
  BY DEF AgentTyped
<1>3. Named
  BY DEF Named, IdleTick, Off
<1>4. HeldWereGiven /\ EventsWereGiven /\ RowsWereGiven
  BY DEF HeldWereGiven, EventsWereGiven, RowsWereGiven, Off, NoReceipt, NoRow
<1>5. ThreadKnown /\ EnteredOnce
  BY DEF ThreadKnown, EnteredOnce, Off
<1>6. AnswerKnown /\ DeletedWholeOrNotAtAll
  BY DEF AnswerKnown, DeletedWholeOrNotAtAll
<1> QED
  BY <1>1, <1>2, <1>3, <1>4, <1>5, <1>6 DEF ChatInv

----------------------------------------
\* What a step of the store keeps: the agent is left alone.
StoreKept ==
  /\ StoreTyped' /\ Named' /\ EventsWereGiven' /\ RowsWereGiven'
  /\ AnswerKnown' /\ DeletedWholeOrNotAtAll'

\* A step that leaves the lifecycle alone.
LEMMA SameLife ==
  ASSUME DeletedWholeOrNotAtAll, chat'.life = chat.life, remains' = remains
  PROVE  DeletedWholeOrNotAtAll'
  BY DEF DeletedWholeOrNotAtAll

\* A step that leaves the rows alone, and the question or only its blocking.
LEMMA SameAnswer ==
  ASSUME AnswerKnown, question'.status = question.status, question'.message = question.message,
         \A m \in Messages : messages[m].status \in Pending /\ messages[m].answers =>
             messages'[m].status \in Pending /\ messages'[m].answers
  PROVE  AnswerKnown'
  BY DEF AnswerKnown, Pending

\* The rows a step changes: none of them becomes delivered.
LEMMA SameDelivered ==
  ASSUME RowsWereGiven, entered' = entered,
         \A m \in Messages : messages'[m].status = "delivered" => messages[m].status = "delivered"
  PROVE  RowsWereGiven'
  BY DEF RowsWereGiven, Given

\* A step that leaves the events of the process alone.
LEMMA SameEvents ==
  ASSUME EventsWereGiven, entered' = entered, events' = events
  PROVE  EventsWereGiven'
  BY DEF EventsWereGiven, Given

\* The owner sends a message or answers a question (send and answer, chats.rs and
\* chats/questions.rs): the row is new, and an answer is a pending row.
LEMMA OwnerKeeps ==
  ASSUME ChatInv, Owner, UNCHANGED agentVars
  PROVE  StoreKept
<1>0. /\ StoreTyped /\ Named /\ EventsWereGiven /\ RowsWereGiven /\ AnswerKnown
      /\ DeletedWholeOrNotAtAll /\ entered' = entered /\ proc' = proc
  BY DEF ChatInv, agentVars
<1>1. ASSUME NEW m \in Messages, NEW mode \in {"queue", "steer"}, NEW answers \in BOOLEAN,
             Insert(m, mode, answers)
      PROVE  /\ messages' \in [Messages -> RowRec]
             /\ \A n \in Messages : n # m => messages'[n] = messages[n]
             /\ messages[m].status = "none" /\ messages'[m].status = "queued"
             /\ messages'[m].answers = answers
  BY <1>0, <1>1, ChatValues DEF Insert, StoreTyped, RowRec
<1>2. ASSUME NEW m \in Messages, NEW mode \in {"queue", "steer"}, Send(m, mode)
      PROVE  StoreKept
  <2>1. Insert(m, mode, FALSE) /\ UNCHANGED <<chat, question, run, inbox, tick, events, remains, removed>>
    BY <1>2 DEF Send
  <2>2. StoreTyped' /\ Named'
    BY <1>0, <1>1, <2>1 DEF StoreTyped, Named
  <2>3. AnswerKnown' /\ RowsWereGiven'
    BY <1>0, <1>1, <2>1, SameAnswer, SameDelivered DEF Pending
  <2> QED
    BY <1>0, <2>1, <2>2, <2>3, SameLife, SameEvents DEF StoreKept
<1>3. ASSUME NEW m \in Messages, Answer(m)
      PROVE  StoreKept
  <2>1. /\ Insert(m, "steer", TRUE) /\ UNCHANGED <<chat, run, inbox, tick, events, remains, removed>>
        /\ question' = [question EXCEPT !.status = "answering", !.message = m]
    BY <1>3 DEF Answer
  <2>2. question' \in AskedRec /\ question'.message = m
    BY <1>0, <2>1, ChatValues DEF StoreTyped, AskedRec
  <2>3. StoreTyped' /\ Named'
    BY <1>0, <1>1, <2>1, <2>2 DEF StoreTyped, Named
  <2>4. AnswerKnown' /\ RowsWereGiven'
    BY <1>0, <1>1, <2>1, <2>2, SameDelivered DEF Pending, AnswerKnown
  <2> QED
    BY <1>0, <2>1, <2>3, <2>4, SameLife, SameEvents DEF StoreKept
<1> QED
  BY <1>2, <1>3 DEF Owner

\* The owner edits or withdraws a queued message, stops, resumes, asks for a new
\* session, trashes or restores: no row becomes delivered, and a question loses the
\* answer it waits for only together with its status.
LEMMA ControlKeeps ==
  ASSUME ChatInv, Control, UNCHANGED agentVars
  PROVE  StoreKept
<1>0. /\ StoreTyped /\ Named /\ EventsWereGiven /\ RowsWereGiven /\ AnswerKnown
      /\ DeletedWholeOrNotAtAll /\ entered' = entered /\ proc' = proc
  BY DEF ChatInv, agentVars
<1>1. ASSUME NEW m \in Messages, Edit(m)
      PROVE  StoreKept
  <2>1. messages' \in [Messages -> RowRec]
    <3>1. messages[m].version + 1 \in Versions
      BY <1>0, <1>1, ChatConstants DEF Edit, StoreTyped, RowRec, Versions
    <3> QED
      BY <1>0, <1>1, <3>1 DEF Edit, StoreTyped, RowRec
  <2>2. \A n \in Messages : /\ messages'[n].status = messages[n].status
                            /\ messages'[n].answers = messages[n].answers
    BY <1>0, <1>1 DEF Edit, StoreTyped, RowRec
  <2>3. UNCHANGED <<chat, question, run, inbox, tick, events, remains>>
    BY <1>1 DEF Edit
  <2>4. StoreTyped' /\ Named'
    BY <1>0, <2>1, <2>3 DEF StoreTyped, Named
  <2> QED
    BY <1>0, <2>2, <2>3, <2>4, SameAnswer, SameDelivered, SameLife, SameEvents DEF StoreKept
<1>2. ASSUME NEW m \in Messages, Withdraw(m)
      PROVE  StoreKept
  <2>1. /\ messages' \in [Messages -> RowRec] /\ messages'[m].status = "none"
        /\ \A n \in Messages : n # m => messages'[n] = messages[n]
    BY <1>0, <1>2 DEF Withdraw, StoreTyped, RowRec
  <2>2. UNCHANGED <<chat, run, inbox, tick, events, remains>>
    BY <1>2 DEF Withdraw
  <2>3. /\ question' \in AskedRec
        /\ question'.status = "answering" => question' = question /\ ~messages[m].answers
    BY <1>0, <1>2, ChatValues DEF Withdraw, StoreTyped, AskedRec
  <2>4. StoreTyped' /\ Named'
    BY <1>0, <2>1, <2>2, <2>3 DEF StoreTyped, Named
  <2>5. AnswerKnown'
    BY <1>0, <2>1, <2>3 DEF AnswerKnown
  <2> QED
    BY <1>0, <2>1, <2>2, <2>4, <2>5, SameDelivered, SameLife, SameEvents DEF StoreKept
<1>3. CASE StopChat \/ ResumeChat \/ NewSession
  <2>1. /\ chat' \in ChatRec /\ chat'.life = chat.life
    BY <1>0, <1>3, Zenon DEF StopChat, ResumeChat, NewSession, StoreTyped, ChatRec
  <2>2. /\ run' \in RunRec /\ run'.message = run.message
        /\ run'.status # "none" => run.status # "none"
    BY <1>0, <1>3, ZenonT(40) DEF StopChat, ResumeChat, NewSession, StoreTyped, RunRec, RunActive
  <2>3. UNCHANGED <<messages, question, inbox, tick, events, remains>>
    BY <1>3 DEF StopChat, ResumeChat, NewSession
  <2>4. StoreTyped' /\ Named'
    BY <1>0, <2>1, <2>2, <2>3 DEF StoreTyped, Named
  <2> QED
    BY <1>0, <2>1, <2>3, <2>4, SameAnswer, SameDelivered, SameLife, SameEvents DEF StoreKept
<1>4. CASE Trash
  <2>1. /\ chat' \in ChatRec /\ chat'.life = "trash" /\ chat.life = "active"
    <3>1. \A S : (RunActive \/ S # {} \/ question.status \in {"pending", "answering"}) \in BOOLEAN
      OBVIOUS
    <3> QED
      BY <1>0, <1>4, <3>1, Zenon DEF Trash, StoreTyped, ChatRec, ChatActive
  <2>2. /\ run' \in RunRec /\ run'.message = run.message /\ run'.status = run.status
    BY <1>0, <1>4 DEF Trash, StoreTyped, RunRec
  <2>3. /\ messages' \in [Messages -> RowRec]
        /\ \A n \in Messages : messages'[n].status = "delivered" => messages[n].status = "delivered"
    BY <1>0, <1>4 DEF Trash, StoreTyped, RowRec
  <2>4. question' \in AskedRec /\ question'.status # "answering"
    BY <1>0, <1>4 DEF Trash, StoreTyped, AskedRec
  <2>5. UNCHANGED <<inbox, tick, events, remains>>
    BY <1>4 DEF Trash
  <2>6. StoreTyped' /\ Named'
    BY <1>0, <2>1, <2>2, <2>3, <2>4, <2>5 DEF StoreTyped, Named
  <2> QED
    BY <1>0, <2>1, <2>3, <2>4, <2>5, <2>6, SameDelivered, SameEvents
       DEF StoreKept, AnswerKnown, DeletedWholeOrNotAtAll
<1>5. CASE Restore
  <2>1. chat' \in ChatRec /\ chat'.life = "active" /\ chat.life = "trash"
    BY <1>0, <1>5 DEF Restore, StoreTyped, ChatRec
  <2>2. UNCHANGED <<messages, question, run, inbox, tick, events, remains>>
    BY <1>5 DEF Restore
  <2>3. StoreTyped' /\ Named'
    BY <1>0, <2>1, <2>2 DEF StoreTyped, Named
  <2> QED
    BY <1>0, <2>1, <2>2, <2>3, SameAnswer, SameDelivered, SameEvents
       DEF StoreKept, DeletedWholeOrNotAtAll
<1> QED
  BY <1>1, <1>2, <1>3, <1>4, <1>5 DEF Control

\* Each transaction of chat_tick moves rows between queued and sending only, and
\* launches a message that exists.
LEMMA TickKeeps ==
  ASSUME ChatInv, Tick, UNCHANGED agentVars
  PROVE  StoreKept
<1>0. /\ StoreTyped /\ Named /\ EventsWereGiven /\ RowsWereGiven /\ AnswerKnown
      /\ DeletedWholeOrNotAtAll /\ entered' = entered /\ proc' = proc
  BY DEF ChatInv, agentVars
<1>a. ASSUME messages' = messages, question' = question, chat' = chat, remains' = remains
      PROVE  RowsWereGiven' /\ AnswerKnown' /\ DeletedWholeOrNotAtAll'
  BY <1>0, <1>a, SameAnswer, SameDelivered, SameLife
<1>1. CASE TickRead
  <2>1. UNCHANGED <<chat, messages, question, run, inbox, events, remains>>
    BY <1>1 DEF TickRead
  <2>2. tick' \in TickRec /\ tick'.pc # "launch"
    <3>1. (run.status \in {"failed", "cancelled"} /\ ~chat.byDeletion /\ ~chat.restart) \in BOOLEAN
      OBVIOUS
    <3>2. chat.paused \in BOOLEAN
      BY <1>0 DEF StoreTyped, ChatRec
    <3>3. ASSUME NEW pc \in {"claim", "next"}, NEW a \in BOOLEAN, NEW b \in BOOLEAN
          PROVE  /\ [IdleTick EXCEPT !.pc = pc, !.paused = a, !.attention = b] \in TickRec
                 /\ [IdleTick EXCEPT !.pc = pc, !.paused = a, !.attention = b].pc = pc
      BY ChatValues DEF TickRec
    <3> DEFINE b == run.status \in {"failed", "cancelled"} /\ ~chat.byDeletion /\ ~chat.restart
    <3>4. \/ tick' = [IdleTick EXCEPT !.pc = "claim", !.paused = chat.paused, !.attention = b]
          \/ tick' = [IdleTick EXCEPT !.pc = "next", !.paused = chat.paused, !.attention = b]
      BY <1>1, Zenon DEF TickRead
    <3>5. b \in BOOLEAN
      BY <3>1
    <3> HIDE DEF b
    <3>6. \A pc \in {"claim", "next"} :
            tick' = [IdleTick EXCEPT !.pc = pc, !.paused = chat.paused, !.attention = b]
              => tick' \in TickRec /\ tick'.pc = pc
      <4> TAKE pc \in {"claim", "next"}
      <4>1. /\ [IdleTick EXCEPT !.pc = pc, !.paused = chat.paused, !.attention = b] \in TickRec
            /\ [IdleTick EXCEPT !.pc = pc, !.paused = chat.paused, !.attention = b].pc = pc
        BY <3>2, <3>3, <3>5, Zenon
      <4> QED
        BY <4>1, Zenon
    <3> QED
      BY <3>4, <3>6, Zenon
  <2>3. StoreTyped' /\ Named'
    BY <1>0, <2>1, <2>2 DEF StoreTyped, Named
  <2> QED
    BY <1>0, <1>a, <2>1, <2>3, SameEvents DEF StoreKept
<1>2. CASE TickClaim
  <2>1. UNCHANGED <<chat, question, run, inbox, events, remains>>
    BY <1>2 DEF TickClaim
  <2>2. /\ messages' \in [Messages -> RowRec]
        /\ \A m \in Messages : /\ messages'[m].answers = messages[m].answers
                               /\ \/ messages'[m].status = messages[m].status
                                  \/ messages'[m].status = "sending"
    BY <1>0, <1>2 DEF TickClaim, StoreTyped, RowRec
  <2>3. tick' \in TickRec /\ tick'.pc = "publish"
    <3>1. \A S \in SUBSET Messages : {<<m, messages[m].version>> : m \in S} \in SUBSET Pair
      BY <1>0 DEF StoreTyped, RowRec, Pair
    <3>2. CASE ChatActive
      <4> DEFINE steering == {m \in WithStatus(Pending) :
                                 /\ messages[m].mode = "steer"
                                 /\ ~tick.paused \/ messages[m].answers
                                 /\ m # run.message}
      <4>1. steering \in SUBSET Messages
        BY DEF WithStatus
      <4>2. tick' = [tick EXCEPT !.pc = "publish",
                       !.claimed = {<<m, messages[m].version>> : m \in steering}]
        BY <1>2, <3>2, Zenon DEF TickClaim
      <4>3. {<<m, messages[m].version>> : m \in steering} \in SUBSET Pair
        BY <3>1, <4>1
      <4> HIDE DEF steering
      <4> QED
        BY <1>0, <4>2, <4>3 DEF StoreTyped, TickRec
    <3>3. CASE ~ChatActive
      BY <1>0, <1>2, <3>3 DEF TickClaim, StoreTyped, TickRec
    <3> QED
      BY <3>2, <3>3
  <2>4. StoreTyped' /\ Named'
    BY <1>0, <2>1, <2>2, <2>3 DEF StoreTyped, Named
  <2>5. AnswerKnown' /\ RowsWereGiven'
    BY <1>0, <2>1, <2>2, SameAnswer, SameDelivered DEF Pending
  <2> QED
    BY <1>0, <2>1, <2>4, <2>5, SameLife, SameEvents DEF StoreKept
<1>3. CASE TickPublish
  <2>1. UNCHANGED <<chat, messages, question, run, events, remains>> /\ tick' = IdleTick
    BY <1>3 DEF TickPublish
  <2>2. inbox' \subseteq Pair
    BY <1>0, <1>3 DEF TickPublish, StoreTyped, TickRec
  <2>3. StoreTyped' /\ Named'
    BY <1>0, <2>1, <2>2, ChatValues DEF StoreTyped, Named, IdleTick
  <2> QED
    BY <1>0, <1>a, <2>1, <2>3, SameEvents DEF StoreKept
<1>4. CASE TickNext
  <2>1. UNCHANGED <<chat, question, run, inbox, events, remains>> /\ messages' = Requeued
    BY <1>4 DEF TickNext
  <2>2. /\ Requeued \in [Messages -> RowRec]
        /\ \A m \in Messages : /\ Requeued[m].answers = messages[m].answers
                               /\ \/ Requeued[m].status = messages[m].status
                                  \/ messages[m].status = "sending" /\ Requeued[m].status = "queued"
    BY <1>0 DEF Requeued, StoreTyped, RowRec
  <2>3. tick' \in TickRec /\ (tick'.pc = "launch" => tick'.message \in Messages)
    <3>1. CASE \E m \in Messages :
                 tick' = [tick EXCEPT !.pc = "launch", !.message = m,
                                      !.version = Requeued[m].version]
      <4>1. PICK m \in Messages : tick' = [tick EXCEPT !.pc = "launch", !.message = m,
                                                       !.version = Requeued[m].version]
        BY <3>1
      <4>2. Requeued[m].version \in Versions /\ m \in Ident
        BY <2>2, ChatValues DEF RowRec
      <4> QED
        BY <1>0, <4>1, <4>2 DEF StoreTyped, TickRec
    <3>2. CASE tick' = IdleTick
      BY <3>2, ChatValues DEF IdleTick
    <3>3. CASE tick' = [tick EXCEPT !.pc = "pause"]
      BY <1>0, <3>3 DEF StoreTyped, TickRec
    <3> QED
      BY <1>4, <3>1, <3>2, <3>3, Zenon DEF TickNext
  <2>4. StoreTyped' /\ Named'
    BY <1>0, <2>1, <2>2, <2>3 DEF StoreTyped, Named
  <2>5. AnswerKnown' /\ RowsWereGiven'
    BY <1>0, <2>1, <2>2, SameAnswer, SameDelivered DEF Pending
  <2> QED
    BY <1>0, <2>1, <2>4, <2>5, SameLife, SameEvents DEF StoreKept
<1>5. CASE TickLaunch
  <2>1. UNCHANGED <<question, inbox, events, remains>> /\ tick' = IdleTick
    BY <1>5 DEF TickLaunch
  <2>2. tick.message \in Messages /\ tick.version \in Versions
    BY <1>0, <1>5 DEF TickLaunch, Named, StoreTyped, TickRec
  <2>3. /\ messages' \in [Messages -> RowRec]
        /\ \A m \in Messages : /\ messages'[m].answers = messages[m].answers
                               /\ \/ messages'[m].status = messages[m].status
                                  \/ messages'[m].status = "sending"
    BY <1>0, <1>5, <2>2 DEF TickLaunch, StoreTyped, RowRec
  <2>4. run' \in RunRec /\ (run'.message \in Messages \/ run' = run)
    <3>1. run \in RunRec /\ tick.message \in Ident
      BY <1>0, <2>2, ChatValues DEF StoreTyped
    <3>2. /\ [run EXCEPT !.status = "queued", !.message = tick.message,
                !.version = tick.version, !.recovery = FALSE,
                !.cancel = FALSE, !.held = TRUE] \in RunRec
          /\ [run EXCEPT !.status = "queued", !.message = tick.message,
                !.version = tick.version, !.recovery = FALSE,
                !.cancel = FALSE, !.held = TRUE].message = tick.message
      BY <2>2, <3>1 DEF RunRec
    <3>3. \/ run' = run
          \/ run' = [run EXCEPT !.status = "queued", !.message = tick.message,
                       !.version = tick.version, !.recovery = FALSE,
                       !.cancel = FALSE, !.held = TRUE]
      BY <1>5, Zenon DEF TickLaunch
    <3> QED
      BY <2>2, <3>1, <3>2, <3>3, Zenon
  <2>5. chat' \in ChatRec /\ chat'.life = chat.life
    BY <1>0, <1>5 DEF TickLaunch, StoreTyped, ChatRec
  <2>6. StoreTyped' /\ Named'
    BY <1>0, <2>1, <2>3, <2>4, <2>5, ChatValues DEF StoreTyped, Named, IdleTick
  <2>7. AnswerKnown' /\ RowsWereGiven'
    BY <1>0, <2>1, <2>3, SameAnswer, SameDelivered DEF Pending
  <2> QED
    BY <1>0, <2>1, <2>5, <2>6, <2>7, SameLife, SameEvents DEF StoreKept
<1>6. CASE TickPrepareFails
  <2>1. UNCHANGED <<chat, messages, question, run, inbox, events, remains>>
    BY <1>6 DEF TickPrepareFails
  <2>2. tick' \in TickRec /\ tick'.pc = "pause"
    BY <1>0, <1>6 DEF TickPrepareFails, StoreTyped, TickRec
  <2>3. StoreTyped' /\ Named'
    BY <1>0, <2>1, <2>2 DEF StoreTyped, Named
  <2> QED
    BY <1>0, <1>a, <2>1, <2>3, SameEvents DEF StoreKept
<1>7. CASE TickPause
  <2>1. UNCHANGED <<messages, question, run, inbox, events, remains>> /\ tick' = IdleTick
    BY <1>7 DEF TickPause
  <2>2. chat' \in ChatRec /\ chat'.life = chat.life
    BY <1>0, <1>7 DEF TickPause, StoreTyped, ChatRec
  <2>3. StoreTyped' /\ Named'
    BY <1>0, <2>1, <2>2, ChatValues DEF StoreTyped, Named, IdleTick
  <2> QED
    BY <1>0, <2>1, <2>2, <2>3, SameAnswer, SameDelivered, SameLife, SameEvents DEF StoreKept
<1> QED
  BY <1>1, <1>2, <1>3, <1>4, <1>5, <1>6, <1>7 DEF Tick

\* An event that is handled leaves the others as they were.
LEMMA TailGiven ==
  ASSUME events \in Seq(EventRec), EventsWereGiven, entered' = entered,
         events # <<>>, events' = Tail(events)
  PROVE  events' \in Seq(EventRec) /\ EventsWereGiven'
<1>1. events' \in Seq(EventRec) /\ \A k \in DOMAIN events' : events'[k] = events[k + 1] /\ k + 1 \in DOMAIN events
  OBVIOUS
<1> QED
  BY <1>1 DEF EventsWereGiven, Given

\* An acknowledged message (acknowledge, chats.rs) was given to the agent, because the
\* event that names it was; with an answer goes the question that waited for it.
LEMMA DeliveryKeeps ==
  ASSUME ChatInv, Acknowledge, UNCHANGED agentVars
  PROVE  StoreKept
<1>0. /\ StoreTyped /\ Named /\ EventsWereGiven /\ RowsWereGiven /\ AnswerKnown
      /\ DeletedWholeOrNotAtAll /\ entered' = entered /\ proc' = proc
  BY DEF ChatInv, agentVars
<1>1. PICK m \in Head(events).ids :
        /\ events' = IF Head(events).ids = {m} THEN Tail(events)
                     ELSE [events EXCEPT ![1].ids = @ \ {m}]
        /\ IF ChatActive /\ messages[m].status \in Pending
             THEN /\ messages' = [messages EXCEPT ![m].status = "delivered"]
                  /\ question' = IF messages[m].answers
                                   THEN [question EXCEPT !.status = "answered", !.blocking = FALSE]
                                   ELSE question
             ELSE UNCHANGED <<messages, question>>
  BY Zenon DEF Acknowledge
<1>2. UNCHANGED <<chat, run, inbox, tick, remains>> /\ events # <<>>
  BY DEF Acknowledge
<1>3. /\ events[1] \in EventRec /\ Head(events) = events[1] /\ 1 \in DOMAIN events
      /\ events[1].ids \subseteq Given /\ events[1].ids \subseteq Messages
  <2>1. events \in Seq(EventRec) /\ events # <<>>
    BY <1>0, <1>2 DEF StoreTyped
  <2>2. 1 \in DOMAIN events /\ Head(events) = events[1] /\ events[1] \in EventRec
    BY <2>1
  <2> QED
    BY <1>0, <2>2 DEF EventsWereGiven, EventRec
<1>4. events' \in Seq(EventRec) /\ EventsWereGiven'
  <2>1. CASE Head(events).ids = {m}
    BY <1>0, <1>1, <1>2, <2>1, TailGiven DEF StoreTyped
  <2>2. CASE Head(events).ids # {m}
    <3>1. events' = [events EXCEPT ![1].ids = @ \ {m}]
      BY <1>1, <2>2
    <3>2. /\ events' \in Seq(EventRec) /\ DOMAIN events' = DOMAIN events
          /\ events'[1].ids = events[1].ids \ {m}
          /\ \A k \in DOMAIN events : k # 1 => events'[k] = events[k]
      <4>1. [events[1] EXCEPT !.ids = @ \ {m}] \in EventRec
        BY <1>3 DEF EventRec
      <4>2. events' = [events EXCEPT ![1] = [events[1] EXCEPT !.ids = @ \ {m}]]
        BY <3>1
      <4>3. [events[1] EXCEPT !.ids = @ \ {m}].ids = events[1].ids \ {m}
        BY <1>3 DEF EventRec
      <4>4. ASSUME NEW e \in EventRec, events' = [events EXCEPT ![1] = e]
            PROVE  /\ events' \in Seq(EventRec) /\ DOMAIN events' = DOMAIN events
                   /\ events'[1] = e
                   /\ \A k \in DOMAIN events : k # 1 => events'[k] = events[k]
        <5>1. events \in Seq(EventRec) /\ 1 \in DOMAIN events
          BY <1>0, <1>3 DEF StoreTyped
        <5> QED
          BY <4>4, <5>1
      <4> QED
        BY <4>1, <4>2, <4>3, <4>4, Zenon
    <3> QED
      BY <1>0, <1>3, <3>2 DEF EventsWereGiven, Given
  <2> QED
    BY <2>1, <2>2
<1>5. m \in Messages /\ m \in Given
  BY <1>1, <1>3
<1>6. /\ messages' \in [Messages -> RowRec] /\ question' \in AskedRec
      /\ \A n \in Messages : n # m => messages'[n] = messages[n]
      /\ messages[m].answers /\ messages'[m] # messages[m] => question'.status = "answered"
      /\ question'.status = "answering" =>
            question' = question /\ (messages'[m] # messages[m] => ~messages[m].answers)
  <2>1. CASE ChatActive /\ messages[m].status \in Pending
    <3>1. /\ messages' = [messages EXCEPT ![m].status = "delivered"]
          /\ question' = IF messages[m].answers
                           THEN [question EXCEPT !.status = "answered", !.blocking = FALSE]
                           ELSE question
      BY <1>1, <2>1, Zenon
    <3>2. /\ messages' \in [Messages -> RowRec]
          /\ \A n \in Messages : n # m => messages'[n] = messages[n]
      BY <1>0, <1>5, <3>1 DEF StoreTyped, RowRec
    <3>3. /\ question' \in AskedRec
          /\ messages[m].answers => question'.status = "answered"
          /\ ~messages[m].answers => question' = question
      BY <1>0, <3>1 DEF StoreTyped, AskedRec
    <3> QED
      BY <3>2, <3>3
  <2>2. CASE ~(ChatActive /\ messages[m].status \in Pending)
    <3>1. UNCHANGED <<messages, question>>
      BY <1>1, <2>2, Zenon
    <3> QED
      BY <1>0, <3>1 DEF StoreTyped
  <2> QED
    BY <2>1, <2>2
<1>7. StoreTyped' /\ Named'
  BY <1>0, <1>2, <1>4, <1>6 DEF StoreTyped, Named
<1>8. RowsWereGiven'
  BY <1>0, <1>5, <1>6 DEF RowsWereGiven, Given
<1>9. AnswerKnown'
  BY <1>0, <1>5, <1>6 DEF AnswerKnown
<1> QED
  BY <1>0, <1>2, <1>4, <1>7, <1>8, <1>9, SameLife DEF StoreKept

\* The other events of the process and the release of a settled run.
LEMMA HandleKeeps ==
  ASSUME ChatInv, Handle \/ RunReleased, UNCHANGED agentVars
  PROVE  StoreKept
<1>0. /\ StoreTyped /\ Named /\ EventsWereGiven /\ RowsWereGiven /\ AnswerKnown
      /\ DeletedWholeOrNotAtAll /\ entered' = entered /\ proc' = proc
  BY DEF ChatInv, agentVars
<1>1. CASE Acknowledge
  BY <1>1, DeliveryKeeps
<1>2. CASE SessionStarted \/ RunReleased
  <2>1. UNCHANGED <<chat, messages, question, inbox, tick, remains>>
    BY <1>2 DEF SessionStarted, RunReleased
  <2>2. events' \in Seq(EventRec) /\ EventsWereGiven' /\ (events' # <<>> => events # <<>>)
    BY <1>0, <1>2, TailGiven, SameEvents DEF SessionStarted, RunReleased, Event, StoreTyped
  <2>3. run' \in RunRec /\ run'.status = run.status /\ run'.message = run.message
    BY <1>0, <1>2 DEF SessionStarted, RunReleased, StoreTyped, RunRec
  <2>4. StoreTyped' /\ Named'
    BY <1>0, <2>1, <2>2, <2>3 DEF StoreTyped, Named
  <2> QED
    BY <1>0, <2>1, <2>2, <2>4, SameAnswer, SameDelivered, SameLife DEF StoreKept
<1>3. CASE ReceiveQuestion \/ ReleaseQuestion
  <2>1. UNCHANGED <<chat, messages, run, inbox, tick, remains>>
    BY <1>3 DEF ReceiveQuestion, ReleaseQuestion
  <2>2. events' \in Seq(EventRec) /\ EventsWereGiven' /\ (events' # <<>> => events # <<>>)
    BY <1>0, <1>3, TailGiven DEF ReceiveQuestion, ReleaseQuestion, Event, StoreTyped
  <2>3. /\ question' \in AskedRec
        /\ question'.status = "answering" =>
             question.status = "answering" /\ question'.message = question.message
    <3>1. CASE ReceiveQuestion
      <4>1. CASE ~ChatActive
        BY <1>0, <3>1, <4>1 DEF ReceiveQuestion, StoreTyped
      <4>2. CASE ChatActive /\ question.status = "none"
        <5>1. question' = [status |-> "pending", blocking |-> TRUE, message |-> NoMessage]
          BY <3>1, <4>2 DEF ReceiveQuestion
        <5> QED
          BY <5>1, ChatValues DEF AskedRec
      <4>3. CASE ChatActive /\ question.status # "none"
        <5>1. question' = [question EXCEPT !.blocking = (question.status = "pending")]
          BY <3>1, <4>3 DEF ReceiveQuestion
        <5>2. (question.status = "pending") \in BOOLEAN
          OBVIOUS
        <5> QED
          BY <1>0, <5>1, <5>2, Zenon DEF StoreTyped, AskedRec
      <4> QED
        BY <4>1, <4>2, <4>3
    <3>2. CASE ReleaseQuestion
      BY <1>0, <3>2 DEF ReleaseQuestion, StoreTyped, AskedRec
    <3> QED
      BY <1>3, <3>1, <3>2
  <2>4. StoreTyped' /\ Named'
    BY <1>0, <2>1, <2>2, <2>3 DEF StoreTyped, Named
  <2>5. AnswerKnown'
    BY <1>0, <2>1, <2>3 DEF AnswerKnown
  <2> QED
    BY <1>0, <2>1, <2>2, <2>4, <2>5, SameDelivered, SameLife DEF StoreKept
<1> QED
  BY <1>1, <1>2, <1>3 DEF Handle

\* Deletion: what is removed is removed from a conversation that cannot be opened any
\* more, and it is forgotten when nothing remains (conversation_deletion.rs).
LEMMA PurgeKeeps ==
  ASSUME ChatInv, Purge, UNCHANGED agentVars
  PROVE  StoreKept
<1>0. /\ StoreTyped /\ Named /\ EventsWereGiven /\ RowsWereGiven /\ AnswerKnown
      /\ DeletedWholeOrNotAtAll /\ entered' = entered /\ proc' = proc
  BY DEF ChatInv, agentVars
<1>1. CASE MarkPurging \/ Forget
  <2>1. UNCHANGED <<run, inbox, tick, events, remains>>
    BY <1>1 DEF MarkPurging, Forget
  <2>2. /\ chat' \in ChatRec
        /\ \/ chat'.life = "purging"
           \/ chat'.life = "gone" /\ remains = {}
    BY <1>0, <1>1 DEF MarkPurging, Forget, StoreTyped, ChatRec
  <2>3. \/ UNCHANGED <<messages, question>>
        \/ /\ messages' = [m \in Messages |-> NoRow]
           /\ question' = [status |-> "none", blocking |-> FALSE, message |-> NoMessage]
    BY <1>1 DEF MarkPurging, Forget
  <2>4. /\ messages' \in [Messages -> RowRec] /\ question' \in AskedRec
        /\ RowsWereGiven' /\ AnswerKnown'
    <3>1. CASE UNCHANGED <<messages, question>>
      BY <1>0, <3>1, SameAnswer, SameDelivered DEF StoreTyped
    <3>2. CASE /\ messages' = [m \in Messages |-> NoRow]
               /\ question' = [status |-> "none", blocking |-> FALSE, message |-> NoMessage]
      BY <3>2, ChatValues DEF AskedRec, RowsWereGiven, AnswerKnown, NoRow
    <3> QED
      BY <2>3, <3>1, <3>2
  <2>5. StoreTyped' /\ Named'
    BY <1>0, <2>1, <2>2, <2>4 DEF StoreTyped, Named
  <2> QED
    BY <1>0, <2>1, <2>2, <2>4, <2>5, SameEvents DEF StoreKept, DeletedWholeOrNotAtAll
<1>2. ASSUME NEW r \in Remains, PurgeStep(r)
      PROVE  StoreKept
  <2>1. UNCHANGED <<chat, messages, question, run, inbox, tick, events>> /\ chat.life = "purging"
    BY <1>2 DEF PurgeStep
  <2>2. StoreTyped' /\ Named'
    BY <1>0, <2>1 DEF StoreTyped, Named
  <2> QED
    BY <1>0, <2>1, <2>2, SameAnswer, SameDelivered, SameEvents DEF StoreKept, DeletedWholeOrNotAtAll
<1> QED
  BY <1>1, <1>2 DEF Purge

----------------------------------------
\* Events that only name messages of G.
Sound(s, G) == s \in Seq(EventRec) /\ \A k \in DOMAIN s : s[k].ids \subseteq G

\* What the agent was given stays given.
LEMMA GivenGrows ==
  ASSUME entered \subseteq entered'
  PROVE  Given \subseteq Given'
  BY DEF Given

\* The rows, the answers and the deletion, for a step of the agent.
LEMMA StoreAside ==
  ASSUME ChatInv, UNCHANGED <<chat, messages, question, remains>>, entered \subseteq entered'
  PROVE  RowsWereGiven' /\ AnswerKnown' /\ DeletedWholeOrNotAtAll'
<1>1. RowsWereGiven'
  BY GivenGrows DEF ChatInv, RowsWereGiven
<1>2. AnswerKnown' /\ DeletedWholeOrNotAtAll'
  BY DEF ChatInv, AnswerKnown, DeletedWholeOrNotAtAll
<1> QED
  BY <1>1, <1>2

\* Events and further events.
LEMMA SoundJoin ==
  ASSUME NEW G, NEW s, NEW t, Sound(s, G), Sound(t, G)
  PROVE  Sound(s \o t, G)
<1>1. s \in Seq(EventRec) /\ t \in Seq(EventRec)
  BY DEF Sound
<1>2. /\ s \o t \in Seq(EventRec)
      /\ \A k \in DOMAIN (s \o t) : \/ k \in DOMAIN s /\ (s \o t)[k] = s[k]
                                    \/ k - Len(s) \in DOMAIN t /\ (s \o t)[k] = t[k - Len(s)]
  BY <1>1
<1> QED
  BY <1>2 DEF Sound

\* An event that names no message.
LEMMA SoundPlain ==
  ASSUME NEW G, NEW k \in {"closed", "session", "question", "completed"}
  PROVE  Sound(<<PlainEvent(k)>>, G)
<1>1. PlainEvent(k) \in EventRec /\ PlainEvent(k).ids = {}
  BY DEF PlainEvent, EventRec
<1> QED
  BY <1>1 DEF Sound

\* The acknowledgement of messages that were given.
LEMMA SoundDelivered ==
  ASSUME NEW G, NEW S \in SUBSET Messages, S \subseteq G
  PROVE  Sound(Delivered(S), G)
<1>1. CASE S = {}
  BY <1>1 DEF Delivered, Sound
<1>2. CASE S # {}
  <2>1. [kind |-> "delivered", ids |-> S] \in EventRec
    BY DEF EventRec
  <2> QED
    BY <1>2, <2>1 DEF Delivered, Sound
<1> QED
  BY <1>1, <1>2

\* The events so far stay sound, with what was given since.
LEMMA SoundEvents ==
  ASSUME ChatInv, entered \subseteq entered'
  PROVE  Sound(events, Given')
  BY GivenGrows DEF ChatInv, EventsWereGiven, StoreTyped, Sound

\* What the store asks of the events.
LEMMA EventsSound ==
  ASSUME Sound(events', Given')
  PROVE  events' \in Seq(EventRec) /\ EventsWereGiven'
  BY DEF Sound, EventsWereGiven

----------------------------------------
\* What the thread keeps, whatever the process makes of it.
ThreadSound ==
  /\ turns \in Seq(TurnRec)
  /\ \A i \in DOMAIN turns : turns[i].took \subseteq entered /\ turns[i].held \subseteq Given
  /\ provider = "codex" => \A i \in DOMAIN turns : turns[i].held = Ids(turns[i])
  /\ EnteredOnce

\* The invariant, as far as the thread is concerned.
LEMMA ChatThread ==
  ASSUME ChatInv
  PROVE  ThreadSound
  BY DEF ChatInv, AgentTyped, HeldWereGiven, ThreadKnown, ThreadSound

\* A turn that ends, or is interrupted, keeps what it took.
LEMMA TurnEnded ==
  ASSUME ThreadSound, UNCHANGED <<provider, entered>>, NEW st \in {"completed", "interrupted"},
         \/ turns' = turns
         \/ turns # <<>> /\ turns' = [turns EXCEPT ![Len(turns)].state = st]
  PROVE  /\ ThreadSound' /\ InThread' = InThread /\ Len(turns') = Len(turns)
         /\ turns # <<>> => turns' # <<>> /\ Ids(LastTurn') = Ids(LastTurn)
<1>1. turns \in Seq(TurnRec)
  BY DEF ThreadSound
<1>2. /\ turns' \in Seq(TurnRec) /\ DOMAIN turns' = DOMAIN turns /\ Len(turns') = Len(turns)
      /\ \A i \in DOMAIN turns : turns'[i].took = turns[i].took /\ turns'[i].held = turns[i].held
  <2>1. CASE turns' = turns
    BY <1>1, <2>1
  <2>2. CASE turns # <<>> /\ turns' = [turns EXCEPT ![Len(turns)].state = st]
    <3> DEFINE n == Len(turns)
               t == [turns[n] EXCEPT !.state = st]
    <3>1. n \in DOMAIN turns /\ turns[n] \in TurnRec
      BY <1>1, <2>2
    <3>2. t \in TurnRec /\ t.took = turns[n].took /\ t.held = turns[n].held
      BY <3>1 DEF TurnRec
    <3>3. turns' = [turns EXCEPT ![n] = t]
      BY <2>2
    <3> HIDE DEF t
    <3> QED
      BY <1>1, <3>1, <3>2, <3>3
  <2> QED
    BY <2>1, <2>2
<1>3. \A i \in DOMAIN turns : Ids(turns'[i]) = Ids(turns[i])
  BY <1>2 DEF Ids
<1>4. Given' = Given
  BY DEF Given
<1>5. EnteredOnce'
  BY <1>2, <1>3 DEF ThreadSound, EnteredOnce
<1>6. InThread' = InThread
  BY <1>2, <1>3 DEF InThread
<1>7. turns # <<>> => turns' # <<>> /\ Ids(LastTurn') = Ids(LastTurn)
  <2>1. turns # <<>> => Len(turns) \in DOMAIN turns
    BY <1>1
  <2> QED
    BY <1>1, <1>2, <1>3, <2>1 DEF LastTurn
<1> QED
  BY <1>2, <1>3, <1>4, <1>5, <1>6, <1>7 DEF ThreadSound

\* The newest turn takes one more message, which the thread did not hold.
LEMMA TurnTakes ==
  ASSUME ThreadSound, provider' = provider, turns # <<>>, entered \subseteq Pair,
         NEW m \in Messages, NEW v \in Versions, Take(m, v),
         m \notin Held, m \notin Ids(LastTurn), provider = "codex" => m \notin InThread
  PROVE  /\ ThreadSound' /\ InThread' = InThread \cup {m} /\ turns' # <<>>
         /\ Ids(LastTurn') = Ids(LastTurn) \cup {m}
         /\ entered' \subseteq Pair /\ entered \subseteq entered' /\ m \in Given'
<1> DEFINE n == Len(turns)
           t == [turns[n] EXCEPT !.took = @ \cup {<<m, v>>}, !.held = @ \cup {m}]
<1>1. turns \in Seq(TurnRec) /\ n \in DOMAIN turns /\ turns[n] \in TurnRec /\ LastTurn = turns[n]
  BY DEF ThreadSound, LastTurn
<1>2. <<m, v>> \in Pair /\ <<m, v>>[1] = m
  BY DEF Pair
<1>3. t \in TurnRec /\ t.took = turns[n].took \cup {<<m, v>>} /\ t.held = turns[n].held \cup {m}
  BY <1>1, <1>2 DEF TurnRec
<1>4. entered' = entered \cup {<<m, v>>}
  BY DEF Take
<1>5. /\ turns' \in Seq(TurnRec) /\ DOMAIN turns' = DOMAIN turns /\ Len(turns') = n
      /\ turns'[n] = t /\ \A i \in DOMAIN turns : i # n => turns'[i] = turns[i]
  <2> DEFINE first == [turns[n] EXCEPT !.took = @ \cup {<<m, v>>}]
             half == [turns EXCEPT ![n] = first]
  <2>1. first \in TurnRec /\ [first EXCEPT !.held = @ \cup {m}] = t
    BY <1>1, <1>2 DEF TurnRec
  <2>2. turns' = [half EXCEPT ![n] = [half[n] EXCEPT !.held = @ \cup {m}]]
    BY <1>1 DEF Take
  <2> HIDE DEF first
  <2>3. half \in Seq(TurnRec) /\ DOMAIN half = DOMAIN turns /\ half[n] = first
        /\ \A i \in DOMAIN turns : i # n => half[i] = turns[i]
    BY <1>1, <2>1
  <2>4. turns' = [half EXCEPT ![n] = t]
    BY <2>1, <2>2, <2>3
  <2> HIDE DEF half, t
  <2> QED
    BY <1>1, <1>3, <2>3, <2>4
<1> HIDE DEF t
<1>6. Ids(t) = Ids(turns[n]) \cup {m}
  BY <1>2, <1>3 DEF Ids
<1>7. entered' \subseteq Pair /\ entered \subseteq entered' /\ m \in Given' /\ Given \subseteq Given'
  BY <1>2, <1>4, GivenGrows DEF Given
<1>8. LastTurn' = t /\ turns' # <<>>
  BY <1>1, <1>5 DEF LastTurn
<1>9. InThread' = InThread \cup {m}
  BY <1>1, <1>5, <1>6 DEF InThread
<1>10. \A i \in DOMAIN turns : m \notin turns[i].held
  BY DEF Held
<1>11. provider = "codex" => \A i \in DOMAIN turns : m \notin Ids(turns[i])
  BY DEF InThread
<1>12. EnteredOnce'
  <2>1. ASSUME NEW i \in DOMAIN turns', NEW j \in DOMAIN turns', i # j
        PROVE  /\ turns'[i].held \cap turns'[j].held = {}
               /\ provider' = "codex" => Ids(turns'[i]) \cap Ids(turns'[j]) = {}
    <3>1. /\ turns[i].held \cap turns[j].held = {}
          /\ provider = "codex" => Ids(turns[i]) \cap Ids(turns[j]) = {}
      BY <1>5, <2>1 DEF ThreadSound, EnteredOnce
    <3>2. CASE i = n
      BY <1>3, <1>5, <1>6, <1>10, <1>11, <2>1, <3>1, <3>2
    <3>3. CASE j = n
      BY <1>3, <1>5, <1>6, <1>10, <1>11, <2>1, <3>1, <3>3
    <3>4. CASE i # n /\ j # n
      BY <1>5, <3>1, <3>4
    <3> QED
      BY <3>2, <3>3, <3>4
  <2>2. ASSUME NEW i \in DOMAIN turns', NEW p \in turns'[i].took, NEW q \in turns'[i].took, p[1] = q[1]
        PROVE  p = q
    <3>1. \A a, b \in turns[i].took : a[1] = b[1] => a = b
      BY <1>5 DEF ThreadSound, EnteredOnce
    <3>2. CASE i # n
      BY <1>5, <2>2, <3>1, <3>2
    <3>3. CASE i = n
      <4>1. \A a \in turns[n].took : a[1] # m
        BY <1>1 DEF Ids
      <4>2. \A a \in t.took : a \in turns[n].took \/ a = <<m, v>>
        BY <1>3
      <4>3. p \in t.took /\ q \in t.took
        BY <1>5, <2>2, <3>3
      <4> QED
        BY <1>2, <2>2, <3>1, <3>3, <4>1, <4>2, <4>3, Zenon
    <3> QED
      BY <3>2, <3>3
  <2> QED
    BY <2>1, <2>2 DEF EnteredOnce
<1>13. \A i \in DOMAIN turns' : turns'[i].took \subseteq entered' /\ turns'[i].held \subseteq Given'
  BY <1>1, <1>3, <1>4, <1>5, <1>7 DEF ThreadSound
<1>14. provider' = "codex" => \A i \in DOMAIN turns' : turns'[i].held = Ids(turns'[i])
  BY <1>1, <1>3, <1>5, <1>6 DEF ThreadSound
<1> QED
  BY <1>1, <1>5, <1>6, <1>7, <1>8, <1>9, <1>12, <1>13, <1>14 DEF ThreadSound

\* A new turn, whose message the thread does not hold.
LEMMA TurnAppended ==
  ASSUME ThreadSound, provider' = provider, entered \subseteq entered',
         NEW t \in TurnRec, turns' = Append(turns, t),
         t.held \cap Held = {}, \A p, q \in t.took : p[1] = q[1] => p = q,
         provider = "codex" => Ids(t) \cap InThread = {} /\ t.held = Ids(t),
         t.took \subseteq entered', t.held \subseteq Given'
  PROVE  /\ ThreadSound' /\ InThread' = InThread \cup Ids(t) /\ turns' # <<>>
         /\ LastTurn' = t
<1> DEFINE n == Len(turns) + 1
<1>1. turns \in Seq(TurnRec)
  BY DEF ThreadSound
<1>2. /\ turns' \in Seq(TurnRec) /\ DOMAIN turns' = DOMAIN turns \cup {n} /\ n \notin DOMAIN turns
      /\ Len(turns') = n /\ turns'[n] = t /\ \A i \in DOMAIN turns : turns'[i] = turns[i]
  BY <1>1
<1> HIDE DEF n
<1>3. LastTurn' = t /\ turns' # <<>>
  BY <1>2 DEF LastTurn
<1>4. InThread' = InThread \cup Ids(t)
  BY <1>2 DEF InThread
<1>5. Given \subseteq Given'
  BY GivenGrows
<1>6. EnteredOnce'
  <2>1. ASSUME NEW i \in DOMAIN turns', NEW j \in DOMAIN turns', i # j
        PROVE  /\ turns'[i].held \cap turns'[j].held = {}
               /\ provider' = "codex" => Ids(turns'[i]) \cap Ids(turns'[j]) = {}
    <3>1. CASE i = n
      BY <1>2, <2>1, <3>1 DEF Held, InThread
    <3>2. CASE j = n
      BY <1>2, <2>1, <3>2 DEF Held, InThread
    <3>3. CASE i # n /\ j # n
      BY <1>2, <2>1, <3>3 DEF ThreadSound, EnteredOnce
    <3> QED
      BY <3>1, <3>2, <3>3
  <2>2. \A i \in DOMAIN turns' : \A p, q \in turns'[i].took : p[1] = q[1] => p = q
    BY <1>2 DEF ThreadSound, EnteredOnce
  <2> QED
    BY <2>1, <2>2 DEF EnteredOnce
<1>7. \A i \in DOMAIN turns' : turns'[i].took \subseteq entered' /\ turns'[i].held \subseteq Given'
  BY <1>2, <1>5 DEF ThreadSound
<1>8. provider' = "codex" => \A i \in DOMAIN turns' : turns'[i].held = Ids(turns'[i])
  BY <1>2 DEF ThreadSound
<1> QED
  BY <1>2, <1>3, <1>4, <1>6, <1>7, <1>8 DEF ThreadSound

\* What the thread holds, the agent was given.
LEMMA ThreadGiven ==
  ASSUME ThreadSound, entered \subseteq Pair
  PROVE  /\ InThread \subseteq Given /\ Held \subseteq Given /\ Given \subseteq Messages
         /\ turns # <<>> => Ids(LastTurn) \subseteq InThread
<1>1. turns \in Seq(TurnRec) /\ (turns # <<>> => Len(turns) \in DOMAIN turns)
  BY DEF ThreadSound
<1>2. \A p \in entered : p[1] \in Given
  BY DEF Given, Pair
<1>3. InThread \subseteq Given
  BY <1>2 DEF InThread, Ids, ThreadSound
<1>4. Held \subseteq Given
  BY DEF Held, ThreadSound
<1>5. turns # <<>> => Ids(LastTurn) \subseteq InThread
  BY <1>1 DEF InThread, LastTurn
<1> QED
  BY <1>3, <1>4, <1>5 DEF Given

\* A step of the process, from what it does to its own state.
LEMMA ProcessStep ==
  ASSUME ChatInv, UNCHANGED <<chat, messages, question, run, inbox, tick, remains, provider>>,
         proc.pc # "off", entered \subseteq entered', entered' \subseteq Pair,
         Sound(events', Given'), ThreadSound', ThreadKnown',
         proc' \in ProcRec, proc'.pc \in {"open", "start", "wait"} => proc'.message \in Messages,
         proc'.seen \subseteq Given', proc'.pending \subseteq Given',
         receipt' \in [message : Ident, delivered : SUBSET Messages],
         receipt'.delivered \subseteq Given'
  PROVE  ChatInv'
<1>1. RowsWereGiven' /\ AnswerKnown' /\ DeletedWholeOrNotAtAll'
  BY StoreAside
<1>2. StoreTyped' /\ EventsWereGiven'
  BY EventsSound DEF ChatInv, StoreTyped
<1>3. AgentTyped' /\ HeldWereGiven' /\ EnteredOnce'
  BY DEF ChatInv, AgentTyped, HeldWereGiven, ThreadSound
<1>4. Named'
  BY DEF ChatInv, Named
<1> QED
  BY <1>1, <1>2, <1>3, <1>4 DEF ChatInv

\* What a process step starts from.
LEMMA ProcessFacts ==
  ASSUME ChatInv
  PROVE  /\ proc \in ProcRec /\ proc.seen \subseteq Given /\ proc.pending \subseteq Given
         /\ proc.seen \subseteq Messages /\ proc.attempted \subseteq Messages
         /\ proc.pending \subseteq Messages /\ proc.consumed \subseteq Messages
         /\ proc.version \in Versions
         /\ proc.pc \in {"open", "start", "wait"} => proc.message \in Messages
         /\ receipt \in [message : Ident, delivered : SUBSET Messages]
         /\ receipt.delivered \subseteq Given /\ receipt.delivered \subseteq Messages
         /\ entered \subseteq Pair /\ entered \subseteq entered
         /\ Sound(events, Given) /\ ThreadSound
         /\ InThread \subseteq Given /\ Held \subseteq Given /\ Given \subseteq Messages
         /\ turns # <<>> => Ids(LastTurn) \subseteq InThread
         /\ provider \in {"codex", "claude"}
<1>1. proc \in ProcRec
  BY DEF ChatInv, AgentTyped
<1>2. /\ proc.seen \subseteq Messages /\ proc.attempted \subseteq Messages
      /\ proc.pending \subseteq Messages /\ proc.consumed \subseteq Messages
      /\ proc.version \in Versions
  BY <1>1 DEF ProcRec
<1>3. Sound(events, Given)
  BY DEF ChatInv, StoreTyped, EventsWereGiven, Sound
<1>4. receipt \in [message : Ident, delivered : SUBSET Messages] /\ receipt.delivered \subseteq Messages
  BY DEF ChatInv, AgentTyped
<1> QED
  BY <1>1, <1>2, <1>3, <1>4, ChatThread, ThreadGiven DEF ChatInv, AgentTyped, HeldWereGiven, Named

\* A step that leaves the thread alone.
LEMMA ThreadSame ==
  ASSUME ThreadSound, UNCHANGED <<provider, turns>>, entered \subseteq entered'
  PROVE  /\ ThreadSound' /\ InThread' = InThread /\ Held' = Held /\ LastTurn' = LastTurn
         /\ Given \subseteq Given'
         /\ \A i \in DOMAIN turns : Ids(turns'[i]) = Ids(turns[i])
<1>1. Given \subseteq Given'
  BY GivenGrows
<1>2. \A i \in DOMAIN turns : Ids(turns'[i]) = Ids(turns[i])
  BY DEF Ids
<1>3. EnteredOnce'
  BY <1>2 DEF ThreadSound, EnteredOnce
<1>4. InThread' = InThread /\ Held' = Held /\ LastTurn' = LastTurn
  BY <1>2 DEF InThread, Held, LastTurn
<1> QED
  BY <1>1, <1>2, <1>3, <1>4 DEF ThreadSound

\* The events a step appends.
LEMMA EventsAdded ==
  ASSUME ChatInv, entered \subseteq entered', NEW s, Sound(s, Given'), events' = events \o s
  PROVE  Sound(events', Given')
  BY SoundEvents, SoundJoin, Zenon

\* The same for one event that names no message.
LEMMA EventAdded ==
  ASSUME ChatInv, entered \subseteq entered', NEW k \in {"closed", "session", "question", "completed"},
         events' = Append(events, PlainEvent(k))
  PROVE  Sound(events', Given')
<1>1. events \in Seq(EventRec) /\ PlainEvent(k) \in EventRec
  BY DEF ChatInv, StoreTyped, PlainEvent, EventRec
<1>2. Append(events, PlainEvent(k)) = events \o <<PlainEvent(k)>>
  BY <1>1
<1> QED
  BY <1>2, SoundPlain, EventsAdded, Zenon

\* execute and history (chat_process.rs): the process acknowledges what the thread
\* holds, and knows whether its own message is among it.
LEMMA CodexOpenKeeps ==
  ASSUME ChatInv, CodexOpen
  PROVE  ChatInv'
<1> DEFINE accepted == {i \in DOMAIN turns : proc.message \in Ids(turns[i])}
<1>1. /\ UNCHANGED <<chat, messages, question, run, inbox, tick, remains, provider, turns, receipt, entered>>
      /\ proc.pc = "open" /\ provider = "codex"
      /\ \E pc \in {"done", "start"} :
           proc' = [proc EXCEPT !.pc = pc, !.seen = InThread, !.continuing = (accepted # {})]
      /\ \/ events' = ((events \o <<PlainEvent("closed"), PlainEvent("session")>>) \o Delivered(InThread))
                        \o <<PlainEvent("completed")>>
         \/ events' = ((events \o <<PlainEvent("closed"), PlainEvent("session")>>) \o Delivered(InThread))
                        \o <<>>
  BY Zenon DEF CodexOpen
<1>2. ThreadSound' /\ InThread' = InThread /\ Given \subseteq Given' /\ entered \subseteq entered'
  BY <1>1, ProcessFacts, ThreadSame
<1>3. (accepted # {}) \in BOOLEAN /\ ((accepted # {}) <=> proc.message \in InThread)
  BY DEF InThread
<1> HIDE DEF accepted
<1>4. /\ proc' \in ProcRec /\ proc'.pc \in {"done", "start"} /\ proc'.seen = InThread
      /\ (proc'.continuing <=> accepted # {}) /\ proc'.message = proc.message
      /\ proc'.pending = proc.pending
  <2>1. PICK pc \in {"done", "start"} :
           proc' = [proc EXCEPT !.pc = pc, !.seen = InThread, !.continuing = (accepted # {})]
    BY <1>1
  <2>2. InThread \in SUBSET Messages
    BY ProcessFacts
  <2>3. ASSUME NEW b \in BOOLEAN, proc' = [proc EXCEPT !.pc = pc, !.seen = InThread, !.continuing = b]
        PROVE  /\ proc' \in ProcRec /\ proc'.pc = pc /\ proc'.seen = InThread
               /\ proc'.continuing = b /\ proc'.message = proc.message
               /\ proc'.pending = proc.pending
    BY <2>2, <2>3, ProcessFacts DEF ProcRec
  <2> QED
    BY <1>3, <2>1, <2>3, Zenon
<1>5. Sound(events', Given')
  <2> DEFINE opened == <<PlainEvent("closed"), PlainEvent("session")>>
  <2>1. Sound(opened, Given')
    <3>1. /\ PlainEvent("closed") \in EventRec /\ PlainEvent("closed").ids = {}
          /\ PlainEvent("session") \in EventRec /\ PlainEvent("session").ids = {}
      BY DEF PlainEvent, EventRec
    <3> QED
      BY <3>1 DEF Sound
  <2> HIDE DEF opened
  <2>2. Sound(events \o opened, Given')
    BY <1>2, <2>1, SoundEvents, SoundJoin, Zenon
  <2>3. Sound(Delivered(InThread), Given')
    BY <1>2, ProcessFacts, SoundDelivered
  <2>4. Sound((events \o opened) \o Delivered(InThread), Given')
    BY <2>2, <2>3, SoundJoin, Zenon
  <2>5. Sound(<<PlainEvent("completed")>>, Given') /\ Sound(<<>>, Given')
    BY SoundPlain DEF Sound
  <2>6. \/ events' = ((events \o opened) \o Delivered(InThread)) \o <<PlainEvent("completed")>>
        \/ events' = ((events \o opened) \o Delivered(InThread)) \o <<>>
    BY <1>1, Zenon DEF opened
  <2> QED
    BY <2>4, <2>5, <2>6, SoundJoin, Zenon
<1>6. ThreadKnown'
  BY <1>1, <1>2, <1>3, <1>4 DEF ThreadKnown, ThreadSound
<1> QED
  BY <1>1, <1>2, <1>4, <1>5, <1>6, ProcessFacts, ProcessStep

\* start_turn: a message that the thread holds is continued without it; any other opens
\* a turn of its own.
LEMMA CodexStartTurnKeeps ==
  ASSUME ChatInv, CodexStartTurn
  PROVE  ChatInv'
<1> DEFINE m == proc.message
           first == IF proc.continuing THEN {} ELSE {<<m, proc.version>>}
           t == [took |-> first, held |-> {p[1] : p \in first}, state |-> "active"]
<1>1. /\ UNCHANGED <<chat, messages, question, run, inbox, tick, remains, provider, receipt>>
      /\ proc.pc = "start" /\ provider = "codex"
      /\ turns' = Append(turns, t) /\ entered' = entered \cup first
      /\ events' = IF m \in proc.seen THEN events ELSE events \o Delivered({m})
      /\ proc' = [proc EXCEPT !.pc = "wait", !.seen = @ \cup {m}]
  BY Zenon DEF CodexStartTurn
<1>2. m \in Messages /\ <<m, proc.version>> \in Pair /\ <<m, proc.version>>[1] = m
  BY <1>1, ProcessFacts DEF Pair
<1>3. /\ proc.seen = InThread /\ (proc.continuing <=> m \in InThread)
  BY <1>1 DEF ChatInv, ThreadKnown
<1>4. /\ first \subseteq Pair /\ t \in TurnRec /\ t.took = first /\ t.held = Ids(t)
      /\ Ids(t) \cap InThread = {} /\ Ids(t) \subseteq {m}
      /\ \A p, q \in t.took : p[1] = q[1] => p = q
  <2>1. CASE proc.continuing
    <3>1. first = {} /\ t = [took |-> {}, held |-> {}, state |-> "active"]
      BY <2>1
    <3> QED
      BY <3>1 DEF TurnRec, Ids
  <2>2. CASE ~proc.continuing
    <3>1. first = {<<m, proc.version>>} /\ {p[1] : p \in first} = {m}
      BY <1>2, <2>2
    <3>2. t = [took |-> {<<m, proc.version>>}, held |-> {m}, state |-> "active"]
      BY <3>1
    <3> QED
      BY <1>2, <1>3, <2>2, <3>1, <3>2 DEF TurnRec, Ids
  <2> QED
    BY <2>1, <2>2
<1>5. entered' \subseteq Pair /\ entered \subseteq entered' /\ first \subseteq entered'
  BY <1>1, <1>4, ProcessFacts
<1>6. Given \subseteq Given' /\ Given' \subseteq Messages /\ m \in Given'
  <2>1. Given \subseteq Given' /\ Given' \subseteq Messages
    BY <1>5, GivenGrows DEF Given
  <2>2. CASE proc.continuing
    BY <1>3, <2>1, <2>2, ProcessFacts
  <2>3. CASE ~proc.continuing
    BY <1>2, <1>5, <2>3, ProcessFacts DEF Given
  <2> QED
    BY <2>1, <2>2, <2>3
<1>7. Ids(t) \subseteq Given'
  BY <1>4, <1>6
<1>8. t.held \cap Held = {}
  <2>1. Held \subseteq InThread
    BY <1>1, ProcessFacts DEF Held, InThread, ThreadSound
  <2> QED
    BY <1>4, <2>1
<1> HIDE DEF first, t
<1>9. /\ ThreadSound' /\ InThread' = InThread \cup Ids(t) /\ turns' # <<>>
  BY <1>1, <1>4, <1>5, <1>7, <1>8, ProcessFacts, TurnAppended
<1>10. /\ proc' \in ProcRec /\ proc'.pc = "wait" /\ proc'.seen = proc.seen \cup {m}
       /\ proc'.message = m /\ proc'.pending = proc.pending
  BY <1>1, <1>2, ProcessFacts DEF ProcRec
<1>11. Sound(events', Given')
  BY <1>1, <1>2, <1>5, <1>6, SoundEvents, SoundDelivered, SoundJoin
<1>12. ThreadKnown'
  BY <1>1, <1>3, <1>4, <1>9, <1>10 DEF ThreadKnown, ThreadSound
<1>13. proc'.seen \subseteq Given' /\ proc'.pending \subseteq Given' /\ receipt'.delivered \subseteq Given'
  BY <1>1, <1>6, <1>10, ProcessFacts
<1> QED
  BY <1>1, <1>2, <1>5, <1>9, <1>10, <1>11, <1>12, <1>13, ProcessFacts, ProcessStep

\* What Codex starts a step of its turn from.
LEMMA CodexWaits ==
  ASSUME ChatInv, provider = "codex", proc.pc = "wait"
  PROVE  /\ turns # <<>> /\ InThread \subseteq proc.seen \cup proc.attempted
         /\ Held \subseteq InThread /\ Ids(LastTurn) \subseteq InThread
<1>1. turns # <<>> /\ InThread \subseteq proc.seen \cup proc.attempted
  BY DEF ChatInv, ThreadKnown
<1>2. Held \subseteq InThread
  BY ProcessFacts DEF Held, InThread, ThreadSound
<1> QED
  BY <1>1, <1>2, ProcessFacts

\* A step of the process within a turn of Codex.
LEMMA CodexStep ==
  ASSUME ChatInv, provider = "codex", proc.pc = "wait",
         UNCHANGED <<chat, messages, question, run, inbox, tick, remains, provider, receipt>>,
         entered \subseteq entered', entered' \subseteq Pair, Sound(events', Given'),
         ThreadSound', turns' # <<>>, InThread' \subseteq proc'.seen \cup proc'.attempted,
         proc' \in ProcRec, proc'.pc \in {"wait", "done"}, proc'.message = proc.message,
         proc'.seen \subseteq Given', proc'.pending = proc.pending
  PROVE  ChatInv'
<1>1. ThreadKnown'
  BY DEF ThreadKnown, ThreadSound
<1>2. Given \subseteq Given'
  BY GivenGrows
<1>3. receipt'.delivered \subseteq Given' /\ proc'.pending \subseteq Given'
  BY <1>2, ProcessFacts
<1> QED
  BY <1>1, <1>3, ProcessFacts, ProcessStep

\* What can be steered is a message the process has not handed over yet.
LEMMA SteerableFacts ==
  ASSUME ChatInv, NEW m \in Messages, NEW v \in Versions, Steerable(m, v)
  PROVE  /\ proc.pc = "wait" /\ m \notin proc.seen /\ m \notin proc.attempted
         /\ <<m, v>> \in Pair /\ <<m, v>>[1] = m
  BY DEF Steerable, Pair

\* steer: a message the process neither saw nor tried is not in the thread, so that the
\* turn that takes it is the first; its answer may be lost.
LEMMA CodexSteerKeeps ==
  ASSUME ChatInv, NEW m \in Messages, NEW v \in Versions, CodexSteer(m, v)
  PROVE  ChatInv'
<1>1. /\ provider = "codex" /\ Steerable(m, v)
      /\ UNCHANGED <<chat, messages, question, run, inbox, tick, remains, provider, receipt>>
  BY DEF CodexSteer
<1>2. /\ proc.pc = "wait" /\ turns # <<>> /\ m \notin InThread /\ m \notin Held
      /\ m \notin Ids(LastTurn) /\ InThread \subseteq proc.seen \cup proc.attempted
  BY <1>1, SteerableFacts, CodexWaits
<1>3. ASSUME proc' = [proc EXCEPT !.attempted = @ \cup {m}]
      PROVE  /\ proc' \in ProcRec /\ proc'.pc = "wait" /\ proc'.message = proc.message
             /\ proc'.seen = proc.seen /\ proc'.attempted = proc.attempted \cup {m}
             /\ proc'.pending = proc.pending
  BY <1>2, <1>3, ProcessFacts DEF ProcRec
<1>4. ASSUME proc' = [proc EXCEPT !.seen = @ \cup {m}, !.attempted = @ \cup {m}]
      PROVE  /\ proc' \in ProcRec /\ proc'.pc = "wait" /\ proc'.message = proc.message
             /\ proc'.seen = proc.seen \cup {m} /\ proc'.attempted = proc.attempted \cup {m}
             /\ proc'.pending = proc.pending
  BY <1>2, <1>4, ProcessFacts DEF ProcRec
<1>5. CASE Take(m, v)
  <2>1. /\ ThreadSound' /\ InThread' = InThread \cup {m} /\ turns' # <<>>
        /\ entered' \subseteq Pair /\ entered \subseteq entered' /\ m \in Given'
    BY <1>1, <1>2, <1>5, ProcessFacts, TurnTakes
  <2>2. Given \subseteq Given'
    BY <2>1, GivenGrows
  <2>3. CASE /\ events' = events \o Delivered({m})
             /\ proc' = [proc EXCEPT !.seen = @ \cup {m}, !.attempted = @ \cup {m}]
    <3>1. Sound(Delivered({m}), Given')
      BY <2>1, SoundDelivered
    <3>2. Sound(events', Given')
      BY <2>1, <2>3, <3>1, EventsAdded
    <3>3. proc'.seen \subseteq Given' /\ InThread' \subseteq proc'.seen \cup proc'.attempted
      BY <1>2, <1>4, <2>1, <2>2, <2>3, ProcessFacts
    <3> QED
      BY <1>1, <1>2, <1>4, <2>1, <2>3, <3>2, <3>3, CodexStep
  <2>4. CASE proc' = [proc EXCEPT !.attempted = @ \cup {m}] /\ UNCHANGED events
    <3>1. Sound(events', Given')
      BY <2>1, <2>4, SoundEvents
    <3>2. proc'.seen \subseteq Given' /\ InThread' \subseteq proc'.seen \cup proc'.attempted
      BY <1>2, <1>3, <2>1, <2>2, <2>4, ProcessFacts
    <3> QED
      BY <1>1, <1>2, <1>3, <2>1, <2>4, <3>1, <3>2, CodexStep
  <2> QED
    BY <1>2, <1>5, <2>3, <2>4 DEF CodexSteer, TurnOpen, Take
<1>6. CASE /\ proc' = [proc EXCEPT !.attempted = @ \cup {m}]
           /\ UNCHANGED <<turns, entered, events>>
  <2>1. ThreadSound' /\ InThread' = InThread /\ entered \subseteq entered' /\ entered' \subseteq Pair
        /\ turns' # <<>> /\ Given \subseteq Given'
    BY <1>1, <1>2, <1>6, ProcessFacts, ThreadSame
  <2>2. Sound(events', Given')
    BY <1>6, <2>1, SoundEvents
  <2>3. proc'.seen \subseteq Given' /\ InThread' \subseteq proc'.seen \cup proc'.attempted
    BY <1>2, <1>3, <1>6, <2>1, ProcessFacts
  <2> QED
    BY <1>1, <1>2, <1>3, <1>6, <2>1, <2>2, <2>3, CodexStep
<1> QED
  BY <1>5, <1>6 DEF CodexSteer

\* item: what the turn reports, it took.
LEMMA CodexItemKeeps ==
  ASSUME ChatInv, NEW m \in Messages, CodexItem(m)
  PROVE  ChatInv'
<1>1. /\ provider = "codex" /\ proc.pc = "wait" /\ m \in Ids(LastTurn)
      /\ proc' = [proc EXCEPT !.seen = @ \cup {m}]
      /\ events' = events \o Delivered({m})
      /\ UNCHANGED <<chat, messages, question, run, inbox, tick, remains, provider, turns, receipt, entered>>
  BY DEF CodexItem
<1>2. /\ proc' \in ProcRec /\ proc'.pc = "wait" /\ proc'.message = proc.message
      /\ proc'.seen = proc.seen \cup {m} /\ proc'.attempted = proc.attempted
      /\ proc'.pending = proc.pending
  BY <1>1, ProcessFacts DEF ProcRec
<1>3. /\ ThreadSound' /\ InThread' = InThread /\ entered \subseteq entered' /\ entered' \subseteq Pair
      /\ Given \subseteq Given'
  BY <1>1, ProcessFacts, ThreadSame
<1>4. turns' # <<>> /\ InThread \subseteq proc.seen \cup proc.attempted /\ m \in Given'
  BY <1>1, <1>3, CodexWaits, ProcessFacts
<1>5. Sound(events', Given')
  BY <1>1, <1>3, <1>4, SoundDelivered, EventsAdded
<1>6. proc'.seen \subseteq Given' /\ InThread' \subseteq proc'.seen \cup proc'.attempted
  BY <1>2, <1>3, <1>4, ProcessFacts
<1> QED
  BY <1>1, <1>2, <1>3, <1>4, <1>5, <1>6, CodexStep

\* A question of Codex, and the end of its request.
LEMMA CodexWordKeeps ==
  ASSUME ChatInv, CodexAsk \/ CodexFinish
  PROVE  ChatInv'
<1>1. /\ provider = "codex" /\ proc.pc = "wait"
      /\ \/ events' = Append(events, PlainEvent("question"))
         \/ events' = Append(events, PlainEvent("completed"))
      /\ UNCHANGED <<chat, messages, question, run, inbox, tick, remains, provider, turns, receipt, entered>>
  BY DEF CodexAsk, CodexFinish
<1>2. /\ proc' \in ProcRec /\ proc'.pc \in {"wait", "done"} /\ proc'.message = proc.message
      /\ proc'.seen = proc.seen /\ proc'.attempted = proc.attempted
      /\ proc'.pending = proc.pending
  BY <1>1, ProcessFacts DEF ProcRec, CodexAsk, CodexFinish
<1>3. /\ ThreadSound' /\ InThread' = InThread /\ entered \subseteq entered' /\ entered' \subseteq Pair
      /\ Given \subseteq Given'
  BY <1>1, ProcessFacts, ThreadSame
<1>4. turns' # <<>> /\ InThread \subseteq proc.seen \cup proc.attempted
  BY <1>1, CodexWaits
<1>5. Sound(events', Given')
  BY <1>1, <1>3, EventAdded
<1>6. proc'.seen \subseteq Given' /\ InThread' \subseteq proc'.seen \cup proc'.attempted
  BY <1>2, <1>3, <1>4, ProcessFacts
<1> QED
  BY <1>1, <1>2, <1>3, <1>4, <1>5, <1>6, CodexStep

\* The reply to a live question is given to Codex outside its turns.
LEMMA CodexReplyKeeps ==
  ASSUME ChatInv, NEW m \in Messages, NEW v \in Versions, CodexReply(m, v)
  PROVE  ChatInv'
<1>1. /\ provider = "codex" /\ Steerable(m, v)
      /\ proc' = [proc EXCEPT !.asked = FALSE, !.attempted = @ \cup {m}, !.seen = @ \cup {m}]
      /\ entered' = entered \cup {<<m, v>>}
      /\ events' = (events \o Delivered({m})) \o <<PlainEvent("closed")>>
      /\ UNCHANGED <<chat, messages, question, run, inbox, tick, remains, provider, turns, receipt>>
  BY Zenon DEF CodexReply
<1>2. /\ proc.pc = "wait" /\ turns # <<>> /\ InThread \subseteq proc.seen \cup proc.attempted
  BY <1>1, SteerableFacts, CodexWaits
<1>3. /\ entered \subseteq entered' /\ entered' \subseteq Pair /\ m \in Given'
  BY <1>1, SteerableFacts, ProcessFacts DEF Given
<1>4. ThreadSound' /\ InThread' = InThread /\ Given \subseteq Given' /\ turns' # <<>>
  BY <1>1, <1>2, <1>3, ProcessFacts, ThreadSame
<1>5. /\ proc' \in ProcRec /\ proc'.pc = "wait" /\ proc'.message = proc.message
      /\ proc'.seen = proc.seen \cup {m} /\ proc'.attempted = proc.attempted \cup {m}
      /\ proc'.pending = proc.pending
  BY <1>1, <1>2, ProcessFacts DEF ProcRec
<1>6. Sound(events', Given')
  <2>1. Sound(Delivered({m}), Given') /\ Sound(<<PlainEvent("closed")>>, Given')
    BY <1>3, SoundDelivered, SoundPlain
  <2>2. Sound(events \o Delivered({m}), Given')
    BY <1>3, <2>1, SoundEvents, SoundJoin, Zenon
  <2> QED
    BY <1>1, <2>1, <2>2, SoundJoin, Zenon
<1>7. proc'.seen \subseteq Given' /\ InThread' \subseteq proc'.seen \cup proc'.attempted
  BY <1>2, <1>3, <1>4, <1>5, ProcessFacts
<1> QED
  BY <1>1, <1>2, <1>3, <1>4, <1>5, <1>6, <1>7, CodexStep

\* The turn of Codex ends on its own.
LEMMA CodexTurnEndsKeeps ==
  ASSUME ChatInv, CodexTurnEnds
  PROVE  ChatInv'
<1>1. /\ provider = "codex" /\ proc.pc = "wait" /\ turns # <<>>
      /\ turns' = [turns EXCEPT ![Len(turns)].state = "completed"]
      /\ UNCHANGED <<chat, messages, question, run, inbox, tick, events, remains, provider, proc, receipt, entered>>
  BY DEF CodexTurnEnds, TurnOpen, queueVars
<1>2. ThreadSound' /\ InThread' = InThread /\ turns' # <<>>
  BY <1>1, ProcessFacts, TurnEnded
<1>3. entered \subseteq entered' /\ entered' \subseteq Pair /\ Given \subseteq Given'
  BY <1>1, ProcessFacts, GivenGrows
<1>4. Sound(events', Given')
  BY <1>1, <1>3, SoundEvents
<1> QED
  BY <1>1, <1>2, <1>3, <1>4, CodexWaits, ProcessFacts, CodexStep

\* Every step of the Codex process.
LEMMA CodexKeeps ==
  ASSUME ChatInv, Codex
  PROVE  ChatInv'
  BY CodexOpenKeeps, CodexStartTurnKeeps, CodexTurnEndsKeeps, CodexWordKeeps, CodexItemKeeps,
     CodexSteerKeeps, CodexReplyKeeps DEF Codex

----------------------------------------
\* A step of the process within a turn of Claude Code.
LEMMA ClaudeStep ==
  ASSUME ChatInv, provider = "claude", proc.pc = "wait",
         UNCHANGED <<chat, messages, question, run, inbox, tick, remains, provider>>,
         entered \subseteq entered', entered' \subseteq Pair, Sound(events', Given'),
         ThreadSound', turns' # <<>>, Ids(LastTurn') \subseteq proc'.attempted,
         proc' \in ProcRec, proc'.pc \in {"wait", "done"}, proc'.message = proc.message,
         proc'.seen \subseteq Given', proc'.pending \subseteq Given',
         receipt' \in [message : Ident, delivered : SUBSET Messages],
         receipt'.delivered \subseteq Given'
  PROVE  ChatInv'
<1>1. (Ids(LastTurn))' = Ids(LastTurn')
  BY DEF Ids
<1>2. ThreadKnown'
  BY <1>1 DEF ThreadKnown
<1> QED
  BY <1>2, ProcessFacts, ProcessStep

\* What Claude Code starts a step of its turn from.
LEMMA ClaudeWaits ==
  ASSUME ChatInv, provider = "claude", proc.pc = "wait"
  PROVE  turns # <<>> /\ Ids(LastTurn) \subseteq proc.attempted
  BY DEF ChatInv, ThreadKnown

\* A replayed receipt (Receipt::replay, claude_process.rs) names messages that were given.
LEMMA ClaudeReplayKeeps ==
  ASSUME ChatInv, ClaudeReplay
  PROVE  ChatInv'
<1>1. /\ provider = "claude" /\ proc.pc = "open"
      /\ proc' = [proc EXCEPT !.pc = "done"]
      /\ events' = (events \o Delivered(receipt.delivered)) \o <<PlainEvent("completed")>>
      /\ UNCHANGED <<chat, messages, question, run, inbox, tick, remains, provider, turns, receipt, entered>>
  BY Zenon DEF ClaudeReplay
<1>2. /\ proc' \in ProcRec /\ proc'.pc = "done"
      /\ proc'.seen = proc.seen /\ proc'.pending = proc.pending
  BY <1>1, ProcessFacts DEF ProcRec
<1>3. /\ ThreadSound' /\ entered \subseteq entered' /\ entered' \subseteq Pair /\ Given \subseteq Given'
  BY <1>1, ProcessFacts, ThreadSame
<1>4. Sound(events', Given')
  <2>1. Sound(Delivered(receipt.delivered), Given') /\ Sound(<<PlainEvent("completed")>>, Given')
    BY <1>3, ProcessFacts, SoundDelivered, SoundPlain
  <2>2. Sound(events \o Delivered(receipt.delivered), Given')
    BY <1>3, <2>1, SoundEvents, SoundJoin, Zenon
  <2> QED
    BY <1>1, <2>1, <2>2, SoundJoin, Zenon
<1>5. ThreadKnown'
  BY <1>1, <1>2 DEF ThreadKnown
<1> QED
  BY <1>1, <1>2, <1>3, <1>4, <1>5, ProcessFacts, ProcessStep

\* The request opens a turn: a new session holds it under its own id, a resumed one does
\* not, because it is submitted under a fresh wire id.
LEMMA ClaudeSubmitKeeps ==
  ASSUME ChatInv, ClaudeSubmit
  PROVE  ChatInv'
<1> DEFINE m == proc.message
           first == {<<m, proc.version>>}
           took == IF proc.recovery /\ m \in InThread THEN {} ELSE first
           t == [took |-> took, held |-> IF proc.resume THEN {} ELSE {m}, state |-> "active"]
<1>1. /\ UNCHANGED <<chat, messages, question, run, inbox, tick, remains, provider, receipt>>
      /\ proc.pc = "open" /\ provider = "claude"
      /\ turns' = Append(turns, t) /\ entered' = entered \cup first
      /\ events' = Append(events, PlainEvent("session"))
      /\ proc' = [proc EXCEPT !.pc = "wait", !.attempted = {m}, !.pending = {m}]
  BY Zenon DEF ClaudeSubmit
<1>2. m \in Messages /\ <<m, proc.version>> \in Pair /\ <<m, proc.version>>[1] = m
      /\ proc.version \in Versions
  BY <1>1, ProcessFacts DEF Pair
<1>3. entered' \subseteq Pair /\ entered \subseteq entered' /\ first \subseteq entered' /\ m \in Given'
  BY <1>1, <1>2, ProcessFacts DEF Given
<1>4. /\ took = {} \/ took = first
      /\ took \subseteq entered' /\ took \subseteq Pair
      /\ \A p, q \in took : p[1] = q[1] => p = q
      /\ \A p \in took : p[1] = m
  <2>1. took = {} \/ took = first
    OBVIOUS
  <2> QED
    BY <1>2, <1>3, <2>1
<1> HIDE DEF took
<1>5. /\ t \in TurnRec /\ t.took = took /\ t.held \subseteq {m}
      /\ proc.resume \/ t.held = {m}
      /\ proc.resume => t.held = {}
  BY <1>2, <1>4 DEF TurnRec
<1>6. t.held \cap Held = {}
  <2>1. CASE proc.resume
    BY <1>5, <2>1
  <2>2. CASE ~proc.resume
    <3>1. turns = <<>>
      BY <1>1, <2>2 DEF ChatInv, ThreadKnown
    <3> QED
      BY <3>1 DEF Held
  <2> QED
    BY <2>1, <2>2
<1>7. t.held \subseteq Given' /\ Ids(t) \subseteq {m}
  BY <1>3, <1>4, <1>5 DEF Ids
<1> HIDE DEF t
<1>8. ThreadSound' /\ turns' # <<>> /\ LastTurn' = t
  BY <1>1, <1>3, <1>4, <1>5, <1>6, <1>7, ProcessFacts, TurnAppended
<1>9. /\ proc' \in ProcRec /\ proc'.pc = "wait" /\ proc'.seen = proc.seen
      /\ proc'.message = m /\ proc'.pending = {m} /\ proc'.attempted = {m}
  BY <1>1, <1>2, ProcessFacts DEF ProcRec
<1>10. Sound(events', Given')
  BY <1>1, <1>3, EventAdded
<1>11. ThreadKnown'
  <2>1. (Ids(LastTurn))' = Ids(LastTurn')
    BY DEF Ids
  <2> QED
    BY <1>1, <1>7, <1>8, <1>9, <2>1 DEF ThreadKnown
<1>12. proc'.seen \subseteq Given' /\ proc'.pending \subseteq Given' /\ receipt'.delivered \subseteq Given'
  BY <1>1, <1>3, <1>9, GivenGrows, ProcessFacts
<1> QED
  BY <1>1, <1>2, <1>3, <1>8, <1>9, <1>10, <1>11, <1>12, ProcessFacts, ProcessStep

\* poll_inbox: a message this process never tried is not in its turn; one that the
\* session holds under its id is not executed.
LEMMA ClaudePollKeeps ==
  ASSUME ChatInv, NEW m \in Messages, NEW v \in Versions, ClaudePoll(m, v)
  PROVE  ChatInv'
<1>1. /\ provider = "claude" /\ Steerable(m, v)
      /\ proc' = [proc EXCEPT !.attempted = @ \cup {m}, !.pending = @ \cup {m}]
      /\ IF m \in Held THEN UNCHANGED <<turns, entered>> ELSE Take(m, v)
      /\ UNCHANGED <<chat, messages, question, run, inbox, tick, remains, events, provider, receipt>>
  BY DEF ClaudePoll, queueVars
<1>2. /\ proc.pc = "wait" /\ turns # <<>> /\ m \notin Ids(LastTurn)
      /\ Ids(LastTurn) \subseteq proc.attempted
  BY <1>1, SteerableFacts, ClaudeWaits
<1>3. /\ proc' \in ProcRec /\ proc'.pc = "wait" /\ proc'.message = proc.message
      /\ proc'.seen = proc.seen /\ proc'.attempted = proc.attempted \cup {m}
      /\ proc'.pending = proc.pending \cup {m}
  BY <1>1, <1>2, ProcessFacts DEF ProcRec
<1>4. /\ ThreadSound' /\ turns' # <<>> /\ Ids(LastTurn') \subseteq proc'.attempted
      /\ entered' \subseteq Pair /\ entered \subseteq entered' /\ m \in Given'
  <2>1. CASE m \in Held
    <3>1. UNCHANGED <<turns, entered>> /\ entered \subseteq entered' /\ entered' \subseteq Pair
      BY <1>1, <2>1, ProcessFacts
    <3>2. ThreadSound' /\ LastTurn' = LastTurn /\ Given \subseteq Given'
      BY <1>1, <3>1, ProcessFacts, ThreadSame
    <3> QED
      BY <1>2, <1>3, <2>1, <3>1, <3>2, ProcessFacts
  <2>2. CASE m \notin Held
    <3>1. Take(m, v)
      BY <1>1, <2>2
    <3>2. /\ ThreadSound' /\ turns' # <<>> /\ Ids(LastTurn') = Ids(LastTurn) \cup {m}
          /\ entered' \subseteq Pair /\ entered \subseteq entered' /\ m \in Given'
      BY <1>1, <1>2, <2>2, <3>1, ProcessFacts, TurnTakes
    <3> QED
      BY <1>2, <1>3, <3>2
  <2> QED
    BY <2>1, <2>2
<1>5. Given \subseteq Given' /\ Sound(events', Given')
  BY <1>1, <1>4, GivenGrows, SoundEvents
<1>6. proc'.seen \subseteq Given' /\ proc'.pending \subseteq Given' /\ receipt'.delivered \subseteq Given'
  BY <1>1, <1>3, <1>4, <1>5, ProcessFacts
<1> QED
  BY <1>1, <1>2, <1>3, <1>4, <1>5, <1>6, ProcessFacts, ClaudeStep

\* The answer to a question of Claude Code, given outside its turns.
LEMMA ClaudeAnswerKeeps ==
  ASSUME ChatInv, NEW m \in Messages, NEW v \in Versions, ClaudeAnswer(m, v)
  PROVE  ChatInv'
<1>1. /\ provider = "claude" /\ Steerable(m, v)
      /\ proc' = [proc EXCEPT !.asked = FALSE, !.attempted = @ \cup {m}, !.seen = @ \cup {m}]
      /\ entered' = entered \cup {<<m, v>>}
      /\ events' = (events \o Delivered({m})) \o <<PlainEvent("closed")>>
      /\ UNCHANGED <<chat, messages, question, run, inbox, tick, remains, provider, turns, receipt>>
  BY Zenon DEF ClaudeAnswer
<1>2. proc.pc = "wait" /\ turns # <<>> /\ Ids(LastTurn) \subseteq proc.attempted
  BY <1>1, SteerableFacts, ClaudeWaits
<1>3. /\ entered \subseteq entered' /\ entered' \subseteq Pair /\ m \in Given'
  BY <1>1, SteerableFacts, ProcessFacts DEF Given
<1>4. ThreadSound' /\ LastTurn' = LastTurn /\ Given \subseteq Given' /\ turns' # <<>>
  BY <1>1, <1>2, <1>3, ProcessFacts, ThreadSame
<1>5. /\ proc' \in ProcRec /\ proc'.pc = "wait" /\ proc'.message = proc.message
      /\ proc'.seen = proc.seen \cup {m} /\ proc'.attempted = proc.attempted \cup {m}
      /\ proc'.pending = proc.pending
  BY <1>1, <1>2, ProcessFacts DEF ProcRec
<1>6. Sound(events', Given')
  <2>1. Sound(Delivered({m}), Given') /\ Sound(<<PlainEvent("closed")>>, Given')
    BY <1>3, SoundDelivered, SoundPlain
  <2>2. Sound(events \o Delivered({m}), Given')
    BY <1>3, <2>1, SoundEvents, SoundJoin, Zenon
  <2> QED
    BY <1>1, <2>1, <2>2, SoundJoin, Zenon
<1>7. /\ proc'.seen \subseteq Given' /\ proc'.pending \subseteq Given' /\ receipt'.delivered \subseteq Given'
      /\ Ids(LastTurn') \subseteq proc'.attempted
  BY <1>1, <1>2, <1>3, <1>4, <1>5, ProcessFacts
<1> QED
  BY <1>1, <1>2, <1>3, <1>4, <1>5, <1>6, <1>7, ProcessFacts, ClaudeStep

\* A question of Claude Code, its echo of a message, its background tasks.
LEMMA ClaudeWordKeeps ==
  ASSUME ChatInv,
         \/ ClaudeAsk \/ ClaudeBackground
         \/ \E m \in Messages : ClaudeEcho(m)
  PROVE  ChatInv'
<1>1. /\ provider = "claude" /\ proc.pc = "wait"
      /\ UNCHANGED <<chat, messages, question, run, inbox, tick, remains, provider, turns, receipt, entered>>
  BY DEF ClaudeAsk, ClaudeBackground, ClaudeEcho, queueVars
<1>2. turns # <<>> /\ Ids(LastTurn) \subseteq proc.attempted
  BY <1>1, ClaudeWaits
<1>3. ThreadSound' /\ LastTurn' = LastTurn /\ Given \subseteq Given' /\ turns' # <<>>
      /\ entered \subseteq entered' /\ entered' \subseteq Pair
  BY <1>1, <1>2, ProcessFacts, ThreadSame
<1>4. /\ proc' \in ProcRec /\ proc'.pc = "wait" /\ proc'.message = proc.message
      /\ proc'.attempted = proc.attempted /\ proc'.pending = proc.pending
      /\ proc'.seen \subseteq Given' /\ Sound(events', Given')
  <2>1. CASE ClaudeAsk
    <3>1. proc' = [proc EXCEPT !.asked = TRUE] /\ events' = Append(events, PlainEvent("question"))
      BY <2>1 DEF ClaudeAsk
    <3>2. Sound(events', Given')
      BY <1>3, <3>1, EventAdded
    <3> QED
      BY <1>1, <1>3, <3>1, <3>2, ProcessFacts DEF ProcRec
  <2>2. CASE ClaudeBackground
    <3>1. proc' = [proc EXCEPT !.background = ~@] /\ events' = events
      BY <2>2 DEF ClaudeBackground, queueVars
    <3>2. Sound(events', Given')
      BY <1>3, <3>1, SoundEvents
    <3>3. (~proc.background) \in BOOLEAN
      OBVIOUS
    <3>4. ASSUME NEW b \in BOOLEAN, proc' = [proc EXCEPT !.background = b]
          PROVE  /\ proc' \in ProcRec /\ proc'.pc = proc.pc /\ proc'.message = proc.message
                 /\ proc'.attempted = proc.attempted /\ proc'.pending = proc.pending
                 /\ proc'.seen = proc.seen
      BY <3>4, ProcessFacts DEF ProcRec
    <3> QED
      BY <1>1, <1>3, <3>1, <3>2, <3>3, <3>4, ProcessFacts, Zenon
  <2>3. ASSUME NEW m \in Messages, ClaudeEcho(m)
        PROVE  /\ proc' \in ProcRec /\ proc'.pc = "wait" /\ proc'.message = proc.message
               /\ proc'.attempted = proc.attempted /\ proc'.pending = proc.pending
               /\ proc'.seen \subseteq Given' /\ Sound(events', Given')
    <3>1. /\ proc' = [proc EXCEPT !.consumed = @ \cup {m}, !.seen = @ \cup {m}]
          /\ events' = IF m \in proc.seen THEN events ELSE events \o Delivered({m})
          /\ m \in proc.pending
      BY <2>3 DEF ClaudeEcho
    <3>2. m \in Given'
      BY <1>3, <3>1, ProcessFacts
    <3>3. Sound(events', Given')
      <4>1. CASE m \in proc.seen
        BY <1>3, <3>1, <4>1, SoundEvents
      <4>2. CASE m \notin proc.seen
        <5>1. Sound(Delivered({m}), Given')
          BY <3>2, SoundDelivered
        <5> QED
          BY <1>3, <3>1, <4>2, <5>1, EventsAdded
      <4> QED
        BY <4>1, <4>2
    <3> QED
      BY <1>1, <1>3, <3>1, <3>2, <3>3, ProcessFacts DEF ProcRec
  <2> QED
    BY <2>1, <2>2, <2>3
<1>5. /\ proc'.pending \subseteq Given' /\ receipt'.delivered \subseteq Given'
      /\ Ids(LastTurn') \subseteq proc'.attempted
  BY <1>1, <1>2, <1>3, <1>4, ProcessFacts
<1> QED
  BY <1>1, <1>3, <1>4, <1>5, ProcessFacts, ClaudeStep

\* on_result: the receipt names what was seen.
LEMMA ClaudeResultKeeps ==
  ASSUME ChatInv, NEW settled \in SUBSET Messages, ClaudeResult(settled)
  PROVE  ChatInv'
<1> DEFINE left == proc.pending \ settled
           complete == left = {} /\ ~proc.background
<1>1. /\ provider = "claude" /\ proc.pc = "wait"
      /\ proc' = [proc EXCEPT !.pending = left, !.consumed = @ \cap left,
                              !.pc = IF complete THEN "done" ELSE @]
      /\ \/ /\ receipt' = [message |-> proc.message, delivered |-> proc.seen]
            /\ turns' = [turns EXCEPT ![Len(turns)].state = "completed"]
            /\ events' = events \o <<PlainEvent("closed"), PlainEvent("completed")>>
         \/ UNCHANGED <<receipt, turns, events>>
      /\ UNCHANGED <<chat, messages, question, run, inbox, tick, remains, provider, entered>>
  BY Zenon DEF ClaudeResult
<1>2. turns # <<>> /\ Ids(LastTurn) \subseteq proc.attempted /\ proc.message \in Messages
  BY <1>1, ClaudeWaits, ProcessFacts
<1>3. /\ proc' \in ProcRec /\ proc'.pc \in {"wait", "done"} /\ proc'.message = proc.message
      /\ proc'.attempted = proc.attempted /\ proc'.pending \subseteq proc.pending
      /\ proc'.seen = proc.seen
  <2>1. left \in SUBSET Messages /\ left \subseteq proc.pending
    BY ProcessFacts
  <2> HIDE DEF complete, left
  <2>2. PICK pc \in {"wait", "done"} :
          proc' = [proc EXCEPT !.pending = left, !.consumed = @ \cap left, !.pc = pc]
    BY <1>1
  <2> QED
    BY <2>1, <2>2, ProcessFacts DEF ProcRec
<1>4. ThreadSound' /\ turns' # <<>> /\ Ids(LastTurn') = Ids(LastTurn)
  BY <1>1, <1>2, ProcessFacts, TurnEnded
<1>5. entered \subseteq entered' /\ entered' \subseteq Pair /\ Given \subseteq Given'
  BY <1>1, ProcessFacts, GivenGrows
<1>6. Sound(events', Given')
  <2>1. Sound(<<PlainEvent("closed"), PlainEvent("completed")>>, Given')
    <3>1. /\ PlainEvent("closed") \in EventRec /\ PlainEvent("closed").ids = {}
          /\ PlainEvent("completed") \in EventRec /\ PlainEvent("completed").ids = {}
      BY DEF PlainEvent, EventRec
    <3> QED
      BY <3>1 DEF Sound
  <2>2. CASE events' = events \o <<PlainEvent("closed"), PlainEvent("completed")>>
    BY <1>5, <2>1, <2>2, EventsAdded, Zenon
  <2>3. CASE events' = events
    BY <1>5, <2>3, SoundEvents
  <2> QED
    BY <1>1, <2>2, <2>3
<1>7. receipt' \in [message : Ident, delivered : SUBSET Messages] /\ receipt'.delivered \subseteq Given'
  BY <1>1, <1>2, <1>5, ProcessFacts, ChatValues
<1>8. /\ proc'.pending \subseteq Given' /\ proc'.seen \subseteq Given'
      /\ Ids(LastTurn') \subseteq proc'.attempted
  BY <1>2, <1>3, <1>4, <1>5, ProcessFacts
<1> QED
  BY <1>1, <1>3, <1>4, <1>5, <1>6, <1>7, <1>8, ClaudeStep

\* Every step of the Claude Code process.
LEMMA ClaudeKeeps ==
  ASSUME ChatInv, Claude
  PROVE  ChatInv'
  BY ClaudeReplayKeeps, ClaudeSubmitKeeps, ClaudePollKeeps, ClaudeAnswerKeeps, ClaudeWordKeeps,
     ClaudeResultKeeps DEF Claude

----------------------------------------
\* A step that settles or starts a run: the process is off, failed or about
\* to open its thread.
LEMMA RunStep ==
  ASSUME ChatInv, UNCHANGED <<chat, messages, question, inbox, remains, provider, receipt, entered>>,
         run' \in RunRec, run'.message = run.message,
         run.message \in Messages,
         tick' \in TickRec, tick'.pc = "launch" => tick'.message \in Messages,
         Sound(events', Given'), ThreadSound',
         proc' \in ProcRec, proc'.pc \in {"off", "failed", "open"},
         proc'.pc = "open" => proc'.message \in Messages,
         provider = "claude" /\ proc'.pc = "open" /\ ~proc'.resume => turns' = <<>>,
         proc'.seen = {}, proc'.pending = {}
  PROVE  ChatInv'
<1>1. RowsWereGiven' /\ AnswerKnown' /\ DeletedWholeOrNotAtAll'
  BY ProcessFacts, StoreAside
<1>2. StoreTyped' /\ EventsWereGiven'
  BY EventsSound DEF ChatInv, StoreTyped
<1>3. AgentTyped' /\ EnteredOnce'
  BY DEF ChatInv, AgentTyped, ThreadSound
<1>4. HeldWereGiven'
  <2>1. receipt'.delivered \subseteq Given'
    BY ProcessFacts, GivenGrows
  <2> QED
    BY <2>1 DEF HeldWereGiven, ThreadSound
<1>5. Named'
  BY DEF ChatInv, Named
<1>6. ThreadKnown'
  BY DEF ThreadKnown, ThreadSound
<1> QED
  BY <1>1, <1>2, <1>3, <1>4, <1>5, <1>6 DEF ChatInv

\* The worker starts the attempt; without a session to resume, with an empty thread.
LEMMA StartKeeps ==
  ASSUME ChatInv, Start
  PROVE  ChatInv'
<1>1. /\ UNCHANGED <<chat, messages, question, inbox, remains, provider, receipt, entered, tick, events>>
      /\ run' = [run EXCEPT !.status = "running", !.recovery = TRUE]
      /\ proc' = [Off EXCEPT !.pc = "open", !.message = run.message, !.version = run.version,
                             !.recovery = run.recovery, !.resume = run.session]
      /\ turns' = IF run.session THEN turns ELSE <<>>
      /\ run.status = "queued"
  BY DEF Start
<1>2. /\ run \in RunRec /\ run.message \in Messages
      /\ tick \in TickRec /\ (tick.pc = "launch" => tick.message \in Messages)
  BY <1>1 DEF ChatInv, StoreTyped, Named
<1>3. run' \in RunRec /\ run'.message = run.message
  BY <1>1, <1>2 DEF RunRec
<1>4. /\ proc' \in ProcRec /\ proc'.pc = "open" /\ proc'.message = run.message
      /\ proc'.resume = run.session /\ proc'.seen = {} /\ proc'.pending = {}
  <2>1. Off \in ProcRec /\ Off.seen = {} /\ Off.pending = {}
    BY ChatValues DEF Off
  <2>2. run.message \in Ident /\ run.version \in Versions /\ run.recovery \in BOOLEAN /\ run.session \in BOOLEAN
    BY <1>2 DEF RunRec
  <2>3. ASSUME NEW o \in ProcRec, o.seen = {}, o.pending = {},
               proc' = [o EXCEPT !.pc = "open", !.message = run.message, !.version = run.version,
                                 !.recovery = run.recovery, !.resume = run.session]
        PROVE  /\ proc' \in ProcRec /\ proc'.pc = "open" /\ proc'.message = run.message
               /\ proc'.resume = run.session /\ proc'.seen = {} /\ proc'.pending = {}
    BY <2>2, <2>3 DEF ProcRec
  <2> QED
    BY <1>1, <2>1, <2>3, Zenon
<1>5. Given' = Given /\ entered \subseteq entered'
  BY <1>1 DEF Given
<1>6. ThreadSound'
  <2>1. CASE turns' = turns
    BY <1>1, <1>5, <2>1, ProcessFacts, ThreadSame
  <2>2. CASE turns' = <<>>
    BY <2>2 DEF ThreadSound, EnteredOnce
  <2> QED
    BY <1>1, <2>1, <2>2
<1>7. Sound(events', Given')
  BY <1>1, <1>5, SoundEvents
<1>8. ~run.session => turns' = <<>>
  BY <1>1
<1> QED
  BY <1>1, <1>2, <1>3, <1>4, <1>6, <1>7, <1>8, RunStep

\* A process that is lost interrupts the turn it was in.
LEMMA InterruptedSound ==
  ASSUME ChatInv, UNCHANGED <<provider, entered>>, turns' = Interrupted
  PROVE  ThreadSound'
<1>1. \/ turns' = turns
      \/ turns # <<>> /\ turns' = [turns EXCEPT ![Len(turns)].state = "interrupted"]
  BY DEF Interrupted, TurnOpen
<1> QED
  BY <1>1, ProcessFacts, TurnEnded

\* The run is settled, or lost with the process and its events: the thread keeps what it
\* took.
LEMMA SettleKeeps ==
  ASSUME ChatInv, RunCompletes \/ ProcessFails \/ RunFails \/ Crash \/ RunCancelled
  PROVE  ChatInv'
<1>0. /\ run \in RunRec /\ tick \in TickRec /\ events \in Seq(EventRec) /\ EventsWereGiven
      /\ tick.pc = "launch" => tick.message \in Messages
  BY DEF ChatInv, StoreTyped, Named
<1>1. /\ UNCHANGED <<chat, messages, question, inbox, remains, provider, receipt, entered>>
      /\ tick' \in {tick, IdleTick}
      /\ proc' \in {Off, [Off EXCEPT !.pc = "failed"]}
      /\ turns' \in {turns, Interrupted}
  BY DEF RunCompletes, TurnCompleted, ProcessFails, RunFails, Crash, RunCancelled, queueVars
<1>2. tick' \in TickRec /\ (tick'.pc = "launch" => tick'.message \in Messages)
  <2>1. IdleTick \in TickRec /\ IdleTick.pc = "idle"
    BY ChatValues DEF IdleTick
  <2> QED
    BY <1>0, <1>1, <2>1
<1>3. proc' \in ProcRec /\ proc'.pc \in {"off", "failed"} /\ proc'.seen = {} /\ proc'.pending = {}
  <2>1. Off \in ProcRec /\ Off.seen = {} /\ Off.pending = {} /\ Off.pc = "off"
    BY ChatValues DEF Off
  <2>2. ASSUME NEW o \in ProcRec, o.seen = {}, o.pending = {}, proc' = [o EXCEPT !.pc = "failed"]
        PROVE  proc' \in ProcRec /\ proc'.pc = "failed" /\ proc'.seen = {} /\ proc'.pending = {}
    BY <2>2 DEF ProcRec
  <2>3. CASE proc' = Off
    BY <2>1, <2>3
  <2>4. CASE proc' = [Off EXCEPT !.pc = "failed"]
    BY <2>1, <2>2, <2>4, Zenon
  <2> QED
    BY <1>1, <2>3, <2>4
<1>4. run' \in RunRec /\ run'.message = run.message
  <2>1. CASE ProcessFails
    BY <1>0, <2>1 DEF ProcessFails, queueVars
  <2>2. CASE Crash
    BY <1>0, <2>2 DEF Crash, RunRec
  <2>3. CASE RunCancelled
    BY <1>0, <2>3 DEF RunCancelled, RunActive, RunRec
  <2>4. CASE RunCompletes
    BY <1>0, <2>4 DEF RunCompletes, TurnCompleted, RunRec
  <2>5. CASE RunFails
    BY <1>0, <2>5 DEF RunFails, RunRec
  <2> QED
    BY <2>1, <2>2, <2>3, <2>4, <2>5
<1>5. Given' = Given /\ entered \subseteq entered'
  BY <1>1 DEF Given
<1>8. run.message \in Messages
  BY DEF ChatInv, Named, RunCompletes, TurnCompleted, Event, ProcessFails, RunFails, Crash,
         RunCancelled, RunActive
<1>6. ThreadSound'
  BY <1>1, <1>5, ProcessFacts, ThreadSame, InterruptedSound
<1>7. Sound(events', Given')
  <2>1. \/ events' = events \/ events' = <<>>
        \/ events # <<>> /\ events' = Tail(events)
    BY DEF RunCompletes, TurnCompleted, Event, ProcessFails, RunFails, Crash, RunCancelled, queueVars
  <2>2. CASE events' = events
    BY <1>5, <2>2, SoundEvents
  <2>3. CASE events' = <<>>
    BY <2>3 DEF Sound
  <2>4. CASE events # <<>> /\ events' = Tail(events)
    BY <1>0, <1>1, <2>4, TailGiven DEF Sound, EventsWereGiven
  <2> QED
    BY <2>1, <2>2, <2>3, <2>4
<1> QED
  BY <1>1, <1>2, <1>3, <1>4, <1>6, <1>7, <1>8, RunStep

----------------------------------------
\* A step of the store, seen from the agent.
LEMMA StoreStep ==
  ASSUME ChatInv, StoreKept, UNCHANGED agentVars
  PROVE  ChatInv'
<1>1. UNCHANGED <<provider, proc, turns, receipt, entered>>
  BY DEF agentVars
<1>2. ThreadSound' /\ InThread' = InThread /\ LastTurn' = LastTurn /\ Given \subseteq Given'
  BY <1>1, ProcessFacts, ThreadSame
<1>3. AgentTyped' /\ HeldWereGiven' /\ EnteredOnce'
  BY <1>1, <1>2 DEF ChatInv, AgentTyped, HeldWereGiven, ThreadSound
<1>4. ThreadKnown'
  <2>1. (Ids(LastTurn))' = Ids(LastTurn)
    BY <1>2 DEF Ids
  <2> QED
    BY <1>1, <1>2, <2>1 DEF ChatInv, ThreadKnown, ThreadSound
<1> QED
  BY <1>3, <1>4 DEF ChatInv, StoreKept

\* A step that changes nothing.
LEMMA ChatStutters ==
  ASSUME ChatInv, UNCHANGED chatVars
  PROVE  ChatInv'
<1>1. UNCHANGED <<chat, messages, question, run, inbox, tick, events, remains>> /\ UNCHANGED agentVars
  BY DEF chatVars, queueVars
<1>2. StoreKept
  BY <1>1, SameAnswer, SameDelivered, SameLife, SameEvents
     DEF ChatInv, StoreKept, StoreTyped, Named, agentVars
<1> QED
  BY <1>1, <1>2, StoreStep

\* Every step of a conversation keeps the invariant.
LEMMA ChatSteps == ChatInv /\ [ChatsNext]_chatVars => ChatInv'
<1> SUFFICES ASSUME ChatInv, [ChatsNext]_chatVars PROVE ChatInv'
  OBVIOUS
<1>1. CASE Control /\ UNCHANGED agentVars
  BY <1>1, ControlKeeps, StoreStep
<1>2. CASE CodexAsk \/ ClaudeAsk
  BY <1>2, CodexWordKeeps, ClaudeWordKeeps
<1>3. CASE (Owner \/ Tick \/ Handle \/ RunReleased \/ Purge) /\ UNCHANGED agentVars
  BY <1>3, OwnerKeeps, TickKeeps, HandleKeeps, PurgeKeeps, StoreStep
<1>4. CASE Start \/ Codex \/ Claude
  BY <1>4, StartKeeps, CodexKeeps, ClaudeKeeps
<1>5. CASE RunCompletes \/ ProcessFails \/ RunFails \/ Crash \/ RunCancelled
  BY <1>5, SettleKeeps
<1>6. CASE UNCHANGED chatVars
  BY <1>6, ChatStutters
<1> QED
  BY <1>1, <1>2, <1>3, <1>4, <1>5, <1>6 DEF ChatsNext

\* The inductive invariant of a conversation: its queue, its process and the thread.
LEMMA ChatInductive == ChatsSpec => []ChatInv
  BY ChatStarts, ChatSteps, PTL DEF ChatsSpec

\* A message enters a Codex thread once, a Claude Code session once under its own id,
\* and one shown as delivered was given to the agent, for any number of messages, turns,
\* crashes and lost answers (chat_process.rs, claude_process.rs, chats.rs).
THEOREM ChatsDeliveredOnce == ChatsSpec => []DeliveredOnce
<1>1. ChatInv => DeliveredOnce
  BY DEF ChatInv, DeliveredOnce, DeliveredWasEntered, RowsWereGiven, Given
<1> QED
  BY <1>1, ChatInductive, PTL

\* A question shown as being answered has its answer among the pending messages:
\* withdrawals, the trash and acknowledgements settle both together (chats/questions.rs).
THEOREM AnswersReach == ChatsSpec => []AnswerOnItsWay
<1>1. ChatInv => AnswerOnItsWay
  BY DEF ChatInv, AnswerKnown, AnswerOnItsWay
<1> QED
  BY <1>1, ChatInductive, PTL

\* A conversation that can be opened has everything it had; one that is forgotten leaves
\* no lease, disk, object or file behind, however often the purge fails
\* (conversation_deletion.rs).
THEOREM DeletionWhole == ChatsSpec => []DeletedWholeOrNotAtAll
<1>1. ChatInv => DeletedWholeOrNotAtAll
  BY DEF ChatInv
<1> QED
  BY <1>1, ChatInductive, PTL
=============================================================================

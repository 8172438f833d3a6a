---------------------------- MODULE Journal_proofs ----------------------------
(***************************************************************************)
(* What the two durable logs of a node keep, whatever dies or fails.       *)
(*                                                                         *)
(* The raw journal: wherever its writer dies or fails, and however often,  *)
(* it opens again and keeps what it acknowledged, for any number of        *)
(* frames, crashes and frames of a chunk.                                  *)
(*                                                                         *)
(* The log of the engine: it grows by whole cycles, recovery reproduces    *)
(* each of them whatever the producers had decided, and the engine shows   *)
(* the state this log leads to or none, for any stages, decisions, timers, *)
(* crashes and checkpoints.                                                *)
(***************************************************************************)
EXTENDS RawJournal, EngineStore, SequenceTheorems, TLAPS

Mark == [chunk : Nat, end : Nat, ord : Nat]
ActiveFile == [chunk : Nat, data : Seq(Frame), torn : BOOLEAN]
Disk == [identity : BOOLEAN, mark : Seq(Mark), zst : Seq(Seq(Frame)),
         manifests : Seq(Manifest), active : ActiveFile]
Writer == [state : {"DOWN", "OPEN", "FAILED"}, count : Nat, manifests : Seq(Manifest),
           mark : Mark]

JournalTyped ==
  /\ disk \in Disk /\ Len(disk.mark) <= 1
  /\ synced \in 0 .. Len(disk.active.data)
  /\ mem \in Writer /\ pc \in FileSteps
  /\ bodies \in Nat /\ crashes \in Nat

\* The ordinals before chunk c, counted from 0.
Base(ms, c) == IF c = 0 THEN 0 ELSE ms[c].last

\* What the manifests say of the published chunks.
Chained(zst, ms) ==
  /\ Len(ms) <= Len(zst)
  /\ \A k \in 1 .. Len(ms) :
       /\ zst[k] = ms[k].data /\ ms[k].data # <<>>
       /\ ms[k].first = Base(ms, k - 1) + 1 /\ Scans(ms[k].data, ms[k].first)
       /\ ms[k].last = Base(ms, k - 1) + Len(ms[k].data)
  /\ \A c, e \in 0 .. Len(ms) : c < e => Base(ms, c) < Base(ms, e)

\* The active file follows the published chunks, or is the source of the last
\* of them, which was synced.
ActiveSound(d, s) ==
  \/ d.active.chunk = Len(d.manifests) /\ Scans(d.active.data, LastOrdinal(d) + 1)
  \/ /\ Len(d.manifests) > 0 /\ d.active.chunk = Len(d.manifests) - 1
     /\ d.active.data = d.zst[Len(d.manifests)] /\ ~d.active.torn /\ s = Len(d.active.data)

\* What a watermark covers is on the disk for sure.
MarkSound(d, s) ==
  IF d.mark = <<>>
    THEN d.manifests = <<>> /\ d.active = [chunk |-> 0, data |-> <<>>, torn |-> FALSE]
    ELSE LET m == d.mark[1] IN
         /\ m.chunk <= Len(d.manifests)
         /\ m.ord = Base(d.manifests, m.chunk) + m.end
         /\ m.end <= Len(ChunkFrames(d, m.chunk))
         /\ m.chunk = d.active.chunk => m.end <= s

\* The writer knows the disk, and the operation it is at fits what is on it.
WriterSound ==
  /\ mem.state = "DOWN" => pc \in {"idle", "identity"}
  /\ mem.state # "DOWN" => disk.mark # <<>> /\ pc # "identity"
  /\ pc = "identity" \/ ~disk.identity => disk.mark = <<>>
  /\ pc = "identity" => disk.identity
  /\ mem.state = "OPEN" =>
       /\ mem.manifests = disk.manifests /\ ~disk.active.torn
       /\ mem.count = LastOrdinal(disk) + Len(ActiveData(disk))
       /\ IF pc = "unlink" THEN disk.active.chunk = Len(disk.manifests) - 1
                          ELSE disk.active.chunk = Len(disk.manifests)
       /\ pc \in {"mark", "sealed mark", "zst", "manifest"} => synced = Len(disk.active.data)
       /\ pc \in {"zst", "manifest"} =>
            /\ disk.active.data # <<>>
            /\ disk.mark[1] = [chunk |-> Len(disk.manifests), end |-> Len(disk.active.data),
                               ord |-> mem.count]
       /\ pc = "manifest" =>
            Len(disk.zst) = Len(disk.manifests) + 1
              /\ disk.zst[Len(disk.manifests) + 1] = disk.active.data
  /\ pc \in {"unlink", "directory"} =>
       Len(disk.manifests) > 0 /\ Len(disk.zst) = Len(disk.manifests)
  /\ pc = "directory" =>
       /\ disk.active = [chunk |-> Len(disk.manifests), data |-> <<>>, torn |-> FALSE]
       /\ synced = 0

AckedCovered ==
  \A r \in acked : r \in References(disk) /\ disk.mark # <<>> /\ Covers(disk.mark[1], r.ref)

DiskSound(d, s) ==
  Chained(d.zst, d.manifests) /\ ActiveSound(d, s) /\ MarkSound(d, s)

JournalInv == JournalTyped /\ DiskSound(disk, synced) /\ WriterSound /\ AckedCovered
-----------------------------------------------------------------------------
(* What a reader finds.                                                    *)

\* The chunks of the disk follow each other.
Orderly(d) == d \in Disk /\ Chained(d.zst, d.manifests) /\ \E s : ActiveSound(d, s)

RefAt(d, c, p) ==
  [ref |-> Ref(c, p - 1, ChunkFrames(d, c)[p].ord), body |-> ChunkFrames(d, c)[p].body]
FramesTotal(d) == LastOrdinal(d) + Len(ActiveData(d))

\* A published chunk is whole; what follows the last is the active file.
LEMMA ChunkParts ==
  ASSUME NEW d, Orderly(d), NEW c \in Nat
  PROVE  /\ ChunkFrames(d, c) \in Seq(Frame) /\ Len(ChunkFrames(d, c)) \in Nat
         /\ DOMAIN ChunkFrames(d, c) = 1 .. Len(ChunkFrames(d, c))
         /\ c > Len(d.manifests) => ChunkFrames(d, c) = <<>>
         /\ c = Len(d.manifests) => ChunkFrames(d, c) = ActiveData(d)
         /\ c < Len(d.manifests) =>
              /\ ChunkFrames(d, c) = d.zst[c + 1]
              /\ Base(d.manifests, c + 1) = Base(d.manifests, c) + Len(ChunkFrames(d, c))
         /\ c <= Len(d.manifests) =>
              /\ Base(d.manifests, c) \in Nat
              /\ \A p \in 1 .. Len(ChunkFrames(d, c)) :
                   ChunkFrames(d, c)[p].ord = Base(d.manifests, c) + p
         /\ Len(d.manifests) \in Nat /\ LastOrdinal(d) = Base(d.manifests, Len(d.manifests))
<1>1. /\ d \in Disk /\ Len(d.manifests) \in Nat /\ d.manifests \in Seq(Manifest)
      /\ d.zst \in Seq(Seq(Frame)) /\ d.active \in ActiveFile /\ Chained(d.zst, d.manifests)
  BY DEF Orderly, Disk
<1>2. LastOrdinal(d) = Base(d.manifests, Len(d.manifests))
  <2>1. d.manifests = <<>> <=> Len(d.manifests) = 0
    BY <1>1, EmptySeq
  <2>2. QED
    BY <1>1, <2>1 DEF LastOrdinal, Base, Last
<1>3. \A k \in 1 .. Len(d.manifests) : d.manifests[k] \in Manifest
  BY <1>1
<1>4. c <= Len(d.manifests) => Base(d.manifests, c) \in Nat
  BY <1>1, <1>3 DEF Base, Manifest
<1>5. CASE c < Len(d.manifests)
  <2> DEFINE k == c + 1
  <2>1. k \in 1 .. Len(d.manifests) /\ k \in 1 .. Len(d.zst) /\ Len(d.zst) \in Nat
    BY <1>1, <1>5 DEF Chained
  <2>2. ChunkFrames(d, c) = d.zst[k]
    BY <1>1, <1>5 DEF ChunkFrames, ActiveIndex
  <2>3. d.zst[k] \in Seq(Frame)
    BY <1>1, <2>1
  <2>4. /\ d.zst[k] = d.manifests[k].data /\ d.manifests[k].first = Base(d.manifests, k - 1) + 1
        /\ Scans(d.manifests[k].data, d.manifests[k].first)
        /\ d.manifests[k].last = Base(d.manifests, k - 1) + Len(d.manifests[k].data)
    BY <2>1, <1>1 DEF Chained
  <2>5. k - 1 = c /\ k # 0
    BY <1>1
  <2>6. \A p \in 1 .. Len(ChunkFrames(d, c)) :
          ChunkFrames(d, c)[p].ord = Base(d.manifests, c) + p
    <3> DEFINE f == d.zst[k]
    <3>1. Scans(f, Base(d.manifests, c) + 1) /\ f \in Seq(Frame) /\ Base(d.manifests, c) \in Nat
      BY <1>4, <1>5, <2>3, <2>4, <2>5
    <3> HIDE DEF f
    <3>2. \A p \in 1 .. Len(f) : f[p].ord = Base(d.manifests, c) + p
      BY <3>1 DEF Scans
    <3>3. QED
      BY <2>2, <3>2 DEF f
  <2>7. Base(d.manifests, c + 1) = Base(d.manifests, c) + Len(ChunkFrames(d, c))
    BY <2>2, <2>4, <2>5 DEF Base
  <2>8. QED
    BY <1>1, <1>2, <1>4, <1>5, <2>2, <2>3, <2>6, <2>7
<1>6. CASE c = Len(d.manifests)
  <2>1. ChunkFrames(d, c) = ActiveData(d)
    BY <1>6 DEF ChunkFrames, ActiveIndex
  <2>2. ActiveData(d) \in Seq(Frame)
    BY <1>1 DEF ActiveData, ActiveFile
  <2>3. \A p \in 1 .. Len(ActiveData(d)) : ActiveData(d)[p].ord = Base(d.manifests, c) + p
    <3>1. CASE d.active.chunk = ActiveIndex(d)
      <4>1. Scans(d.active.data, LastOrdinal(d) + 1)
        BY <1>1, <3>1 DEF Orderly, ActiveSound, ActiveIndex
      <4>2. ActiveData(d) = d.active.data
        BY <3>1 DEF ActiveData
      <4>3. QED
        BY <1>2, <1>4, <1>6, <2>2, <4>1, <4>2 DEF Scans
    <3>2. CASE d.active.chunk # ActiveIndex(d)
      BY <3>2 DEF ActiveData
    <3>3. QED
      BY <3>1, <3>2
  <2>4. PICK f \in Seq(Frame) : f = ChunkFrames(d, c)
    BY <2>1, <2>2
  <2>5. Len(f) \in Nat /\ DOMAIN f = 1 .. Len(f) /\ ~(c > Len(d.manifests)) /\ ~(c < Len(d.manifests))
    BY <1>1, <1>6
  <2>6. \A p \in 1 .. Len(f) : f[p].ord = Base(d.manifests, c) + p
    BY <2>1, <2>3, <2>4
  <2>7. Base(d.manifests, c) \in Nat
    BY <1>1, <1>4, <1>6
  <2>8. QED
    BY <1>1, <1>2, <2>1, <2>4, <2>5, <2>6, <2>7
<1>7. CASE c > Len(d.manifests)
  <2>1. ChunkFrames(d, c) = <<>>
    BY <1>1, <1>7 DEF ChunkFrames, ActiveIndex
  <2>2. QED
    BY <1>1, <1>2, <1>7, <2>1
<1>8. QED
  BY <1>1, <1>5, <1>6, <1>7

\* A reference is a place in a chunk.
LEMMA ReferenceParts ==
  ASSUME NEW d, Orderly(d), NEW r
  PROVE  r \in References(d) <=>
           \E c \in Nat : \E p \in 1 .. Len(ChunkFrames(d, c)) : r = RefAt(d, c, p)
<1>1. \A c \in Nat : /\ DOMAIN ChunkFrames(d, c) = 1 .. Len(ChunkFrames(d, c))
                     /\ c > Len(d.manifests) => ChunkFrames(d, c) = <<>>
                     /\ Len(d.manifests) \in Nat
  BY ChunkParts
<1>2. r \in References(d) <=>
        \E c \in 0 .. Len(d.manifests) : \E p \in DOMAIN ChunkFrames(d, c) : r = RefAt(d, c, p)
  BY DEF References, RefAt, ActiveIndex
<1>3. ASSUME NEW c \in Nat, NEW p \in 1 .. Len(ChunkFrames(d, c)) PROVE c \in 0 .. Len(d.manifests)
  <2>1. Len(ChunkFrames(d, c)) # 0 \/ p \notin 1 .. Len(ChunkFrames(d, c))
    OBVIOUS
  <2>2. ChunkFrames(d, c) # <<>>
    BY <1>3, <2>1
  <2>3. ~(c > Len(d.manifests)) /\ Len(d.manifests) \in Nat
    BY <1>1, <2>2
  <2>4. QED
    BY <2>3
<1>4. QED
  BY <1>1, <1>2, <1>3

\* Disks with the same chunks have the same references.
LEMMA SameReferences ==
  ASSUME NEW d, Orderly(d), NEW e, Orderly(e),
         \A c \in Nat : ChunkFrames(e, c) = ChunkFrames(d, c)
  PROVE  References(e) = References(d)
<1>1. \A c \in Nat : \A p : RefAt(e, c, p) = RefAt(d, c, p)
  BY DEF RefAt
<1>2. \A r : r \in References(e) <=> r \in References(d)
  BY <1>1, ReferenceParts
<1>3. QED
  BY <1>2

\* Ordinals go on from chunk to chunk.
LEMMA OrdinalParts ==
  ASSUME NEW d, Orderly(d), NEW c \in 0 .. Len(d.manifests)
  PROVE  /\ Base(d.manifests, c) + Len(ChunkFrames(d, c)) <= FramesTotal(d) /\ FramesTotal(d) \in Nat
         /\ \A e \in 0 .. Len(d.manifests) :
              c < e => Base(d.manifests, c) + Len(ChunkFrames(d, c)) <= Base(d.manifests, e)
<1>1. /\ Len(d.manifests) \in Nat /\ Chained(d.zst, d.manifests)
      /\ c \in Nat /\ Len(ActiveData(d)) \in Nat
      /\ LastOrdinal(d) = Base(d.manifests, Len(d.manifests))
      /\ Base(d.manifests, Len(d.manifests)) \in Nat
      /\ Base(d.manifests, c) \in Nat
  <2>1. d.manifests \in Seq(Manifest) /\ Chained(d.zst, d.manifests)
    BY DEF Orderly, Disk
  <2>2. /\ Len(d.manifests) \in Nat /\ c \in Nat /\ c <= Len(d.manifests)
        /\ Len(d.manifests) <= Len(d.manifests)
    BY <2>1
  <2>3. Base(d.manifests, c) \in Nat /\ LastOrdinal(d) = Base(d.manifests, Len(d.manifests))
    BY <2>2, ChunkParts
  <2>4. Base(d.manifests, Len(d.manifests)) \in Nat /\ Len(ActiveData(d)) \in Nat
    BY <2>2, ChunkParts
  <2>5. QED
    BY <2>1, <2>2, <2>3, <2>4
<1>2. ASSUME NEW e \in 0 .. Len(d.manifests), c < e
      PROVE  Base(d.manifests, c) + Len(ChunkFrames(d, c)) <= Base(d.manifests, e)
  <2>1. Base(d.manifests, c + 1) = Base(d.manifests, c) + Len(ChunkFrames(d, c))
    BY <1>1, <1>2, ChunkParts
  <2>2. c + 1 \in 0 .. Len(d.manifests) /\ (c + 1 = e \/ c + 1 < e)
    BY <1>1, <1>2
  <2>3. c + 1 < e => Base(d.manifests, c + 1) < Base(d.manifests, e)
    BY <1>1, <2>2 DEF Chained
  <2>4. Base(d.manifests, c + 1) \in Nat /\ Base(d.manifests, e) \in Nat
    <3>1. c + 1 \in Nat /\ c + 1 <= Len(d.manifests) /\ e \in Nat /\ e <= Len(d.manifests)
      BY <1>1, <2>2
    <3>2. QED
      BY <3>1, ChunkParts
  <2>5. QED
    BY <2>1, <2>2, <2>3, <2>4
<1>3. Base(d.manifests, c) + Len(ChunkFrames(d, c)) <= FramesTotal(d)
  <2>1. CASE c = Len(d.manifests)
    BY <1>1, <2>1, ChunkParts DEF FramesTotal
  <2>2. CASE c < Len(d.manifests)
    <3>1. Base(d.manifests, c) + Len(ChunkFrames(d, c)) <= Base(d.manifests, Len(d.manifests))
      BY <1>1, <1>2, <2>2
    <3>2. Len(ChunkFrames(d, c)) \in Nat
      BY <1>1, ChunkParts
    <3>3. QED
      BY <1>1, <3>1, <3>2 DEF FramesTotal
  <2>3. QED
    BY <1>1, <2>1, <2>2
<1>4. QED
  BY <1>1, <1>2, <1>3 DEF FramesTotal

\* The watermark is no record or one.
LEMMA OneMark ==
  ASSUME NEW S, NEW t \in Seq(S), t # <<>>, Len(t) <= 1
  PROVE  t[1] \in S /\ Len(t) = 1 /\ t = <<t[1]>>
<1> DEFINE n == Len(t)
<1>1. n \in Nat /\ n # 0 /\ n <= 1
  BY EmptySeq
<1> HIDE DEF n
<1>2. n = 1
  BY <1>1
<1> USE DEF n
<1>3. QED
  BY <1>2

\* A watermark cuts ordinals and places alike.
LEMMA CutsOnce ==
  ASSUME NEW d, Orderly(d), NEW s, MarkSound(d, s), d.mark # <<>>, Len(d.mark) <= 1,
         NEW c \in Nat, NEW p \in 1 .. Len(ChunkFrames(d, c))
  PROVE  LET m == d.mark[1]
             r == RefAt(d, c, p).ref
         IN  /\ m \in Mark /\ d.mark = <<m>>
             /\ r.ord = Base(d.manifests, c) + p /\ r.ord \in Nat
             /\ r.chunk = c /\ r.pos + 1 = p
             /\ r.ord <= m.ord <=> c < m.chunk \/ (c = m.chunk /\ p <= m.end)
<1> DEFINE m == d.mark[1]
           r == RefAt(d, c, p).ref
           ms == d.manifests
<1>1. /\ m \in Mark /\ d.mark = <<m>> /\ m.chunk \in Nat /\ m.end \in Nat
  <2>1. d.mark \in Seq(Mark)
    BY DEF Orderly, Disk
  <2>2. m \in Mark /\ d.mark = <<m>>
    BY <2>1, OneMark
  <2>3. QED
    BY <2>2 DEF Mark
<1>2. /\ m.chunk <= Len(ms) /\ m.ord = Base(ms, m.chunk) + m.end
      /\ m.end <= Len(ChunkFrames(d, m.chunk))
  BY DEF MarkSound
<1>3. c <= Len(ms) /\ Len(ms) \in Nat /\ Len(ChunkFrames(d, c)) \in Nat
  <2>1. ChunkFrames(d, c) # <<>>
    OBVIOUS
  <2>2. QED
    BY <2>1, ChunkParts
<1>4. /\ r.ord = Base(ms, c) + p /\ r.chunk = c /\ r.pos + 1 = p /\ Base(ms, c) \in Nat
      /\ Base(ms, m.chunk) \in Nat /\ Len(ChunkFrames(d, m.chunk)) \in Nat
  <2>1. r = [chunk |-> c, pos |-> p - 1, ord |-> ChunkFrames(d, c)[p].ord]
    BY DEF RefAt, Ref
  <2>2. ChunkFrames(d, c)[p].ord = Base(ms, c) + p /\ Base(ms, c) \in Nat
    BY <1>3, ChunkParts
  <2>3. Base(ms, m.chunk) \in Nat /\ Len(ChunkFrames(d, m.chunk)) \in Nat
    BY <1>1, <1>2, ChunkParts
  <2>4. p - 1 + 1 = p
    BY <1>3
  <2>5. QED
    BY <2>1, <2>2, <2>3, <2>4
<1>5. /\ c < m.chunk => Base(ms, c) + Len(ChunkFrames(d, c)) <= Base(ms, m.chunk)
      /\ m.chunk < c => Base(ms, m.chunk) + Len(ChunkFrames(d, m.chunk)) <= Base(ms, c)
  <2>1. c \in 0 .. Len(ms) /\ m.chunk \in 0 .. Len(ms)
    BY <1>1, <1>2, <1>3
  <2>2. QED
    BY <2>1, OrdinalParts
<1> HIDE DEF m, r, ms
<1>6. r.ord <= m.ord <=> c < m.chunk \/ (c = m.chunk /\ p <= m.end)
  <2>1. p \in Nat /\ 1 <= p /\ p <= Len(ChunkFrames(d, c))
    BY <1>3
  <2>2. CASE c < m.chunk
    BY <1>1, <1>2, <1>3, <1>4, <1>5, <2>1, <2>2
  <2>3. CASE c = m.chunk
    BY <1>1, <1>2, <1>3, <1>4, <2>1, <2>3
  <2>4. CASE m.chunk < c
    BY <1>1, <1>2, <1>3, <1>4, <1>5, <2>1, <2>4
  <2>5. QED
    BY <1>1, <2>2, <2>3, <2>4
<1>7. r.ord \in Nat
  BY <1>3, <1>4
<1>8. QED
  BY <1>1, <1>4, <1>6, <1>7 DEF m, r, ms

\* A journal at rest opens.
LEMMA AtRestOpens ==
  ASSUME NEW d, NEW s, d \in Disk, Chained(d.zst, d.manifests), ActiveSound(d, s),
         MarkSound(d, s), d.mark # <<>>, Len(d.mark) <= 1
  PROVE  Opens(d)
<1> DEFINE m == d.mark[1]
           ms == d.manifests
<1>1. Orderly(d)
  BY DEF Orderly
<1>2. /\ m \in Mark /\ ms \in Seq(Manifest) /\ Len(ms) \in Nat /\ d.zst \in Seq(Seq(Frame))
      /\ d.active \in ActiveFile
  BY OneMark DEF Disk
<1>3. ChainHolds(d)
  <2>1. ASSUME NEW k \in DOMAIN ms
        PROVE  /\ k \in DOMAIN d.zst /\ d.zst[k] = ms[k].data /\ ms[k].data # <<>>
               /\ ms[k].first = First(ms, k) /\ Scans(ms[k].data, ms[k].first)
               /\ ms[k].last = ms[k].first + Len(ms[k].data) - 1
    <3>1. k \in 1 .. Len(ms) /\ k \in 1 .. Len(d.zst) /\ DOMAIN d.zst = 1 .. Len(d.zst)
      BY <1>2 DEF Chained
    <3>2. /\ d.zst[k] = ms[k].data /\ ms[k].data # <<>>
          /\ ms[k].first = Base(ms, k - 1) + 1 /\ Scans(ms[k].data, ms[k].first)
          /\ ms[k].last = Base(ms, k - 1) + Len(ms[k].data)
      BY <3>1 DEF Chained
    <3>3. k - 1 = 0 <=> k = 1
      BY <3>1, <1>2
    <3>4. ms[k].first = First(ms, k)
      BY <3>2, <3>3 DEF First, Base
    <3>5. Base(ms, k - 1) \in Nat /\ Len(ms[k].data) \in Nat
      <4>1. k - 1 = 0 \/ k - 1 \in 1 .. Len(ms)
        BY <3>1, <1>2
      <4>2. \A i \in 1 .. Len(ms) : ms[i] \in Manifest
        BY <1>2
      <4>3. \A i \in 1 .. Len(ms) : ms[i].last \in Nat /\ ms[i].data \in Seq(Frame)
        BY <4>2 DEF Manifest
      <4>4. Base(ms, k - 1) \in Nat
        BY <4>1, <4>3 DEF Base
      <4>5. Len(ms[k].data) \in Nat
        BY <3>1, <4>3
      <4>6. QED
        BY <4>4, <4>5
    <3>6. ms[k].last = ms[k].first + Len(ms[k].data) - 1
      <4> DEFINE b == Base(ms, k - 1)
                 n == Len(ms[k].data)
      <4>1. b \in Nat /\ n \in Nat /\ ms[k].last = b + n /\ ms[k].first = b + 1
        BY <3>2, <3>5
      <4> HIDE DEF b, n
      <4>2. ms[k].last = ms[k].first + n - 1
        BY <4>1
      <4>3. QED
        BY <4>2 DEF n
    <3>7. QED
      BY <3>1, <3>2, <3>4, <3>6
  <2>2. QED
    BY <2>1 DEF ChainHolds
<1>4. LeftoverAgrees(d)
  <2>1. CASE d.active.chunk = Len(ms)
    BY <2>1 DEF LeftoverAgrees, ActiveIndex
  <2>2. CASE d.active.chunk # Len(ms)
    <3>1. /\ d.active.chunk = Len(ms) - 1 /\ Len(ms) > 0
          /\ d.active.data = d.zst[Len(ms)] /\ ~d.active.torn
      BY <2>2 DEF ActiveSound
    <3>2. d.active.chunk \in 0 .. ActiveIndex(d) - 1 /\ d.active.chunk + 1 = Len(ms)
      BY <1>2, <3>1 DEF ActiveIndex
    <3>3. QED
      BY <3>1, <3>2 DEF LeftoverAgrees
  <2>3. QED
    BY <2>1, <2>2
<1>5. Scans(ActiveData(d), LastOrdinal(d) + 1)
  <2>1. CASE d.active.chunk = Len(ms)
    BY <1>2, <2>1 DEF ActiveSound, ActiveData, ActiveIndex
  <2>2. CASE d.active.chunk # Len(ms)
    BY <2>2 DEF ActiveData, ActiveIndex, Scans
  <2>3. QED
    BY <2>1, <2>2
<1>6. MarkHolds(d, m)
  <2> SUFFICES ASSUME m.ord > 0
               PROVE  /\ DurableFrame(d, m) # {}
                      /\ \A r \in DurableFrame(d, m) : Covers(m, r.ref)
                      /\ m.chunk <= ActiveIndex(d)
                      /\ m.chunk = ActiveIndex(d) => m.end <= Len(ActiveData(d))
    BY DEF MarkHolds
  <2>1. /\ m.chunk \in Nat /\ m.end \in Nat /\ m.ord \in Nat
        /\ m.chunk <= Len(ms) /\ m.ord = Base(ms, m.chunk) + m.end
        /\ m.end <= Len(ChunkFrames(d, m.chunk))
    BY <1>2 DEF MarkSound, Mark
  <2>2. m.chunk = ActiveIndex(d) => m.end <= Len(ActiveData(d))
    BY <1>1, <2>1, ChunkParts DEF ActiveIndex
  <2>3. ASSUME NEW c \in Nat, NEW r \in LastDurable(d, m, c)
        PROVE  Covers(m, r.ref)
    <3>1. r \in References(d) /\ r.ref.ord = m.ord
      BY <2>3 DEF LastDurable
    <3>2. PICK e \in Nat : \E p \in 1 .. Len(ChunkFrames(d, e)) : r = RefAt(d, e, p)
      BY <1>1, <3>1, ReferenceParts
    <3>3. PICK p \in 1 .. Len(ChunkFrames(d, e)) : r = RefAt(d, e, p)
      BY <3>2
    <3>4. /\ r.ref.chunk = e /\ r.ref.pos + 1 = p
          /\ r.ref.ord <= m.ord <=> e < m.chunk \/ (e = m.chunk /\ p <= m.end)
      BY <1>1, <3>3, CutsOnce
    <3>5. QED
      BY <2>1, <3>1, <3>4 DEF Covers
  <2>4. ASSUME NEW c \in Nat, NEW p \in 1 .. Len(ChunkFrames(d, c)),
               m.ord = Base(ms, c) + p
        PROVE  LastDurable(d, m, c) # {}
    <3>1. RefAt(d, c, p) \in References(d)
      BY <1>1, ReferenceParts
    <3>2. RefAt(d, c, p).ref.ord = m.ord /\ RefAt(d, c, p).ref.chunk = c
      BY <1>1, <2>4, CutsOnce
    <3>3. QED
      BY <3>1, <3>2 DEF LastDurable
  <2>5. CASE m.end # 0
    <3>1. m.end \in 1 .. Len(ChunkFrames(d, m.chunk))
      <4>1. Len(ChunkFrames(d, m.chunk)) \in Nat
        BY <1>1, <2>1, ChunkParts
      <4>2. QED
        BY <2>1, <2>5, <4>1
    <3>2. LastDurable(d, m, m.chunk) # {}
      BY <2>1, <2>4, <3>1
    <3>3. DurableFrame(d, m) = LastDurable(d, m, m.chunk)
      BY <2>5 DEF DurableFrame
    <3>4. QED
      BY <2>1, <2>2, <2>3, <3>2, <3>3 DEF ActiveIndex
  <2>6. CASE m.end = 0
    <3>1. m.chunk # 0 /\ m.ord = Base(ms, m.chunk)
      <4>1. Base(ms, m.chunk) \in Nat
        BY <1>1, <2>1, ChunkParts
      <4>2. m.ord = Base(ms, m.chunk)
        BY <2>1, <2>6, <4>1
      <4>3. m.chunk = 0 => Base(ms, m.chunk) = 0
        BY DEF Base
      <4>4. QED
        BY <2>1, <4>2, <4>3
    <3> DEFINE c == m.chunk - 1
    <3>2. c \in Nat /\ c + 1 = m.chunk /\ c < Len(ms)
      BY <1>2, <2>1, <3>1
    <3>3. Len(ChunkFrames(d, c)) \in Nat /\ Len(ChunkFrames(d, c)) # 0
      <4>1. m.chunk \in 1 .. Len(ms)
        BY <1>2, <2>1, <3>1
      <4>2. d.zst[m.chunk] # <<>> /\ d.zst[m.chunk] \in Seq(Frame)
        <5>1. /\ d.zst[m.chunk] = ms[m.chunk].data /\ ms[m.chunk].data # <<>>
              /\ Len(ms) <= Len(d.zst)
          BY <4>1 DEF Chained
        <5>2. m.chunk \in 1 .. Len(d.zst)
          BY <1>2, <4>1, <5>1
        <5>3. d.zst[m.chunk] \in Seq(Frame)
          BY <1>2, <5>2
        <5>4. QED
          BY <5>1, <5>3
      <4>3. ChunkFrames(d, c) = d.zst[m.chunk] /\ Len(ChunkFrames(d, c)) \in Nat
        BY <1>1, <3>2, ChunkParts
      <4>4. QED
        BY <4>2, <4>3, EmptySeq
    <3>4. m.ord = Base(ms, c) + Len(ChunkFrames(d, c))
      BY <1>1, <3>1, <3>2, ChunkParts
    <3>5. Len(ChunkFrames(d, c)) \in 1 .. Len(ChunkFrames(d, c))
      BY <3>3
    <3> HIDE DEF c
    <3>6. LastDurable(d, m, c) # {}
      BY <2>4, <3>2, <3>4, <3>5
    <3>7. DurableFrame(d, m) \in {LastDurable(d, m, m.chunk), LastDurable(d, m, c)}
          /\ (DurableFrame(d, m) = LastDurable(d, m, m.chunk) => LastDurable(d, m, m.chunk) # {}
                \/ LastDurable(d, m, c) = {} \/ DurableFrame(d, m) = LastDurable(d, m, c))
      BY <2>6, <3>1 DEF DurableFrame, c
    <3>8. DurableFrame(d, m) # {}
      BY <3>6, <3>7
    <3>9. QED
      BY <2>1, <2>2, <2>3, <3>2, <3>7, <3>8 DEF ActiveIndex
  <2>7. QED
    BY <2>5, <2>6
<1>7. QED
  BY <1>3, <1>4, <1>5, <1>6 DEF Opens

\* What the properties say follows.
LEMMA InvSays ==
  ASSUME JournalInv
  PROVE  JournalTypeOK /\ NeverRefused /\ AckedReadable /\ MarkCutsOnce
<1>1. /\ disk \in Disk /\ Len(disk.mark) <= 1 /\ Chained(disk.zst, disk.manifests)
      /\ ActiveSound(disk, synced) /\ MarkSound(disk, synced) /\ Orderly(disk)
  BY DEF JournalInv, JournalTyped, DiskSound, Orderly
<1>2. JournalTypeOK
  <2>1. disk.identity \in BOOLEAN /\ disk.zst \in Seq(Seq(Frame)) /\ disk.manifests \in Seq(Manifest)
        /\ disk.active \in [chunk : Nat, data : Seq(Frame), torn : BOOLEAN]
    BY <1>1 DEF Disk, ActiveFile
  <2>2. mem.state \in State /\ mem.count \in Nat /\ pc \in FileSteps
        /\ synced \in 0 .. Len(disk.active.data) /\ (mem.state = "OPEN" => mem.manifests = disk.manifests)
    BY DEF JournalInv, JournalTyped, WriterSound, Writer, State
  <2>3. QED
    BY <1>1, <2>1, <2>2 DEF JournalTypeOK
<1>3. NeverRefused
  BY <1>1, AtRestOpens DEF NeverRefused, Established
<1>4. AckedReadable
  BY DEF JournalInv, AckedCovered, AckedReadable
<1>5. MarkCutsOnce
  <2>1. ASSUME disk.mark # <<>>, NEW r \in References(disk)
        PROVE  LET mark == disk.mark[1] IN
               r.ref.ord <= mark.ord <=>
                 \/ r.ref.chunk < mark.chunk
                 \/ r.ref.chunk = mark.chunk /\ r.ref.pos + 1 <= mark.end
    <3>1. PICK c \in Nat : \E p \in 1 .. Len(ChunkFrames(disk, c)) : r = RefAt(disk, c, p)
      BY <1>1, ReferenceParts
    <3>2. PICK p \in 1 .. Len(ChunkFrames(disk, c)) : r = RefAt(disk, c, p)
      BY <3>1
    <3>3. /\ r.ref.chunk = c /\ r.ref.pos + 1 = p
          /\ r.ref.ord <= disk.mark[1].ord <=>
               c < disk.mark[1].chunk \/ (c = disk.mark[1].chunk /\ p <= disk.mark[1].end)
      BY <1>1, <2>1, <3>2, CutsOnce
    <3>4. QED
      BY <3>3
  <2>2. QED
    BY <2>1 DEF MarkCutsOnce, Established
<1>6. QED
  BY <1>2, <1>3, <1>4, <1>5

\* At first nothing was written.
LEMMA InitKeeps == JournalInit => JournalInv
<1> SUFFICES ASSUME JournalInit PROVE JournalInv
  OBVIOUS
<1> DEFINE none == [chunk |-> 0, data |-> <<>>, torn |-> FALSE]
<1>1. /\ disk = [identity |-> FALSE, mark |-> <<>>, zst |-> <<>>, manifests |-> <<>>,
                 active |-> none]
      /\ synced = 0 /\ mem = [state |-> "DOWN", count |-> 0, manifests |-> <<>>, mark |-> NoMark]
      /\ pc = "idle" /\ acked = {} /\ bodies = 0 /\ crashes = 0
  BY DEF JournalInit
<1>2. \A S : <<>> \in Seq(S) /\ Len(<<>>) = 0
  OBVIOUS
<1>3. none \in ActiveFile /\ NoMark \in Mark
  BY <1>2 DEF ActiveFile, NoMark, Mark
<1>4. disk \in Disk /\ mem \in Writer
  BY <1>1, <1>2, <1>3 DEF Disk, Writer
<1>5. JournalTyped
  BY <1>1, <1>2, <1>4 DEF JournalTyped, FileSteps
<1>6. Chained(disk.zst, disk.manifests)
  BY <1>1, <1>2 DEF Chained
<1>7. ActiveSound(disk, synced) /\ MarkSound(disk, synced)
  BY <1>1, <1>2 DEF ActiveSound, MarkSound, Scans
<1>8. WriterSound /\ AckedCovered
  BY <1>1 DEF WriterSound, AckedCovered
<1>9. QED
  BY <1>5, <1>6, <1>7, <1>8 DEF JournalInv, DiskSound

-----------------------------------------------------------------------------
(* What a step keeps.                                                      *)

Durable(d) == IF d.mark # <<>> THEN d.mark[1].ord ELSE 0
SameLog(d, e) == ReadableBodies(e) = ReadableBodies(d) /\ Durable(e) = Durable(d)

\* The same chunks are the same log.
LEMMA SameChunks ==
  ASSUME NEW d, Orderly(d), NEW e, Orderly(e), FramesTotal(e) = FramesTotal(d), Durable(e) = Durable(d),
         \A c \in Nat : ChunkFrames(e, c) = ChunkFrames(d, c)
  PROVE  References(e) = References(d) /\ SameLog(d, e)
<1>1. References(e) = References(d)
  BY SameReferences
<1>2. \A n : FrameOf(e, n) = FrameOf(d, n)
  BY <1>1 DEF FrameOf
<1>3. ReadableBodies(e) = ReadableBodies(d)
  BY <1>2 DEF ReadableBodies, FramesTotal
<1>4. QED
  BY <1>1, <1>3 DEF SameLog

\* The steps that leave the files alone, or only fsync them.
Waits == Sync \/ Seal \/ Fsync \/ SyncDirectory \/ Fail \/ Close

LEMMA WaitsKeeps ==
  ASSUME JournalInv, Waits
  PROVE  JournalInv' /\ SameLog(disk, disk')
<1>1. disk' = disk /\ acked' = acked /\ bodies' = bodies /\ crashes' = crashes
  BY DEF Waits, Sync, Seal, Fsync, SyncDirectory, Fail, Close
<1>2. /\ JournalTyped /\ WriterSound /\ AckedCovered
      /\ Chained(disk.zst, disk.manifests) /\ ActiveSound(disk, synced) /\ MarkSound(disk, synced)
      /\ Len(disk.active.data) \in Nat
  BY DEF JournalInv, DiskSound, JournalTyped, Disk, ActiveFile
<1>3. synced' = synced \/ synced' = Len(disk.active.data)
  BY DEF Waits, Sync, Seal, Fsync, SyncDirectory, Fail, Close
<1>4. /\ mem' \in Writer /\ mem' = [mem EXCEPT !.state = mem'.state] /\ pc' \in FileSteps
      /\ synced' \in 0 .. Len(disk.active.data)
  <2>1. mem \in Writer /\ pc \in FileSteps /\ synced \in 0 .. Len(disk.active.data)
    BY <1>2 DEF JournalTyped
  <2>2. mem' = mem \/ mem' = [mem EXCEPT !.state = "FAILED"] \/ mem' = [mem EXCEPT !.state = "DOWN"]
    BY DEF Waits, Sync, Seal, Fsync, SyncDirectory, Fail, Close
  <2>3. mem' \in Writer /\ mem' = [mem EXCEPT !.state = mem'.state]
    BY <2>1, <2>2 DEF Writer
  <2>4. pc' \in FileSteps
    BY <2>1 DEF Waits, Sync, Seal, Fsync, SyncDirectory, Fail, Close, FileSteps
  <2>5. synced' \in 0 .. Len(disk.active.data)
    BY <1>2, <1>3, <2>1
  <2>6. QED
    BY <2>3, <2>4, <2>5
<1>5. JournalTyped'
  BY <1>1, <1>2, <1>4 DEF JournalTyped
<1>6. DiskSound(disk', synced')
  <2>1. ActiveSound(disk, synced')
    BY <1>2, <1>3 DEF ActiveSound
  <2>2. MarkSound(disk, synced')
    <3>1. CASE disk.mark = <<>>
      BY <1>2, <3>1 DEF MarkSound
    <3>2. CASE disk.mark # <<>>
      <4> DEFINE m == disk.mark[1]
      <4>1. m \in Mark /\ m.end \in Nat
        BY <1>2, <3>2, OneMark DEF JournalTyped, Disk, Mark
      <4>2. synced \in Nat /\ synced <= synced'
        BY <1>2, <1>3 DEF JournalTyped
      <4>3. m.chunk = disk.active.chunk => m.end <= synced
        BY <1>2, <3>2 DEF MarkSound
      <4> HIDE DEF m
      <4>4. m.chunk = disk.active.chunk => m.end <= synced'
        BY <4>1, <4>2, <4>3, <1>4
      <4> USE DEF m
      <4>5. QED
        BY <1>2, <3>2, <4>4 DEF MarkSound
    <3>3. QED
      BY <3>1, <3>2
  <2>3. QED
    BY <1>1, <1>2, <2>1, <2>2 DEF DiskSound
<1>7. WriterSound'
  <2>1. CASE Sync
    BY <1>1, <1>2, <2>1 DEF WriterSound, Sync, Idle
  <2>2. CASE Seal
    BY <1>1, <1>2, <2>2 DEF WriterSound, Seal, Idle
  <2>3. CASE Fsync
    BY <1>1, <1>2, <2>3 DEF WriterSound, Fsync
  <2>4. CASE SyncDirectory
    BY <1>1, <1>2, <2>4 DEF WriterSound, SyncDirectory
  <2>5. CASE Fail
    <3>1. mem'.state = "FAILED" /\ mem.state = "OPEN" /\ pc' = pc /\ synced' = synced
      BY <1>2, <2>5 DEF Fail, JournalTyped, Writer
    <3>2. QED
      BY <1>1, <1>2, <3>1 DEF WriterSound
  <2>6. CASE Close
    <3>1. mem'.state = "DOWN" /\ pc' = "idle" /\ pc # "identity"
      <4>1. pc # "identity"
        BY <1>2, <2>6 DEF Close, Idle, WriterSound
      <4>2. QED
        BY <1>2, <2>6, <4>1 DEF Close, JournalTyped, Writer
    <3>2. QED
      BY <1>1, <1>2, <3>1 DEF WriterSound
  <2>7. QED
    BY <2>1, <2>2, <2>3, <2>4, <2>5, <2>6 DEF Waits
<1>8. AckedCovered'
  BY <1>1, <1>2 DEF AckedCovered
<1>9. SameLog(disk, disk')
  BY <1>1 DEF SameLog
<1>10. QED
  BY <1>5, <1>6, <1>7, <1>8, <1>9 DEF JournalInv

\* The first records of a directory: it is empty till the watermark is there.
LEMMA CreatesKeeps ==
  ASSUME JournalInv, CreateIdentity \/ CreateMark
  PROVE  JournalInv' /\ SameLog(disk, disk')
<1> DEFINE none == [chunk |-> 0, data |-> <<>>, torn |-> FALSE]
<1>1. /\ disk \in Disk /\ Chained(disk.zst, disk.manifests) /\ ActiveSound(disk, synced)
      /\ MarkSound(disk, synced) /\ WriterSound /\ AckedCovered /\ JournalTyped
  BY DEF JournalInv, JournalTyped, DiskSound
<1>2. /\ disk.mark = <<>> /\ mem.state = "DOWN"
      /\ synced' = synced /\ mem' = mem /\ acked' = acked /\ bodies' = bodies
      /\ crashes' = crashes /\ pc' \in {"identity", "idle"}
  BY <1>1 DEF CreateIdentity, CreateMark, WriterSound
<1>3. disk.manifests = <<>> /\ disk.active = none
  BY <1>1, <1>2 DEF MarkSound
<1>4. /\ disk'.zst = disk.zst /\ disk'.manifests = disk.manifests /\ disk'.active = disk.active
      /\ disk' \in Disk /\ disk'.mark \in {<<>>, <<NoMark>>} /\ Len(disk'.mark) <= 1
      /\ disk'.mark = <<>> \/ CreateMark
  <2>1. NoMark \in Mark
    BY DEF NoMark, Mark
  <2>2. CASE CreateIdentity
    <3>1. disk' = [disk EXCEPT !.identity = TRUE]
      BY <2>2 DEF CreateIdentity
    <3>2. disk' \in Disk
      BY <1>1, <3>1 DEF Disk
    <3>3. /\ disk'.zst = disk.zst /\ disk'.manifests = disk.manifests
          /\ disk'.active = disk.active /\ disk'.mark = disk.mark
      BY <1>1, <3>1 DEF Disk
    <3>4. Len(<<>>) <= 1
      OBVIOUS
    <3>5. QED
      BY <1>2, <3>2, <3>3, <3>4
  <2>3. CASE CreateMark
    <3>1. disk' = [disk EXCEPT !.mark = <<NoMark>>] /\ <<NoMark>> \in Seq(Mark) /\ Len(<<NoMark>>) = 1
      BY <2>1, <2>3 DEF CreateMark
    <3>2. disk' \in Disk
      BY <1>1, <3>1 DEF Disk
    <3>3. /\ disk'.zst = disk.zst /\ disk'.manifests = disk.manifests
          /\ disk'.active = disk.active /\ disk'.mark = <<NoMark>>
      BY <1>1, <3>1 DEF Disk
    <3>4. QED
      BY <2>3, <3>1, <3>2, <3>3
  <2>4. QED
    BY <2>2, <2>3
<1>5. acked = {}
  BY <1>1, <1>2 DEF AckedCovered
<1>6. JournalTyped'
  BY <1>1, <1>2, <1>4 DEF JournalTyped, FileSteps
<1>7. Chained(disk'.zst, disk'.manifests) /\ ActiveSound(disk', synced')
  <2>1. LastOrdinal(disk') = LastOrdinal(disk)
    BY <1>4 DEF LastOrdinal
  <2>2. QED
    BY <1>1, <1>2, <1>4, <2>1 DEF ActiveSound
<1>8. MarkSound(disk', synced')
  <2>1. CASE disk'.mark = <<>>
    BY <1>3, <1>4, <2>1 DEF MarkSound
  <2>2. CASE disk'.mark = <<NoMark>>
    <3>1. disk'.mark # <<>> /\ disk'.mark[1] = NoMark /\ Len(disk'.manifests) = 0
      BY <1>3, <1>4, <2>2
    <3>2. ActiveData(disk') = <<>> /\ ChunkFrames(disk', 0) = <<>>
      BY <1>3, <1>4, <3>1 DEF ActiveData, ActiveIndex, ChunkFrames
    <3>3. synced' \in Nat
      BY <1>1, <1>2, <1>3 DEF JournalTyped
    <3>4. QED
      BY <3>1, <3>2, <3>3 DEF MarkSound, NoMark, Base
  <2>3. QED
    BY <1>4, <2>1, <2>2
<1>9. WriterSound'
  <2>1. pc' \notin {"unlink", "directory"} /\ mem'.state = "DOWN"
    BY <1>2
  <2>2. /\ pc' = "identity" \/ ~disk'.identity => disk'.mark = <<>>
        /\ pc' = "identity" => disk'.identity
    <3>1. CASE CreateIdentity
      <4>1. disk'.mark = disk.mark /\ disk'.identity
        BY <1>1, <3>1 DEF CreateIdentity, Disk
      <4>2. QED
        BY <1>2, <4>1
    <3>2. CASE CreateMark
      <4>1. disk'.identity = disk.identity /\ pc' = "idle" /\ pc = "identity"
        BY <1>1, <3>2 DEF CreateMark, Disk
      <4>2. disk.identity
        BY <1>1, <4>1 DEF WriterSound
      <4>3. QED
        BY <4>1, <4>2
    <3>3. QED
      BY <3>1, <3>2
  <2>3. QED
    BY <1>2, <2>1, <2>2 DEF WriterSound
<1>10. AckedCovered'
  BY <1>2, <1>5 DEF AckedCovered
<1>11. SameLog(disk, disk')
  <2>1. \A c \in Nat : ChunkFrames(disk', c) = ChunkFrames(disk, c)
    BY <1>4 DEF ChunkFrames, ActiveData, ActiveIndex
  <2>2. FramesTotal(disk') = FramesTotal(disk)
    BY <1>4 DEF FramesTotal, LastOrdinal, ActiveData, ActiveIndex
  <2>3. Durable(disk') = Durable(disk)
    BY <1>2, <1>4 DEF Durable, NoMark
  <2>4. Orderly(disk) /\ Orderly(disk')
    BY <1>1, <1>4, <1>7 DEF Orderly
  <2>5. QED
    BY <2>1, <2>2, <2>3, <2>4, SameChunks
<1>12. QED
  BY <1>6, <1>7, <1>8, <1>9, <1>10, <1>11 DEF JournalInv, DiskSound

\* Repairing the active file changes nothing that is read.
LEMMA RepairKeeps ==
  ASSUME NEW d, d \in Disk, Len(d.mark) <= 1, NEW s, DiskSound(d, s), s \in 0 .. Len(d.active.data),
         NEW t, t \in 0 .. Len(ActiveData(d)), d.active.chunk = ActiveIndex(d) => s <= t
  PROVE  LET e == Repaired(d) IN
         /\ e \in Disk /\ DiskSound(e, t) /\ SameLog(d, e) /\ References(e) = References(d)
         /\ e.mark = d.mark /\ e.identity = d.identity /\ e.zst = d.zst
         /\ e.manifests = d.manifests
         /\ e.active = [chunk |-> Len(d.manifests), data |-> ActiveData(d), torn |-> FALSE]
         /\ ActiveData(e) = ActiveData(d) /\ LastOrdinal(e) = LastOrdinal(d)
<1> DEFINE e == Repaired(d)
           ms == d.manifests
           n == Len(d.manifests)
<1>1. /\ Chained(d.zst, ms) /\ ActiveSound(d, s) /\ MarkSound(d, s) /\ n \in Nat
      /\ d.active \in ActiveFile /\ Orderly(d) /\ ActiveData(d) \in Seq(Frame)
      /\ Len(ActiveData(d)) \in Nat /\ t \in Nat /\ Len(d.active.data) \in Nat /\ s \in Nat
  BY DEF DiskSound, Disk, Orderly, ActiveFile, ActiveData
<1>2. /\ e.mark = d.mark /\ e.identity = d.identity /\ e.zst = d.zst /\ e.manifests = ms
      /\ e.active = [chunk |-> n, data |-> ActiveData(d), torn |-> FALSE]
      /\ e \in Disk
  <2>1. e = [d EXCEPT !.active = [chunk |-> n, data |-> ActiveData(d), torn |-> FALSE]]
    BY DEF Repaired, ActiveIndex
  <2>2. [chunk |-> n, data |-> ActiveData(d), torn |-> FALSE] \in ActiveFile
    BY <1>1 DEF ActiveFile
  <2>3. QED
    BY <2>1, <2>2 DEF Disk
<1> HIDE DEF e
<1>3. /\ ActiveIndex(e) = n /\ ActiveIndex(d) = n /\ ActiveData(e) = ActiveData(d)
      /\ LastOrdinal(e) = LastOrdinal(d)
  BY <1>2 DEF ActiveIndex, ActiveData, LastOrdinal
<1>4. \A c \in Nat : ChunkFrames(e, c) = ChunkFrames(d, c)
  BY <1>2, <1>3 DEF ChunkFrames
<1>5. ActiveSound(e, t)
  <2>1. Scans(ActiveData(d), LastOrdinal(d) + 1)
    <3>1. CASE d.active.chunk = n
      <4>1. ActiveData(d) = d.active.data
        BY <1>3, <3>1 DEF ActiveData
      <4>2. QED
        BY <1>1, <3>1, <4>1 DEF ActiveSound
    <3>2. CASE d.active.chunk # n
      BY <1>3, <3>2 DEF ActiveData, Scans
    <3>3. QED
      BY <3>1, <3>2
  <2>2. QED
    BY <1>2, <1>3, <2>1 DEF ActiveSound
<1>6. MarkSound(e, t)
  <2>1. CASE d.mark = <<>>
    <3>1. ms = <<>> /\ d.active = [chunk |-> 0, data |-> <<>>, torn |-> FALSE] /\ n = 0
      BY <1>1, <2>1 DEF MarkSound
    <3>2. ActiveData(d) = <<>>
      BY <1>3, <3>1 DEF ActiveData
    <3>3. QED
      BY <1>2, <2>1, <3>1, <3>2 DEF MarkSound
  <2>2. CASE d.mark # <<>>
    <3> DEFINE m == d.mark[1]
    <3>1. m \in Mark /\ m.end \in Nat /\ m.chunk \in Nat
      BY <2>2, OneMark DEF Disk, Mark
    <3>2. /\ m.chunk <= n /\ m.ord = Base(ms, m.chunk) + m.end
          /\ m.end <= Len(ChunkFrames(d, m.chunk))
          /\ m.chunk = d.active.chunk => m.end <= s
      BY <1>1, <2>2 DEF MarkSound
    <3>3. m.chunk = n => m.end <= t
      <4>1. CASE d.active.chunk = n
        <5>1. s <= t
          BY <1>3, <4>1
        <5>2. QED
          BY <1>1, <3>1, <3>2, <4>1, <5>1
      <4>2. CASE d.active.chunk # n
        <5>1. ActiveData(d) = <<>> /\ Len(<<>>) = 0
          BY <1>3, <4>2 DEF ActiveData
        <5>2. ChunkFrames(d, n) = <<>>
          BY <1>3, <5>1 DEF ChunkFrames
        <5>3. m.chunk = n => m.end <= 0
          BY <3>2, <5>1, <5>2
        <5>4. QED
          BY <1>1, <3>1, <5>3
      <4>3. QED
        BY <4>1, <4>2
    <3>4. e.mark # <<>> /\ e.mark[1] = m /\ e.active.chunk = n
      BY <1>2, <2>2
    <3>5. ChunkFrames(e, m.chunk) = ChunkFrames(d, m.chunk)
      BY <1>4, <3>1
    <3> HIDE DEF m
    <3>6. QED
      BY <1>2, <3>2, <3>3, <3>4, <3>5 DEF MarkSound
  <2>3. QED
    BY <2>1, <2>2
<1>7. Orderly(e) /\ DiskSound(e, t)
  BY <1>1, <1>2, <1>5, <1>6 DEF Orderly, DiskSound
<1>8. SameLog(d, e) /\ References(e) = References(d)
  <2>1. FramesTotal(e) = FramesTotal(d) /\ Durable(e) = Durable(d)
    BY <1>2, <1>3 DEF FramesTotal, Durable
  <2>2. QED
    BY <1>1, <1>4, <1>7, <2>1, SameChunks
<1>9. QED
  BY <1>2, <1>3, <1>7, <1>8 DEF e

LEMMA UnlinkKeeps ==
  ASSUME JournalInv, UnlinkSource
  PROVE  JournalInv' /\ SameLog(disk, disk')
<1>1. /\ disk \in Disk /\ Len(disk.mark) <= 1 /\ DiskSound(disk, synced) /\ WriterSound
      /\ AckedCovered /\ JournalTyped /\ synced \in 0 .. Len(disk.active.data)
      /\ Len(disk.manifests) \in Nat
  BY DEF JournalInv, JournalTyped, Disk
<1>2. /\ mem.state = "OPEN" /\ pc = "unlink" /\ disk.active.chunk = Len(disk.manifests) - 1
      /\ disk.active.chunk # Len(disk.manifests)
  BY <1>1 DEF UnlinkSource, WriterSound
<1>3. ActiveData(disk) = <<>> /\ Len(<<>>) = 0
  BY <1>2 DEF ActiveData, ActiveIndex
<1>4. /\ disk' = Repaired(disk) /\ synced' = 0 /\ pc' = "directory"
      /\ mem' = mem /\ acked' = acked /\ bodies' = bodies /\ crashes' = crashes
  BY <1>3 DEF UnlinkSource, Repaired, ActiveIndex
<1>5. /\ disk' \in Disk /\ DiskSound(disk', synced') /\ SameLog(disk, disk')
      /\ References(disk') = References(disk)
      /\ disk'.mark = disk.mark /\ disk'.identity = disk.identity /\ disk'.zst = disk.zst
      /\ disk'.manifests = disk.manifests
      /\ disk'.active = [chunk |-> Len(disk.manifests), data |-> <<>>, torn |-> FALSE]
      /\ ActiveData(disk') = ActiveData(disk) /\ LastOrdinal(disk') = LastOrdinal(disk)
  <2>1. 0 \in 0 .. Len(ActiveData(disk))
    BY <1>3
  <2>2. disk.active.chunk # ActiveIndex(disk)
    BY <1>2 DEF ActiveIndex
  <2>3. QED
    BY <1>1, <1>3, <1>4, <2>1, <2>2, RepairKeeps
<1>6. JournalTyped'
  <2>1. disk'.active.data = <<>>
    BY <1>5
  <2>2. synced' \in 0 .. Len(disk'.active.data)
    BY <1>3, <1>4, <2>1
  <2>3. QED
    BY <1>1, <1>4, <1>5, <2>2 DEF JournalTyped, FileSteps
<1>7. WriterSound'
  BY <1>1, <1>2, <1>4, <1>5 DEF WriterSound
<1>8. AckedCovered'
  BY <1>1, <1>4, <1>5 DEF AckedCovered
<1>9. QED
  BY <1>5, <1>6, <1>7, <1>8 DEF JournalInv

\* Opening takes over what is on the disk.
LEMMA InitializeKeeps ==
  ASSUME JournalInv, Initialize
  PROVE  JournalInv' /\ SameLog(disk, disk')
<1>1. /\ disk \in Disk /\ Len(disk.mark) <= 1 /\ DiskSound(disk, synced) /\ WriterSound
      /\ AckedCovered /\ JournalTyped /\ synced \in 0 .. Len(disk.active.data)
      /\ Len(disk.manifests) \in Nat /\ disk.active.data \in Seq(Frame) /\ disk.mark \in Seq(Mark)
      /\ Len(disk.active.data) \in Nat /\ disk.manifests \in Seq(Manifest)
  BY DEF JournalInv, JournalTyped, Disk, ActiveFile
<1>2. /\ mem.state = "DOWN" /\ disk.identity /\ pc = "idle" /\ disk.mark # <<>>
      /\ mem' = [state |-> "OPEN", count |-> LastOrdinal(disk) + Len(ActiveData(disk)),
                 manifests |-> disk.manifests, mark |-> disk.mark[1]]
      /\ disk' = Repaired(disk) /\ pc' = pc /\ acked' = acked /\ bodies' = bodies
      /\ crashes' = crashes
      /\ synced' = IF disk.active.torn /\ disk.active.chunk = ActiveIndex(disk)
                     THEN Len(ActiveData(disk))
                   ELSE IF disk.active.chunk = ActiveIndex(disk) THEN synced ELSE 0
  BY DEF Initialize, Opens
<1>3. /\ synced' \in 0 .. Len(ActiveData(disk))
      /\ disk.active.chunk = ActiveIndex(disk) => synced <= synced'
  <2>1. Len(<<>>) = 0
    OBVIOUS
  <2>2. CASE disk.active.chunk = ActiveIndex(disk)
    <3>1. ActiveData(disk) = disk.active.data
      BY <2>2 DEF ActiveData
    <3>2. QED
      BY <1>1, <1>2, <2>2, <3>1
  <2>3. CASE disk.active.chunk # ActiveIndex(disk)
    BY <1>2, <2>1, <2>3 DEF ActiveData
  <2>4. QED
    BY <2>2, <2>3
<1>4. /\ disk' \in Disk /\ DiskSound(disk', synced') /\ SameLog(disk, disk')
      /\ References(disk') = References(disk)
      /\ disk'.mark = disk.mark /\ disk'.identity = disk.identity
      /\ disk'.manifests = disk.manifests
      /\ disk'.active = [chunk |-> Len(disk.manifests), data |-> ActiveData(disk), torn |-> FALSE]
      /\ ActiveData(disk') = ActiveData(disk) /\ LastOrdinal(disk') = LastOrdinal(disk)
  BY <1>1, <1>2, <1>3, RepairKeeps
<1>5. mem' \in Writer
  <2>1. disk.mark[1] \in Mark
    BY <1>1, <1>2, OneMark
  <2>2. LastOrdinal(disk) + Len(ActiveData(disk)) \in Nat
    <3>1. Orderly(disk)
      BY <1>1 DEF Orderly, DiskSound
    <3>2. 0 \in 0 .. Len(disk.manifests)
      BY <1>1
    <3>3. QED
      BY <3>1, <3>2, OrdinalParts DEF FramesTotal
  <2>3. QED
    BY <1>1, <1>2, <2>1, <2>2 DEF Writer
<1>6. JournalTyped'
  BY <1>1, <1>2, <1>3, <1>4, <1>5 DEF JournalTyped
<1>7. WriterSound'
  BY <1>1, <1>2, <1>4 DEF WriterSound
<1>8. AckedCovered'
  BY <1>1, <1>2, <1>4 DEF AckedCovered
<1>9. QED
  BY <1>4, <1>6, <1>7, <1>8 DEF JournalInv

\* The bodies are a sequence of as many as there are ordinals.
LEMMA BodiesParts ==
  ASSUME NEW d, FramesTotal(d) \in Nat
  PROVE  /\ Len(ReadableBodies(d)) = FramesTotal(d) /\ DOMAIN ReadableBodies(d) = 1 .. FramesTotal(d)
         /\ \A n \in 1 .. FramesTotal(d) : ReadableBodies(d)[n] = FrameOf(d, n).body
         /\ \E S : ReadableBodies(d) \in Seq(S)
<1> DEFINE n == FramesTotal(d)
           S == {FrameOf(d, k).body : k \in 1 .. n}
<1>1. ReadableBodies(d) = [k \in 1 .. n |-> FrameOf(d, k).body]
  BY DEF ReadableBodies, FramesTotal
<1>2. \A k \in 1 .. n : FrameOf(d, k).body \in S
  OBVIOUS
<1> HIDE DEF n, S
<1>3. n \in Nat
  BY DEF n
<1>4. ReadableBodies(d) \in [1 .. n -> S]
  BY <1>1, <1>2
<1>5. ReadableBodies(d) \in Seq(S) /\ Len(ReadableBodies(d)) = n
  BY <1>3, <1>4, SeqDef, LenProperties
<1>6. QED
  BY <1>1, <1>5 DEF n

\* One more frame at the end of the active file.
Appended(d, f) == [d EXCEPT !.active.data = Append(@, f)]

LEMMA FrameAppended ==
  ASSUME NEW d, d \in Disk, Len(d.mark) <= 1, d.mark # <<>>, NEW s, DiskSound(d, s),
         s \in 0 .. Len(d.active.data), d.active.chunk = Len(d.manifests),
         NEW f \in Frame, f.ord = FramesTotal(d) + 1
  PROVE  LET e == Appended(d, f) IN
         /\ e \in Disk /\ DiskSound(e, s) /\ FramesTotal(e) = FramesTotal(d) + 1 /\ FramesTotal(d) \in Nat
         /\ e.mark = d.mark /\ e.identity = d.identity /\ e.zst = d.zst
         /\ e.manifests = d.manifests
         /\ e.active = [chunk |-> d.active.chunk, data |-> Append(d.active.data, f),
                        torn |-> d.active.torn]
         /\ LastOrdinal(e) = LastOrdinal(d) /\ ActiveData(e) = Append(d.active.data, f)
         /\ ActiveData(d) = d.active.data
         /\ References(d) \subseteq References(e)
         /\ \A n \in 1 .. FramesTotal(d) : FrameOf(e, n) = FrameOf(d, n)
<1> DEFINE e == Appended(d, f)
           ms == d.manifests
           n == Len(d.manifests)
           data == d.active.data
<1>1. /\ Chained(d.zst, ms) /\ ActiveSound(d, s) /\ MarkSound(d, s) /\ n \in Nat
      /\ d.active \in ActiveFile /\ Orderly(d) /\ data \in Seq(Frame) /\ Len(data) \in Nat
      /\ s \in Nat /\ d.active.chunk = n
  BY DEF DiskSound, Disk, Orderly, ActiveFile
<1>2. /\ Append(data, f) \in Seq(Frame) /\ Len(Append(data, f)) = Len(data) + 1
      /\ \A k \in 1 .. Len(data) : Append(data, f)[k] = data[k]
      /\ Append(data, f)[Len(data) + 1] = f
  BY <1>1, AppendProperties
<1>3. /\ e.mark = d.mark /\ e.identity = d.identity /\ e.zst = d.zst /\ e.manifests = ms
      /\ e.active = [chunk |-> n, data |-> Append(data, f), torn |-> d.active.torn]
      /\ e \in Disk
  <2>1. d.active = [chunk |-> n, data |-> data, torn |-> d.active.torn]
    BY <1>1 DEF ActiveFile
  <2> DEFINE after == Append(data, f)
  <2>2. e = [d EXCEPT !.active = [d.active EXCEPT !.data = after]]
    BY DEF Appended
  <2> HIDE DEF after, data, n, e
  <2>3. e = [d EXCEPT !.active = [chunk |-> n, data |-> after, torn |-> d.active.torn]]
    BY <2>1, <2>2
  <2> USE DEF after, data, n
  <2>4. [chunk |-> n, data |-> Append(data, f), torn |-> d.active.torn] \in ActiveFile
    BY <1>1, <1>2 DEF ActiveFile
  <2>5. QED
    BY <2>3, <2>4 DEF Disk
<1> HIDE DEF e
<1>4. /\ ActiveIndex(e) = n /\ ActiveIndex(d) = n /\ ActiveData(e) = Append(data, f)
      /\ ActiveData(d) = data /\ LastOrdinal(e) = LastOrdinal(d)
  BY <1>1, <1>3 DEF ActiveIndex, ActiveData, LastOrdinal
<1>5. /\ \A c \in Nat : c # n => ChunkFrames(e, c) = ChunkFrames(d, c)
      /\ ChunkFrames(e, n) = Append(data, f) /\ ChunkFrames(d, n) = data
  BY <1>3, <1>4 DEF ChunkFrames
<1>6. /\ FramesTotal(d) \in Nat /\ FramesTotal(d) = LastOrdinal(d) + Len(data) /\ LastOrdinal(d) \in Nat
      /\ FramesTotal(e) = FramesTotal(d) + 1
  <2>1. LastOrdinal(d) = Base(ms, n) /\ n <= n
    BY <1>1, ChunkParts
  <2>2. LastOrdinal(d) \in Nat
    <3>1. n \in Nat /\ n <= Len(ms)
      BY <1>1
    <3>2. Base(ms, n) \in Nat
      BY <1>1, <3>1, ChunkParts
    <3>3. QED
      BY <2>1, <3>2
  <2>3. FramesTotal(d) = LastOrdinal(d) + Len(data) /\ FramesTotal(e) = LastOrdinal(d) + Len(Append(data, f))
    BY <1>4 DEF FramesTotal
  <2>4. Len(Append(data, f)) = Len(data) + 1 /\ Len(data) \in Nat
    BY <1>1, <1>2
  <2> DEFINE after == Len(Append(data, f))
             before == Len(data)
  <2>5. /\ FramesTotal(d) = LastOrdinal(d) + before /\ FramesTotal(e) = LastOrdinal(d) + after
        /\ after = before + 1 /\ before \in Nat
    BY <2>3, <2>4
  <2> HIDE DEF after, before
  <2>6. FramesTotal(d) \in Nat /\ FramesTotal(e) = FramesTotal(d) + 1
    BY <2>2, <2>5
  <2>7. QED
    BY <2>2, <2>3, <2>6
<1>7. Scans(Append(data, f), LastOrdinal(e) + 1)
  <2>1. Scans(data, LastOrdinal(d) + 1)
    BY <1>1 DEF ActiveSound
  <2> DEFINE after == Append(data, f)
  <2> HIDE DEF data, after
  <2>2. /\ DOMAIN after = 1 .. Len(data) + 1 /\ DOMAIN data = 1 .. Len(data)
        /\ \A k \in 1 .. Len(data) : after[k] = data[k]
        /\ after[Len(data) + 1] = f
    BY <1>1, <1>2 DEF after
  <2>3. ASSUME NEW k \in DOMAIN after PROVE after[k].ord = LastOrdinal(d) + 1 + k - 1
    <3>1. CASE k = Len(data) + 1
      <4>1. after[k] = f
        BY <2>2, <3>1
      <4>2. QED
        BY <1>1, <1>6, <3>1, <4>1
    <3>2. CASE k # Len(data) + 1
      <4>1. k \in 1 .. Len(data)
        BY <1>1, <2>2, <2>3, <3>2
      <4>2. QED
        BY <2>1, <2>2, <4>1 DEF Scans
    <3>3. QED
      BY <3>1, <3>2
  <2>4. QED
    BY <1>4, <2>3 DEF Scans, after
<1>8. ActiveSound(e, s)
  BY <1>3, <1>4, <1>7 DEF ActiveSound
<1>9. MarkSound(e, s)
  <2> DEFINE m == d.mark[1]
  <2>1. m \in Mark /\ m.end \in Nat /\ m.chunk \in Nat
    <3>1. d.mark \in Seq(Mark)
      BY DEF Disk
    <3>2. m \in Mark
      BY <3>1, OneMark
    <3>3. QED
      BY <3>2 DEF Mark
  <2>2. /\ m.chunk <= n /\ m.ord = Base(ms, m.chunk) + m.end
        /\ m.end <= Len(ChunkFrames(d, m.chunk))
        /\ m.chunk = d.active.chunk => m.end <= s
    BY <1>1 DEF MarkSound
  <2>3. e.mark # <<>> /\ e.mark[1] = m /\ e.active.chunk = n
    BY <1>3
  <2>4. Len(ChunkFrames(d, m.chunk)) <= Len(ChunkFrames(e, m.chunk))
        /\ Len(ChunkFrames(d, m.chunk)) \in Nat /\ Len(ChunkFrames(e, m.chunk)) \in Nat
    <3>1. Len(ChunkFrames(d, m.chunk)) \in Nat
      BY <1>1, <2>1, ChunkParts
    <3>2. CASE m.chunk = n
      BY <1>1, <1>2, <1>5, <3>2
    <3>3. CASE m.chunk # n
      <4>1. ChunkFrames(e, m.chunk) = ChunkFrames(d, m.chunk)
        BY <1>5, <2>1, <3>3
      <4>2. QED
        BY <3>1, <4>1
    <3>4. QED
      BY <3>2, <3>3
  <2> HIDE DEF m
  <2>5. m.end <= Len(ChunkFrames(e, m.chunk))
    BY <2>1, <2>2, <2>4
  <2>6. QED
    BY <1>1, <1>3, <2>2, <2>3, <2>5 DEF MarkSound
<1>10. DiskSound(e, s) /\ Orderly(e)
  BY <1>1, <1>3, <1>8, <1>9 DEF DiskSound, Orderly
<1>11. ASSUME NEW r, r \in References(d) PROVE r \in References(e) /\ r.ref.ord <= FramesTotal(d)
  <2>1. PICK c \in Nat : \E p \in 1 .. Len(ChunkFrames(d, c)) : r = RefAt(d, c, p)
    BY <1>1, <1>11, ReferenceParts
  <2>2. PICK p \in 1 .. Len(ChunkFrames(d, c)) : r = RefAt(d, c, p)
    BY <2>1
  <2>3. p \in 1 .. Len(ChunkFrames(e, c)) /\ RefAt(e, c, p) = RefAt(d, c, p)
    <3>1. CASE c = n
      <4>1. p \in 1 .. Len(data) /\ ChunkFrames(e, c) = Append(data, f) /\ ChunkFrames(d, c) = data
        BY <1>5, <2>2, <3>1
      <4>2. p \in 1 .. Len(data) + 1
        BY <1>1, <4>1
      <4>3. ChunkFrames(e, c)[p] = ChunkFrames(d, c)[p]
        BY <1>2, <4>1
      <4>4. QED
        BY <1>2, <4>1, <4>2, <4>3 DEF RefAt
    <3>2. CASE c # n
      <4>1. ChunkFrames(e, c) = ChunkFrames(d, c)
        BY <1>5, <3>2
      <4>2. QED
        BY <2>2, <4>1 DEF RefAt
    <3>3. QED
      BY <3>1, <3>2
  <2>4. r \in References(e)
    BY <1>10, <2>2, <2>3, ReferenceParts
  <2>5. /\ r.ref.ord = Base(ms, c) + p /\ c \in 0 .. n /\ Len(ChunkFrames(d, c)) \in Nat
        /\ Base(ms, c) \in Nat
    <3>1. ChunkFrames(d, c) # <<>>
      OBVIOUS
    <3>2. ~(c > n) /\ Len(ChunkFrames(d, c)) \in Nat
      BY <1>1, <3>1, ChunkParts
    <3>3. c \in 0 .. n
      BY <1>1, <3>2
    <3>4. Base(ms, c) \in Nat
      BY <1>1, <3>3, ChunkParts
    <3>5. r.ref.ord = Base(ms, c) + p
      BY <1>1, <2>2, CutsOnce
    <3>6. QED
      BY <3>2, <3>3, <3>4, <3>5
  <2>6. Base(ms, c) + Len(ChunkFrames(d, c)) <= FramesTotal(d)
    BY <1>1, <2>5, OrdinalParts
  <2>7. r.ref.ord <= FramesTotal(d)
    BY <1>6, <2>2, <2>5, <2>6
  <2>8. QED
    BY <2>4, <2>7
<1>12. ASSUME NEW r, r \in References(e), r.ref.ord <= FramesTotal(d) PROVE r \in References(d)
  <2>1. PICK c \in Nat : \E p \in 1 .. Len(ChunkFrames(e, c)) : r = RefAt(e, c, p)
    BY <1>10, <1>12, ReferenceParts
  <2>2. PICK p \in 1 .. Len(ChunkFrames(e, c)) : r = RefAt(e, c, p)
    BY <2>1
  <2>3. CASE c = n
    <3>1. /\ ChunkFrames(e, c) = Append(data, f) /\ ChunkFrames(d, c) = data
          /\ p \in 1 .. Len(data) + 1
      BY <1>2, <1>5, <2>2, <2>3
    <3>2. p # Len(data) + 1
      <4>1. p = Len(data) + 1 => r.ref.ord = f.ord
        BY <1>2, <2>2, <3>1 DEF RefAt, Ref
      <4>2. QED
        BY <1>6, <1>12, <4>1
    <3>3. p \in 1 .. Len(data)
      BY <1>1, <3>1, <3>2
    <3>4. ChunkFrames(e, c)[p] = ChunkFrames(d, c)[p]
      BY <1>2, <3>1, <3>3
    <3>5. r = RefAt(d, c, p) /\ p \in 1 .. Len(ChunkFrames(d, c))
      BY <2>2, <3>1, <3>3, <3>4 DEF RefAt
    <3>6. QED
      BY <1>1, <3>5, ReferenceParts
  <2>4. CASE c # n
    <3>1. ChunkFrames(e, c) = ChunkFrames(d, c)
      BY <1>5, <2>4
    <3>2. r = RefAt(d, c, p) /\ p \in 1 .. Len(ChunkFrames(d, c))
      BY <2>2, <3>1 DEF RefAt
    <3>3. QED
      BY <1>1, <3>2, ReferenceParts
  <2>5. QED
    BY <2>3, <2>4
<1>13. ASSUME NEW k \in 1 .. FramesTotal(d) PROVE FrameOf(e, k) = FrameOf(d, k)
  <2>1. k <= FramesTotal(d)
    BY <1>6
  <2>2. {q \in References(e) : q.ref.ord = k} = {q \in References(d) : q.ref.ord = k}
    BY <1>11, <1>12, <2>1
  <2>3. QED
    BY <2>2 DEF FrameOf
<1>14. References(d) \subseteq References(e)
  BY <1>11
<1> USE DEF e
<1>15. QED
  BY <1>1, <1>3, <1>4, <1>6, <1>10, <1>13, <1>14

LEMMA FrontOf ==
  ASSUME NEW S, NEW T, NEW s \in Seq(S), NEW t \in Seq(T), Len(t) = Len(s) + 1,
         \A k \in 1 .. Len(s) : t[k] = s[k]
  PROVE  View!Front(t) = s
<1> DEFINE n == Len(s)
<1>1. n \in Nat /\ Len(t) - 1 = n /\ DOMAIN s = 1 .. n /\ s = [k \in 1 .. n |-> s[k]]
  OBVIOUS
<1>2. SubSeq(t, 1, n) = [k \in 1 .. n |-> t[k]]
  <2>1. 1 \in 1 .. n + 1 /\ n \in 0 .. n + 1 /\ Len(t) = n + 1
    BY <1>1
  <2> HIDE DEF n
  <2>2. \A k \in 1 .. n : t[1 + k - 1] = t[k]
    BY <1>1
  <2>3. QED
    BY <1>1, <2>1, <2>2
<1>3. View!Front(t) = SubSeq(t, 1, n)
  BY <1>1 DEF View!Front
<1>4. QED
  BY <1>1, <1>2, <1>3

\* What the log does in a step.
LogSteps == View!LogNext \/ SameLog(disk, disk')

\* An append writes the frame after the last, whatever is done next.
LEMMA AppendKeeps ==
  ASSUME JournalInv, Append1
  PROVE  JournalInv' /\ LogSteps
<1>1. /\ disk \in Disk /\ Len(disk.mark) <= 1 /\ DiskSound(disk, synced) /\ WriterSound
      /\ AckedCovered /\ JournalTyped /\ synced \in 0 .. Len(disk.active.data)
      /\ Len(disk.manifests) \in Nat /\ disk.active.data \in Seq(Frame) /\ bodies \in Nat
      /\ mem \in Writer /\ mem.count \in Nat /\ Len(disk.active.data) \in Nat
  BY DEF JournalInv, JournalTyped, Disk, ActiveFile, Writer
<1>2. /\ mem.state = "OPEN" /\ pc = "idle" /\ disk.mark # <<>>
      /\ mem.manifests = disk.manifests /\ ~disk.active.torn
      /\ disk.active.chunk = Len(disk.manifests)
      /\ mem.count = FramesTotal(disk) /\ disk.identity
  <2>1. mem.state = "OPEN" /\ pc = "idle"
    BY DEF Append1, Idle
  <2>2. QED
    BY <1>1, <2>1 DEF WriterSound, FramesTotal
<1> DEFINE f == [ord |-> mem.count + 1, body |-> bodies + 1]
<1>3. /\ f \in Frame /\ f.ord = FramesTotal(disk) + 1
  BY <1>1, <1>2 DEF Frame
<1>4. /\ disk' = Appended(disk, f) /\ bodies' = bodies + 1 /\ mem' = [mem EXCEPT !.count = @ + 1]
      /\ pc' \in {"seal", "sync", "idle"} /\ synced' = synced /\ acked' = acked
      /\ crashes' = crashes
  BY DEF Append1, Appended
<1> HIDE DEF f
<1>5. /\ disk' \in Disk /\ DiskSound(disk', synced) /\ FramesTotal(disk') = FramesTotal(disk) + 1
      /\ FramesTotal(disk) \in Nat
      /\ disk'.mark = disk.mark /\ disk'.identity = disk.identity /\ disk'.zst = disk.zst
      /\ disk'.manifests = disk.manifests
      /\ disk'.active = [chunk |-> disk.active.chunk, data |-> Append(disk.active.data, f),
                         torn |-> disk.active.torn]
      /\ References(disk) \subseteq References(disk')
      /\ \A n \in 1 .. FramesTotal(disk) : FrameOf(disk', n) = FrameOf(disk, n)
  BY <1>1, <1>2, <1>3, <1>4, FrameAppended
<1>6. /\ mem' \in Writer /\ mem'.state = "OPEN" /\ mem'.count = FramesTotal(disk')
      /\ mem'.manifests = disk.manifests
  <2>1. mem.count + 1 \in Nat /\ mem.count + 1 = FramesTotal(disk')
    BY <1>1, <1>2, <1>5
  <2>2. mem' = [mem EXCEPT !.count = mem.count + 1]
    BY <1>4
  <2> DEFINE k == mem.count + 1
  <2> HIDE DEF k
  <2>3. mem' = [mem EXCEPT !.count = k] /\ k \in Nat /\ k = FramesTotal(disk')
    BY <2>1, <2>2 DEF k
  <2>4. mem' \in Writer /\ mem'.state = "OPEN" /\ mem'.count = k /\ mem'.manifests = mem.manifests
    BY <1>1, <1>2, <2>3 DEF Writer
  <2>5. QED
    BY <1>2, <2>3, <2>4
<1>7. JournalTyped'
  <2>1. disk'.active.data = Append(disk.active.data, f)
    BY <1>5
  <2>2. Len(disk'.active.data) = Len(disk.active.data) + 1
    BY <1>1, <1>3, <2>1
  <2>3. synced' \in 0 .. Len(disk'.active.data)
    BY <1>1, <1>4, <2>2
  <2>4. pc' \in FileSteps
    BY <1>4 DEF FileSteps
  <2>5. bodies' \in Nat
    BY <1>1, <1>4
  <2>6. QED
    BY <1>1, <1>4, <1>5, <1>6, <2>3, <2>4, <2>5 DEF JournalTyped
<1>8. WriterSound'
  <2>1. mem'.count = LastOrdinal(disk') + Len(ActiveData(disk'))
    BY <1>6 DEF FramesTotal
  <2>2. disk'.active.chunk = Len(disk'.manifests) /\ ~disk'.active.torn
    BY <1>2, <1>5
  <2>3. QED
    BY <1>2, <1>4, <1>5, <1>6, <2>1, <2>2 DEF WriterSound
<1>9. AckedCovered'
  BY <1>1, <1>4, <1>5 DEF AckedCovered
<1>10. View!Append1
  <2>1. FramesTotal(disk') \in Nat
    BY <1>5
  <2> DEFINE b == ReadableBodies(disk)
             a == ReadableBodies(disk')
  <2>2. /\ Len(b) = FramesTotal(disk) /\ \A n \in 1 .. FramesTotal(disk) : b[n] = FrameOf(disk, n).body
        /\ \E S : b \in Seq(S)
    BY <1>5, BodiesParts
  <2>3. /\ Len(a) = FramesTotal(disk') /\ \A n \in 1 .. FramesTotal(disk') : a[n] = FrameOf(disk', n).body
        /\ \E S : a \in Seq(S)
    BY <2>1, BodiesParts
  <2> HIDE DEF a, b
  <2>4. \A n \in 1 .. FramesTotal(disk) : n \in 1 .. FramesTotal(disk')
    BY <1>5
  <2>5. \A n \in 1 .. Len(b) : a[n] = b[n]
    BY <1>5, <2>2, <2>3, <2>4
  <2>6. Len(a) = Len(b) + 1
    BY <1>5, <2>2, <2>3
  <2>7. View!Front(a) = b
    BY <2>2, <2>3, <2>5, <2>6, FrontOf
  <2>8. Established' = Established /\ (Established => disk'.mark[1].ord = disk.mark[1].ord)
    BY <1>5 DEF Established
  <2>9. QED
    BY <2>6, <2>7, <2>8 DEF View!Append1, a, b
<1>11. QED
  BY <1>4, <1>5, <1>7, <1>8, <1>9, <1>10 DEF JournalInv, LogSteps, View!LogNext

\* A failed append leaves at most part of a frame behind the others.
LEMMA AppendFailsKeeps ==
  ASSUME JournalInv, AppendFails
  PROVE  JournalInv' /\ SameLog(disk, disk')
<1>1. /\ disk \in Disk /\ Len(disk.mark) <= 1 /\ DiskSound(disk, synced) /\ WriterSound
      /\ AckedCovered /\ JournalTyped /\ disk.active \in ActiveFile
      /\ Len(disk.manifests) \in Nat /\ mem \in Writer
  BY DEF JournalInv, JournalTyped, Disk
<1>2. /\ mem.state = "OPEN" /\ pc = "idle" /\ disk.mark # <<>>
      /\ disk.active.chunk = Len(disk.manifests)
  <2>1. mem.state = "OPEN" /\ pc = "idle"
    BY DEF AppendFails, Idle
  <2>2. QED
    BY <1>1, <2>1 DEF WriterSound
<1>3. PICK torn \in BOOLEAN : disk' = [disk EXCEPT !.active.torn = torn]
  BY DEF AppendFails
<1>4. /\ mem' = [mem EXCEPT !.state = "FAILED"] /\ synced' = synced /\ pc' = pc
      /\ acked' = acked /\ bodies' = bodies /\ crashes' = crashes
  BY DEF AppendFails
<1>5. /\ disk' \in Disk /\ disk'.mark = disk.mark /\ disk'.identity = disk.identity
      /\ disk'.zst = disk.zst /\ disk'.manifests = disk.manifests
      /\ disk'.active.chunk = disk.active.chunk /\ disk'.active.data = disk.active.data
  <2>1. disk'.active = [disk.active EXCEPT !.torn = torn]
    BY <1>1, <1>3 DEF Disk
  <2>2. disk' = [disk EXCEPT !.active = [disk.active EXCEPT !.torn = torn]]
    BY <1>3
  <2>3. [disk.active EXCEPT !.torn = torn] \in ActiveFile
    BY <1>1, <1>3 DEF ActiveFile
  <2>4. disk' \in Disk
    BY <1>1, <2>2, <2>3 DEF Disk
  <2>5. QED
    BY <1>1, <2>1, <2>2, <2>4 DEF Disk, ActiveFile
<1>6. /\ LastOrdinal(disk') = LastOrdinal(disk) /\ ActiveData(disk') = ActiveData(disk)
      /\ \A c \in Nat : ChunkFrames(disk', c) = ChunkFrames(disk, c)
  BY <1>5 DEF LastOrdinal, ActiveData, ActiveIndex, ChunkFrames
<1>7. DiskSound(disk', synced')
  <2>1. ActiveSound(disk', synced)
    <3>1. Scans(disk.active.data, LastOrdinal(disk) + 1)
      BY <1>1, <1>2 DEF DiskSound, ActiveSound
    <3>2. QED
      BY <1>2, <1>5, <1>6, <3>1 DEF ActiveSound
  <2>2. MarkSound(disk', synced)
    <3>1. disk.mark[1].chunk \in Nat
      <4>1. disk.mark \in Seq(Mark)
        BY <1>1 DEF Disk
      <4>2. disk.mark[1] \in Mark
        BY <1>1, <1>2, <4>1, OneMark
      <4>3. QED
        BY <4>2 DEF Mark
    <3>2. QED
      BY <1>1, <1>2, <1>5, <1>6, <3>1 DEF DiskSound, MarkSound
  <2>3. QED
    BY <1>1, <1>4, <1>5, <2>1, <2>2 DEF DiskSound
<1>8. SameLog(disk, disk') /\ References(disk') = References(disk)
  <2>1. Orderly(disk) /\ Orderly(disk')
    BY <1>1, <1>5, <1>7 DEF Orderly, DiskSound
  <2>2. FramesTotal(disk') = FramesTotal(disk) /\ Durable(disk') = Durable(disk)
    BY <1>5, <1>6 DEF FramesTotal, Durable
  <2>3. QED
    BY <1>6, <2>1, <2>2, SameChunks
<1>9. JournalTyped'
  <2>1. mem' \in Writer
    BY <1>1, <1>4 DEF Writer
  <2>2. QED
    BY <1>1, <1>4, <1>5, <2>1 DEF JournalTyped
<1>10. WriterSound'
  <2>1. mem'.state = "FAILED"
    BY <1>1, <1>4 DEF Writer
  <2>2. QED
    BY <1>1, <1>2, <1>4, <1>5, <2>1 DEF WriterSound
<1>11. AckedCovered'
  BY <1>1, <1>4, <1>5, <1>8 DEF AckedCovered
<1>12. QED
  BY <1>7, <1>8, <1>9, <1>10, <1>11 DEF JournalInv

\* Everything that can be read is before the end of the active file.
LEMMA AllBeforeEnd ==
  ASSUME NEW d, Orderly(d), NEW r, r \in References(d), d.mark # <<>>, Len(d.mark) <= 1,
         NEW s, MarkSound(d, s), d.active.chunk = Len(d.manifests),
         NEW m, m = [chunk |-> Len(d.manifests), end |-> Len(d.active.data), ord |-> FramesTotal(d)]
  PROVE  Covers(m, r.ref)
<1>1. Len(d.manifests) \in Nat /\ ActiveData(d) = d.active.data
  BY DEF Orderly, Disk, ActiveData, ActiveIndex
<1>2. PICK c \in Nat : \E p \in 1 .. Len(ChunkFrames(d, c)) : r = RefAt(d, c, p)
  BY ReferenceParts
<1>3. PICK p \in 1 .. Len(ChunkFrames(d, c)) : r = RefAt(d, c, p)
  BY <1>2
<1>4. r.ref.ord = Base(d.manifests, c) + p /\ r.ref.chunk = c /\ r.ref.pos + 1 = p
  BY <1>3, CutsOnce
<1>5. c \in 0 .. Len(d.manifests) /\ Len(ChunkFrames(d, c)) \in Nat /\ Base(d.manifests, c) \in Nat
  <2>1. ChunkFrames(d, c) # <<>>
    OBVIOUS
  <2>2. ~(c > Len(d.manifests)) /\ Len(ChunkFrames(d, c)) \in Nat
    BY <1>1, <2>1, ChunkParts
  <2>3. c \in 0 .. Len(d.manifests)
    BY <1>1, <2>2
  <2>4. c \in Nat /\ c <= Len(d.manifests)
    BY <1>1, <2>3
  <2>5. Base(d.manifests, c) \in Nat
    BY <2>4, ChunkParts
  <2>6. QED
    BY <2>2, <2>3, <2>5
<1>6. Base(d.manifests, c) + Len(ChunkFrames(d, c)) <= FramesTotal(d) /\ FramesTotal(d) \in Nat
  BY <1>5, OrdinalParts
<1>7. r.ref.ord <= FramesTotal(d)
  BY <1>3, <1>4, <1>5, <1>6
<1>8. c = Len(d.manifests) => ChunkFrames(d, c) = d.active.data
  BY <1>1 DEF ChunkFrames, ActiveIndex
<1>9. c < Len(d.manifests) \/ (c = Len(d.manifests) /\ p <= Len(d.active.data))
  BY <1>1, <1>5, <1>8
<1>10. QED
  BY <1>4, <1>7, <1>9 DEF Covers

\* A watermark is written of what was fsynced, and covers all that was.
LEMMA PublishMarkKeeps ==
  ASSUME JournalInv, PublishMark
  PROVE  JournalInv' /\ View!LogNext
<1>1. /\ disk \in Disk /\ Len(disk.mark) <= 1 /\ DiskSound(disk, synced) /\ WriterSound
      /\ AckedCovered /\ JournalTyped /\ disk.active \in ActiveFile
      /\ Len(disk.manifests) \in Nat /\ mem \in Writer /\ Len(disk.active.data) \in Nat
      /\ disk.active.data \in Seq(Frame) /\ Orderly(disk) /\ MarkSound(disk, synced)
      /\ mem.count \in Nat
  BY DEF JournalInv, JournalTyped, Disk, ActiveFile, DiskSound, Orderly, Writer
<1>2. /\ mem.state = "OPEN" /\ pc \in {"mark", "sealed mark"} /\ disk.mark # <<>>
      /\ disk.active.chunk = Len(disk.manifests) /\ synced = Len(disk.active.data)
      /\ mem.manifests = disk.manifests /\ ~disk.active.torn /\ disk.identity
      /\ mem.count = LastOrdinal(disk) + Len(ActiveData(disk))
  <2>1. mem.state = "OPEN" /\ pc \in {"mark", "sealed mark"}
    BY DEF PublishMark
  <2>2. QED
    BY <1>1, <2>1 DEF WriterSound
<1>3. ActiveData(disk) = disk.active.data /\ mem.count = FramesTotal(disk)
  BY <1>2 DEF ActiveData, ActiveIndex, FramesTotal
<1> DEFINE m == NewMark
<1>4. m = [chunk |-> Len(disk.manifests), end |-> Len(disk.active.data), ord |-> FramesTotal(disk)]
  BY <1>2, <1>3 DEF NewMark
<1>5. m \in Mark
  BY <1>1, <1>3, <1>4 DEF Mark
<1>6. /\ disk' = [disk EXCEPT !.mark = <<m>>] /\ mem' = [mem EXCEPT !.mark = m]
      /\ acked' = acked \cup {r \in References(disk) : Covers(m, r.ref)}
      /\ pc' = (IF pc = "mark" \/ m.end = 0 THEN "idle" ELSE "zst")
      /\ synced' = synced /\ bodies' = bodies /\ crashes' = crashes
  BY DEF PublishMark
<1> HIDE DEF m
<1>7. /\ disk' \in Disk /\ disk'.mark = <<m>> /\ disk'.identity = disk.identity
      /\ disk'.zst = disk.zst /\ disk'.manifests = disk.manifests /\ disk'.active = disk.active
      /\ Len(disk'.mark) = 1 /\ disk'.mark # <<>> /\ disk'.mark[1] = m
  <2>1. <<m>> \in Seq(Mark) /\ Len(<<m>>) = 1 /\ <<m>> # <<>> /\ <<m>>[1] = m
    BY <1>5
  <2>2. QED
    BY <1>1, <1>6, <2>1 DEF Disk
<1>8. /\ LastOrdinal(disk') = LastOrdinal(disk) /\ ActiveData(disk') = ActiveData(disk)
      /\ \A c \in Nat : ChunkFrames(disk', c) = ChunkFrames(disk, c)
  BY <1>7 DEF LastOrdinal, ActiveData, ActiveIndex, ChunkFrames
<1>9. ActiveSound(disk', synced')
  BY <1>1, <1>6, <1>7, <1>8 DEF DiskSound, ActiveSound
<1>10. MarkSound(disk', synced')
  <2>1. ChunkFrames(disk', Len(disk.manifests)) = disk.active.data
    BY <1>1, <1>3, <1>8 DEF ChunkFrames, ActiveIndex
  <2>2. Base(disk.manifests, Len(disk.manifests)) = LastOrdinal(disk)
    BY <1>1, ChunkParts
  <2>3. /\ m.chunk = Len(disk.manifests) /\ m.end = Len(disk.active.data) /\ m.ord = FramesTotal(disk)
    BY <1>4
  <2>4. FramesTotal(disk) = LastOrdinal(disk) + Len(disk.active.data)
    BY <1>3 DEF FramesTotal
  <2> DEFINE n == Len(disk.manifests)
             len == Len(disk.active.data)
  <2>5. /\ m.chunk = n /\ m.end = len /\ len \in Nat /\ n \in Nat
        /\ m.ord = Base(disk.manifests, n) + len
        /\ Len(ChunkFrames(disk', n)) = len /\ synced' = len /\ Len(disk'.manifests) = n
    BY <1>1, <1>2, <1>6, <1>7, <2>1, <2>2, <2>3, <2>4
  <2> HIDE DEF n, len
  <2>6. /\ m.chunk <= Len(disk'.manifests) /\ m.ord = Base(disk'.manifests, m.chunk) + m.end
        /\ m.end <= Len(ChunkFrames(disk', m.chunk)) /\ m.end <= synced'
    BY <1>7, <2>5
  <2>7. QED
    BY <1>7, <2>6 DEF MarkSound
<1>11. DiskSound(disk', synced') /\ Orderly(disk')
  BY <1>1, <1>7, <1>9, <1>10 DEF DiskSound, Orderly
<1>12. References(disk') = References(disk) /\ ReadableBodies(disk') = ReadableBodies(disk)
  <2>1. References(disk') = References(disk)
    BY <1>1, <1>8, <1>11, SameReferences
  <2>2. QED
    BY <1>8, <2>1 DEF ReadableBodies, FrameOf
<1>13. AckedCovered'
  <2>1. \A r \in References(disk) : Covers(m, r.ref)
    BY <1>1, <1>2, <1>4, AllBeforeEnd
  <2>2. QED
    BY <1>1, <1>6, <1>7, <1>12, <2>1 DEF AckedCovered
<1>14. JournalTyped'
  <2>1. mem' \in Writer
    BY <1>1, <1>5, <1>6 DEF Writer
  <2>2. pc' \in FileSteps /\ Len(disk'.mark) <= 1
    BY <1>6, <1>7 DEF FileSteps
  <2>3. QED
    BY <1>1, <1>6, <1>7, <2>1, <2>2 DEF JournalTyped
<1>15. WriterSound'
  <2>1. /\ mem'.state = mem.state /\ mem'.count = mem.count /\ mem'.manifests = mem.manifests
    BY <1>1, <1>6 DEF Writer
  <2>2. pc' = "zst" => disk.active.data # <<>>
    <3>1. pc' = "zst" => m.end # 0
      BY <1>6
    <3>2. QED
      BY <1>1, <1>4, <3>1, EmptySeq
  <2>3. pc' \in {"idle", "zst"}
    BY <1>6
  <2>4. QED
    BY <1>2, <1>3, <1>4, <1>6, <1>7, <1>8, <2>1, <2>2, <2>3 DEF WriterSound
<1>16. View!Sync
  <2>1. FramesTotal(disk) \in Nat
    BY <1>1, <1>3
  <2>2. Len(ReadableBodies(disk)) = FramesTotal(disk)
    BY <2>1, BodiesParts
  <2>3. (IF Established THEN disk.mark[1].ord ELSE 0)' = FramesTotal(disk)
    BY <1>4, <1>7 DEF Established
  <2>4. QED
    BY <1>12, <2>2, <2>3 DEF View!Sync
<1>17. QED
  BY <1>11, <1>13, <1>14, <1>15, <1>16 DEF JournalInv, View!LogNext

\* A chunk file is a copy no manifest names yet.
LEMMA WriteChunkKeeps ==
  ASSUME JournalInv, WriteChunk
  PROVE  JournalInv' /\ SameLog(disk, disk')
<1> DEFINE n == Len(disk.manifests)
           data == disk.active.data
           zst == Append(SubSeq(disk.zst, 1, n), data)
<1>1. /\ disk \in Disk /\ Len(disk.mark) <= 1 /\ DiskSound(disk, synced) /\ WriterSound
      /\ AckedCovered /\ JournalTyped /\ disk.active \in ActiveFile
      /\ n \in Nat /\ mem \in Writer /\ data \in Seq(Frame) /\ disk.zst \in Seq(Seq(Frame))
      /\ Chained(disk.zst, disk.manifests) /\ ActiveSound(disk, synced) /\ MarkSound(disk, synced)
      /\ Orderly(disk) /\ Len(disk.zst) \in Nat /\ n <= Len(disk.zst) /\ disk.mark \in Seq(Mark)
  BY DEF JournalInv, JournalTyped, Disk, ActiveFile, DiskSound, Orderly, Writer, Chained
<1>2. /\ mem.state = "OPEN" /\ pc = "zst" /\ disk.mark # <<>> /\ mem.manifests = disk.manifests
      /\ pc' = "manifest" /\ disk' = [disk EXCEPT !.zst = zst]
      /\ synced' = synced /\ mem' = mem /\ acked' = acked /\ bodies' = bodies
      /\ crashes' = crashes
  <2>1. mem.state = "OPEN" /\ pc = "zst"
    BY DEF WriteChunk
  <2>2. mem.manifests = disk.manifests /\ disk.mark # <<>>
    BY <1>1, <2>1 DEF WriterSound
  <2>3. QED
    BY <2>1, <2>2 DEF WriteChunk
<1> HIDE DEF zst
<1>3. /\ zst \in Seq(Seq(Frame)) /\ Len(zst) = n + 1 /\ zst[n + 1] = data
      /\ \A k \in 1 .. n : zst[k] = disk.zst[k]
  <2> DEFINE old == SubSeq(disk.zst, 1, n)
  <2>1. old \in Seq(Seq(Frame)) /\ Len(old) = n /\ \A k \in 1 .. n : old[k] = disk.zst[k]
    <3>1. \A k \in 1 .. n : disk.zst[k] \in Seq(Frame)
      BY <1>1
    <3> HIDE DEF n
    <3>2. /\ old \in Seq(Seq(Frame)) /\ Len(old) = (IF 1 <= n THEN n - 1 + 1 ELSE 0)
          /\ \A k \in 1 .. n - 1 + 1 : old[k] = disk.zst[1 + k - 1]
      BY <1>1, <3>1, SubSeqProperties
    <3>3. n - 1 + 1 = n /\ \A k \in 1 .. n : 1 + k - 1 = k
      BY <1>1
    <3>4. QED
      BY <1>1, <3>2, <3>3
  <2> HIDE DEF old, n, data
  <2>2. /\ Append(old, data) \in Seq(Seq(Frame)) /\ Len(Append(old, data)) = Len(old) + 1
        /\ \A k \in 1 .. Len(old) : Append(old, data)[k] = old[k]
        /\ Append(old, data)[Len(old) + 1] = data
    <3>1. old \in Seq(Seq(Frame)) /\ data \in Seq(Frame)
      BY <1>1, <2>1
    <3>2. QED
      BY <3>1, AppendProperties
  <2> USE DEF old
  <2>3. zst = Append(old, data)
    BY DEF zst, n, data
  <2> HIDE DEF old
  <2>4. QED
    BY <2>1, <2>2, <2>3
<1>4. /\ disk' \in Disk /\ disk'.mark = disk.mark /\ disk'.identity = disk.identity
      /\ disk'.zst = zst /\ disk'.manifests = disk.manifests /\ disk'.active = disk.active
  BY <1>1, <1>2, <1>3 DEF Disk
<1>5. /\ LastOrdinal(disk') = LastOrdinal(disk) /\ ActiveData(disk') = ActiveData(disk)
      /\ \A c \in Nat : ChunkFrames(disk', c) = ChunkFrames(disk, c)
  <2>1. LastOrdinal(disk') = LastOrdinal(disk) /\ ActiveData(disk') = ActiveData(disk)
        /\ ActiveIndex(disk') = ActiveIndex(disk)
    BY <1>4 DEF LastOrdinal, ActiveData, ActiveIndex
  <2>2. ASSUME NEW c \in Nat, c \in 0 .. n - 1 PROVE zst[c + 1] = disk.zst[c + 1]
    <3>1. c + 1 \in 1 .. n
      BY <1>1, <2>2
    <3>2. QED
      BY <1>3, <3>1
  <2>3. QED
    BY <1>4, <2>1, <2>2 DEF ChunkFrames
<1>6. Chained(disk'.zst, disk'.manifests)
  <2>1. n <= Len(zst)
    BY <1>1, <1>3
  <2>2. QED
    BY <1>1, <1>3, <1>4, <2>1 DEF Chained
<1>7. ActiveSound(disk', synced')
  <2>1. disk.active.chunk = n
    BY <1>1, <1>2 DEF WriterSound
  <2>2. Scans(data, LastOrdinal(disk) + 1)
    BY <1>1, <2>1 DEF ActiveSound
  <2>3. QED
    BY <1>4, <1>5, <2>1, <2>2 DEF ActiveSound
<1>8. MarkSound(disk', synced')
  <2>1. disk.mark[1].chunk \in Nat
    <3>1. disk.mark[1] \in Mark
      BY <1>1, <1>2, OneMark
    <3>2. QED
      BY <3>1 DEF Mark
  <2>2. QED
    BY <1>1, <1>2, <1>4, <1>5, <2>1 DEF MarkSound
<1>9. DiskSound(disk', synced') /\ Orderly(disk')
  BY <1>4, <1>6, <1>7, <1>8 DEF DiskSound, Orderly
<1>10. SameLog(disk, disk') /\ References(disk') = References(disk)
  <2>1. FramesTotal(disk') = FramesTotal(disk) /\ Durable(disk') = Durable(disk)
    BY <1>4, <1>5 DEF FramesTotal, Durable
  <2>2. QED
    BY <1>1, <1>5, <1>9, <2>1, SameChunks
<1>11. JournalTyped'
  BY <1>1, <1>2, <1>4 DEF JournalTyped, FileSteps
<1>12. WriterSound'
  BY <1>1, <1>2, <1>3, <1>4, <1>5 DEF WriterSound
<1>13. AckedCovered'
  BY <1>1, <1>2, <1>4, <1>10 DEF AckedCovered
<1>14. QED
  BY <1>9, <1>10, <1>11, <1>12, <1>13 DEF JournalInv

\* A manifest publishes the chunk whose frames the watermark covers.
LEMMA PublishChunkKeeps ==
  ASSUME JournalInv, PublishChunk
  PROVE  JournalInv' /\ SameLog(disk, disk')
<1> DEFINE n == Len(disk.manifests)
           data == disk.active.data
           ms == disk.manifests
           new == NewManifest
           after == Append(ms, new)
<1>1. /\ disk \in Disk /\ Len(disk.mark) <= 1 /\ DiskSound(disk, synced) /\ WriterSound
      /\ AckedCovered /\ JournalTyped /\ disk.active \in ActiveFile
      /\ n \in Nat /\ mem \in Writer /\ data \in Seq(Frame) /\ disk.zst \in Seq(Seq(Frame))
      /\ Chained(disk.zst, ms) /\ ActiveSound(disk, synced) /\ MarkSound(disk, synced)
      /\ Orderly(disk) /\ disk.mark \in Seq(Mark) /\ ms \in Seq(Manifest) /\ Len(data) \in Nat
      /\ mem.count \in Nat
  BY DEF JournalInv, JournalTyped, Disk, ActiveFile, DiskSound, Orderly, Writer
<1>2. /\ mem.state = "OPEN" /\ pc = "manifest" /\ disk.mark # <<>> /\ mem.manifests = ms
      /\ pc' = "unlink" /\ disk' = [disk EXCEPT !.manifests = after]
      /\ mem' = [mem EXCEPT !.manifests = after]
      /\ synced' = synced /\ acked' = acked /\ bodies' = bodies /\ crashes' = crashes
      /\ ~disk.active.torn /\ synced = Len(data) /\ data # <<>> /\ disk.identity
      /\ mem.count = LastOrdinal(disk) + Len(ActiveData(disk))
      /\ Len(disk.zst) = n + 1 /\ disk.zst[n + 1] = data
      /\ disk.mark[1] = [chunk |-> n, end |-> Len(data), ord |-> mem.count]
  <2>1. mem.state = "OPEN" /\ pc = "manifest" /\ pc' = "unlink"
        /\ disk' = [disk EXCEPT !.manifests = Append(@, new)]
        /\ mem' = [mem EXCEPT !.manifests = Append(@, new)]
        /\ synced' = synced /\ acked' = acked /\ bodies' = bodies /\ crashes' = crashes
    BY DEF PublishChunk
  <2>2. /\ mem.manifests = ms /\ disk.mark # <<>> /\ ~disk.active.torn /\ synced = Len(data)
        /\ data # <<>> /\ disk.identity
        /\ mem.count = LastOrdinal(disk) + Len(ActiveData(disk))
        /\ Len(disk.zst) = n + 1 /\ disk.zst[n + 1] = data
        /\ disk.mark[1] = [chunk |-> n, end |-> Len(data), ord |-> mem.count]
    BY <1>1, <2>1 DEF WriterSound
  <2>3. QED
    BY <2>1, <2>2
<1>3. disk.active.chunk = n
  BY <1>1, <1>2 DEF WriterSound
<1>4. /\ ActiveData(disk) = data /\ mem.count = FramesTotal(disk) /\ LastOrdinal(disk) = Base(ms, n)
      /\ Base(ms, n) \in Nat /\ mem.count = Base(ms, n) + Len(data)
      /\ ChunkFrames(disk, n) = data
  <2>1. n \in Nat /\ n <= Len(ms)
    BY <1>1
  <2>2. ActiveData(disk) = data /\ ChunkFrames(disk, n) = data
    BY <1>3 DEF ActiveData, ActiveIndex, ChunkFrames
  <2>3. LastOrdinal(disk) = Base(ms, n) /\ Base(ms, n) \in Nat
    BY <1>1, <2>1, ChunkParts
  <2>4. QED
    BY <1>2, <2>2, <2>3 DEF FramesTotal
<1>5. new = [data |-> data, first |-> Base(ms, n) + 1, last |-> mem.count] /\ new \in Manifest
  <2>1. IF ms = <<>> THEN Base(ms, n) = 0 ELSE Base(ms, n) = Last(ms).last
    BY <1>4 DEF LastOrdinal
  <2>2. new = [data |-> data, first |-> Base(ms, n) + 1, last |-> mem.count]
    <3>1. 0 + 1 = 1
      OBVIOUS
    <3>2. (IF ms = <<>> THEN 1 ELSE Last(ms).last + 1) = Base(ms, n) + 1
      BY <2>1, <3>1
    <3>3. QED
      BY <1>2, <3>2 DEF NewManifest
  <2>3. QED
    BY <1>1, <1>4, <2>2 DEF Manifest
<1> HIDE DEF new
<1>6. /\ after \in Seq(Manifest) /\ Len(after) = n + 1 /\ after[n + 1] = new
      /\ \A k \in 1 .. n : after[k] = ms[k]
  BY <1>1, <1>5, AppendProperties
<1> HIDE DEF after
<1>7. /\ disk' \in Disk /\ disk'.mark = disk.mark /\ disk'.identity = disk.identity
      /\ disk'.zst = disk.zst /\ disk'.manifests = after /\ disk'.active = disk.active
      /\ mem' \in Writer /\ mem'.state = "OPEN" /\ mem'.count = mem.count
      /\ mem'.manifests = after
  <2>1. disk' \in Disk /\ mem' \in Writer
    BY <1>1, <1>2, <1>6 DEF Disk, Writer
  <2>2. QED
    BY <1>1, <1>2, <2>1 DEF Disk, Writer
<1>8. /\ \A c \in 0 .. n : Base(after, c) = Base(ms, c)
      /\ Base(after, n + 1) = Base(ms, n) + Len(data)
  <2>1. ASSUME NEW c \in 0 .. n PROVE Base(after, c) = Base(ms, c)
    <3>1. c = 0 \/ c \in 1 .. n
      BY <1>1
    <3>2. QED
      BY <1>6, <3>1 DEF Base
  <2>2. n + 1 # 0 /\ after[n + 1].last = mem.count
    BY <1>1, <1>5, <1>6
  <2>3. Base(after, n + 1) = Base(ms, n) + Len(data)
    BY <1>4, <2>2 DEF Base
  <2>4. QED
    BY <2>1, <2>3
<1>9. Chained(disk'.zst, disk'.manifests)
  <2>1. ASSUME NEW k \in 1 .. n + 1
        PROVE  /\ disk.zst[k] = after[k].data /\ after[k].data # <<>>
               /\ after[k].first = Base(after, k - 1) + 1 /\ Scans(after[k].data, after[k].first)
               /\ after[k].last = Base(after, k - 1) + Len(after[k].data)
    <3>1. CASE k = n + 1
      <4>1. k - 1 = n /\ n \in 0 .. n
        BY <1>1, <3>1
      <4>2. Base(after, k - 1) = Base(ms, n)
        BY <1>8, <4>1
      <4>3. Scans(data, Base(ms, n) + 1)
        BY <1>1, <1>3, <1>4 DEF ActiveSound
      <4>4. /\ after[k].data = data /\ after[k].first = Base(ms, n) + 1
            /\ after[k].last = Base(ms, n) + Len(data)
        BY <1>4, <1>5, <1>6, <3>1
      <4>5. disk.zst[k] = data /\ data # <<>>
        BY <1>2, <3>1
      <4>6. QED
        BY <4>2, <4>3, <4>4, <4>5
    <3>2. CASE k # n + 1
      <4>1. k \in 1 .. n /\ k - 1 \in 0 .. n
        BY <1>1, <2>1, <3>2
      <4>2. Base(after, k - 1) = Base(ms, k - 1) /\ after[k] = ms[k]
        BY <1>6, <1>8, <4>1
      <4>3. /\ disk.zst[k] = ms[k].data /\ ms[k].data # <<>>
            /\ ms[k].first = Base(ms, k - 1) + 1 /\ Scans(ms[k].data, ms[k].first)
            /\ ms[k].last = Base(ms, k - 1) + Len(ms[k].data)
        BY <1>1, <4>1 DEF Chained
      <4>4. QED
        BY <4>2, <4>3
    <3>3. QED
      BY <3>1, <3>2
  <2>2. ASSUME NEW c \in 0 .. n + 1, NEW e \in 0 .. n + 1, c < e
        PROVE  Base(after, c) < Base(after, e)
    <3>1. c \in 0 .. n /\ (e \in 0 .. n \/ e = n + 1)
      BY <1>1, <2>2
    <3>2. Base(after, c) = Base(ms, c)
      BY <1>8, <3>1
    <3>3. CASE e \in 0 .. n
      <4>1. Base(ms, c) < Base(ms, e)
        BY <1>1, <2>2, <3>1, <3>3 DEF Chained
      <4>2. QED
        BY <1>8, <3>2, <3>3, <4>1
    <3>4. CASE e = n + 1
      <4>1. Base(ms, c) \in Nat /\ (c = n \/ Base(ms, c) < Base(ms, n))
        <5>1. c \in Nat /\ c <= Len(ms) /\ n \in 0 .. n /\ (c = n \/ c < n)
          BY <1>1, <3>1
        <5>2. Base(ms, c) \in Nat
          BY <1>1, <5>1, ChunkParts
        <5>3. c < n => Base(ms, c) < Base(ms, n)
          BY <1>1, <3>1, <5>1 DEF Chained
        <5>4. QED
          BY <5>1, <5>2, <5>3
      <4>2. Len(data) # 0 /\ Len(data) \in Nat
        BY <1>1, <1>2, EmptySeq
      <4> DEFINE len == Len(data)
                 b == Base(ms, c)
                 t == Base(ms, n)
      <4>3. /\ b \in Nat /\ t \in Nat /\ len \in Nat /\ len # 0 /\ (b = t \/ b < t)
            /\ Base(after, e) = t + len /\ Base(after, c) = b
        BY <1>4, <1>8, <3>2, <3>4, <4>1, <4>2
      <4> HIDE DEF len, b, t
      <4>4. QED
        BY <4>3
    <3>5. QED
      BY <3>1, <3>3, <3>4
  <2>3. Len(after) = n + 1 /\ Len(after) <= Len(disk.zst)
    BY <1>1, <1>2, <1>6
  <2>4. QED
    BY <1>7, <2>1, <2>2, <2>3 DEF Chained
<1>10. ActiveSound(disk', synced')
  <2>1. Len(after) > 0 /\ n = Len(after) - 1 /\ Len(after) = n + 1
    BY <1>1, <1>6
  <2>2. QED
    BY <1>2, <1>3, <1>7, <2>1 DEF ActiveSound
<1>11. Orderly(disk')
  BY <1>7, <1>9, <1>10 DEF Orderly
<1>12. /\ ActiveData(disk') = <<>> /\ ActiveIndex(disk') = n + 1 /\ Len(<<>>) = 0
       /\ \A c \in Nat : ChunkFrames(disk', c) = ChunkFrames(disk, c)
  <2>1. /\ ActiveIndex(disk') = n + 1 /\ n + 1 # n /\ Len(<<>>) = 0 /\ Len(disk'.manifests) - 1 = n
        /\ ActiveIndex(disk) = n
    BY <1>1, <1>6, <1>7 DEF ActiveIndex
  <2>2. ActiveData(disk') = <<>>
    BY <1>3, <1>7, <2>1 DEF ActiveData
  <2>3. ASSUME NEW c \in Nat PROVE ChunkFrames(disk', c) = ChunkFrames(disk, c)
    <3>1. CASE c = n
      <4>1. c \in 0 .. n
        BY <1>1, <3>1
      <4>2. ChunkFrames(disk', c) = disk'.zst[c + 1]
        BY <2>1, <3>1, <4>1 DEF ChunkFrames
      <4>3. QED
        BY <1>2, <1>4, <1>7, <3>1, <4>2
    <3>2. CASE c = n + 1
      <4>1. ChunkFrames(disk', c) = <<>>
        BY <2>1, <2>2, <3>2 DEF ChunkFrames
      <4>2. c > Len(ms)
        BY <1>1, <3>2
      <4>3. QED
        BY <1>1, <4>1, <4>2, ChunkParts
    <3>3. CASE c # n /\ c # n + 1
      <4>1. c \in 0 .. n <=> c \in 0 .. n - 1
        BY <1>1, <3>3
      <4>2. QED
        BY <1>7, <2>1, <3>3, <4>1 DEF ChunkFrames
    <3>4. QED
      BY <3>1, <3>2, <3>3
  <2>4. QED
    BY <2>1, <2>2, <2>3
<1>13. LastOrdinal(disk') = mem.count
  <2>1. LastOrdinal(disk') = Base(after, n + 1)
    <3>1. Len(disk'.manifests) = n + 1 /\ 0 \in Nat
      BY <1>6, <1>7
    <3>2. LastOrdinal(disk') = Base(disk'.manifests, Len(disk'.manifests))
      BY <1>11, <3>1, ChunkParts
    <3>3. QED
      BY <1>7, <3>1, <3>2
  <2>2. QED
    BY <1>4, <1>8, <2>1
<1>14. MarkSound(disk', synced')
  <2> DEFINE m == disk.mark[1]
             len == Len(data)
  <2>1. /\ m.chunk = n /\ m.end = len /\ m.ord = mem.count /\ len \in Nat /\ n \in Nat
        /\ synced' = len /\ Len(disk'.manifests) = n + 1 /\ mem.count = Base(ms, n) + len
    BY <1>1, <1>2, <1>4, <1>6, <1>7
  <2>2. Base(after, n) = Base(ms, n) /\ ChunkFrames(disk', n) = data
    <3>1. n \in 0 .. n /\ n \in Nat
      BY <1>1
    <3>2. QED
      BY <1>4, <1>8, <1>12, <3>1
  <2>3. Len(ChunkFrames(disk', m.chunk)) = len
    BY <2>1, <2>2
  <2> HIDE DEF m, len, n, data
  <2>4. /\ m.chunk <= Len(disk'.manifests) /\ m.ord = Base(disk'.manifests, m.chunk) + m.end
        /\ m.end <= Len(ChunkFrames(disk', m.chunk)) /\ m.end <= synced'
    BY <1>7, <2>1, <2>2, <2>3
  <2> USE DEF m
  <2>5. QED
    BY <1>2, <1>7, <2>4 DEF MarkSound
<1>15. DiskSound(disk', synced')
  BY <1>9, <1>10, <1>14 DEF DiskSound
<1>16. SameLog(disk, disk') /\ References(disk') = References(disk)
  <2>1. FramesTotal(disk') = FramesTotal(disk)
    <3>1. mem.count + 0 = mem.count
      BY <1>1
    <3>2. QED
      BY <1>4, <1>12, <1>13, <3>1 DEF FramesTotal
  <2>2. Durable(disk') = Durable(disk)
    BY <1>7 DEF Durable
  <2>3. QED
    BY <1>1, <1>11, <1>12, <2>1, <2>2, SameChunks
<1>17. JournalTyped'
  BY <1>1, <1>2, <1>7 DEF JournalTyped, FileSteps
<1>18. WriterSound'
  <2>1. /\ Len(disk'.manifests) = n + 1 /\ n + 1 - 1 = n /\ n + 1 > 0
        /\ mem.count = LastOrdinal(disk') + Len(ActiveData(disk'))
    <3>1. Len(disk'.manifests) = n + 1 /\ n + 1 - 1 = n /\ n + 1 > 0
      <4>1. n \in Nat /\ Len(disk'.manifests) = n + 1
        BY <1>1, <1>6, <1>7
      <4> HIDE DEF n
      <4>2. QED
        BY <4>1
    <3>2. mem.count + 0 = mem.count
      BY <1>1
    <3>3. QED
      BY <1>12, <1>13, <3>1, <3>2
  <2>2. /\ disk'.active.chunk = Len(disk'.manifests) - 1 /\ Len(disk'.manifests) > 0
        /\ Len(disk'.zst) = Len(disk'.manifests) /\ ~disk'.active.torn
        /\ disk'.mark # <<>> /\ disk'.identity /\ pc' = "unlink" /\ mem'.state = "OPEN"
        /\ mem'.manifests = disk'.manifests
        /\ mem'.count = LastOrdinal(disk') + Len(ActiveData(disk'))
    BY <1>2, <1>3, <1>7, <2>1
  <2>3. QED
    BY <2>2 DEF WriterSound
<1>19. AckedCovered'
  BY <1>1, <1>2, <1>7, <1>16 DEF AckedCovered
<1>20. QED
  BY <1>15, <1>16, <1>17, <1>18, <1>19 DEF JournalInv

\* The active file cut behind what was synced.
Truncated(d, kept, torn) ==
  [d EXCEPT !.active = [chunk |-> d.active.chunk, data |-> SubSeq(d.active.data, 1, kept),
                        torn |-> torn]]

LEMMA FramesTruncated ==
  ASSUME NEW d, d \in Disk, Len(d.mark) <= 1, d.mark # <<>>, NEW s, DiskSound(d, s),
         s \in 0 .. Len(d.active.data), d.active.chunk = Len(d.manifests),
         NEW kept \in s .. Len(d.active.data), NEW torn \in BOOLEAN
  PROVE  LET e == Truncated(d, kept, torn) IN
         /\ e \in Disk /\ DiskSound(e, s)
         /\ e.mark = d.mark /\ e.identity = d.identity /\ e.zst = d.zst
         /\ e.manifests = d.manifests /\ Len(e.active.data) = kept
         /\ FramesTotal(d) \in Nat /\ FramesTotal(e) \in Durable(d) .. FramesTotal(d)
         /\ \A r \in References(d) : Covers(d.mark[1], r.ref) => r \in References(e)
         /\ \A n \in 1 .. FramesTotal(e) : FrameOf(e, n) = FrameOf(d, n)
<1> DEFINE e == Truncated(d, kept, torn)
           ms == d.manifests
           n == Len(d.manifests)
           data == d.active.data
           cut == SubSeq(data, 1, kept)
           m == d.mark[1]
<1>1. /\ Chained(d.zst, ms) /\ ActiveSound(d, s) /\ MarkSound(d, s) /\ n \in Nat
      /\ d.active \in ActiveFile /\ Orderly(d) /\ data \in Seq(Frame) /\ Len(data) \in Nat
      /\ s \in Nat /\ d.active.chunk = n /\ d.mark \in Seq(Mark)
      /\ kept \in Nat /\ s <= kept /\ kept <= Len(data)
  BY DEF DiskSound, Disk, Orderly, ActiveFile
<1>2. /\ cut \in Seq(Frame) /\ Len(cut) = kept /\ \A k \in 1 .. kept : cut[k] = data[k]
      /\ \A k \in 1 .. kept : k \in 1 .. Len(data)
  <2>1. \A k \in 1 .. kept : k \in 1 .. Len(data) /\ data[k] \in Frame
    <3>1. \A k \in 1 .. kept : k \in 1 .. Len(data)
      BY <1>1
    <3>2. QED
      BY <1>1, <3>1
  <2> HIDE DEF data
  <2>2. /\ cut \in Seq(Frame) /\ Len(cut) = (IF 1 <= kept THEN kept - 1 + 1 ELSE 0)
        /\ \A k \in 1 .. kept - 1 + 1 : cut[k] = data[1 + k - 1]
    BY <1>1, <2>1, SubSeqProperties
  <2>3. kept - 1 + 1 = kept /\ \A k \in 1 .. kept : 1 + k - 1 = k
    BY <1>1
  <2>4. Len(cut) = kept
    BY <1>1, <2>2
  <2>5. QED
    BY <2>1, <2>2, <2>3, <2>4
<1> HIDE DEF cut
<1>3. /\ e.mark = d.mark /\ e.identity = d.identity /\ e.zst = d.zst /\ e.manifests = ms
      /\ e.active = [chunk |-> n, data |-> cut, torn |-> torn] /\ e \in Disk
  <2>1. e = [d EXCEPT !.active = [chunk |-> n, data |-> cut, torn |-> torn]]
    BY <1>1 DEF Truncated, cut
  <2>2. [chunk |-> n, data |-> cut, torn |-> torn] \in ActiveFile
    BY <1>1, <1>2 DEF ActiveFile
  <2> HIDE DEF e
  <2>3. QED
    BY <2>1, <2>2 DEF Disk
<1> HIDE DEF e
<1>4. /\ ActiveIndex(e) = n /\ ActiveIndex(d) = n /\ ActiveData(e) = cut
      /\ ActiveData(d) = data /\ LastOrdinal(e) = LastOrdinal(d)
  BY <1>1, <1>3 DEF ActiveIndex, ActiveData, LastOrdinal
<1>5. /\ \A c \in Nat : c # n => ChunkFrames(e, c) = ChunkFrames(d, c)
      /\ ChunkFrames(e, n) = cut /\ ChunkFrames(d, n) = data
  BY <1>3, <1>4 DEF ChunkFrames
<1>6. /\ LastOrdinal(d) = Base(ms, n) /\ Base(ms, n) \in Nat
      /\ FramesTotal(d) = Base(ms, n) + Len(data) /\ FramesTotal(e) = Base(ms, n) + kept
  <2>1. n \in Nat /\ n <= Len(ms)
    BY <1>1
  <2>2. LastOrdinal(d) = Base(ms, n) /\ Base(ms, n) \in Nat
    BY <1>1, <2>1, ChunkParts
  <2>3. QED
    BY <1>2, <1>4, <2>2 DEF FramesTotal
<1>7. Scans(cut, LastOrdinal(e) + 1)
  <2>1. Scans(data, LastOrdinal(d) + 1)
    BY <1>1 DEF ActiveSound
  <2>2. DOMAIN cut = 1 .. kept /\ DOMAIN data = 1 .. Len(data)
    BY <1>1, <1>2
  <2>3. QED
    BY <1>2, <1>4, <2>1, <2>2 DEF Scans
<1>8. ActiveSound(e, s)
  BY <1>3, <1>4, <1>7 DEF ActiveSound
<1>9. /\ m \in Mark /\ m.chunk \in Nat /\ m.end \in Nat
      /\ m.chunk <= n /\ m.ord = Base(ms, m.chunk) + m.end
      /\ m.end <= Len(ChunkFrames(d, m.chunk))
      /\ m.chunk = n => m.end <= s
  <2>1. m \in Mark
    BY <1>1, OneMark
  <2>2. QED
    BY <1>1, <2>1 DEF MarkSound, Mark
<1> HIDE DEF m
<1>10. MarkSound(e, s)
  <2>1. e.mark # <<>> /\ e.mark[1] = m /\ e.active.chunk = n
    BY <1>3 DEF m
  <2>2. m.end <= Len(ChunkFrames(e, m.chunk))
    <3>1. CASE m.chunk = n
      BY <1>1, <1>2, <1>5, <1>9, <3>1
    <3>2. CASE m.chunk # n
      <4>1. ChunkFrames(e, m.chunk) = ChunkFrames(d, m.chunk)
        BY <1>5, <1>9, <3>2
      <4>2. QED
        BY <1>9, <4>1
    <3>3. QED
      BY <3>1, <3>2
  <2>3. QED
    BY <1>3, <1>9, <2>1, <2>2 DEF MarkSound
<1>11. DiskSound(e, s) /\ Orderly(e)
  BY <1>1, <1>3, <1>8, <1>10 DEF DiskSound, Orderly
<1>12. ASSUME NEW c \in Nat, NEW p \in 1 .. Len(ChunkFrames(e, c))
       PROVE  p \in 1 .. Len(ChunkFrames(d, c)) /\ RefAt(e, c, p) = RefAt(d, c, p)
  <2>1. CASE c = n
    <3>1. p \in 1 .. kept
      BY <1>2, <1>5, <1>12, <2>1
    <3>2. p \in 1 .. Len(data) /\ cut[p] = data[p]
      BY <1>2, <3>1
    <3>3. QED
      BY <1>5, <2>1, <3>2 DEF RefAt
  <2>2. CASE c # n
    <3>1. ChunkFrames(e, c) = ChunkFrames(d, c)
      BY <1>5, <2>2
    <3>2. QED
      BY <3>1 DEF RefAt
  <2>3. QED
    BY <2>1, <2>2
<1>13. \A r \in References(e) : r \in References(d)
  BY <1>1, <1>11, <1>12, ReferenceParts
<1>14. ASSUME NEW c \in Nat, NEW p \in 1 .. Len(ChunkFrames(d, c)), c # n \/ p <= kept
       PROVE  RefAt(d, c, p) \in References(e)
  <2>1. p \in 1 .. Len(ChunkFrames(e, c))
    <3>1. CASE c = n
      <4>1. p \in 1 .. Len(data) /\ p <= kept /\ ChunkFrames(e, c) = cut
        BY <1>5, <1>14, <3>1
      <4>2. p \in 1 .. kept
        BY <1>1, <4>1
      <4>3. QED
        BY <1>2, <4>1, <4>2
    <3>2. CASE c # n
      BY <1>5, <3>2
    <3>3. QED
      BY <3>1, <3>2
  <2>2. RefAt(d, c, p) = RefAt(e, c, p)
    BY <1>12, <2>1
  <2>3. QED
    BY <1>11, <2>1, <2>2, ReferenceParts
<1>15. ASSUME NEW r, r \in References(d), Covers(m, r.ref) PROVE r \in References(e)
  <2>1. PICK c \in Nat : \E p \in 1 .. Len(ChunkFrames(d, c)) : r = RefAt(d, c, p)
    BY <1>1, <1>15, ReferenceParts
  <2>2. PICK p \in 1 .. Len(ChunkFrames(d, c)) : r = RefAt(d, c, p)
    BY <2>1
  <2>3. r.ref.chunk = c /\ r.ref.pos + 1 = p
    BY <1>1, <2>2, CutsOnce
  <2>4. c < m.chunk \/ (c = m.chunk /\ p <= m.end)
    BY <1>15, <2>3 DEF Covers
  <2>5. c # n \/ p <= kept
    <3>1. p \in Nat
      BY <2>2
    <3>2. QED
      BY <1>1, <1>9, <2>4, <3>1
  <2>6. QED
    BY <1>14, <2>2, <2>5
<1>16. ASSUME NEW r, r \in References(d), r.ref.ord <= FramesTotal(e) PROVE r \in References(e)
  <2>1. PICK c \in Nat : \E p \in 1 .. Len(ChunkFrames(d, c)) : r = RefAt(d, c, p)
    BY <1>1, <1>16, ReferenceParts
  <2>2. PICK p \in 1 .. Len(ChunkFrames(d, c)) : r = RefAt(d, c, p)
    BY <2>1
  <2>3. r.ref.ord = Base(ms, c) + p
    BY <1>1, <2>2, CutsOnce
  <2>4. c = n => p <= kept
    <3>1. p \in Nat
      BY <2>2
    <3>2. QED
      BY <1>1, <1>6, <1>16, <2>3, <3>1
  <2>5. QED
    BY <1>14, <2>2, <2>4
<1>17. ASSUME NEW k \in 1 .. FramesTotal(e) PROVE FrameOf(e, k) = FrameOf(d, k)
  <2>1. k <= FramesTotal(e)
    BY <1>1, <1>6
  <2>2. {q \in References(e) : q.ref.ord = k} = {q \in References(d) : q.ref.ord = k}
    BY <1>13, <1>16, <2>1
  <2>3. QED
    BY <2>2 DEF FrameOf
<1>18. m.ord <= Base(ms, n) + kept /\ m.ord \in Nat
  <2>1. m.ord \in Nat
    BY <1>9 DEF Mark
  <2>2. CASE m.chunk = n
    BY <1>1, <1>6, <1>9, <2>2
  <2>3. CASE m.chunk # n
    <3>1. m.chunk \in 0 .. n /\ n \in 0 .. n /\ m.chunk < n
      BY <1>1, <1>9, <2>3
    <3>2. Base(ms, m.chunk) + Len(ChunkFrames(d, m.chunk)) <= Base(ms, n)
      BY <1>1, <3>1, OrdinalParts
    <3>3. Base(ms, m.chunk) \in Nat /\ Len(ChunkFrames(d, m.chunk)) \in Nat
      BY <1>1, <1>9, ChunkParts
    <3>4. QED
      BY <1>1, <1>6, <1>9, <2>1, <3>2, <3>3
  <2>4. QED
    BY <2>1, <2>2, <2>3
<1>19. FramesTotal(d) \in Nat /\ FramesTotal(e) \in Durable(d) .. FramesTotal(d)
  <2>1. Durable(d) = m.ord
    BY DEF Durable, m
  <2> DEFINE len == Len(data)
             b == Base(ms, n)
  <2>2. /\ len \in Nat /\ kept \in Nat /\ kept <= len /\ b \in Nat /\ FramesTotal(d) = b + len
        /\ FramesTotal(e) = b + kept /\ m.ord <= b + kept
    BY <1>1, <1>6, <1>18
  <2> HIDE DEF len, b
  <2>3. QED
    BY <1>18, <2>1, <2>2
<1>20. Len(e.active.data) = kept
  BY <1>2, <1>3
<1>21. \A r \in References(d) : Covers(d.mark[1], r.ref) => r \in References(e)
  BY <1>15 DEF m
<1> USE DEF e
<1>22. QED
  BY <1>3, <1>11, <1>17, <1>19, <1>20, <1>21

\* A crash that loses nothing is a stop.
LEMMA StopKeeps ==
  ASSUME JournalInv, disk' = disk, synced' = synced, acked' = acked, bodies' = bodies,
         crashes' \in Nat, mem' = [mem EXCEPT !.state = "DOWN"], pc' = "idle"
  PROVE  JournalInv' /\ SameLog(disk, disk')
<1>1. JournalTyped /\ WriterSound /\ AckedCovered /\ DiskSound(disk, synced) /\ mem \in Writer
  BY DEF JournalInv, JournalTyped
<1>2. mem' \in Writer /\ mem'.state = "DOWN"
  BY <1>1 DEF Writer
<1>3. JournalTyped'
  BY <1>1, <1>2 DEF JournalTyped, FileSteps
<1>4. WriterSound'
  BY <1>1, <1>2 DEF WriterSound
<1>5. AckedCovered'
  BY <1>1 DEF AckedCovered
<1>6. QED
  BY <1>1, <1>3, <1>4, <1>5 DEF JournalInv, SameLog

\* A crash loses the end of the log, never what the watermark covers.
LEMMA CutKeeps ==
  ASSUME JournalInv, disk.mark # <<>>, disk.active.chunk = Len(disk.manifests),
         NEW kept \in synced .. Len(disk.active.data), NEW torn \in BOOLEAN,
         disk' = Truncated(disk, kept, torn), synced' = synced, acked' = acked,
         bodies' = bodies, crashes' \in Nat, mem' = [mem EXCEPT !.state = "DOWN"], pc' = "idle"
  PROVE  JournalInv' /\ View!LogNext
<1>1. /\ JournalTyped /\ WriterSound /\ AckedCovered /\ DiskSound(disk, synced) /\ mem \in Writer
      /\ disk \in Disk /\ Len(disk.mark) <= 1 /\ synced \in 0 .. Len(disk.active.data)
      /\ disk.active.data \in Seq(Frame) /\ Len(disk.active.data) \in Nat
  BY DEF JournalInv, JournalTyped, Disk, ActiveFile
<1>2. /\ disk' \in Disk /\ DiskSound(disk', synced)
      /\ disk'.mark = disk.mark /\ disk'.identity = disk.identity
      /\ disk'.manifests = disk.manifests /\ Len(disk'.active.data) = kept
      /\ FramesTotal(disk) \in Nat /\ FramesTotal(disk') \in Durable(disk) .. FramesTotal(disk)
      /\ \A r \in References(disk) : Covers(disk.mark[1], r.ref) => r \in References(disk')
      /\ \A n \in 1 .. FramesTotal(disk') : FrameOf(disk', n) = FrameOf(disk, n)
  BY <1>1, FramesTruncated
<1>3. mem' \in Writer /\ mem'.state = "DOWN"
  BY <1>1 DEF Writer
<1>4. JournalTyped'
  <2>1. synced' \in 0 .. Len(disk'.active.data)
    BY <1>1, <1>2
  <2>2. QED
    BY <1>1, <1>2, <1>3, <2>1 DEF JournalTyped, FileSteps
<1>5. WriterSound'
  BY <1>1, <1>2, <1>3 DEF WriterSound
<1>6. AckedCovered'
  BY <1>1, <1>2 DEF AckedCovered
<1>7. View!Lose
  <2> DEFINE b == ReadableBodies(disk)
             a == ReadableBodies(disk')
             n == FramesTotal(disk')
  <2>1. Durable(disk) \in Nat /\ n \in Nat /\ n <= FramesTotal(disk) /\ Durable(disk) <= n
    <3>1. Durable(disk) \in Nat
      <4>1. disk.mark \in Seq(Mark)
        BY <1>1 DEF Disk
      <4>2. disk.mark[1] \in Mark
        BY <1>1, <4>1, OneMark
      <4>3. QED
        BY <4>2 DEF Durable, Mark
    <3> HIDE DEF n
    <3>2. n \in Durable(disk) .. FramesTotal(disk) /\ FramesTotal(disk) \in Nat
      BY <1>2 DEF n
    <3>3. QED
      BY <3>1, <3>2
  <2>2. /\ Len(b) = FramesTotal(disk) /\ \A k \in 1 .. FramesTotal(disk) : b[k] = FrameOf(disk, k).body
    BY <1>2, BodiesParts
  <2>3. a = [k \in 1 .. n |-> FrameOf(disk', k).body]
    BY DEF ReadableBodies, FramesTotal
  <2> HIDE DEF a, b, n
  <2>4. \A k \in 1 .. n : FrameOf(disk', k).body = b[k]
    <3>1. ASSUME NEW k \in 1 .. n PROVE FrameOf(disk', k).body = b[k]
      <4>1. k \in 1 .. FramesTotal(disk)
        BY <1>2, <2>1
      <4>2. FrameOf(disk', k) = FrameOf(disk, k)
        BY <1>2 DEF n
      <4>3. QED
        BY <2>2, <4>1, <4>2
    <3>2. QED
      BY <3>1
  <2>5. SubSeq(b, 1, n) = [k \in 1 .. n |-> b[k]]
    <3>1. n - 1 + 1 = n /\ \A k \in 1 .. n : 1 + k - 1 = k
      BY <2>1
    <3>2. SubSeq(b, 1, n) = [k \in 1 .. (1 + n - 1) |-> b[k + 1 - 1]]
      BY <2>1
    <3>3. 1 + n - 1 = n /\ \A k \in 1 .. n : k + 1 - 1 = k
      BY <2>1
    <3>4. QED
      BY <3>2, <3>3
  <2>6. a = SubSeq(b, 1, n)
    BY <2>3, <2>4, <2>5
  <2>7. n \in Durable(disk) .. Len(b)
    BY <1>2, <2>1, <2>2
  <2>8. Established /\ Established' /\ (IF Established THEN disk.mark[1].ord ELSE 0) = Durable(disk)
    BY <1>2 DEF Established, Durable
  <2>9. (IF Established THEN disk.mark[1].ord ELSE 0)'
          = (IF Established THEN disk.mark[1].ord ELSE 0)
    BY <1>2 DEF Established
  <2>10. \E k \in (IF Established THEN disk.mark[1].ord ELSE 0) .. Len(b) : a = SubSeq(b, 1, k)
    BY <2>6, <2>7, <2>8
  <2>11. QED
    BY <2>9, <2>10 DEF View!Lose, a, b
<1>8. QED
  BY <1>2, <1>4, <1>5, <1>6, <1>7 DEF JournalInv, View!LogNext

\* The unlinked source of the last chunk may be there again.
LEMMA UndoKeeps ==
  ASSUME JournalInv, pc = "directory",
         disk' = [disk EXCEPT !.active = [chunk |-> Len(disk.manifests) - 1,
                                          data |-> Last(disk.zst), torn |-> FALSE]],
         synced' = Len(Last(disk.zst)), acked' = acked,
         bodies' = bodies, crashes' \in Nat, mem' = [mem EXCEPT !.state = "DOWN"], pc' = "idle"
  PROVE  JournalInv' /\ SameLog(disk, disk')
<1> DEFINE n == Len(disk.manifests)
           last == Last(disk.zst)
           ms == disk.manifests
<1>1. /\ JournalTyped /\ WriterSound /\ AckedCovered /\ DiskSound(disk, synced) /\ mem \in Writer
      /\ disk \in Disk /\ Len(disk.mark) <= 1 /\ n \in Nat /\ disk.zst \in Seq(Seq(Frame))
      /\ Chained(disk.zst, ms) /\ MarkSound(disk, synced) /\ Orderly(disk)
      /\ disk.mark \in Seq(Mark)
  BY DEF JournalInv, JournalTyped, Disk, DiskSound, Orderly
<1>2. /\ n > 0 /\ Len(disk.zst) = n
      /\ disk.active = [chunk |-> n, data |-> <<>>, torn |-> FALSE]
  BY <1>1 DEF WriterSound
<1>3. last = disk.zst[n] /\ last \in Seq(Frame) /\ Len(last) \in Nat
  <2>1. n \in 1 .. Len(disk.zst)
    BY <1>1, <1>2
  <2>2. disk.zst[n] \in Seq(Frame)
    BY <1>1, <2>1
  <2>3. QED
    BY <1>2, <2>2 DEF Last
<1> HIDE DEF last
<1>4. /\ disk'.mark = disk.mark /\ disk'.identity = disk.identity /\ disk'.zst = disk.zst
      /\ disk'.manifests = ms /\ disk' \in Disk /\ synced' = Len(last)
      /\ disk'.active = [chunk |-> n - 1, data |-> last, torn |-> FALSE]
  <2>1. disk' = [disk EXCEPT !.active = [chunk |-> n - 1, data |-> last, torn |-> FALSE]]
    BY DEF last
  <2>2. [chunk |-> n - 1, data |-> last, torn |-> FALSE] \in ActiveFile
    BY <1>1, <1>2, <1>3 DEF ActiveFile
  <2>3. synced' = Len(last)
    BY DEF last
  <2>4. QED
    BY <1>1, <2>1, <2>2, <2>3 DEF Disk
<1>5. /\ n - 1 # n /\ ActiveIndex(disk') = n /\ ActiveIndex(disk) = n /\ ActiveData(disk') = <<>>
      /\ ActiveData(disk) = <<>> /\ LastOrdinal(disk') = LastOrdinal(disk)
  BY <1>1, <1>2, <1>4 DEF ActiveIndex, ActiveData, LastOrdinal
<1>6. \A c \in Nat : ChunkFrames(disk', c) = ChunkFrames(disk, c)
  BY <1>4, <1>5 DEF ChunkFrames
<1>7. ActiveSound(disk', synced')
  BY <1>2, <1>3, <1>4 DEF ActiveSound
<1>8. MarkSound(disk', synced')
  <2>1. disk.mark # <<>>
    <3>1. disk.mark = <<>> => Len(ms) = 0
      BY <1>1 DEF MarkSound
    <3>2. QED
      BY <1>2, <3>1
  <2> DEFINE m == disk.mark[1]
  <2>2. m \in Mark /\ m.chunk \in Nat
    <3>1. m \in Mark
      BY <1>1, <2>1, OneMark
    <3>2. QED
      BY <3>1 DEF Mark
  <2>3. /\ m.chunk <= n /\ m.ord = Base(ms, m.chunk) + m.end
        /\ m.end <= Len(ChunkFrames(disk, m.chunk))
    BY <1>1, <2>1 DEF MarkSound
  <2>4. m.chunk = n - 1 => ChunkFrames(disk, m.chunk) = last
    <3>1. m.chunk = n - 1 => m.chunk < Len(ms) /\ m.chunk + 1 = n
      BY <1>1, <2>2
    <3>2. m.chunk < Len(ms) => ChunkFrames(disk, m.chunk) = disk.zst[m.chunk + 1]
      BY <1>1, <2>2, ChunkParts
    <3>3. QED
      BY <1>3, <3>1, <3>2
  <2>5. m.chunk = n - 1 => m.end <= Len(last)
    BY <2>3, <2>4
  <2>6. ChunkFrames(disk', m.chunk) = ChunkFrames(disk, m.chunk)
    BY <1>6, <2>2
  <2>7. disk'.mark # <<>> /\ disk'.mark[1] = m /\ disk'.active.chunk = n - 1
    BY <1>4, <2>1
  <2> HIDE DEF m
  <2>8. QED
    BY <1>4, <2>3, <2>5, <2>6, <2>7 DEF MarkSound
<1>9. DiskSound(disk', synced') /\ Orderly(disk')
  BY <1>1, <1>4, <1>7, <1>8 DEF DiskSound, Orderly
<1>10. SameLog(disk, disk') /\ References(disk') = References(disk)
  <2>1. FramesTotal(disk') = FramesTotal(disk) /\ Durable(disk') = Durable(disk)
    BY <1>4, <1>5 DEF FramesTotal, Durable
  <2>2. QED
    BY <1>1, <1>6, <1>9, <2>1, SameChunks
<1>11. mem' \in Writer /\ mem'.state = "DOWN"
  BY <1>1 DEF Writer
<1>12. JournalTyped'
  <2>1. disk'.active.data = last /\ synced' \in 0 .. Len(disk'.active.data)
    BY <1>3, <1>4
  <2>2. QED
    BY <1>1, <1>4, <1>11, <2>1 DEF JournalTyped, FileSteps
<1>13. WriterSound'
  BY <1>1, <1>4, <1>11 DEF WriterSound
<1>14. AckedCovered'
  BY <1>1, <1>4, <1>10 DEF AckedCovered
<1>15. QED
  BY <1>9, <1>10, <1>12, <1>13, <1>14 DEF JournalInv

LEMMA CrashKeeps ==
  ASSUME JournalInv, Crash
  PROVE  JournalInv' /\ LogSteps
<1>1. /\ mem' = [mem EXCEPT !.state = "DOWN"] /\ pc' = "idle" /\ acked' = acked
      /\ bodies' = bodies /\ crashes' \in Nat
  <2>1. crashes \in Nat
    BY DEF JournalInv, JournalTyped
  <2>2. crashes' = crashes + 1 /\ mem' = [mem EXCEPT !.state = "DOWN"] /\ pc' = "idle"
        /\ acked' = acked /\ bodies' = bodies
    BY DEF Crash
  <2>3. crashes' \in Nat
    BY <2>1, <2>2
  <2>4. QED
    BY <2>2, <2>3
<1>2. /\ disk \in Disk /\ DiskSound(disk, synced) /\ synced \in 0 .. Len(disk.active.data)
      /\ disk.active.data \in Seq(Frame) /\ Len(disk.active.data) \in Nat
      /\ disk.active \in ActiveFile /\ ActiveSound(disk, synced) /\ MarkSound(disk, synced)
      /\ synced \in Nat
  BY DEF JournalInv, JournalTyped, Disk, ActiveFile, DiskSound
<1>3. ASSUME NEW kept \in synced .. Len(disk.active.data), NEW torn \in BOOLEAN,
             torn => kept < Len(disk.active.data) \/ disk.active.torn,
             disk' = [disk EXCEPT !.active.data = SubSeq(@, 1, kept), !.active.torn = torn],
             synced' = synced
      PROVE  JournalInv' /\ LogSteps
  <2>1. disk' = Truncated(disk, kept, torn)
    <3> DEFINE cut == SubSeq(disk.active.data, 1, kept)
    <3>1. disk' = [disk EXCEPT !.active = [[disk.active EXCEPT !.data = cut] EXCEPT !.torn = torn]]
      BY <1>2, <1>3 DEF Disk
    <3> HIDE DEF cut
    <3>2. [[disk.active EXCEPT !.data = cut] EXCEPT !.torn = torn]
            = [chunk |-> disk.active.chunk, data |-> cut, torn |-> torn]
      <4>1. disk.active = [chunk |-> disk.active.chunk, data |-> disk.active.data,
                           torn |-> disk.active.torn]
        BY <1>2 DEF ActiveFile
      <4>2. [disk.active EXCEPT !.data = cut]
              = [chunk |-> disk.active.chunk, data |-> cut, torn |-> disk.active.torn]
        BY <4>1
      <4>3. [[chunk |-> disk.active.chunk, data |-> cut, torn |-> disk.active.torn]
               EXCEPT !.torn = torn]
              = [chunk |-> disk.active.chunk, data |-> cut, torn |-> torn]
        OBVIOUS
      <4>4. QED
        BY <4>2, <4>3
    <3>3. QED
      BY <3>1, <3>2 DEF Truncated, cut
  <2>2. CASE disk.mark # <<>> /\ disk.active.chunk = Len(disk.manifests)
    <3>1. JournalInv' /\ View!LogNext
      BY <1>1, <1>3, <2>1, <2>2, CutKeeps
    <3>2. QED
      BY <3>1 DEF LogSteps
  <2>3. CASE ~(disk.mark # <<>> /\ disk.active.chunk = Len(disk.manifests))
    <3>1. ~disk.active.torn /\ synced = Len(disk.active.data)
      <4>1. CASE disk.mark = <<>>
        <5>1. disk.active = [chunk |-> 0, data |-> <<>>, torn |-> FALSE] /\ Len(<<>>) = 0
          BY <1>2, <4>1 DEF MarkSound
        <5>2. disk.active.data = <<>> /\ disk.active.torn = FALSE
          BY <5>1
        <5>3. QED
          BY <1>2, <5>1, <5>2
      <4>2. CASE disk.active.chunk # Len(disk.manifests)
        BY <1>2, <4>2 DEF ActiveSound
      <4>3. QED
        BY <2>3, <4>1, <4>2
    <3>2. kept = Len(disk.active.data) /\ torn = FALSE
      <4>1. kept = Len(disk.active.data)
        BY <1>2, <1>3, <3>1
      <4>2. ~(kept < Len(disk.active.data))
        BY <1>2, <4>1
      <4>3. QED
        BY <1>3, <3>1, <4>1, <4>2
    <3>3. SubSeq(disk.active.data, 1, kept) = disk.active.data
      BY <1>2, <3>2, SubSeqFull
    <3>4. disk' = disk
      <4>1. disk.active = [chunk |-> disk.active.chunk, data |-> disk.active.data, torn |-> FALSE]
        BY <1>2, <3>1 DEF ActiveFile
      <4>2. disk' = [disk EXCEPT !.active = disk.active]
        BY <2>1, <3>2, <3>3, <4>1 DEF Truncated
      <4>3. QED
        BY <1>2, <4>2 DEF Disk
    <3>5. JournalInv' /\ SameLog(disk, disk')
      BY <1>1, <1>3, <3>4, StopKeeps
    <3>6. QED
      BY <3>5 DEF LogSteps
  <2>4. QED
    BY <2>2, <2>3
<1>4. ASSUME pc = "directory",
             disk' = [disk EXCEPT !.active = [chunk |-> Len(disk.manifests) - 1,
                                              data |-> Last(disk.zst), torn |-> FALSE]],
             synced' = Len(Last(disk.zst))
      PROVE  JournalInv' /\ LogSteps
  <2>1. JournalInv' /\ SameLog(disk, disk')
    BY <1>1, <1>4, UndoKeeps
  <2>2. QED
    BY <2>1 DEF LogSteps
<1>5. QED
  BY <1>3, <1>4 DEF Crash

-----------------------------------------------------------------------------
(* The journal.                                                            *)

LEMMA StepKeeps ==
  ASSUME JournalInv, [JournalNext]_journalVars
  PROVE  JournalInv' /\ LogSteps
<1>1. CASE Waits
  BY <1>1, WaitsKeeps DEF LogSteps
<1>2. CASE CreateIdentity \/ CreateMark
  BY <1>2, CreatesKeeps DEF LogSteps
<1>3. CASE Initialize
  BY <1>3, InitializeKeeps DEF LogSteps
<1>4. CASE Append1
  BY <1>4, AppendKeeps
<1>5. CASE AppendFails
  BY <1>5, AppendFailsKeeps DEF LogSteps
<1>6. CASE PublishMark
  BY <1>6, PublishMarkKeeps DEF LogSteps
<1>7. CASE WriteChunk
  BY <1>7, WriteChunkKeeps DEF LogSteps
<1>8. CASE PublishChunk
  BY <1>8, PublishChunkKeeps DEF LogSteps
<1>9. CASE UnlinkSource
  BY <1>9, UnlinkKeeps DEF LogSteps
<1>10. CASE Crash
  BY <1>10, CrashKeeps
<1>11. CASE UNCHANGED journalVars
  <2>1. /\ disk' = disk /\ synced' = synced /\ mem' = mem /\ pc' = pc /\ acked' = acked
        /\ bodies' = bodies /\ crashes' = crashes
    BY <1>11 DEF journalVars
  <2>2. JournalTyped' /\ WriterSound' /\ AckedCovered' /\ DiskSound(disk', synced')
    BY <2>1 DEF JournalInv, JournalTyped, WriterSound, AckedCovered
  <2>3. QED
    BY <2>1, <2>2 DEF JournalInv, LogSteps, SameLog
<1>12. QED
  BY <1>1, <1>2, <1>3, <1>4, <1>5, <1>6, <1>7, <1>8, <1>9, <1>10, <1>11
     DEF JournalNext, Waits

LEMMA LogStarts == JournalInit => View!LogInit
<1> SUFFICES ASSUME JournalInit PROVE View!LogInit
  OBVIOUS
<1>1. disk.mark = <<>> /\ disk.manifests = <<>> /\ disk.active = [chunk |-> 0, data |-> <<>>, torn |-> FALSE]
  BY DEF JournalInit
<1>2. Len(<<>>) = 0 /\ LastOrdinal(disk) = 0 /\ ActiveData(disk) = <<>>
  BY <1>1 DEF LastOrdinal, ActiveData, ActiveIndex
<1>3. ReadableBodies(disk) = [n \in 1 .. 0 |-> FrameOf(disk, n).body]
  BY <1>2 DEF ReadableBodies
<1>4. 1 .. 0 = {}
  OBVIOUS
<1>5. ReadableBodies(disk) = <<>>
  BY <1>3, <1>4
<1>6. QED
  BY <1>1, <1>5 DEF View!LogInit, Established

\* Whatever operation the writer of a raw journal dies or fails in, and however
\* often, the journal opens again, names every frame it acknowledged as before,
\* is cut at one frame by its watermark, and behaves as an append-only log that
\* loses nothing of its durable prefix (RawJournal).
THEOREM JournalAlwaysKept == JournalSpec => JournalKept
<1>1. JournalInit => JournalInv /\ View!LogInit
  BY InitKeeps, LogStarts
<1>2. JournalInv /\ [JournalNext]_journalVars => JournalInv'
  BY StepKeeps
<1>3. JournalInv => JournalTypeOK /\ NeverRefused /\ AckedReadable /\ MarkCutsOnce
  BY InvSays
<1>4. JournalInv /\ [JournalNext]_journalVars =>
        [View!LogNext]_<<ReadableBodies(disk), IF Established THEN disk.mark[1].ord ELSE 0>>
  <2> SUFFICES ASSUME JournalInv, [JournalNext]_journalVars
               PROVE  [View!LogNext]_<<ReadableBodies(disk), IF Established THEN disk.mark[1].ord ELSE 0>>
    OBVIOUS
  <2>1. LogSteps
    BY StepKeeps
  <2>2. CASE SameLog(disk, disk')
    BY <2>2 DEF SameLog, Durable, Established
  <2>3. QED
    BY <2>1, <2>2 DEF LogSteps
<1>5. QED
  BY <1>1, <1>2, <1>3, <1>4, PTL DEF JournalSpec, JournalKept, ImplementsDurableLog, View!LogSpec
-----------------------------------------------------------------------------
(* One fact.                                                               *)

\* New timers have new ordinals.
TimersGrow(s, t) ==
  /\ s.nextOrd <= t.nextOrd
  /\ \A u \in t.timers : u \in s.timers \/ (s.nextOrd <= u.ord /\ u.ord < t.nextOrd)

\* How often a reducer got a fact.
TimesReduced(trace, stage, seq) == Cardinality({k \in DOMAIN trace : trace[k] = <<stage, seq>>})

Traces == Seq(Nat \X Nat)

\* Growth is reflexive and transitive.
LEMMA TimersGrowOn ==
  ASSUME NEW r \in EngineState, NEW s \in EngineState, NEW t \in EngineState
  PROVE  TimersGrow(r, r) /\ (TimersGrow(r, s) /\ TimersGrow(s, t) => TimersGrow(r, t))
<1>1. /\ r.nextOrd \in Nat /\ s.nextOrd \in Nat /\ t.nextOrd \in Nat
      /\ \A u \in t.timers : u.ord \in Nat
      /\ \A u \in s.timers : u.ord \in Nat
  BY DEF EngineState, Timer
<1> QED
  BY <1>1 DEF TimersGrow

\* One more entry of the trace.
LEMMA CountAppended ==
  ASSUME NEW trace \in Traces, NEW e, e \in Nat \X Nat, NEW stage, NEW seq
  PROVE  /\ TimesReduced(trace, stage, seq) \in Nat
         /\ TimesReduced(Append(trace, e), stage, seq) =
              IF e = <<stage, seq>> THEN TimesReduced(trace, stage, seq) + 1
              ELSE TimesReduced(trace, stage, seq)
<1> USE DEF Traces
<1>1. PICK S : S = {k \in DOMAIN trace : trace[k] = <<stage, seq>>}
  OBVIOUS
<1>2. PICK n \in Nat : n = Len(trace) /\ DOMAIN trace = 1 .. n
  OBVIOUS
<1>3. S \in SUBSET (1 .. n) /\ n + 1 \notin S /\ IsFiniteSet(S)
  <2>1. S \in SUBSET (1 .. n)
    BY <1>1, <1>2
  <2>2. IsFiniteSet(1 .. n)
    BY FS_Interval
  <2>3. n + 1 \notin 1 .. n
    BY <1>2
  <2> QED
    BY <2>1, <2>2, <2>3, FS_Subset
<1>4. /\ DOMAIN Append(trace, e) = 1 .. n + 1
      /\ Append(trace, e)[n + 1] = e
      /\ \A k \in 1 .. n : Append(trace, e)[k] = trace[k]
  BY <1>2
<1>5. Cardinality(S) \in Nat /\ Cardinality(S \cup {n + 1}) = Cardinality(S) + 1
  BY <1>3, FS_CardinalityType, FS_AddElement
<1>6. CASE e = <<stage, seq>>
  <2>1. {k \in DOMAIN Append(trace, e) : Append(trace, e)[k] = <<stage, seq>>} = S \cup {n + 1}
    <3>1. ASSUME NEW k PROVE k \in 1 .. n + 1 /\ Append(trace, e)[k] = <<stage, seq>> <=> k \in S \cup {n + 1}
      <4>1. k \in 1 .. n + 1 <=> k \in 1 .. n \/ k = n + 1
        BY <1>2
      <4> QED
        BY <1>1, <1>2, <1>4, <1>6, <4>1
    <3> QED
      BY <1>4, <3>1
  <2> QED
    BY <1>1, <1>5, <1>6, <2>1 DEF TimesReduced
<1>7. CASE e # <<stage, seq>>
  <2>1. {k \in DOMAIN Append(trace, e) : Append(trace, e)[k] = <<stage, seq>>} = S
    <3>1. ASSUME NEW k PROVE k \in 1 .. n + 1 /\ Append(trace, e)[k] = <<stage, seq>> <=> k \in S
      <4>1. k \in 1 .. n + 1 <=> k \in 1 .. n \/ k = n + 1
        BY <1>2
      <4> QED
        BY <1>1, <1>2, <1>4, <1>7, <4>1
    <3> QED
      BY <1>4, <3>1
  <2> QED
    BY <1>1, <1>5, <1>7, <2>1 DEF TimesReduced
<1> QED
  BY <1>6, <1>7

LEMMA BeginParts ==
  ASSUME NEW st \in EngineState, NEW r \in EventRecord
  PROVE  /\ BeginFact(st, r) \in EngineState
         /\ BeginFact(st, r).seq = r.seq
         /\ BeginFact(st, r).ver = (IF r.src = 0 THEN st.ver + 1 ELSE st.ver)
         /\ BeginFact(st, r).nextOrd = st.nextOrd
         /\ BeginFact(st, r).trace = Append(st.trace, <<0, r.seq>>)
         /\ BeginFact(st, r).timers = ConsumeTimer(st, r)
         /\ ConsumeTimer(st, r) \in SUBSET st.timers
         /\ r.src # 0 => ConsumeTimer(st, r) = st.timers
         /\ TimersGrow(st, BeginFact(st, r))
<1>1. ConsumeTimer(st, r) \in SUBSET st.timers /\ (r.src # 0 => ConsumeTimer(st, r) = st.timers)
  BY DEF ConsumeTimer
<1>2. /\ st.seq \in Nat /\ st.ver \in Nat /\ st.avail \in Nat /\ st.nextOrd \in Nat
      /\ st.timers \in SUBSET Timer /\ st.trace \in Seq(Nat \X Nat)
      /\ r.seq \in Nat /\ r.avail \in Nat /\ r.src \in Nat
  BY DEF EngineState, EventRecord
<1>3. Append(st.trace, <<0, r.seq>>) \in Seq(Nat \X Nat)
  BY <1>2
<1>0. st = [seq |-> st.seq, ver |-> st.ver, avail |-> st.avail, nextOrd |-> st.nextOrd,
            timers |-> st.timers, trace |-> st.trace]
  BY DEF EngineState
<1>4. BeginFact(st, r) =
        [seq |-> r.seq, ver |-> IF r.src = 0 THEN st.ver + 1 ELSE st.ver, avail |-> r.avail,
         nextOrd |-> st.nextOrd, timers |-> ConsumeTimer(st, r), trace |-> Append(st.trace, <<0, r.seq>>)]
  <2>1. PICK timers, v, trace :
          /\ timers = ConsumeTimer(st, r) /\ trace = Append(st.trace, <<0, r.seq>>)
          /\ v = IF r.src = 0 THEN st.ver + 1 ELSE st.ver
    OBVIOUS
  <2>2. BeginFact(st, r) = [st EXCEPT !.timers = timers, !.seq = r.seq, !.avail = r.avail,
                                      !.ver = v, !.trace = trace]
    BY <2>1 DEF BeginFact
  <2>3. BeginFact(st, r) = [seq |-> r.seq, ver |-> v, avail |-> r.avail, nextOrd |-> st.nextOrd,
                            timers |-> timers, trace |-> trace]
    BY <1>0, <2>2
  <2> QED
    BY <2>1, <2>3
<1>5. BeginFact(st, r) \in EngineState
  <2>1. (IF r.src = 0 THEN st.ver + 1 ELSE st.ver) \in Nat /\ ConsumeTimer(st, r) \in SUBSET Timer
    BY <1>1, <1>2
  <2> QED
    BY <1>2, <1>3, <1>4, <2>1 DEF EngineState
<1>6. TimersGrow(st, BeginFact(st, r))
  BY <1>1, <1>2, <1>4 DEF TimersGrow
<1> QED
  BY <1>1, <1>4, <1>5, <1>6

LEMMA ReducerParts ==
  ASSUME CycleAssumption, NEW st \in EngineState, NEW r \in EventRecord, NEW stage \in Stage
  PROVE  /\ ApplyReducer(st, r, stage) \in EngineState
         /\ ApplyReducer(st, r, stage).seq = st.seq
         /\ ApplyReducer(st, r, stage).ver = st.ver
         /\ ApplyReducer(st, r, stage).trace = Append(st.trace, <<stage, r.seq>>)
         /\ TimersGrow(st, ApplyReducer(st, r, stage))
<1>1. /\ st.seq \in Nat /\ st.ver \in Nat /\ st.avail \in Nat /\ st.nextOrd \in Nat
      /\ st.timers \in SUBSET Timer /\ st.trace \in Seq(Nat \X Nat)
      /\ r.seq \in Nat /\ r.avail \in Nat /\ Delay \in Nat /\ stage \in Nat
  BY DEF EngineState, EventRecord, CycleAssumption, Stage
<1>2. PICK trace : trace = Append(st.trace, <<stage, r.seq>>) /\ trace \in Seq(Nat \X Nat)
  <2>1. <<stage, r.seq>> \in Nat \X Nat
    BY <1>1
  <2>2. Append(st.trace, <<stage, r.seq>>) \in Seq(Nat \X Nat)
    BY <1>1, <2>1
  <2> QED
    BY <2>2
<1>3. PICK s : s = [st EXCEPT !.trace = Append(st.trace, <<stage, r.seq>>)]
  OBVIOUS
<1>4. s = [seq |-> st.seq, ver |-> st.ver, avail |-> st.avail, nextOrd |-> st.nextOrd,
           timers |-> st.timers, trace |-> trace]
  BY <1>2, <1>3 DEF EngineState
<1>5. ASSUME NEW timers \in SUBSET Timer, NEW ord \in Nat,
             ApplyReducer(st, r, stage) =
               [seq |-> st.seq, ver |-> st.ver, avail |-> st.avail, nextOrd |-> ord,
                timers |-> timers, trace |-> trace],
             st.nextOrd <= ord,
             \A u \in timers : u \in st.timers \/ (st.nextOrd <= u.ord /\ u.ord < ord)
      PROVE  /\ ApplyReducer(st, r, stage) \in EngineState
             /\ ApplyReducer(st, r, stage).seq = st.seq
             /\ ApplyReducer(st, r, stage).ver = st.ver
             /\ ApplyReducer(st, r, stage).trace = Append(st.trace, <<stage, r.seq>>)
             /\ TimersGrow(st, ApplyReducer(st, r, stage))
  BY <1>1, <1>2, <1>5 DEF EngineState, TimersGrow
<1> QED
  <2>1. PICK t : t = [due |-> r.avail + Delay, ord |-> st.nextOrd]
    OBVIOUS
  <2>2. t \in Timer /\ t.ord = st.nextOrd
    BY <1>1, <2>1 DEF Timer
  <2>3. CASE \E other \in Reducers : other < stage
    <3>1. ApplyReducer(st, r, stage) = s
      BY <1>3, <2>3 DEF ApplyReducer
    <3>2. ApplyReducer(st, r, stage) =
            [seq |-> st.seq, ver |-> st.ver, avail |-> st.avail, nextOrd |-> st.nextOrd,
             timers |-> st.timers, trace |-> trace]
      BY <1>4, <3>1
    <3>3. st.nextOrd <= st.nextOrd
      BY <1>1
    <3> QED
      BY <1>1, <1>5, <3>2, <3>3
  <2>4. CASE ~(\E other \in Reducers : other < stage) /\ r.type = "Arm"
    <3>1. ApplyReducer(st, r, stage) = [s EXCEPT !.timers = @ \cup {t}, !.nextOrd = @ + 1]
      BY <1>3, <2>1, <2>4 DEF ApplyReducer
    <3>2. ApplyReducer(st, r, stage) =
            [seq |-> st.seq, ver |-> st.ver, avail |-> st.avail, nextOrd |-> st.nextOrd + 1,
             timers |-> st.timers \cup {t}, trace |-> trace]
      BY <1>4, <3>1
    <3>3. st.nextOrd + 1 \in Nat /\ st.timers \cup {t} \in SUBSET Timer /\ st.nextOrd <= st.nextOrd + 1
          /\ \A u \in st.timers \cup {t} : u \in st.timers \/ (st.nextOrd <= u.ord /\ u.ord < st.nextOrd + 1)
      BY <1>1, <2>2
    <3> QED
      BY <1>5, <3>2, <3>3
  <2>5. CASE ~(\E other \in Reducers : other < stage) /\ r.type # "Arm" /\ r.type = "Disarm" /\ st.timers # {}
    <3>1. ApplyReducer(st, r, stage) = [s EXCEPT !.timers = @ \ {NextTimer(st)}]
      BY <1>3, <2>5 DEF ApplyReducer
    <3>2. ApplyReducer(st, r, stage) =
            [seq |-> st.seq, ver |-> st.ver, avail |-> st.avail, nextOrd |-> st.nextOrd,
             timers |-> st.timers \ {NextTimer(st)}, trace |-> trace]
      BY <1>4, <3>1
    <3>3. st.timers \ {NextTimer(st)} \in SUBSET Timer /\ st.nextOrd <= st.nextOrd
      BY <1>1
    <3> QED
      BY <1>1, <1>5, <3>2, <3>3
  <2>6. CASE ~(\E other \in Reducers : other < stage) /\ r.type # "Arm" /\ ~(r.type = "Disarm" /\ st.timers # {})
    <3>1. ApplyReducer(st, r, stage) = s
      BY <1>3, <2>6 DEF ApplyReducer
    <3>2. ApplyReducer(st, r, stage) =
            [seq |-> st.seq, ver |-> st.ver, avail |-> st.avail, nextOrd |-> st.nextOrd,
             timers |-> st.timers, trace |-> trace]
      BY <1>4, <3>1
    <3>3. st.nextOrd <= st.nextOrd
      BY <1>1
    <3> QED
      BY <1>1, <1>5, <3>2, <3>3
  <2> QED
    BY <2>3, <2>4, <2>5, <2>6

\* A fact catches up with each reducer up to a stage once.
LEMMA CatchUpParts ==
  ASSUME CycleAssumption, NEW st \in EngineState, NEW r \in EventRecord, NEW stage \in Stage
  PROVE  /\ CatchUp(st, r, stage) \in EngineState
         /\ CatchUp(st, r, stage).seq = st.seq
         /\ CatchUp(st, r, stage).ver = st.ver
         /\ TimersGrow(st, CatchUp(st, r, stage))
         /\ \A s \in Reducers : \A q \in Nat :
              TimesReduced(CatchUp(st, r, stage).trace, s, q) =
                IF q = r.seq /\ s <= stage THEN TimesReduced(st.trace, s, q) + 1
                ELSE TimesReduced(st.trace, s, q)
<1> DEFINE Sound(x, k) ==
             /\ x.seq = st.seq /\ x.ver = st.ver /\ TimersGrow(st, x)
             /\ \A s \in Reducers : \A q \in Nat :
                  TimesReduced(x.trace, s, q) =
                    IF q = r.seq /\ s <= k THEN TimesReduced(st.trace, s, q) + 1
                    ELSE TimesReduced(st.trace, s, q)
<1>1. stage \in 1 .. 9 /\ stage \in Nat /\ Reducers \in SUBSET (1 .. 9) /\ r.seq \in Nat
  BY DEF Stage, CycleAssumption, EventRecord
<1>2. PICK J : J = [k \in 0 .. stage |-> {x \in EngineState : Sound(x, k)}]
  OBVIOUS
<1>3. PICK g : g = [s \in Stage |-> [x \in EngineState |-> IF s \in Reducers THEN ApplyReducer(x, r, s) ELSE x]]
  OBVIOUS
<1>4. st \in J[0]
  <2>1. Sound(st, 0)
    <3>1. TimersGrow(st, st)
      BY TimersGrowOn
    <3>2. \A s \in Reducers : ~(s <= 0)
      BY <1>1
    <3> QED
      BY <3>1, <3>2
  <2> HIDE DEF Sound
  <2>2. 0 \in 0 .. stage
    BY <1>1
  <2> QED
    BY <1>2, <2>1, <2>2
<1>5. ASSUME NEW k \in 1 .. stage, NEW y \in J[k - 1] PROVE g[k][y] \in J[k]
  <2>1. k \in Stage /\ k \in 0 .. stage /\ k - 1 \in 0 .. stage /\ k \in Nat
    BY <1>1 DEF Stage
  <2>2. y \in EngineState /\ Sound(y, k - 1)
    BY <1>2, <2>1
  <2>3. g[k][y] = IF k \in Reducers THEN ApplyReducer(y, r, k) ELSE y
    BY <1>3, <2>1, <2>2
  <2>4. CASE k \in Reducers
    <3>1. PICK x \in EngineState : x = ApplyReducer(y, r, k) /\ g[k][y] = x
      BY <2>1, <2>2, <2>3, <2>4, ReducerParts
    <3>2. x.seq = y.seq /\ x.ver = y.ver /\ x.trace = Append(y.trace, <<k, r.seq>>) /\ TimersGrow(y, x)
      BY <2>1, <2>2, <3>1, ReducerParts
    <3>3. TimersGrow(st, x)
      BY <2>2, <3>2, TimersGrowOn
    <3>4. ASSUME NEW s \in Reducers, NEW q \in Nat
          PROVE  TimesReduced(x.trace, s, q) =
                    IF q = r.seq /\ s <= k THEN TimesReduced(st.trace, s, q) + 1
                    ELSE TimesReduced(st.trace, s, q)
      <4>1. PICK a, b, c : a = TimesReduced(x.trace, s, q) /\ b = TimesReduced(y.trace, s, q)
                           /\ c = TimesReduced(st.trace, s, q)
        OBVIOUS
      <4>2. y.trace \in Traces /\ s \in Nat
        <5>1. y.trace \in Traces
          BY <2>2 DEF EngineState, Traces
        <5>2. s \in Nat
          BY <1>1, <2>1
        <5> QED
          BY <5>1, <5>2
      <4>3. a = IF <<k, r.seq>> = <<s, q>> THEN b + 1 ELSE b
        <5>1. PICK e : e = <<k, r.seq>> /\ e \in Nat \X Nat /\ (e = <<s, q>> <=> k = s /\ r.seq = q)
          <6>1. <<k, r.seq>> \in Nat \X Nat /\ (<<k, r.seq>> = <<s, q>> <=> k = s /\ r.seq = q)
            BY <1>1, <1>2, <2>1, <4>2
          <6> QED
            BY <6>1
        <5>2. TimesReduced(Append(y.trace, e), s, q) =
                IF e = <<s, q>> THEN TimesReduced(y.trace, s, q) + 1 ELSE TimesReduced(y.trace, s, q)
          BY <5>1, <4>2, CountAppended
        <5> QED
          BY <3>2, <4>1, <5>1, <5>2
      <4>4. b = IF q = r.seq /\ s <= k - 1 THEN c + 1 ELSE c
        BY <2>2, <4>1
      <4>5. a = IF q = r.seq /\ s <= k THEN c + 1 ELSE c
        BY <1>1, <2>1, <4>2, <4>3, <4>4
      <4> QED
        BY <4>1, <4>5
    <3>5. Sound(x, k)
      BY <2>2, <3>2, <3>3, <3>4
    <3> HIDE DEF Sound
    <3> QED
      BY <1>2, <2>1, <3>1, <3>5
  <2>5. CASE k \notin Reducers
    <3>1. \A s \in Reducers : s <= k - 1 <=> s <= k
      BY <1>1, <2>1, <2>5
    <3>2. Sound(y, k)
      BY <2>2, <3>1
    <3> HIDE DEF Sound
    <3> QED
      BY <1>2, <2>1, <2>2, <2>3, <2>5, <3>2
  <2> QED
    BY <2>4, <2>5
<1>6. \A k \in 0 .. stage : InTurn(g, st, k) \in J[k]
  BY <1>1, <1>4, <1>5, InTurnLeads
<1>7. InTurn(g, st, stage) \in EngineState /\ Sound(InTurn(g, st, stage), stage)
  <2>1. stage \in 0 .. stage
    BY <1>1
  <2> HIDE DEF Sound
  <2> QED
    BY <1>2, <1>6, <2>1
<1>8. CatchUp(st, r, stage) = InTurn(g, st, stage)
  BY <1>3 DEF CatchUp
<1> QED
  BY <1>7, <1>8

\* What is said of the state s after the reducer of a stage had n facts after base.
Reduction(st, s, stage, base, n) ==
  /\ s \in EngineState /\ s.seq = st.seq /\ s.ver = st.ver /\ TimersGrow(st, s)
  /\ \A reducer \in Reducers : \A q \in Nat :
       TimesReduced(s.trace, reducer, q) =
         IF reducer = stage /\ base < q /\ q <= base + n THEN TimesReduced(st.trace, reducer, q) + 1
         ELSE TimesReduced(st.trace, reducer, q)

\* A reducer goes once over the facts born before its stage.
LEMMA ReduceParts ==
  ASSUME CycleAssumption, NEW st \in EngineState, NEW hist \in Seq(EventRecord), NEW stage \in Stage,
         NEW base \in Nat, \A i \in DOMAIN hist : hist[i].seq = base + i /\ hist[i].src < stage
  PROVE  Reduction(st, Reduce(st, hist, stage), stage, base, Len(hist))
<1> DEFINE Sound(x, k) ==
             /\ x.seq = st.seq /\ x.ver = st.ver /\ TimersGrow(st, x)
             /\ \A s \in Reducers : \A q \in Nat :
                  TimesReduced(x.trace, s, q) =
                    IF s = stage /\ base < q /\ q <= base + k THEN TimesReduced(st.trace, s, q) + 1
                    ELSE TimesReduced(st.trace, s, q)
<1>1. PICK n \in Nat : n = Len(hist) /\ DOMAIN hist = 1 .. n
  OBVIOUS
<1>2. stage \in 1 .. 9 /\ stage \in Nat /\ Reducers \in SUBSET (1 .. 9)
  BY DEF Stage, CycleAssumption
<1>3. PICK J : J = [k \in 0 .. n |-> {x \in EngineState : Sound(x, k)}]
  OBVIOUS
<1>4. PICK g : g = [k \in DOMAIN hist |->
                     [x \in EngineState |-> IF hist[k].src < stage THEN ApplyReducer(x, hist[k], stage) ELSE x]]
  OBVIOUS
<1>5. st \in J[0]
  <2>1. TimersGrow(st, st)
    BY TimersGrowOn
  <2>2. \A q \in Nat : ~(base < q /\ q <= base + 0)
    OBVIOUS
  <2>3. Sound(st, 0)
    BY <2>1, <2>2
  <2> HIDE DEF Sound
  <2>4. 0 \in 0 .. n
    BY <1>1
  <2> QED
    BY <1>3, <2>3, <2>4
<1>6. ASSUME NEW k \in 1 .. n, NEW y \in J[k - 1] PROVE g[k][y] \in J[k]
  <2>1. k \in DOMAIN hist /\ k \in 0 .. n /\ k - 1 \in 0 .. n /\ k \in Nat
    BY <1>1
  <2>2. y \in EngineState /\ Sound(y, k - 1)
    BY <1>3, <2>1
  <2>3. hist[k] \in EventRecord /\ hist[k].seq = base + k /\ hist[k].src < stage
    BY <2>1
  <2>4. PICK x \in EngineState : x = ApplyReducer(y, hist[k], stage)
    BY <2>2, <2>3, ReducerParts
  <2>5. g[k][y] = x
    BY <1>4, <2>1, <2>2, <2>3, <2>4
  <2>6. x.seq = y.seq /\ x.ver = y.ver /\ x.trace = Append(y.trace, <<stage, base + k>>) /\ TimersGrow(y, x)
    <3>1. /\ x.seq = y.seq /\ x.ver = y.ver /\ x.trace = Append(y.trace, <<stage, hist[k].seq>>)
          /\ TimersGrow(y, x)
      BY <2>2, <2>3, <2>4, ReducerParts
    <3> QED
      BY <2>3, <3>1
  <2>7. TimersGrow(st, x)
    BY <2>2, <2>6, TimersGrowOn
  <2>8. ASSUME NEW s \in Reducers, NEW q \in Nat
        PROVE  TimesReduced(x.trace, s, q) =
                  IF s = stage /\ base < q /\ q <= base + k THEN TimesReduced(st.trace, s, q) + 1
                  ELSE TimesReduced(st.trace, s, q)
    <3>1. PICK a, b, c : a = TimesReduced(x.trace, s, q) /\ b = TimesReduced(y.trace, s, q)
                         /\ c = TimesReduced(st.trace, s, q)
      OBVIOUS
    <3>2. y.trace \in Traces /\ base + k \in Nat /\ s \in Nat
      <4>1. y.trace \in Traces
        BY <2>2 DEF EngineState, Traces
      <4>2. base + k \in Nat /\ s \in Nat
        BY <1>2, <2>1
      <4> QED
        BY <4>1, <4>2
    <3>3. a = IF <<stage, base + k>> = <<s, q>> THEN b + 1 ELSE b
      <4>1. PICK e : e = <<stage, base + k>> /\ e \in Nat \X Nat /\ (e = <<s, q>> <=> stage = s /\ base + k = q)
        <5>1. <<stage, base + k>> \in Nat \X Nat /\ (<<stage, base + k>> = <<s, q>> <=> stage = s /\ base + k = q)
          BY <1>1, <1>2, <2>1, <3>2
        <5> QED
          BY <5>1
      <4>2. TimesReduced(Append(y.trace, e), s, q) =
              IF e = <<s, q>> THEN TimesReduced(y.trace, s, q) + 1 ELSE TimesReduced(y.trace, s, q)
        BY <4>1, <3>2, CountAppended
      <4> QED
        BY <2>6, <3>1, <4>1, <4>2
    <3>4. b = IF s = stage /\ base < q /\ q <= base + (k - 1) THEN c + 1 ELSE c
      BY <2>2, <3>1
    <3>5. a = IF s = stage /\ base < q /\ q <= base + k THEN c + 1 ELSE c
      BY <2>1, <3>3, <3>4
    <3> QED
      BY <3>1, <3>5
  <2>9. Sound(x, k)
    BY <2>2, <2>6, <2>7, <2>8
  <2> HIDE DEF Sound
  <2> QED
    BY <1>3, <2>1, <2>5, <2>9
<1>7. \A k \in 0 .. n : InTurn(g, st, k) \in J[k]
  BY <1>5, <1>6, InTurnLeads
<1>8. InTurn(g, st, n) \in EngineState /\ Sound(InTurn(g, st, n), n)
  <2>1. n \in 0 .. n
    BY <1>1
  <2> HIDE DEF Sound
  <2> QED
    BY <1>3, <1>7, <2>1
<1>9. Reduce(st, hist, stage) = InTurn(g, st, n)
  BY <1>1, <1>4 DEF Reduce
<1> QED
  BY <1>1, <1>8, <1>9 DEF Reduction
-----------------------------------------------------------------------------
(* What a history holds for the slot of a producer and a cause.            *)

LEMMA EmittedParts ==
  ASSUME NEW h \in Seq(EventRecord), NEW p, NEW r
  PROVE  /\ EmittedIn(h, p, r) \in Seq(EventType)
         /\ (\A k \in DOMAIN h : ~(h[k].src = p /\ h[k].parent = r.seq)) => EmittedIn(h, p, r) = <<>>
<1>1. PICK n \in Nat : n = Len(h) /\ DOMAIN h = 1 .. n
  OBVIOUS
<1>2. PICK g : g = [k \in DOMAIN h |->
                     [types \in Seq(EventType) |->
                        IF h[k].src = p /\ h[k].parent = r.seq THEN Append(types, h[k].type) ELSE types]]
  OBVIOUS
<1>3. EmittedIn(h, p, r) = InTurn(g, <<>>, n)
  BY <1>1, <1>2 DEF EmittedIn
<1>4. InTurn(g, <<>>, n) \in Seq(EventType)
  <2>1. PICK J : J = [k \in 0 .. n |-> Seq(EventType)]
    OBVIOUS
  <2>2. <<>> \in J[0]
    BY <1>1, <2>1
  <2>3. ASSUME NEW k \in 1 .. n, NEW y \in J[k - 1] PROVE g[k][y] \in J[k]
    <3>1. k \in DOMAIN h /\ k \in 0 .. n /\ k - 1 \in 0 .. n
      BY <1>1
    <3>2. y \in Seq(EventType) /\ J[k] = Seq(EventType)
      BY <2>1, <3>1
    <3>3. h[k].type \in EventType
      <4>1. h[k] \in EventRecord
        BY <3>1
      <4> QED
        BY <4>1 DEF EventRecord
    <3> QED
      BY <1>2, <3>1, <3>2, <3>3
  <2>4. \A k \in 0 .. n : InTurn(g, <<>>, k) \in J[k]
    BY <2>2, <2>3, InTurnLeads
  <2> QED
    BY <1>1, <2>1, <2>4
<1>5. ASSUME \A k \in DOMAIN h : ~(h[k].src = p /\ h[k].parent = r.seq)
      PROVE  InTurn(g, <<>>, n) = <<>>
  <2>1. PICK J : J = [k \in 0 .. n |-> {<<>>}]
    OBVIOUS
  <2>2. <<>> \in J[0]
    BY <1>1, <2>1
  <2>3. ASSUME NEW k \in 1 .. n, NEW y \in J[k - 1] PROVE g[k][y] \in J[k]
    <3>1. k \in DOMAIN h /\ y = <<>> /\ J[k] = {<<>>} /\ <<>> \in Seq(EventType)
      BY <1>1, <2>1
    <3> QED
      BY <1>2, <1>5, <3>1
  <2>4. \A k \in 0 .. n : InTurn(g, <<>>, k) \in J[k]
    BY <2>2, <2>3, InTurnLeads
  <2> QED
    BY <1>1, <2>1, <2>4
<1> QED
  BY <1>3, <1>4, <1>5

LEMMA EmittedSame ==
  ASSUME NEW h, NEW p, NEW r, NEW u, r.seq = u.seq
  PROVE  EmittedIn(h, p, r) = EmittedIn(h, p, u)
BY DEF EmittedIn

LEMMA EmittedAppended ==
  ASSUME NEW h \in Seq(EventRecord), NEW e \in EventRecord, NEW p, NEW r
  PROVE  EmittedIn(Append(h, e), p, r) =
           IF e.src = p /\ e.parent = r.seq THEN Append(EmittedIn(h, p, r), e.type) ELSE EmittedIn(h, p, r)
<1>1. PICK n \in Nat : n = Len(h) /\ DOMAIN h = 1 .. n
  OBVIOUS
<1>2. PICK f : f = Append(h, e) /\ f \in Seq(EventRecord)
  <2>1. Append(h, e) \in Seq(EventRecord)
    OBVIOUS
  <2> QED
    BY <2>1
<1>3. DOMAIN f = 1 .. n + 1 /\ Len(f) = n + 1 /\ f[n + 1] = e /\ \A k \in 1 .. n : f[k] = h[k]
  BY <1>1, <1>2
<1>4. PICK g : g = [k \in DOMAIN h |->
                     [types \in Seq(EventType) |->
                        IF h[k].src = p /\ h[k].parent = r.seq THEN Append(types, h[k].type) ELSE types]]
  OBVIOUS
<1>5. PICK i : i = [k \in DOMAIN f |->
                     [types \in Seq(EventType) |->
                        IF f[k].src = p /\ f[k].parent = r.seq THEN Append(types, f[k].type) ELSE types]]
  OBVIOUS
<1>6. EmittedIn(h, p, r) = InTurn(g, <<>>, n) /\ EmittedIn(f, p, r) = InTurn(i, <<>>, n + 1)
  BY <1>1, <1>3, <1>4, <1>5 DEF EmittedIn
<1>7. \A k \in 1 .. n : g[k] = i[k]
  <2>1. ASSUME NEW k \in 1 .. n PROVE g[k] = i[k]
    <3>1. k \in DOMAIN h /\ k \in DOMAIN f /\ f[k] = h[k]
      BY <1>1, <1>3
    <3> QED
      BY <1>4, <1>5, <3>1
  <2> QED
    BY <2>1
<1>8. InTurn(i, <<>>, n) = InTurn(g, <<>>, n)
  BY <1>7, InTurnSame
<1>9. InTurn(i, <<>>, n + 1) = i[n + 1][InTurn(i, <<>>, n)]
  <2>1. n + 1 \in Nat /\ n + 1 # 0 /\ (n + 1) - 1 = n
    OBVIOUS
  <2>2. InTurn(i, <<>>, n + 1) = i[n + 1][InTurn(i, <<>>, (n + 1) - 1)]
    BY <2>1, InTurnParts
  <2> QED
    BY <2>1, <2>2
<1>10. PICK t : t = EmittedIn(h, p, r) /\ t \in Seq(EventType)
  BY EmittedParts
<1>11. n + 1 \in DOMAIN f
  BY <1>3
<1>12. i[n + 1][t] = IF e.src = p /\ e.parent = r.seq THEN Append(t, e.type) ELSE t
  BY <1>3, <1>5, <1>10, <1>11
<1> QED
  BY <1>2, <1>6, <1>8, <1>9, <1>10, <1>12
-----------------------------------------------------------------------------
(* One emission.                                                           *)

\* What is said of the fact e and of the cycle x after it.
Emission(c, x, e, parent, producer, type) ==
  /\ e.seq = c.st.seq + 1 /\ e.type = type /\ e.src = producer /\ e.parent = parent.seq
  /\ x \in Progress /\ x.hist = Append(c.hist, e)
  /\ x.st.seq = c.st.seq + 1 /\ x.st.ver = c.st.ver
  /\ TimersGrow(c.st, x.st)
  /\ \A s \in Reducers : \A q \in Nat :
       TimesReduced(x.st.trace, s, q) =
         IF q = c.st.seq + 1 /\ s <= producer THEN TimesReduced(c.st.trace, s, q) + 1
         ELSE TimesReduced(c.st.trace, s, q)

\* What the birth of one fact changes.
LEMMA EmitParts ==
  ASSUME CycleAssumption, NEW c \in Progress, NEW parent \in EventRecord, NEW producer \in Stage,
         NEW type \in EventType, NEW x, x = Emit(c, parent, producer, type)
  PROVE  \E child \in EventRecord : Emission(c, x, child, parent, producer, type)
<1>1. c.st \in EngineState /\ c.hist \in Seq(EventRecord) /\ c.st.seq \in Nat /\ c.st.ver \in Nat
      /\ c.st.trace \in Traces /\ parent.seq \in Nat /\ parent.avail \in Nat /\ producer \in 1 .. 9
      /\ producer \in Nat /\ producer # 0
  <2>1. c.st \in EngineState /\ c.hist \in Seq(EventRecord)
    BY DEF Progress
  <2>2. c.st.seq \in Nat /\ c.st.ver \in Nat /\ c.st.trace \in Traces
    BY <2>1 DEF EngineState, Traces
  <2>3. parent.seq \in Nat /\ parent.avail \in Nat /\ producer \in 1 .. 9
    BY DEF EventRecord, Stage
  <2> QED
    BY <2>1, <2>2, <2>3
<1>2. PICK child : child = Child(c, parent, producer, type)
  OBVIOUS
<1>3. /\ child \in EventRecord /\ child.seq = c.st.seq + 1 /\ child.type = type
      /\ child.src = producer /\ child.parent = parent.seq
  <2>1. 0 \in Nat /\ c.st.seq + 1 \in Nat
    BY <1>1
  <2> QED
    BY <1>1, <1>2, <2>1 DEF Child, EventRecord
<1>4. PICK st \in EngineState : st = BeginFact(c.st, child)
  BY <1>1, <1>3, BeginParts
<1>5. /\ st.seq = c.st.seq + 1 /\ st.ver = c.st.ver /\ TimersGrow(c.st, st)
      /\ st.trace = Append(c.st.trace, <<0, child.seq>>)
  BY <1>1, <1>3, <1>4, BeginParts
<1>6. PICK s1 \in EngineState : s1 = CatchUp(st, child, producer)
  BY <1>3, CatchUpParts
<1>7. /\ s1.seq = st.seq /\ s1.ver = st.ver /\ TimersGrow(st, s1)
      /\ \A s \in Reducers : \A q \in Nat :
           TimesReduced(s1.trace, s, q) =
             IF q = child.seq /\ s <= producer THEN TimesReduced(st.trace, s, q) + 1
             ELSE TimesReduced(st.trace, s, q)
  BY <1>3, <1>6, CatchUpParts
<1>9. x = [st |-> s1, hist |-> Append(c.hist, child)]
  BY <1>2, <1>4, <1>6 DEF Emit
<1>10. x \in Progress /\ x.st = s1 /\ x.hist = Append(c.hist, child)
  BY <1>1, <1>3, <1>9 DEF Progress
<1>11. TimersGrow(c.st, s1)
  BY <1>1, <1>5, <1>7, TimersGrowOn
<1>12. ASSUME NEW s \in Reducers, NEW q \in Nat
       PROVE  TimesReduced(st.trace, s, q) = TimesReduced(c.st.trace, s, q)
  <2>1. PICK e : e = <<0, child.seq>> /\ e \in Nat \X Nat /\ e # <<s, q>>
    <3>1. child.seq \in Nat /\ s # 0
      BY <1>1, <1>3 DEF CycleAssumption, Stage
    <3>2. <<0, child.seq>> \in Nat \X Nat /\ <<0, child.seq>> # <<s, q>>
      BY <3>1
    <3> QED
      BY <3>2
  <2>2. TimesReduced(Append(c.st.trace, e), s, q) =
          IF e = <<s, q>> THEN TimesReduced(c.st.trace, s, q) + 1 ELSE TimesReduced(c.st.trace, s, q)
    BY <1>1, <2>1, CountAppended
  <2> QED
    BY <1>5, <2>1, <2>2
<1>13. \A s \in Reducers : \A q \in Nat :
         TimesReduced(s1.trace, s, q) =
           IF q = c.st.seq + 1 /\ s <= producer THEN TimesReduced(c.st.trace, s, q) + 1
           ELSE TimesReduced(c.st.trace, s, q)
  BY <1>3, <1>7, <1>12
<1>14. Emission(c, x, child, parent, producer, type)
  BY <1>3, <1>5, <1>7, <1>10, <1>11, <1>13 DEF Emission
<1> QED
  BY <1>3, <1>14
-----------------------------------------------------------------------------
(* A cycle in progress, after stage k, or at the m-th emission of producer *)
(* p for the fact at place j.                                              *)

Decisions == [Producers -> Seq(Seq(EventType \ {"Wake"}))]

Lined(st, root, c) ==
  /\ c \in Progress /\ Len(c.hist) >= 1 /\ c.hist[1] = root
  /\ \A i \in DOMAIN c.hist : c.hist[i].seq = st.seq + i
  /\ c.st.seq = st.seq + Len(c.hist) /\ c.st.ver = st.ver + 1
  /\ TimersGrow(BeginFact(st, root), c.st)

Placed(c, k) ==
  \A i \in DOMAIN c.hist : i > 1 =>
    /\ c.hist[i].src \in Producers /\ c.hist[i].src <= k /\ c.hist[i].type # "Wake"
    /\ \E j \in 1 .. i - 1 : c.hist[j].seq = c.hist[i].parent /\ c.hist[j].src < c.hist[i].src

Ordered(h) ==
  \A k \in 2 .. Len(h) - 1 :
    \/ h[k].src < h[k + 1].src
    \/ h[k].src = h[k + 1].src /\ h[k].parent <= h[k + 1].parent

\* Every reducer had every fact of the state once.
Counted(st) ==
  \A s \in Reducers : \A q \in Nat :
    TimesReduced(st.trace, s, q) = IF 1 <= q /\ q <= st.seq THEN 1 ELSE 0

\* The reducers of the stages up to k had the facts of the cycle too.
Caught(st, c, k) ==
  \A s \in Reducers : \A q \in Nat :
    TimesReduced(c.st.trace, s, q) =
      IF 1 <= q /\ (q <= st.seq \/ (q <= c.st.seq /\ s <= k)) THEN 1 ELSE 0

\* What the history holds for each slot is what was decided so far.
Held(plan, c, p, j, m, q, i) ==
  IF q < p \/ (q = p /\ i < j) THEN Planned(plan, q, i)
  ELSE IF q = p /\ i = j THEN SubSeq(Planned(plan, p, j), 1, m)
  ELSE <<>>
Holding(plan, c, p, j, m) ==
  \A q \in Producers : \A i \in DOMAIN c.hist :
    c.hist[i].src < q => EmittedIn(c.hist, q, c.hist[i]) = Held(plan, c, p, j, m, q, i)

\* The history of c begins with that of b, and the rest is of producer p.
Kept(b, c, p) ==
  /\ Len(b.hist) <= Len(c.hist) /\ \A i \in DOMAIN b.hist : c.hist[i] = b.hist[i]
  /\ \A i \in DOMAIN c.hist : i > Len(b.hist) => c.hist[i].src = p

\* The last emission was for a fact at place j or before.
LastFor(st, c, p, j) ==
  LET last == c.hist[Len(c.hist)] IN last.src < p \/ (last.src = p /\ last.parent <= st.seq + j)

Underway(st, root, plan, b, c, p, j, m) ==
  /\ Lined(st, root, c) /\ Placed(c, p) /\ Ordered(c.hist) /\ Kept(b, c, p) /\ LastFor(st, c, p, j)
  /\ Counted(st) => Caught(st, c, p)
  /\ Holding(plan, c, p, j, m)

StageOver(st, root, plan, c, k) ==
  /\ Lined(st, root, c) /\ Placed(c, k) /\ Ordered(c.hist)
  /\ Counted(st) => Caught(st, c, k)
  /\ Holding(plan, c, k + 1, 1, 0)

LEMMA PlannedType ==
  ASSUME CycleAssumption, NEW plan \in Decisions, NEW p \in Producers, NEW k
  PROVE  Planned(plan, p, k) \in Seq(EventType) /\ Planned(plan, p, k) \in Seq(EventType \ {"Wake"})
<1>1. plan[p] \in Seq(Seq(EventType \ {"Wake"}))
  BY DEF Decisions
<1>2. Planned(plan, p, k) \in Seq(EventType \ {"Wake"})
  <2>1. CASE k \in DOMAIN plan[p]
    BY <1>1, <2>1 DEF Planned
  <2>2. CASE k \notin DOMAIN plan[p]
    BY <2>2 DEF Planned
  <2> QED
    BY <2>1, <2>2
<1>3. \A t \in Seq(EventType \ {"Wake"}) : t \in Seq(EventType)
  OBVIOUS
<1> QED
  BY <1>2, <1>3

\* The next emission for the fact at place j.
LEMMA EmitOn ==
  ASSUME CycleAssumption, NEW st \in EngineState, NEW root \in EventRecord, root.src = 0,
         NEW plan \in Decisions, NEW p \in Producers, NEW b \in Progress, NEW c,
         NEW j \in Nat, NEW m \in Nat, Underway(st, root, plan, b, c, p, j, m),
         j \in DOMAIN b.hist, b.hist[j].src < p, m + 1 \in DOMAIN Planned(plan, p, j)
  PROVE  Underway(st, root, plan, b, Emit(c, b.hist[j], p, Planned(plan, p, j)[m + 1]), p, j, m + 1)
<1>1. PICK n \in Nat, h \in Seq(EventRecord) : n = Len(h) /\ DOMAIN h = 1 .. n /\ h = c.hist
  <2>1. c.hist \in Seq(EventRecord)
    BY DEF Underway, Lined, Progress
  <2> QED
    BY <2>1
<1>2. p \in Stage /\ p \in Nat /\ p >= 1 /\ st.seq \in Nat /\ Producers \in SUBSET Nat /\ Reducers \in SUBSET Nat
  <2>1. p \in 1 .. 9 /\ Producers \in SUBSET (1 .. 9) /\ Reducers \in SUBSET (1 .. 9)
    BY DEF CycleAssumption, Stage
  <2>2. st.seq \in Nat
    BY DEF EngineState
  <2> QED
    BY <2>1, <2>2 DEF Stage
<1>3. PICK type : type = Planned(plan, p, j)[m + 1] /\ type \in EventType /\ type # "Wake"
  <2>1. Planned(plan, p, j) \in Seq(EventType \ {"Wake"})
    BY PlannedType
  <2> QED
    BY <2>1
<1>4. PICK parent \in EventRecord : parent = b.hist[j]
  <2>1. b.hist \in Seq(EventRecord)
    BY DEF Progress
  <2> QED
    BY <2>1
<1>5. /\ c \in Progress /\ n >= 1 /\ h[1] = root /\ \A i \in 1 .. n : h[i].seq = st.seq + i
      /\ c.st.seq = st.seq + n /\ c.st.ver = st.ver + 1 /\ TimersGrow(BeginFact(st, root), c.st)
  BY <1>1 DEF Underway, Lined
<1>6. j \in 1 .. n /\ h[j] = parent /\ parent.seq = st.seq + j /\ parent.src < p
  <2>1. b.hist \in Seq(EventRecord) /\ Len(b.hist) <= n /\ h[j] = b.hist[j]
    BY <1>1 DEF Underway, Kept, Progress
  <2> QED
    BY <1>1, <1>4, <1>5, <2>1
<1>7. PICK x : x = Emit(c, parent, p, type)
  OBVIOUS
<1>8. PICK e \in EventRecord :
        /\ e.seq = c.st.seq + 1 /\ e.type = type /\ e.src = p /\ e.parent = parent.seq
        /\ x \in Progress /\ x.hist = Append(c.hist, e)
        /\ x.st.seq = c.st.seq + 1 /\ x.st.ver = c.st.ver /\ TimersGrow(c.st, x.st)
        /\ \A s \in Reducers : \A q \in Nat :
             TimesReduced(x.st.trace, s, q) =
               IF q = c.st.seq + 1 /\ s <= p THEN TimesReduced(c.st.trace, s, q) + 1
               ELSE TimesReduced(c.st.trace, s, q)
  <2>1. c \in Progress /\ p \in Stage /\ type \in EventType
    BY <1>2, <1>3, <1>5
  <2>2. \E child \in EventRecord : Emission(c, x, child, parent, p, type)
    BY <1>7, <2>1, EmitParts
  <2> QED
    BY <2>2 DEF Emission
<1>9. PICK f : f = x.hist /\ f \in Seq(EventRecord)
  BY <1>8 DEF Progress
<1>10. /\ Len(f) = n + 1 /\ DOMAIN f = 1 .. n + 1 /\ f[n + 1] = e /\ \A i \in 1 .. n : f[i] = h[i]
       /\ f = Append(h, e)
  BY <1>1, <1>8, <1>9
<1>11. Lined(st, root, x)
  <2>1. Len(f) >= 1 /\ f[1] = root
    BY <1>5, <1>10
  <2>2. \A i \in DOMAIN f : f[i].seq = st.seq + i
    <3>1. e.seq = st.seq + (n + 1)
      <4>1. (st.seq + n) + 1 = st.seq + (n + 1)
        BY <1>2
      <4> QED
        BY <1>5, <1>8, <4>1
    <3>2. ASSUME NEW i \in 1 .. n + 1 PROVE f[i].seq = st.seq + i
      <4>1. CASE i = n + 1
        BY <1>10, <3>1, <4>1
      <4>2. CASE i # n + 1
        BY <1>5, <1>10, <4>2
      <4> QED
        BY <4>1, <4>2
    <3> QED
      BY <1>10, <3>2
  <2>3. x.st.seq = st.seq + Len(f) /\ x.st.ver = st.ver + 1
    <3>1. x.st.seq = st.seq + (n + 1)
      <4>1. (st.seq + n) + 1 = st.seq + (n + 1)
        BY <1>2
      <4> QED
        BY <1>5, <1>8, <4>1
    <3> QED
      BY <1>5, <1>8, <1>10, <3>1
  <2>4. TimersGrow(BeginFact(st, root), x.st)
    <3>1. BeginFact(st, root) \in EngineState /\ c.st \in EngineState /\ x.st \in EngineState
      BY <1>5, <1>8, BeginParts DEF Progress
    <3> QED
      BY <1>5, <1>8, <3>1, TimersGrowOn
  <2> QED
    BY <1>8, <1>9, <2>1, <2>2, <2>3, <2>4 DEF Lined
<1>12. Placed(x, p)
  <2>1. ASSUME NEW i \in DOMAIN f, i > 1
        PROVE  /\ f[i].src \in Producers /\ f[i].src <= p /\ f[i].type # "Wake"
               /\ \E k \in 1 .. i - 1 : f[k].seq = f[i].parent /\ f[k].src < f[i].src
    <3>1. CASE i = n + 1
      <4>1. j \in 1 .. i - 1 /\ f[j].seq = f[i].parent /\ f[j].src < f[i].src
        BY <1>1, <1>6, <1>8, <1>10, <3>1
      <4>2. f[i].src = p /\ f[i].type = type
        BY <1>8, <1>10, <3>1
      <4>3. p <= p
        BY <1>2
      <4> QED
        BY <1>3, <4>1, <4>2, <4>3
    <3>2. CASE i # n + 1
      <4>1. i \in 1 .. n /\ f[i] = h[i]
        BY <1>10, <3>2
      <4>2. /\ h[i].src \in Producers /\ h[i].src <= p /\ h[i].type # "Wake"
            /\ \E k \in 1 .. i - 1 : h[k].seq = h[i].parent /\ h[k].src < h[i].src
        BY <1>1, <2>1, <4>1 DEF Underway, Placed
      <4>3. PICK k \in 1 .. i - 1 : h[k].seq = h[i].parent /\ h[k].src < h[i].src
        BY <4>2
      <4>4. f[k] = h[k]
        BY <1>10, <4>1
      <4> QED
        BY <4>1, <4>2, <4>3, <4>4
    <3> QED
      BY <3>1, <3>2
  <2> QED
    BY <1>9, <2>1 DEF Placed
<1>13. Ordered(f)
  <2>1. ASSUME NEW k \in 2 .. Len(f) - 1
        PROVE  \/ f[k].src < f[k + 1].src
               \/ f[k].src = f[k + 1].src /\ f[k].parent <= f[k + 1].parent
    <3>1. CASE k = n
      <4>1. f[k] = h[n] /\ f[k + 1] = e
        BY <1>10, <3>1
      <4>2. h[n].src < p \/ (h[n].src = p /\ h[n].parent <= st.seq + j)
        BY <1>1 DEF Underway, LastFor
      <4> QED
        BY <1>6, <1>8, <4>1, <4>2
    <3>2. CASE k # n
      <4>1. k \in 2 .. n - 1 /\ k \in 1 .. n /\ k + 1 \in 1 .. n
        BY <1>10, <3>2
      <4>2. f[k] = h[k] /\ f[k + 1] = h[k + 1]
        BY <1>10, <4>1
      <4> QED
        BY <1>1, <4>1, <4>2 DEF Underway, Ordered
    <3> QED
      BY <3>1, <3>2
  <2> QED
    BY <2>1 DEF Ordered
<1>14. Kept(b, x, p)
  <2>1. PICK l \in Nat : l = Len(b.hist) /\ DOMAIN b.hist = 1 .. l
    BY DEF Progress
  <2>2. l <= n /\ (\A i \in 1 .. l : h[i] = b.hist[i]) /\ \A i \in 1 .. n : i > l => h[i].src = p
    BY <1>1, <2>1 DEF Underway, Kept
  <2>3. /\ l <= n + 1 /\ (\A i \in 1 .. l : f[i] = b.hist[i])
        /\ \A i \in 1 .. n + 1 : i > l => f[i].src = p
    BY <1>8, <1>10, <2>1, <2>2
  <2> QED
    BY <1>9, <1>10, <2>1, <2>3 DEF Kept
<1>15. LastFor(st, x, p, j)
  BY <1>2, <1>6, <1>8, <1>9, <1>10 DEF LastFor
<1>16. ASSUME Counted(st) PROVE Caught(st, x, p)
  <2>1. ASSUME NEW s \in Reducers, NEW q \in Nat
        PROVE  TimesReduced(x.st.trace, s, q) =
                 IF 1 <= q /\ (q <= st.seq \/ (q <= x.st.seq /\ s <= p)) THEN 1 ELSE 0
    <3>1. PICK t, u : t = TimesReduced(x.st.trace, s, q) /\ u = TimesReduced(c.st.trace, s, q)
      OBVIOUS
    <3>2. u = IF 1 <= q /\ (q <= st.seq \/ (q <= st.seq + n /\ s <= p)) THEN 1 ELSE 0
      BY <1>5, <1>16, <3>1 DEF Underway, Caught
    <3>3. t = IF q = (st.seq + n) + 1 /\ s <= p THEN u + 1 ELSE u
      BY <1>5, <1>8, <3>1
    <3>4. x.st.seq = (st.seq + n) + 1
      BY <1>5, <1>8
    <3>5. t = IF 1 <= q /\ (q <= st.seq \/ (q <= (st.seq + n) + 1 /\ s <= p)) THEN 1 ELSE 0
      <4>1. PICK a \in Nat, w \in Nat : a = st.seq /\ w = st.seq + n /\ a <= w
        BY <1>2
      <4>2. CASE s <= p
        <5>1. u = IF 1 <= q /\ (q <= a \/ q <= w) THEN 1 ELSE 0
          BY <3>2, <4>1, <4>2
        <5>2. t = IF q = w + 1 THEN u + 1 ELSE u
          BY <3>3, <4>1, <4>2
        <5>3. t = IF 1 <= q /\ q <= w + 1 THEN 1 ELSE 0
          <6>1. CASE q = w + 1
            <7>1. u = 0 /\ t = u + 1 /\ 1 <= q /\ q <= w + 1
              BY <4>1, <5>1, <5>2, <6>1
            <7> QED
              BY <7>1
          <6>2. CASE q # w + 1
            <7>1. t = u /\ (q <= w + 1 <=> q <= w) /\ (q <= a => q <= w)
              BY <4>1, <5>2, <6>2
            <7> QED
              BY <5>1, <7>1
          <6> QED
            BY <6>1, <6>2
        <5> QED
          BY <4>1, <4>2, <5>3
      <4>3. CASE ~(s <= p)
        BY <3>2, <3>3, <4>3
      <4> QED
        BY <4>2, <4>3
    <3> QED
      BY <3>1, <3>4, <3>5
  <2> QED
    BY <2>1 DEF Caught
<1>17. Holding(plan, x, p, j, m + 1)
  <2>1. ASSUME NEW q \in Producers, NEW i \in DOMAIN f, f[i].src < q
        PROVE  EmittedIn(f, q, f[i]) = Held(plan, x, p, j, m + 1, q, i)
    <3>1. EmittedIn(f, q, f[i]) =
            IF e.src = q /\ e.parent = f[i].seq THEN Append(EmittedIn(h, q, f[i]), e.type)
            ELSE EmittedIn(h, q, f[i])
      <4>1. \A r : EmittedIn(Append(h, e), q, r) =
              IF e.src = q /\ e.parent = r.seq THEN Append(EmittedIn(h, q, r), e.type) ELSE EmittedIn(h, q, r)
        BY EmittedAppended
      <4>2. EmittedIn(Append(h, e), q, f[i]) =
              IF e.src = q /\ e.parent = f[i].seq THEN Append(EmittedIn(h, q, f[i]), e.type)
              ELSE EmittedIn(h, q, f[i])
        BY <4>1
      <4> QED
        BY <1>10, <4>2
    <3>2. CASE i = n + 1
      <4>1. ~(e.parent = f[i].seq) /\ q # p /\ ~(q < p)
        BY <1>2, <1>5, <1>6, <1>8, <1>10, <2>1, <3>2
      <4>2. ASSUME NEW k \in DOMAIN h PROVE ~(h[k].src = q /\ h[k].parent = f[i].seq)
        <5>1. f[i].seq = (st.seq + n) + 1
          BY <1>5, <1>8, <1>10, <3>2
        <5>2. CASE k = 1
          BY <1>2, <1>5, <4>1, <5>2
        <5>3. CASE k # 1
          <6>1. k \in 1 .. n /\ k > 1
            BY <1>1, <5>3
          <6>2. PICK l \in 1 .. k - 1 : h[l].seq = h[k].parent
            BY <1>1, <6>1 DEF Underway, Placed
          <6>3. h[k].parent = st.seq + l /\ l <= n
            BY <1>5, <6>1, <6>2
          <6> QED
            BY <1>2, <5>1, <6>3
        <5> QED
          BY <5>2, <5>3
      <4>3. EmittedIn(h, q, f[i]) = <<>>
        BY <4>2, EmittedParts
      <4>4. Held(plan, x, p, j, m + 1, q, i) = <<>>
        BY <1>2, <4>1 DEF Held
      <4> QED
        BY <3>1, <4>1, <4>3, <4>4
    <3>3. CASE i # n + 1
      <4>1. i \in 1 .. n /\ f[i] = h[i] /\ i \in DOMAIN c.hist
        BY <1>1, <1>10, <3>3
      <4>2. EmittedIn(h, q, h[i]) = Held(plan, c, p, j, m, q, i)
        BY <1>1, <2>1, <4>1 DEF Underway, Holding
      <4>3. e.parent = f[i].seq <=> i = j
        <5>1. e.parent = st.seq + j /\ f[i].seq = st.seq + i
          BY <1>5, <1>6, <1>8, <4>1
        <5>2. st.seq + j = st.seq + i <=> i = j
          BY <1>2, <4>1
        <5> QED
          BY <5>1, <5>2
      <4>4. CASE q = p /\ i = j
        <5>1. Held(plan, c, p, j, m, q, i) = SubSeq(Planned(plan, p, j), 1, m)
          BY <1>2, <4>4 DEF Held
        <5>2. Held(plan, x, p, j, m + 1, q, i) = SubSeq(Planned(plan, p, j), 1, m + 1)
          BY <1>2, <4>4 DEF Held
        <5>3. SubSeq(Planned(plan, p, j), 1, m + 1) = Append(SubSeq(Planned(plan, p, j), 1, m), type)
          <6>1. PICK d \in Seq(EventType) : d = Planned(plan, p, j) /\ m + 1 \in 1 .. Len(d) /\ type = d[m + 1]
            BY <1>3, PlannedType
          <6>2. SubSeq(d, 1, m + 1) = Append(SubSeq(d, 1, m), d[m + 1])
            BY <6>1
          <6> QED
            BY <6>1, <6>2
        <5> QED
          BY <1>8, <3>1, <4>1, <4>2, <4>3, <4>4, <5>1, <5>2, <5>3
      <4>5. CASE ~(q = p /\ i = j)
        <5>1. Held(plan, x, p, j, m + 1, q, i) = Held(plan, c, p, j, m, q, i)
          BY <4>5 DEF Held
        <5> QED
          BY <1>8, <3>1, <4>1, <4>2, <4>3, <4>5, <5>1
      <4> QED
        BY <4>4, <4>5
    <3> QED
      BY <3>2, <3>3
  <2> QED
    BY <1>9, <2>1 DEF Holding
<1>18. Underway(st, root, plan, b, x, p, j, m + 1)
  BY <1>9, <1>11, <1>12, <1>13, <1>14, <1>15, <1>16, <1>17 DEF Underway
<1> QED
  BY <1>3, <1>4, <1>7, <1>18
\* All emissions for the fact at place j.
LEMMA EmitAllOn ==
  ASSUME CycleAssumption, NEW st \in EngineState, NEW root \in EventRecord, root.src = 0,
         NEW plan \in Decisions, NEW p \in Producers, NEW b \in Progress, NEW c,
         NEW j \in Nat, Underway(st, root, plan, b, c, p, j, 0),
         j \in DOMAIN b.hist, b.hist[j].src < p
  PROVE  Underway(st, root, plan, b, EmitAll(c, b.hist[j], p, Planned(plan, p, j)), p, j,
                  Len(Planned(plan, p, j)))
<1>1. PICK d \in Seq(EventType) : d = Planned(plan, p, j)
  BY PlannedType
<1>2. PICK n \in Nat : n = Len(d) /\ DOMAIN d = 1 .. n
  OBVIOUS
<1>3. PICK J : J = [i \in 0 .. n |-> {x \in Progress : Underway(st, root, plan, b, x, p, j, i)}]
  OBVIOUS
<1>4. PICK g : g = [i \in DOMAIN d |-> [x \in Progress |-> Emit(x, b.hist[j], p, d[i])]]
  OBVIOUS
<1>5. \A x : \A m : Underway(st, root, plan, b, x, p, j, m) => x \in Progress
  BY DEF Underway, Lined
<1>6. c \in J[0]
  <2>1. 0 \in 0 .. n
    BY <1>2
  <2> QED
    BY <1>3, <1>5, <2>1
<1>7. ASSUME NEW k \in 1 .. n, NEW y \in J[k - 1] PROVE g[k][y] \in J[k]
  <2>1. k \in DOMAIN d /\ k \in 0 .. n /\ k - 1 \in 0 .. n /\ k - 1 \in Nat /\ (k - 1) + 1 = k
    BY <1>2
  <2>2. y \in Progress /\ Underway(st, root, plan, b, y, p, j, k - 1)
    BY <1>3, <2>1
  <2>3. g[k][y] = Emit(y, b.hist[j], p, d[k])
    BY <1>4, <2>1, <2>2
  <2>4. PICK l \in Nat : l = k - 1 /\ l + 1 = k
    BY <2>1
  <2>5. Underway(st, root, plan, b, Emit(y, b.hist[j], p, Planned(plan, p, j)[l + 1]), p, j, l + 1)
    <3>1. l + 1 \in DOMAIN Planned(plan, p, j) /\ Underway(st, root, plan, b, y, p, j, l)
      BY <1>1, <2>1, <2>2, <2>4
    <3> QED
      BY <3>1, EmitOn
  <2>6. Underway(st, root, plan, b, g[k][y], p, j, k)
    BY <1>1, <2>3, <2>4, <2>5
  <2> QED
    BY <1>3, <1>5, <2>1, <2>6
<1>8. \A k \in 0 .. n : InTurn(g, c, k) \in J[k]
  BY <1>6, <1>7, InTurnLeads
<1>9. Underway(st, root, plan, b, InTurn(g, c, n), p, j, n)
  <2>1. n \in 0 .. n
    BY <1>2
  <2> QED
    BY <1>3, <1>8, <2>1
<1>10. EmitAll(c, b.hist[j], p, d) = InTurn(g, c, n)
  BY <1>2, <1>4 DEF EmitAll
<1> QED
  BY <1>1, <1>2, <1>9, <1>10

\* The producer turns to the next fact.
LEMMA NextCause ==
  ASSUME CycleAssumption, NEW st \in EngineState, NEW root,
         NEW plan \in Decisions, NEW p \in Producers, NEW b, NEW c,
         NEW j \in Nat, Underway(st, root, plan, b, c, p, j, Len(Planned(plan, p, j)))
  PROVE  Underway(st, root, plan, b, c, p, j + 1, 0)
<1>1. PICK n \in Nat : n = Len(c.hist) /\ DOMAIN c.hist = 1 .. n /\ n >= 1
  BY DEF Underway, Lined, Progress
<1>2. p \in Nat /\ st.seq \in Nat /\ Producers \in SUBSET Nat
  <2>1. Producers \in SUBSET (1 .. 9)
    BY DEF CycleAssumption, Stage
  <2> QED
    BY <2>1 DEF EngineState
<1>3. LastFor(st, c, p, j + 1)
  <2>1. c.hist[n] \in EventRecord
    BY <1>1 DEF Underway, Lined, Progress
  <2>2. c.hist[n].parent \in Nat
    BY <2>1 DEF EventRecord
  <2>3. PICK last : last = c.hist[n] /\ last.parent \in Nat
    BY <2>2
  <2>4. last.src < p \/ (last.src = p /\ last.parent <= st.seq + j)
    BY <1>1, <2>3 DEF Underway, LastFor
  <2>5. last.src < p \/ (last.src = p /\ last.parent <= st.seq + (j + 1))
    BY <1>2, <2>3, <2>4
  <2> QED
    BY <1>1, <2>3, <2>5 DEF LastFor
<1>4. Holding(plan, c, p, j + 1, 0)
  <2>1. ASSUME NEW q \in Producers, NEW i \in DOMAIN c.hist, c.hist[i].src < q
        PROVE  EmittedIn(c.hist, q, c.hist[i]) = Held(plan, c, p, j + 1, 0, q, i)
    <3>1. EmittedIn(c.hist, q, c.hist[i]) = Held(plan, c, p, j, Len(Planned(plan, p, j)), q, i)
      BY <2>1 DEF Underway, Holding
    <3>2. Held(plan, c, p, j, Len(Planned(plan, p, j)), q, i) = Held(plan, c, p, j + 1, 0, q, i)
      <4>1. PICK d \in Seq(EventType) : d = Planned(plan, p, j)
        BY PlannedType
      <4>2. SubSeq(d, 1, Len(d)) = d
        BY <4>1
      <4>3. PICK d1 \in Seq(EventType) : d1 = Planned(plan, p, j + 1)
        BY PlannedType
      <4>4. SubSeq(d1, 1, 0) = <<>>
        BY <4>3
      <4>5. i \in Nat /\ q \in Nat
        BY <1>1, <1>2
      <4>6. CASE q < p
        BY <4>6 DEF Held
      <4>7. CASE q = p /\ i < j
        <5>1. i < j + 1
          BY <4>5, <4>7
        <5> QED
          BY <4>7, <5>1 DEF Held
      <4>8. CASE q = p /\ i = j
        <5>1. ~(q < p) /\ ~(i < j) /\ i < j + 1
          BY <1>2, <4>8
        <5> QED
          BY <4>1, <4>2, <4>8, <5>1 DEF Held
      <4>9. CASE q = p /\ i = j + 1
        <5>1. ~(q < p) /\ ~(i < j) /\ i # j /\ ~(i < j + 1)
          BY <1>2, <4>9
        <5> QED
          BY <4>3, <4>4, <4>9, <5>1 DEF Held
      <4>10. CASE q = p /\ i > j + 1
        <5>1. ~(q < p) /\ ~(i < j) /\ i # j /\ ~(i < j + 1) /\ i # j + 1
          BY <1>2, <4>5, <4>10
        <5> QED
          BY <5>1 DEF Held
      <4>11. CASE q # p /\ ~(q < p)
        BY <4>11 DEF Held
      <4> QED
        BY <1>2, <4>5, <4>6, <4>7, <4>8, <4>9, <4>10, <4>11
    <3> QED
      BY <3>1, <3>2
  <2> QED
    BY <2>1 DEF Holding
<1> QED
  BY <1>3, <1>4 DEF Underway

\* The state before a producer decides: its reducer, if any, has run.
Reduced(c, k) == IF k \in Reducers THEN [c EXCEPT !.st = Reduce(c.st, c.hist, k)] ELSE c

\* A stage that is over lets the reducer of the next one run.
LEMMA ReduceOn ==
  ASSUME CycleAssumption, NEW st \in EngineState, NEW root \in EventRecord, root.src = 0,
         NEW plan \in Decisions, NEW k \in Stage, NEW c, StageOver(st, root, plan, c, k - 1)
  PROVE  /\ Reduced(c, k) \in Progress /\ Reduced(c, k).hist = c.hist
         /\ Lined(st, root, Reduced(c, k)) /\ Placed(Reduced(c, k), k - 1) /\ Ordered(Reduced(c, k).hist)
         /\ Counted(st) => Caught(st, Reduced(c, k), k)
         /\ Holding(plan, Reduced(c, k), k, 1, 0)
         /\ \A i \in DOMAIN c.hist : c.hist[i].src < k
<1>1. /\ k \in Nat /\ k >= 1 /\ k - 1 \in Nat /\ (k - 1) + 1 = k /\ st.seq \in Nat
      /\ Reducers \in SUBSET Nat /\ Producers \in SUBSET Nat
  <2>1. Reducers \in SUBSET (1 .. 9) /\ Producers \in SUBSET (1 .. 9) /\ k \in 1 .. 9
    BY DEF CycleAssumption, Stage
  <2> QED
    BY <2>1 DEF EngineState
<1>2. PICK n \in Nat : n = Len(c.hist) /\ DOMAIN c.hist = 1 .. n /\ n >= 1
  BY DEF StageOver, Lined, Progress
<1>3. /\ c \in Progress /\ c.st \in EngineState /\ c.hist \in Seq(EventRecord)
      /\ c = [st |-> c.st, hist |-> c.hist] /\ c.hist[1] = root
      /\ (\A i \in 1 .. n : c.hist[i].seq = st.seq + i)
      /\ c.st.seq = st.seq + n /\ c.st.ver = st.ver + 1 /\ TimersGrow(BeginFact(st, root), c.st)
  BY <1>2 DEF StageOver, Lined, Progress
<1>4. \A i \in 1 .. n : c.hist[i].src < k
  <2>1. ASSUME NEW i \in 1 .. n PROVE c.hist[i].src < k
    <3>1. CASE i = 1
      BY <1>1, <1>3, <3>1
    <3>2. CASE i # 1
      <4>1. i > 1 /\ i \in DOMAIN c.hist
        BY <1>2, <3>2
      <4>2. PICK v : v = c.hist[i].src /\ v \in Producers /\ v <= k - 1
        BY <4>1 DEF StageOver, Placed
      <4>3. v \in Nat
        BY <1>1, <4>2
      <4>4. v < k
        BY <1>1, <4>2, <4>3
      <4> QED
        BY <4>2, <4>4
    <3> QED
      BY <3>1, <3>2
  <2> QED
    BY <2>1
<1>5. Holding(plan, c, k, 1, 0)
  BY <1>1 DEF StageOver
<1>6. PICK x : x = Reduced(c, k)
  OBVIOUS
<1>7. CASE k \in Reducers
  <2>0. \A i \in DOMAIN c.hist : c.hist[i].seq = st.seq + i /\ c.hist[i].src < k
    BY <1>2, <1>3, <1>4
  <2>1. PICK s1 : s1 = Reduce(c.st, c.hist, k) /\ Reduction(c.st, s1, k, st.seq, n)
    BY <1>1, <1>2, <1>3, <2>0, ReduceParts
  <2>2. /\ s1 \in EngineState /\ s1.seq = c.st.seq /\ s1.ver = c.st.ver /\ TimersGrow(c.st, s1)
        /\ \A s \in Reducers : \A q \in Nat :
             TimesReduced(s1.trace, s, q) =
               IF s = k /\ st.seq < q /\ q <= st.seq + n THEN TimesReduced(c.st.trace, s, q) + 1
               ELSE TimesReduced(c.st.trace, s, q)
    BY <2>1 DEF Reduction
  <2>3. x = [c EXCEPT !.st = s1]
    BY <1>6, <1>7, <2>1 DEF Reduced
  <2>4. x \in Progress /\ x.st = s1 /\ x.hist = c.hist
    BY <1>3, <2>2, <2>3 DEF Progress
  <2>5. TimersGrow(BeginFact(st, root), s1)
    <3>1. BeginFact(st, root) \in EngineState
      BY BeginParts
    <3> QED
      BY <1>3, <2>2, <3>1, TimersGrowOn
  <2>6. Lined(st, root, x)
    BY <1>2, <1>3, <2>2, <2>4, <2>5 DEF Lined
  <2>7. Placed(x, k - 1) /\ Ordered(x.hist)
    BY <2>4 DEF StageOver, Placed
  <2>8. Holding(plan, x, k, 1, 0)
    BY <1>5, <2>4 DEF Holding, Held
  <2>9. ASSUME Counted(st) PROVE Caught(st, x, k)
    <3>1. ASSUME NEW s \in Reducers, NEW q \in Nat
          PROVE  TimesReduced(x.st.trace, s, q) =
                   IF 1 <= q /\ (q <= st.seq \/ (q <= x.st.seq /\ s <= k)) THEN 1 ELSE 0
      <4>1. PICK t, u : t = TimesReduced(s1.trace, s, q) /\ u = TimesReduced(c.st.trace, s, q)
        OBVIOUS
      <4>2. u = IF 1 <= q /\ (q <= st.seq \/ (q <= st.seq + n /\ s <= k - 1)) THEN 1 ELSE 0
        BY <1>3, <2>9, <4>1 DEF StageOver, Caught
      <4>3. t = IF s = k /\ st.seq < q /\ q <= st.seq + n THEN u + 1 ELSE u
        BY <1>2, <2>2, <4>1
      <4>4. x.st.seq = st.seq + n
        BY <1>3, <2>2, <2>4
      <4>5. s \in Nat
        BY <1>1
      <4>6. t = IF 1 <= q /\ (q <= st.seq \/ (q <= st.seq + n /\ s <= k)) THEN 1 ELSE 0
        BY <1>1, <4>2, <4>3, <4>5
      <4> QED
        BY <2>4, <4>1, <4>4, <4>6
    <3> QED
      BY <3>1 DEF Caught
  <2> QED
    BY <1>2, <1>4, <1>6, <2>4, <2>6, <2>7, <2>8, <2>9
<1>8. CASE k \notin Reducers
  <2>1. x = c
    BY <1>6, <1>8 DEF Reduced
  <2>2. ASSUME Counted(st) PROVE Caught(st, x, k)
    <3>1. Caught(st, c, k - 1)
      BY <2>2 DEF StageOver
    <3>2. \A s \in Reducers : s <= k - 1 <=> s <= k
      BY <1>1, <1>8
    <3> QED
      BY <2>1, <3>1, <3>2 DEF Caught
  <2>3. Lined(st, root, x) /\ Placed(x, k - 1) /\ Ordered(x.hist)
    BY <2>1 DEF StageOver
  <2> QED
    BY <1>2, <1>3, <1>4, <1>5, <1>6, <2>1, <2>2, <2>3
<1> QED
  BY <1>7, <1>8
\* A producer decides on each fact born before its stage.
LEMMA ProduceOn ==
  ASSUME CycleAssumption, NEW st \in EngineState, NEW root \in EventRecord, root.src = 0,
         NEW plan \in Decisions, NEW p \in Producers, NEW b \in Progress,
         Underway(st, root, plan, b, b, p, 1, 0), \A i \in DOMAIN b.hist : b.hist[i].src < p
  PROVE  Underway(st, root, plan, b, Produce(b, p, TRUE, plan), p, Len(b.hist) + 1, 0)
<1>1. PICK n \in Nat : n = Len(b.hist) /\ DOMAIN b.hist = 1 .. n
  BY DEF Progress
<1>2. PICK J : J = [i \in 0 .. n |-> {x \in Progress : Underway(st, root, plan, b, x, p, i + 1, 0)}]
  OBVIOUS
<1>3. PICK g : g = [k \in DOMAIN b.hist |->
                     [x \in Progress |->
                        IF b.hist[k].src < p
                        THEN EmitAll(x, b.hist[k], p, Drafts(TRUE, plan, p, k, b.hist[k])) ELSE x]]
  OBVIOUS
<1>4. \A x : \A j, m : Underway(st, root, plan, b, x, p, j, m) => x \in Progress
  BY DEF Underway, Lined
<1>5. b \in J[0]
  <2>1. 0 \in 0 .. n /\ 0 + 1 = 1
    BY <1>1
  <2> QED
    BY <1>2, <2>1
<1>6. ASSUME NEW k \in 1 .. n, NEW y \in J[k - 1] PROVE g[k][y] \in J[k]
  <2>1. k \in DOMAIN b.hist /\ k \in 0 .. n /\ k - 1 \in 0 .. n /\ (k - 1) + 1 = k /\ k \in Nat
    BY <1>1
  <2>2. y \in Progress /\ Underway(st, root, plan, b, y, p, k, 0)
    BY <1>2, <2>1
  <2>3. g[k][y] = EmitAll(y, b.hist[k], p, Planned(plan, p, k))
    BY <1>3, <2>1, <2>2 DEF Drafts
  <2>4. Underway(st, root, plan, b, g[k][y], p, k, Len(Planned(plan, p, k)))
    BY <2>1, <2>2, <2>3, EmitAllOn
  <2>5. Underway(st, root, plan, b, g[k][y], p, k + 1, 0)
    BY <2>1, <2>4, NextCause
  <2> QED
    BY <1>2, <1>4, <2>1, <2>5
<1>7. \A k \in 0 .. n : InTurn(g, b, k) \in J[k]
  BY <1>5, <1>6, InTurnLeads
<1>8. Underway(st, root, plan, b, InTurn(g, b, n), p, n + 1, 0)
  <2>1. n \in 0 .. n
    BY <1>1
  <2> QED
    BY <1>2, <1>7, <2>1
<1>9. Produce(b, p, TRUE, plan) = InTurn(g, b, n)
  BY <1>1, <1>3 DEF Produce
<1> QED
  BY <1>1, <1>8, <1>9

\* The history l goes on from h.
Begins(h, l) == Len(h) <= Len(l) /\ \A i \in DOMAIN h : i \in DOMAIN l /\ l[i] = h[i]

\* One stage.
LEMMA StageOn ==
  ASSUME CycleAssumption, NEW st \in EngineState, NEW root \in EventRecord, root.src = 0,
         NEW plan \in Decisions, NEW k \in Stage, NEW c, StageOver(st, root, plan, c, k - 1)
  PROVE  /\ StageOver(st, root, plan, RunStage(c, k, TRUE, plan), k)
         /\ Begins(c.hist, RunStage(c, k, TRUE, plan).hist)
<1>1. PICK b : b = Reduced(c, k)
  OBVIOUS
<1>2. /\ b \in Progress /\ b.hist = c.hist /\ Lined(st, root, b) /\ Placed(b, k - 1) /\ Ordered(b.hist)
      /\ Counted(st) => Caught(st, b, k)
      /\ Holding(plan, b, k, 1, 0)
      /\ \A i \in DOMAIN b.hist : b.hist[i].src < k
  BY <1>1, ReduceOn
<1>3. /\ k \in Nat /\ k >= 1 /\ k - 1 \in Nat /\ (k - 1) + 1 = k /\ st.seq \in Nat
      /\ Reducers \in SUBSET Nat /\ Producers \in SUBSET Nat
  <2>1. Reducers \in SUBSET (1 .. 9) /\ Producers \in SUBSET (1 .. 9) /\ k \in 1 .. 9
    BY DEF CycleAssumption, Stage
  <2> QED
    BY <2>1 DEF EngineState
<1>4. PICK n \in Nat : n = Len(b.hist) /\ DOMAIN b.hist = 1 .. n /\ n >= 1
  BY <1>2 DEF Lined, Progress
<1>5. Placed(b, k)
  <2>1. \A v \in Producers : v <= k - 1 => v <= k
    BY <1>3
  <2> QED
    BY <1>2, <2>1 DEF Placed
<1>6. PICK x : x = RunStage(c, k, TRUE, plan)
  OBVIOUS
<1>7. CASE k \in Producers
  <2>1. x = Produce(b, k, TRUE, plan)
    BY <1>1, <1>6, <1>7 DEF RunStage, Reduced
  <2>2. LastFor(st, b, k, 1)
    <3>1. b.hist[n].src < k
      BY <1>2, <1>4
    <3> QED
      BY <1>4, <3>1 DEF LastFor
  <2>3. Kept(b, b, k)
    BY <1>4 DEF Kept
  <2>4. Underway(st, root, plan, b, b, k, 1, 0)
    BY <1>2, <1>5, <2>2, <2>3 DEF Underway
  <2>5. Underway(st, root, plan, b, x, k, n + 1, 0)
    BY <1>2, <1>4, <1>7, <2>1, <2>4, ProduceOn
  <2>6. Holding(plan, x, k + 1, 1, 0)
    <3>1. ASSUME NEW q \in Producers, NEW i \in DOMAIN x.hist, x.hist[i].src < q
          PROVE  EmittedIn(x.hist, q, x.hist[i]) = Held(plan, x, k + 1, 1, 0, q, i)
      <4>1. EmittedIn(x.hist, q, x.hist[i]) = Held(plan, x, k, n + 1, 0, q, i)
        BY <2>5, <3>1 DEF Underway, Holding
      <4>2. i \in Nat /\ q \in Nat /\ i >= 1
        <5>1. x.hist \in Seq(EventRecord)
          BY <2>5 DEF Underway, Lined, Progress
        <5> QED
          BY <1>3, <5>1
      <4>3. CASE q < k
        <5>1. q < k + 1
          BY <1>3, <4>2, <4>3
        <5> QED
          BY <4>1, <4>3, <5>1 DEF Held
      <4>4. CASE q = k
        <5>1. ~(i > n)
          <6>1. i > n => x.hist[i].src = k
            BY <1>4, <2>5 DEF Underway, Kept
          <6> QED
            BY <1>3, <3>1, <4>4, <6>1
        <5>2. i < n + 1 /\ q < k + 1
          BY <1>3, <1>4, <4>2, <4>4, <5>1
        <5> QED
          BY <4>1, <4>4, <5>2 DEF Held
      <4>5. CASE q > k
        <5>1. ~(q < k) /\ q # k /\ ~(q < k + 1) /\ ~(i < 1)
          BY <1>3, <4>2, <4>5
        <5>2. Held(plan, x, k, n + 1, 0, q, i) = <<>>
          BY <5>1 DEF Held
        <5>3. PICK d \in Seq(EventType) : d = Planned(plan, q, 1)
          BY PlannedType
        <5>4. SubSeq(d, 1, 0) = <<>>
          BY <5>3
        <5>5. Held(plan, x, k + 1, 1, 0, q, i) = <<>>
          <6>1. CASE q = k + 1 /\ i = 1
            <7>1. Held(plan, x, k + 1, 1, 0, q, i) = SubSeq(Planned(plan, k + 1, 1), 1, 0)
              BY <5>1, <6>1 DEF Held
            <7> QED
              BY <5>3, <5>4, <6>1, <7>1
          <6>2. CASE ~(q = k + 1 /\ i = 1)
            BY <5>1, <6>2 DEF Held
          <6> QED
            BY <6>1, <6>2
        <5> QED
          BY <4>1, <5>2, <5>5
      <4> QED
        BY <1>3, <4>2, <4>3, <4>4, <4>5
    <3> QED
      BY <3>1 DEF Holding
  <2>7. StageOver(st, root, plan, x, k)
    BY <2>5, <2>6 DEF Underway, StageOver
  <2>8. Begins(b.hist, x.hist)
    <3>1. x.hist \in Seq(EventRecord)
      BY <2>5 DEF Underway, Lined, Progress
    <3>2. PICK l \in Nat : l = Len(x.hist) /\ DOMAIN x.hist = 1 .. l
      BY <3>1
    <3>3. n <= l /\ \A i \in 1 .. n : x.hist[i] = b.hist[i]
      BY <1>4, <2>5, <3>2 DEF Underway, Kept
    <3> QED
      BY <1>4, <3>2, <3>3 DEF Begins
  <2> QED
    BY <1>2, <1>6, <2>7, <2>8
<1>8. CASE k \notin Producers
  <2>1. x = b
    BY <1>1, <1>6, <1>8 DEF RunStage, Reduced
  <2>2. Holding(plan, b, k + 1, 1, 0)
    <3>1. ASSUME NEW q \in Producers, NEW i \in DOMAIN b.hist, b.hist[i].src < q
          PROVE  EmittedIn(b.hist, q, b.hist[i]) = Held(plan, b, k + 1, 1, 0, q, i)
      <4>1. EmittedIn(b.hist, q, b.hist[i]) = Held(plan, b, k, 1, 0, q, i)
        BY <1>2, <3>1 DEF Holding
      <4>2. i \in Nat /\ q \in Nat /\ i >= 1 /\ q # k
        BY <1>3, <1>4, <1>8
      <4>3. CASE q < k
        <5>1. q < k + 1
          BY <1>3, <4>2, <4>3
        <5> QED
          BY <4>1, <4>3, <5>1 DEF Held
      <4>5. CASE q > k
        <5>1. ~(q < k) /\ q # k /\ ~(q < k + 1) /\ ~(i < 1)
          BY <1>3, <4>2, <4>5
        <5>2. Held(plan, b, k, 1, 0, q, i) = <<>>
          BY <5>1 DEF Held
        <5>3. PICK d \in Seq(EventType) : d = Planned(plan, q, 1)
          BY PlannedType
        <5>4. SubSeq(d, 1, 0) = <<>>
          BY <5>3
        <5>5. Held(plan, b, k + 1, 1, 0, q, i) = <<>>
          <6>1. CASE q = k + 1 /\ i = 1
            <7>1. Held(plan, b, k + 1, 1, 0, q, i) = SubSeq(Planned(plan, k + 1, 1), 1, 0)
              BY <5>1, <6>1 DEF Held
            <7> QED
              BY <5>3, <5>4, <6>1, <7>1
          <6>2. CASE ~(q = k + 1 /\ i = 1)
            BY <5>1, <6>2 DEF Held
          <6> QED
            BY <6>1, <6>2
        <5> QED
          BY <4>1, <5>2, <5>5
      <4> QED
        BY <1>3, <4>2, <4>3, <4>5
    <3> QED
      BY <3>1 DEF Holding
  <2>3. StageOver(st, root, plan, b, k)
    BY <1>2, <1>5, <2>2 DEF StageOver
  <2>4. Begins(b.hist, b.hist)
    BY <1>4 DEF Begins
  <2> QED
    BY <1>2, <1>6, <2>1, <2>3, <2>4
<1> QED
  BY <1>6, <1>7, <1>8
-----------------------------------------------------------------------------
(* A whole cycle, and its recovery.                                        *)

LEMMA CycleStarts ==
  ASSUME CycleAssumption, NEW st \in EngineState, NEW root \in EventRecord, root.src = 0,
         root.seq = st.seq + 1, NEW plan \in Decisions, NEW c,
         c = [st |-> BeginFact(st, root), hist |-> <<root>>]
  PROVE  StageOver(st, root, plan, c, 0)
<1>1. st.seq \in Nat /\ st.ver \in Nat /\ st.trace \in Traces /\ Producers \in SUBSET (1 .. 9)
      /\ Reducers \in SUBSET (1 .. 9) /\ root.seq \in Nat
  BY DEF EngineState, EventRecord, CycleAssumption, Stage, Traces
<1>2. PICK s1 \in EngineState : s1 = BeginFact(st, root)
  BY BeginParts
<1>3. s1.seq = st.seq + 1 /\ s1.ver = st.ver + 1 /\ s1.trace = Append(st.trace, <<0, root.seq>>)
  BY <1>2, BeginParts
<1>4. PICK h \in Seq(EventRecord) : h = <<root>> /\ Len(h) = 1 /\ DOMAIN h = {1} /\ h[1] = root
  <2>1. <<root>> \in Seq(EventRecord) /\ Len(<<root>>) = 1 /\ DOMAIN <<root>> = {1} /\ <<root>>[1] = root
    OBVIOUS
  <2> QED
    BY <2>1
<1>5. c \in Progress /\ c.st = s1 /\ c.hist = h
  BY <1>2, <1>4 DEF Progress
<1>6. Lined(st, root, c)
  <2>1. TimersGrow(BeginFact(st, root), s1)
    BY <1>2, TimersGrowOn
  <2>2. \A i \in DOMAIN h : h[i].seq = st.seq + i
    BY <1>4
  <2> QED
    BY <1>1, <1>3, <1>4, <1>5, <2>1, <2>2 DEF Lined
<1>7. Placed(c, 0) /\ Ordered(c.hist)
  BY <1>4, <1>5 DEF Placed, Ordered
<1>8. ASSUME Counted(st) PROVE Caught(st, c, 0)
  <2>1. ASSUME NEW s \in Reducers, NEW q \in Nat
        PROVE  TimesReduced(c.st.trace, s, q) =
                 IF 1 <= q /\ (q <= st.seq \/ (q <= c.st.seq /\ s <= 0)) THEN 1 ELSE 0
    <3>1. s # 0 /\ ~(s <= 0)
      BY <1>1
    <3>2. PICK e : e = <<0, root.seq>> /\ e \in Nat \X Nat /\ e # <<s, q>>
      <4>1. <<0, root.seq>> \in Nat \X Nat /\ <<0, root.seq>> # <<s, q>>
        BY <1>1, <3>1
      <4> QED
        BY <4>1
    <3>3. TimesReduced(Append(st.trace, e), s, q) =
            IF e = <<s, q>> THEN TimesReduced(st.trace, s, q) + 1 ELSE TimesReduced(st.trace, s, q)
      BY <1>1, <3>2, CountAppended
    <3>4. TimesReduced(st.trace, s, q) = IF 1 <= q /\ q <= st.seq THEN 1 ELSE 0
      BY <1>8 DEF Counted
    <3> QED
      BY <1>3, <1>5, <3>1, <3>2, <3>3, <3>4
  <2> QED
    BY <2>1 DEF Caught
<1>9. Holding(plan, c, 1, 1, 0)
  <2>1. ASSUME NEW q \in Producers, NEW i \in DOMAIN h, h[i].src < q
        PROVE  EmittedIn(h, q, h[i]) = Held(plan, c, 1, 1, 0, q, i)
    <3>1. i = 1 /\ q \in 1 .. 9 /\ ~(q < 1) /\ ~(i < 1)
      BY <1>1, <1>4
    <3>2. EmittedIn(h, q, h[i]) = <<>>
      <4>1. \A k \in DOMAIN h : ~(h[k].src = q /\ h[k].parent = h[i].seq)
        BY <1>4, <3>1
      <4> QED
        BY <4>1, EmittedParts
    <3>3. PICK d \in Seq(EventType) : d = Planned(plan, q, 1)
      BY PlannedType
    <3>4. SubSeq(d, 1, 0) = <<>>
      BY <3>3
    <3>5. CASE q = 1
      <4>1. Held(plan, c, 1, 1, 0, q, i) = SubSeq(Planned(plan, 1, 1), 1, 0)
        BY <3>1, <3>5 DEF Held
      <4> QED
        BY <3>2, <3>3, <3>4, <3>5, <4>1
    <3>6. CASE q # 1
      BY <3>1, <3>2, <3>6 DEF Held
    <3> QED
      BY <3>5, <3>6
  <2> QED
    BY <1>5, <2>1 DEF Holding
<1>10. 0 + 1 = 1
  OBVIOUS
<1> QED
  BY <1>6, <1>7, <1>8, <1>9, <1>10 DEF StageOver

LEMMA BeginsOn ==
  ASSUME NEW h \in Seq(EventRecord), NEW l \in Seq(EventRecord), NEW m \in Seq(EventRecord)
  PROVE  Begins(h, h) /\ (Begins(h, l) /\ Begins(l, m) => Begins(h, m))
<1>1. Len(h) \in Nat /\ Len(l) \in Nat /\ Len(m) \in Nat
  OBVIOUS
<1> QED
  BY <1>1 DEF Begins

\* The functions g are those of the stages, and where they lead from c.
Staged(plan, g) == \A k \in Stage : \A x \in Progress : g[k][x] = RunStage(x, k, TRUE, plan)

Schedule(st, root, plan, g, c) ==
  /\ \A k \in 0 .. 9 : StageOver(st, root, plan, InTurn(g, c, k), k)
  /\ \A k \in 0 .. 9 : Begins(InTurn(g, c, k).hist, InTurn(g, c, 9).hist)

\* The stages of a cycle, one after the other.
LEMMA DecideStages ==
  ASSUME CycleAssumption, NEW st \in EngineState, NEW root \in EventRecord, root.src = 0,
         root.seq = st.seq + 1, NEW plan \in Decisions, NEW c, NEW g,
         StageOver(st, root, plan, c, 0),
         Staged(plan, g)
  PROVE  Schedule(st, root, plan, g, c)
<1>1. PICK J : J = [k \in 0 .. 9 |-> {x \in Progress : StageOver(st, root, plan, x, k)}]
  OBVIOUS
<1>2. \A x, k : StageOver(st, root, plan, x, k) => x \in Progress
  BY DEF StageOver, Lined
<1>3. c \in J[0]
  BY <1>1, <1>2
<1>4. ASSUME NEW k \in 1 .. 9, NEW y \in J[k - 1] PROVE g[k][y] \in J[k]
  <2>1. k \in Stage /\ k \in 0 .. 9 /\ k - 1 \in 0 .. 9
    BY DEF Stage
  <2>2. y \in Progress /\ StageOver(st, root, plan, y, k - 1)
    BY <1>1, <2>1
  <2>3. g[k][y] = RunStage(y, k, TRUE, plan)
    BY <2>1, <2>2 DEF Staged
  <2>4. StageOver(st, root, plan, g[k][y], k)
    <3>1. StageOver(st, root, plan, RunStage(y, k, TRUE, plan), k)
      BY <2>1, <2>2, StageOn
    <3> QED
      BY <2>3, <3>1
  <2> QED
    BY <1>1, <1>2, <2>1, <2>4
<1>5. \A k \in 0 .. 9 : InTurn(g, c, k) \in J[k]
  <2>1. 9 \in Nat
    OBVIOUS
  <2> QED
    BY <1>3, <1>4, <2>1, InTurnLeads
<1>6. PICK X : X = [k \in 0 .. 9 |-> InTurn(g, c, k)]
  OBVIOUS
<1>7. \A k \in 0 .. 9 : X[k] \in Progress /\ StageOver(st, root, plan, X[k], k)
  <2>1. ASSUME NEW k \in 0 .. 9 PROVE X[k] \in Progress /\ StageOver(st, root, plan, X[k], k)
    <3>1. X[k] \in J[k]
      BY <1>5, <1>6
    <3> QED
      BY <1>1, <3>1
  <2> QED
    BY <2>1
<1>8. ASSUME NEW k \in 1 .. 9 PROVE Begins(X[k - 1].hist, X[k].hist)
  <2>1. k \in Stage /\ k \in 0 .. 9 /\ k - 1 \in 0 .. 9 /\ k \in Nat /\ k # 0
    BY DEF Stage
  <2>2. InTurn(g, c, k) = g[k][InTurn(g, c, k - 1)]
    BY <2>1, InTurnNext
  <2>3. X[k] = g[k][X[k - 1]]
    BY <1>6, <2>1, <2>2
  <2>4. X[k - 1] \in Progress /\ StageOver(st, root, plan, X[k - 1], k - 1)
    BY <1>7, <2>1
  <2>5. g[k][X[k - 1]] = RunStage(X[k - 1], k, TRUE, plan)
    BY <2>1, <2>4 DEF Staged
  <2> QED
    BY <2>1, <2>3, <2>4, <2>5, StageOn
<1>9. \A k \in 0 .. 9 : X[k].hist \in Seq(EventRecord)
  BY <1>7 DEF Progress
<1>10. \A k \in 0 .. 9 : Begins(X[k].hist, X[9].hist)
  <2>1. Begins(X[9].hist, X[9].hist)
    BY <1>9, BeginsOn
  <2>2. ASSUME NEW k \in 1 .. 9, Begins(X[k].hist, X[9].hist) PROVE Begins(X[k - 1].hist, X[9].hist)
    <3>1. k - 1 \in 0 .. 9 /\ k \in 0 .. 9 /\ 9 \in 0 .. 9
      OBVIOUS
    <3>2. PICK h, l, m \in Seq(EventRecord) : h = X[k - 1].hist /\ l = X[k].hist /\ m = X[9].hist
      BY <1>9, <3>1
    <3>3. Begins(h, l) /\ Begins(l, m)
      BY <1>8, <2>2, <3>2
    <3> QED
      BY <3>2, <3>3, BeginsOn
  <2>3. PICK P : P = {k \in 0 .. 9 : Begins(X[9 - k].hist, X[9].hist)}
    OBVIOUS
  <2>4. ASSUME NEW k \in 0 .. 9 PROVE k \in P
    <3>1. SUFFICES ASSUME k \notin P PROVE FALSE
      OBVIOUS
    <3>2. (0 .. 9) \ P # {} /\ (0 .. 9) \ P \in SUBSET Nat
      BY <3>1
    <3>3. PICK n \in (0 .. 9) \ P : \A l \in (0 .. 9) \ P : n <= l
      BY <3>2, LeastOfNumbers
    <3>4. n # 0
      BY <2>1, <2>3, <3>3
    <3>5. n - 1 \in 0 .. 9 /\ ~(n <= n - 1) /\ 9 - (n - 1) \in 1 .. 9 /\ (9 - (n - 1)) - 1 = 9 - n
      BY <3>3, <3>4
    <3>6. n - 1 \in P
      BY <3>3, <3>5
    <3>7. Begins(X[9 - n].hist, X[9].hist)
      BY <2>2, <2>3, <3>5, <3>6
    <3> QED
      BY <2>3, <3>3, <3>7
  <2>5. ASSUME NEW k \in 0 .. 9 PROVE Begins(X[k].hist, X[9].hist)
    <3>1. 9 - k \in 0 .. 9 /\ 9 - (9 - k) = k
      OBVIOUS
    <3>2. 9 - k \in P
      BY <2>4, <3>1
    <3> QED
      BY <2>3, <3>1, <3>2
  <2> QED
    BY <2>5
<1>12. 9 \in 0 .. 9
  OBVIOUS
<1> QED
  BY <1>6, <1>7, <1>10, <1>12 DEF Schedule

\* A producer decides what it finds recorded.
LEMMA StageRecovers ==
  ASSUME CycleAssumption, NEW st, NEW root, root.src = 0,
         NEW plan \in Decisions, NEW k \in Stage, NEW c \in Progress, NEW last \in Progress,
         \A i \in DOMAIN c.hist : c.hist[i].src < k, Begins(c.hist, last.hist),
         Holding(plan, last, 10, 1, 0)
  PROVE  RunStage(c, k, FALSE, last.hist) = RunStage(c, k, TRUE, plan)
<1>1. PICK b : b = Reduced(c, k) /\ b.hist = c.hist
  <2>1. Reduced(c, k).hist = c.hist
    <3>1. c = [st |-> c.st, hist |-> c.hist]
      BY DEF Progress
    <3> QED
      BY <3>1 DEF Reduced
  <2> QED
    BY <2>1
<1>2. ASSUME k \in Producers
      PROVE  Produce(b, k, FALSE, last.hist) = Produce(b, k, TRUE, plan)
  <2>1. \A j \in DOMAIN b.hist : Drafts(FALSE, last.hist, k, j, b.hist[j]) = Drafts(TRUE, plan, k, j, b.hist[j])
    <3>1. ASSUME NEW j \in DOMAIN b.hist PROVE EmittedIn(last.hist, k, b.hist[j]) = Planned(plan, k, j)
      <4>1. j \in DOMAIN last.hist /\ last.hist[j] = b.hist[j] /\ b.hist[j].src < k
        BY <1>1 DEF Begins
      <4>2. EmittedIn(last.hist, k, last.hist[j]) = Held(plan, last, 10, 1, 0, k, j)
        BY <1>2, <4>1 DEF Holding
      <4>3. k < 10
        BY DEF Stage
      <4>4. Held(plan, last, 10, 1, 0, k, j) = Planned(plan, k, j)
        BY <4>3 DEF Held
      <4> QED
        BY <4>1, <4>2, <4>4
    <3> QED
      BY <3>1 DEF Drafts
  <2>2. PICK f : f = [j \in DOMAIN b.hist |->
                       [x \in Progress |->
                          IF b.hist[j].src < k
                          THEN EmitAll(x, b.hist[j], k, Drafts(FALSE, last.hist, k, j, b.hist[j])) ELSE x]]
    OBVIOUS
  <2>3. f = [j \in DOMAIN b.hist |->
              [x \in Progress |->
                 IF b.hist[j].src < k
                 THEN EmitAll(x, b.hist[j], k, Drafts(TRUE, plan, k, j, b.hist[j])) ELSE x]]
    BY <2>1, <2>2
  <2>4. Produce(b, k, FALSE, last.hist) = InTurn(f, b, Len(b.hist))
    BY <2>2 DEF Produce
  <2>5. Produce(b, k, TRUE, plan) = InTurn(f, b, Len(b.hist))
    BY <2>3 DEF Produce
  <2> QED
    BY <2>4, <2>5
<1> QED
  BY <1>1, <1>2 DEF RunStage, Reduced

\* What is decided is a whole cycle, and recovery of what it records ends in
\* the same state with the same history.
LEMMA DecideParts ==
  ASSUME CycleAssumption, NEW st \in EngineState, NEW root \in EventRecord, root.src = 0,
         root.seq = st.seq + 1, NEW plan \in Decisions, NEW c, c = Decide(st, root, plan)
  PROVE  /\ Lined(st, root, c) /\ Placed(c, 9) /\ Ordered(c.hist)
         /\ Counted(st) => Caught(st, c, 9)
         /\ Recover(st, c.hist) = c
<1>1. PICK x : x = [st |-> BeginFact(st, root), hist |-> <<root>>]
  OBVIOUS
<1>2. PICK g : g = [k \in Stage |-> [y \in Progress |-> RunStage(y, k, TRUE, plan)]]
  OBVIOUS
<1>3. Schedule(st, root, plan, g, x)
  <2>1. StageOver(st, root, plan, x, 0)
    BY <1>1, CycleStarts
  <2>2. Staged(plan, g)
    BY <1>2 DEF Staged
  <2> QED
    BY <2>1, <2>2, DecideStages
<1>4. c = InTurn(g, x, 9)
  BY <1>1, <1>2 DEF Decide, RunCycle
<1>5. StageOver(st, root, plan, c, 9)
  BY <1>3, <1>4 DEF Schedule
<1>6. c \in Progress /\ c.hist[1] = root /\ Holding(plan, c, 10, 1, 0)
  <2>1. 9 + 1 = 10
    OBVIOUS
  <2> QED
    BY <1>5, <2>1 DEF StageOver, Lined
<1>7. PICK h : h = [k \in Stage |-> [y \in Progress |-> RunStage(y, k, FALSE, c.hist)]]
  OBVIOUS
<1>8. Recover(st, c.hist) = InTurn(h, x, 9)
  BY <1>1, <1>6, <1>7 DEF Recover, RunCycle
<1>9. ASSUME NEW k \in 1 .. 9 PROVE g[k][InTurn(g, x, k - 1)] = h[k][InTurn(g, x, k - 1)]
  <2>1. k \in Stage /\ k - 1 \in 0 .. 9 /\ k \in 0 .. 9
    BY DEF Stage
  <2>2. PICK y : y = InTurn(g, x, k - 1)
    OBVIOUS
  <2>3. StageOver(st, root, plan, y, k - 1) /\ Begins(y.hist, c.hist)
    BY <1>3, <1>4, <2>1, <2>2 DEF Schedule
  <2>4. y \in Progress
    BY <2>3 DEF StageOver, Lined
  <2>5. \A i \in DOMAIN y.hist : y.hist[i].src < k
    BY <2>1, <2>3, ReduceOn
  <2>6. k \in Stage /\ c \in Progress /\ Begins(y.hist, c.hist) /\ Holding(plan, c, 10, 1, 0)
    BY <1>6, <2>1, <2>3
  <2>7. RunStage(y, k, FALSE, c.hist) = RunStage(y, k, TRUE, plan)
    BY <2>4, <2>5, <2>6, StageRecovers
  <2> QED
    BY <1>2, <1>7, <2>1, <2>2, <2>4, <2>7
<1>10. InTurn(g, x, 9) = InTurn(h, x, 9)
  <2>1. 9 \in Nat
    OBVIOUS
  <2> QED
    BY <1>9, <2>1, InTurnSame
<1> QED
  BY <1>4, <1>5, <1>8, <1>10 DEF StageOver
-----------------------------------------------------------------------------
(* A log in two parts, the second of which begins with an input.           *)

Meets(b) == b = <<>> \/ b[1].src = 0

LEMMA EndExists ==
  ASSUME NEW l \in Seq(EventRecord), NEW k \in 1 .. Len(l)
  PROVE  \E n \in k .. Len(l) : EndsAt(l, k, n)
<1>1. PICK m \in Nat : m = Len(l) /\ k \in 1 .. m
  OBVIOUS
<1>2. PICK F : F = {n \in k .. m : n = m \/ l[n + 1].src = 0}
  OBVIOUS
<1>3. F \in SUBSET Nat /\ m \in F
  BY <1>1, <1>2
<1>4. PICK n \in F : \A i \in F : n <= i
  BY <1>3, LeastOfNumbers
<1>5. ASSUME NEW i \in k + 1 .. n PROVE l[i].src # 0
  <2>1. i - 1 \in k .. m /\ i - 1 # m /\ (i - 1) + 1 = i /\ ~(n <= i - 1)
    BY <1>1, <1>2, <1>4
  <2> QED
    BY <1>2, <1>4, <2>1
<1> QED
  BY <1>1, <1>2, <1>4, <1>5 DEF EndsAt

LEMMA CycleIs ==
  ASSUME NEW l \in Seq(EventRecord), NEW k \in 1 .. Len(l), NEW n \in k .. Len(l), EndsAt(l, k, n)
  PROVE  CycleAt(l, k) = SubSeq(l, k, n)
<1>1. PICK m \in Nat : m = Len(l) /\ k \in 1 .. m /\ n \in k .. m
  OBVIOUS
<1>2. PICK i : i = CHOOSE o \in k .. Len(l) : EndsAt(l, k, o)
  OBVIOUS
<1>3. i \in k .. m /\ EndsAt(l, k, i)
  BY <1>1, <1>2
<1>4. i = n
  <2>1. ~(i < n)
    <3>1. SUFFICES ASSUME i < n PROVE FALSE
      OBVIOUS
    <3>2. i + 1 \in k + 1 .. n /\ i # m
      BY <1>1, <1>3, <3>1
    <3> QED
      BY <1>1, <1>3, <3>2 DEF EndsAt
  <2>2. ~(n < i)
    <3>1. SUFFICES ASSUME n < i PROVE FALSE
      OBVIOUS
    <3>2. n + 1 \in k + 1 .. i /\ n # m
      BY <1>1, <1>3, <3>1
    <3> QED
      BY <1>1, <1>3, <3>2 DEF EndsAt
  <2> QED
    BY <1>1, <1>3, <2>1, <2>2
<1> QED
  BY <1>2, <1>4 DEF CycleAt

\* A cycle of the first part, and one of the second.
LEMMA CyclesApart ==
  ASSUME NEW a \in Seq(EventRecord), NEW b \in Seq(EventRecord), Meets(b)
  PROVE  /\ \A k \in 1 .. Len(a) : CycleAt(a \o b, k) = CycleAt(a, k)
         /\ \A k \in 1 .. Len(b) : CycleAt(a \o b, Len(a) + k) = CycleAt(b, k)
<1>1. PICK m \in Nat, n \in Nat : m = Len(a) /\ n = Len(b)
  OBVIOUS
<1>2. PICK l \in Seq(EventRecord) : l = a \o b
  <2>1. a \o b \in Seq(EventRecord)
    BY ConcatProperties
  <2> QED
    BY <2>1
<1>3. Len(l) = m + n /\ (\A i \in 1 .. m : l[i] = a[i]) /\ \A i \in 1 .. n : l[m + i] = b[i]
  BY <1>1, <1>2
<1>4. ASSUME NEW k \in 1 .. m PROVE CycleAt(l, k) = CycleAt(a, k)
  <2>1. PICK e \in k .. m : EndsAt(a, k, e)
    BY <1>1, EndExists
  <2>2. EndsAt(l, k, e)
    <3>1. e \in k .. m + n /\ \A i \in k + 1 .. e : i \in 1 .. m
      BY <1>1, <2>1
    <3>2. \A i \in k + 1 .. e : l[i].src # 0
      BY <1>3, <2>1, <3>1 DEF EndsAt
    <3>3. e = m + n \/ l[e + 1].src = 0
      <4>1. CASE e # m
        <5>1. e + 1 \in 1 .. m /\ a[e + 1].src = 0
          BY <1>1, <2>1, <4>1 DEF EndsAt
        <5> QED
          BY <1>3, <5>1
      <4>2. CASE e = m /\ b = <<>>
        BY <1>1, <4>2
      <4>3. CASE e = m /\ b # <<>>
        <5>1. 1 \in 1 .. n /\ b[1].src = 0
          BY <1>1, <4>3 DEF Meets
        <5> QED
          BY <1>3, <4>3, <5>1
      <4> QED
        BY <4>1, <4>2, <4>3
    <3> QED
      BY <1>3, <3>1, <3>2, <3>3 DEF EndsAt
  <2>3. CycleAt(l, k) = SubSeq(l, k, e)
    <3>1. k \in 1 .. Len(l) /\ e \in k .. Len(l)
      BY <1>1, <1>3, <2>1
    <3> QED
      BY <2>2, <3>1, CycleIs
  <2>4. CycleAt(a, k) = SubSeq(a, k, e)
    BY <1>1, <2>1, CycleIs
  <2>5. SubSeq(l, k, e) = SubSeq(a, k, e)
    <3>1. k \in 1 .. Len(a) /\ e \in 1 .. Len(a)
      BY <1>1, <2>1
    <3> QED
      BY <1>2, <3>1, SubSeqOfConcat1
  <2> QED
    BY <2>3, <2>4, <2>5
<1>5. ASSUME NEW k \in 1 .. n PROVE CycleAt(l, m + k) = CycleAt(b, k)
  <2>1. PICK e \in k .. n : EndsAt(b, k, e)
    BY <1>1, EndExists
  <2>2. EndsAt(l, m + k, m + e)
    <3>1. m + e \in m + k .. m + n
      BY <1>1, <2>1
    <3>2. ASSUME NEW i \in (m + k) + 1 .. m + e PROVE l[i].src # 0
      <4>1. i - m \in k + 1 .. e /\ i - m \in 1 .. n /\ m + (i - m) = i
        BY <1>1, <2>1
      <4> QED
        BY <1>3, <2>1, <4>1 DEF EndsAt
    <3>3. m + e = m + n \/ l[(m + e) + 1].src = 0
      <4>1. CASE e = n
        BY <4>1
      <4>2. CASE e # n
        <5>1. e + 1 \in 1 .. n /\ b[e + 1].src = 0 /\ m + (e + 1) = (m + e) + 1
          BY <1>1, <2>1, <4>2 DEF EndsAt
        <5>2. l[m + (e + 1)] = b[e + 1]
          BY <1>3, <5>1
        <5> QED
          BY <5>1, <5>2
      <4> QED
        BY <4>1, <4>2
    <3> QED
      BY <1>3, <3>1, <3>2, <3>3 DEF EndsAt
  <2>3. CycleAt(l, m + k) = SubSeq(l, m + k, m + e)
    <3>1. m + k \in 1 .. Len(l) /\ m + e \in m + k .. Len(l)
      BY <1>1, <1>3, <2>1
    <3> QED
      BY <2>2, <3>1, CycleIs
  <2>4. CycleAt(b, k) = SubSeq(b, k, e)
    BY <1>1, <2>1, CycleIs
  <2>5. SubSeq(l, m + k, m + e) = SubSeq(b, k, e)
    <3>1. /\ m + k \in Len(a) + 1 .. Len(a) + Len(b) /\ m + e \in Len(a) + 1 .. Len(a) + Len(b)
          /\ (m + k) - Len(a) = k /\ (m + e) - Len(a) = e
      BY <1>1, <2>1
    <3>2. SubSeq(a \o b, m + k, m + e) = SubSeq(b, (m + k) - Len(a), (m + e) - Len(a))
      BY <3>1, SubSeqOfConcat2
    <3> QED
      BY <1>2, <3>1, <3>2
  <2> QED
    BY <2>3, <2>4, <2>5
<1> QED
  BY <1>1, <1>2, <1>4, <1>5

\* The replay of both parts is that of the second from where the first leads.
LEMMA ReplayRest ==
  ASSUME NEW st, NEW a \in Seq(EventRecord), NEW b \in Seq(EventRecord), Meets(b)
  PROVE  Replay(st, a \o b) = Replay(Replay(st, a), b)
<1>1. PICK m \in Nat, n \in Nat : m = Len(a) /\ n = Len(b) /\ DOMAIN a = 1 .. m /\ DOMAIN b = 1 .. n
  OBVIOUS
<1>2. PICK l \in Seq(EventRecord) : l = a \o b
  <2>1. a \o b \in Seq(EventRecord)
    BY ConcatProperties
  <2> QED
    BY <2>1
<1>3. /\ Len(l) = m + n /\ DOMAIN l = 1 .. m + n
      /\ (\A i \in 1 .. m : l[i] = a[i]) /\ \A i \in 1 .. n : l[m + i] = b[i]
  BY <1>1, <1>2
<1>4. PICK f : f = [k \in DOMAIN a |->
                     [x \in EngineState |-> IF a[k].src = 0 THEN Recover(x, CycleAt(a, k)).st ELSE x]]
  OBVIOUS
<1>5. PICK g : g = [k \in DOMAIN b |->
                     [x \in EngineState |-> IF b[k].src = 0 THEN Recover(x, CycleAt(b, k)).st ELSE x]]
  OBVIOUS
<1>6. PICK h : h = [k \in DOMAIN l |->
                     [x \in EngineState |-> IF l[k].src = 0 THEN Recover(x, CycleAt(l, k)).st ELSE x]]
  OBVIOUS
<1>7. /\ \A k \in 1 .. m : CycleAt(l, k) = CycleAt(a, k)
      /\ \A k \in 1 .. n : CycleAt(l, m + k) = CycleAt(b, k)
  BY <1>1, <1>2, CyclesApart
<1>8. \A k \in 1 .. m : h[k] = f[k]
  <2>1. ASSUME NEW k \in 1 .. m PROVE h[k] = f[k]
    <3>1. k \in DOMAIN a /\ k \in DOMAIN l /\ l[k] = a[k] /\ CycleAt(l, k) = CycleAt(a, k)
      BY <1>1, <1>3, <1>7
    <3>2. h[k] = [x \in EngineState |-> IF l[k].src = 0 THEN Recover(x, CycleAt(l, k)).st ELSE x]
      BY <1>6, <3>1
    <3>3. f[k] = [x \in EngineState |-> IF a[k].src = 0 THEN Recover(x, CycleAt(a, k)).st ELSE x]
      BY <1>4, <3>1
    <3> QED
      BY <3>1, <3>2, <3>3
  <2> QED
    BY <2>1
<1>9. \A k \in 1 .. n : g[k] = h[m + k]
  <2>1. ASSUME NEW k \in 1 .. n PROVE g[k] = h[m + k]
    <3>1. k \in DOMAIN b /\ m + k \in DOMAIN l /\ l[m + k] = b[k] /\ CycleAt(l, m + k) = CycleAt(b, k)
      BY <1>1, <1>3, <1>7
    <3>2. h[m + k] = [x \in EngineState |-> IF l[m + k].src = 0 THEN Recover(x, CycleAt(l, m + k)).st ELSE x]
      BY <1>6, <3>1
    <3>3. g[k] = [x \in EngineState |-> IF b[k].src = 0 THEN Recover(x, CycleAt(b, k)).st ELSE x]
      BY <1>5, <3>1
    <3> QED
      BY <3>1, <3>2, <3>3
  <2> QED
    BY <2>1
<1>10. Replay(st, a) = InTurn(f, st, m) /\ Replay(st, l) = InTurn(h, st, m + n)
  BY <1>1, <1>3, <1>4, <1>6 DEF Replay
<1>11. InTurn(h, st, m) = InTurn(f, st, m)
  BY <1>8, InTurnSame
<1>12. InTurn(h, st, m + n) = InTurn(g, InTurn(h, st, m), n)
  BY <1>9, InTurnRest
<1>13. Replay(Replay(st, a), b) = InTurn(g, Replay(st, a), n)
  BY <1>1, <1>5 DEF Replay
<1> QED
  BY <1>2, <1>10, <1>11, <1>12, <1>13

\* The replay of one cycle, and of none.
LEMMA ReplayOne ==
  ASSUME NEW st \in EngineState, NEW h \in Seq(EventRecord), h # <<>>, h[1].src = 0,
         \A i \in 2 .. Len(h) : h[i].src # 0, Recover(st, h).st \in EngineState
  PROVE  CycleAt(h, 1) = h /\ Replay(st, h) = Recover(st, h).st
<1>1. PICK n \in Nat : n = Len(h) /\ DOMAIN h = 1 .. n /\ n # 0
  OBVIOUS
<1>2. CycleAt(h, 1) = h
  <2>1. EndsAt(h, 1, n) /\ n \in 1 .. Len(h) /\ 1 \in 1 .. Len(h)
    <3>1. \A i \in 1 + 1 .. n : h[i].src # 0
      BY <1>1
    <3> QED
      BY <1>1, <3>1 DEF EndsAt
  <2>2. CycleAt(h, 1) = SubSeq(h, 1, n)
    BY <2>1, CycleIs
  <2>3. SubSeq(h, 1, Len(h)) = h
    BY SubSeqFull
  <2> QED
    BY <1>1, <2>2, <2>3
<1>3. PICK g : g = [k \in DOMAIN h |->
                     [x \in EngineState |-> IF h[k].src = 0 THEN Recover(x, CycleAt(h, k)).st ELSE x]]
  OBVIOUS
<1>4. PICK s \in EngineState : s = Recover(st, h).st
  OBVIOUS
<1>5. PICK J : J = [k \in 0 .. n |-> IF k = 0 THEN {st} ELSE {s}]
  OBVIOUS
<1>6. st \in J[0]
  BY <1>1, <1>5
<1>7. ASSUME NEW k \in 1 .. n, NEW y \in J[k - 1] PROVE g[k][y] \in J[k]
  <2>1. k \in DOMAIN h /\ k \in 0 .. n /\ k - 1 \in 0 .. n /\ k # 0
    BY <1>1
  <2>2. CASE k = 1
    <3>1. y = st /\ h[k].src = 0
      BY <1>5, <2>1, <2>2
    <3>2. g[k][y] = Recover(st, h).st
      BY <1>2, <1>3, <2>1, <2>2, <3>1
    <3> QED
      BY <1>4, <1>5, <2>1, <3>2
  <2>3. CASE k # 1
    <3>1. y = s /\ h[k].src # 0
      BY <1>1, <1>5, <2>1, <2>3
    <3>2. g[k][y] = s
      BY <1>3, <1>4, <2>1, <3>1
    <3> QED
      BY <1>5, <2>1, <3>2
  <2> QED
    BY <2>2, <2>3
<1>8. \A k \in 0 .. n : InTurn(g, st, k) \in J[k]
  BY <1>6, <1>7, InTurnLeads
<1>9. InTurn(g, st, n) = s
  <2>1. n \in 0 .. n /\ n # 0
    BY <1>1
  <2> QED
    BY <1>5, <1>8, <2>1
<1>10. Replay(st, h) = InTurn(g, st, n)
  BY <1>1, <1>3 DEF Replay
<1> QED
  BY <1>2, <1>4, <1>9, <1>10

LEMMA ReplayNone ==
  ASSUME NEW st
  PROVE  Replay(st, <<>>) = st
<1>1. Len(<<>>) = 0
  OBVIOUS
<1>2. \A g : InTurn(g, st, 0) = st
  BY InTurnParts
<1> QED
  BY <1>1, <1>2 DEF Replay
\* The prefixes of a joined log.
LEMMA PrefixesApart ==
  ASSUME NEW a \in Seq(EventRecord), NEW b \in Seq(EventRecord)
  PROVE  /\ \A j \in 0 .. Len(a) : SubSeq(a \o b, 1, j) = SubSeq(a, 1, j)
         /\ \A j \in 0 .. Len(b) : SubSeq(a \o b, 1, Len(a) + j) = a \o SubSeq(b, 1, j)
<1>1. PICK m \in Nat, n \in Nat : m = Len(a) /\ n = Len(b)
  OBVIOUS
<1>2. PICK l : l = a \o b
  OBVIOUS
<1>3. /\ l \in Seq(EventRecord) /\ Len(l) = m + n
      /\ (\A i \in 1 .. m : l[i] = a[i]) /\ \A i \in 1 .. n : l[m + i] = b[i]
  BY <1>1, <1>2
<1>4. ASSUME NEW j \in 0 .. m PROVE SubSeq(l, 1, j) = SubSeq(a, 1, j)
  <2>1. CASE j = 0
    <3>1. SubSeq(l, 1, 0) = <<>> /\ SubSeq(a, 1, 0) = <<>>
      BY SubSeqEmpty
    <3> QED
      BY <2>1, <3>1
  <2>2. CASE j # 0
    <3>1. 1 \in 1 .. Len(a) /\ j \in 1 .. Len(a)
      BY <1>1, <2>2
    <3> QED
      BY <1>2, <3>1, SubSeqOfConcat1
  <2> QED
    BY <2>1, <2>2
<1>5. ASSUME NEW j \in 0 .. n PROVE SubSeq(l, 1, m + j) = a \o SubSeq(b, 1, j)
  <2>1. PICK p : p = SubSeq(b, 1, j)
    OBVIOUS
  <2>2. p \in Seq(EventRecord) /\ Len(p) = j /\ \A i \in 1 .. j : p[i] = b[i]
    <3>1. \A i \in 1 .. j : b[i] \in EventRecord
      BY <1>1
    <3>2. j \in Int /\ 1 \in Int /\ (IF 1 <= j THEN j - 1 + 1 ELSE 0) = j /\ j - 1 + 1 = j
      OBVIOUS
    <3>3. /\ SubSeq(b, 1, j) \in Seq(EventRecord)
          /\ Len(SubSeq(b, 1, j)) = (IF 1 <= j THEN j - 1 + 1 ELSE 0)
          /\ \A i \in 1 .. j - 1 + 1 : SubSeq(b, 1, j)[i] = b[1 + i - 1]
      BY <3>1, <3>2, SubSeqProperties
    <3>4. \A i \in 1 .. j : 1 + i - 1 = i
      OBVIOUS
    <3> QED
      BY <2>1, <3>2, <3>3, <3>4
  <2>3. PICK q : q = SubSeq(l, 1, m + j)
    OBVIOUS
  <2>4. q \in Seq(EventRecord) /\ Len(q) = m + j /\ \A i \in 1 .. m + j : q[i] = l[i]
    <3>1. \A i \in 1 .. m + j : l[i] \in EventRecord
      BY <1>1, <1>3
    <3>2. m + j \in Int /\ 1 \in Int /\ (IF 1 <= m + j THEN (m + j) - 1 + 1 ELSE 0) = m + j
          /\ (m + j) - 1 + 1 = m + j
      OBVIOUS
    <3>3. /\ SubSeq(l, 1, m + j) \in Seq(EventRecord)
          /\ Len(SubSeq(l, 1, m + j)) = (IF 1 <= m + j THEN (m + j) - 1 + 1 ELSE 0)
          /\ \A i \in 1 .. (m + j) - 1 + 1 : SubSeq(l, 1, m + j)[i] = l[1 + i - 1]
      BY <3>1, <3>2, SubSeqProperties
    <3>4. \A i \in 1 .. m + j : 1 + i - 1 = i
      OBVIOUS
    <3> QED
      BY <2>3, <3>2, <3>3, <3>4
  <2>5. PICK r : r = a \o p
    OBVIOUS
  <2>6. /\ r \in Seq(EventRecord) /\ Len(r) = m + j
        /\ (\A i \in 1 .. m : r[i] = a[i]) /\ \A i \in 1 .. j : r[m + i] = p[i]
    <3>1. /\ r \in Seq(EventRecord) /\ Len(r) = Len(a) + Len(p)
          /\ \A i \in 1 .. Len(a) + Len(p) : r[i] = IF i <= Len(a) THEN a[i] ELSE p[i - Len(a)]
      BY <2>2, <2>5, ConcatProperties
    <3>2. \A i \in 1 .. m + j : r[i] = IF i <= m THEN a[i] ELSE p[i - m]
      BY <1>1, <2>2, <3>1
    <3>3. \A i \in 1 .. m : i \in 1 .. m + j /\ i <= m
      OBVIOUS
    <3>4. \A i \in 1 .. j : m + i \in 1 .. m + j /\ ~(m + i <= m) /\ (m + i) - m = i
      OBVIOUS
    <3> QED
      BY <1>1, <2>2, <3>1, <3>2, <3>3, <3>4
  <2>7. ASSUME NEW i \in 1 .. m + j PROVE q[i] = r[i]
    <3>1. CASE i <= m
      <4>1. i \in 1 .. m
        BY <3>1
      <4> QED
        BY <1>3, <2>4, <2>6, <4>1
    <3>2. CASE ~(i <= m)
      <4>1. i - m \in 1 .. j /\ i - m \in 1 .. n /\ m + (i - m) = i
        BY <3>2
      <4>2. l[m + (i - m)] = b[i - m] /\ r[m + (i - m)] = p[i - m] /\ p[i - m] = b[i - m]
        BY <1>3, <2>2, <2>6, <4>1
      <4> QED
        BY <2>4, <4>1, <4>2
    <3> QED
      BY <3>1, <3>2
  <2>8. q = r
    BY <2>4, <2>6, <2>7, SeqEqual
  <2> QED
    BY <2>1, <2>3, <2>5, <2>8
<1> QED
  BY <1>1, <1>2, <1>4, <1>5

\* The state takes the cycle h.
Takes(s, h) == WellFormed(h) /\ Valid(s, h[1]) /\ Recover(s, h).hist = h

\* What acceptance of a log asks of each of its cycles.
LEMMA AcceptedParts ==
  ASSUME NEW st, NEW l
  PROVE  Accepted(st, l) <=>
           /\ Meets(l)
           /\ \A k \in DOMAIN l : l[k].src = 0 => Takes(Replay(st, SubSeq(l, 1, k - 1)), CycleAt(l, k))
<1>1. ASSUME NEW k PROVE
        (\E before \in {Replay(st, SubSeq(l, 1, k - 1))}, recorded \in {CycleAt(l, k)} :
           /\ WellFormed(recorded) /\ Valid(before, recorded[1])
           /\ Recover(before, recorded).hist = recorded)
        <=> Takes(Replay(st, SubSeq(l, 1, k - 1)), CycleAt(l, k))
  BY Zenon DEF Takes
<1> QED
  BY <1>1, Zenon DEF Accepted, Meets

\* What is accepted in one go is accepted in two.
LEMMA AcceptedRest ==
  ASSUME NEW st, NEW a \in Seq(EventRecord), NEW b \in Seq(EventRecord), Meets(b), Accepted(st, a \o b)
  PROVE  Accepted(Replay(st, a), b)
<1>1. PICK m \in Nat, n \in Nat : m = Len(a) /\ n = Len(b) /\ DOMAIN b = 1 .. n
  OBVIOUS
<1>2. PICK l : l = a \o b
  OBVIOUS
<1>3. l \in Seq(EventRecord) /\ DOMAIN l = 1 .. m + n /\ \A i \in 1 .. n : l[m + i] = b[i]
  BY <1>1, <1>2
<1>4. ASSUME NEW k \in 1 .. n, b[k].src = 0
      PROVE  Takes(Replay(Replay(st, a), SubSeq(b, 1, k - 1)), CycleAt(b, k))
  <2>1. m + k \in DOMAIN l /\ l[m + k].src = 0
    BY <1>1, <1>3, <1>4
  <2>2. Takes(Replay(st, SubSeq(l, 1, (m + k) - 1)), CycleAt(l, m + k))
    BY <1>2, <2>1, AcceptedParts
  <2>3. CycleAt(l, m + k) = CycleAt(b, k)
    BY <1>1, <1>2, CyclesApart
  <2>4. k - 1 \in 0 .. n /\ (m + k) - 1 = m + (k - 1)
    BY <1>1
  <2>5. SubSeq(l, 1, m + (k - 1)) = a \o SubSeq(b, 1, k - 1)
    BY <1>1, <1>2, <2>4, PrefixesApart
  <2>6. PICK p : p = SubSeq(b, 1, k - 1)
    OBVIOUS
  <2>7. p \in Seq(EventRecord) /\ Meets(p)
    <3>1. CASE k = 1
      <4>1. p = <<>>
        BY <2>6, <3>1, SubSeqEmpty
      <4> QED
        BY <4>1 DEF Meets
    <3>2. CASE k # 1
      <4>1. \A i \in 1 .. k - 1 : b[i] \in EventRecord
        BY <1>1
      <4>2. k - 1 \in Int /\ 1 \in Int /\ 1 <= k - 1 /\ k - 1 - 1 + 1 = k - 1 /\ 1 \in 1 .. k - 1 /\ 1 + 1 - 1 = 1
        BY <3>2
      <4>3. p \in Seq(EventRecord) /\ Len(p) = k - 1 /\ p[1] = b[1]
        BY <2>6, <4>1, <4>2
      <4>4. b # <<>>
        BY <1>1
      <4> QED
        BY <4>3, <4>4 DEF Meets
    <3> QED
      BY <3>1, <3>2
  <2>8. Replay(st, a \o p) = Replay(Replay(st, a), p)
    BY <2>7, ReplayRest
  <2> QED
    BY <2>2, <2>3, <2>4, <2>5, <2>6, <2>8
<1> QED
  BY <1>1, <1>4, AcceptedParts

\* One more cycle that the state takes.
LEMMA AcceptedOn ==
  ASSUME NEW st, NEW a \in Seq(EventRecord), NEW h \in Seq(EventRecord), Accepted(st, a),
         h # <<>>, h[1].src = 0, \A i \in 2 .. Len(h) : h[i].src # 0, CycleAt(h, 1) = h,
         Takes(Replay(st, a), h)
  PROVE  Accepted(st, a \o h)
<1>1. PICK m \in Nat, n \in Nat : m = Len(a) /\ n = Len(h) /\ DOMAIN a = 1 .. m /\ n # 0
  OBVIOUS
<1>2. PICK l : l = a \o h
  OBVIOUS
<1>3. /\ l \in Seq(EventRecord) /\ DOMAIN l = 1 .. m + n
      /\ (\A i \in 1 .. m : l[i] = a[i]) /\ \A i \in 1 .. n : l[m + i] = h[i]
  BY <1>1, <1>2
<1>4. Meets(h)
  BY DEF Meets
<1>5. Meets(l)
  <2>1. CASE m = 0
    <3>1. l[0 + 1] = h[1]
      BY <1>1, <1>3, <2>1
    <3> QED
      BY <3>1 DEF Meets
  <2>2. CASE m # 0
    <3>1. l[1] = a[1] /\ a # <<>>
      BY <1>1, <1>3, <2>2
    <3>2. Meets(a)
      BY AcceptedParts
    <3> QED
      BY <3>1, <3>2 DEF Meets
  <2> QED
    BY <2>1, <2>2
<1>6. ASSUME NEW k \in 1 .. m + n, l[k].src = 0
      PROVE  Takes(Replay(st, SubSeq(l, 1, k - 1)), CycleAt(l, k))
  <2>1. CASE k <= m
    <3>1. k \in 1 .. m /\ k - 1 \in 0 .. m /\ l[k] = a[k]
      BY <1>3, <2>1
    <3>2. Takes(Replay(st, SubSeq(a, 1, k - 1)), CycleAt(a, k))
      BY <1>1, <1>6, <3>1, AcceptedParts
    <3>3. CycleAt(l, k) = CycleAt(a, k)
      BY <1>1, <1>2, <1>4, <3>1, CyclesApart
    <3>4. SubSeq(l, 1, k - 1) = SubSeq(a, 1, k - 1)
      BY <1>1, <1>2, <3>1, PrefixesApart
    <3> QED
      BY <3>2, <3>3, <3>4
  <2>2. CASE ~(k <= m)
    <3>1. k - m \in 1 .. n /\ m + (k - m) = k
      BY <2>2
    <3>2. l[k] = h[k - m]
      BY <1>3, <3>1
    <3>3. k - m = 1
      BY <1>1, <1>6, <3>1, <3>2
    <3>4. CycleAt(l, m + 1) = CycleAt(h, 1)
      BY <1>1, <1>2, <1>4, <3>1, <3>3, CyclesApart
    <3>5. SubSeq(l, 1, m + 0) = a \o SubSeq(h, 1, 0)
      <4>1. 0 \in 0 .. Len(h)
        BY <1>1
      <4> QED
        BY <1>1, <1>2, <4>1, PrefixesApart
    <3>6. SubSeq(h, 1, 0) = <<>> /\ a \o <<>> = a
      BY SubSeqEmpty, ConcatEmptySeq
    <3>7. k = m + 1 /\ k - 1 = m + 0
      BY <3>1, <3>3
    <3> QED
      BY <3>4, <3>5, <3>6, <3>7
  <2> QED
    BY <2>1, <2>2
<1> QED
  BY <1>2, <1>3, <1>5, <1>6, AcceptedParts
-----------------------------------------------------------------------------
(* What is decided may be committed.                                       *)

\* The candidate c is a whole cycle, which the state s takes on recovery.
Candid(s, c) ==
  /\ c.base = s.ver /\ c.recs \in Seq(EventRecord) /\ Len(c.recs) >= 1
  /\ c.recs[1].src = 0 /\ \A i \in 2 .. Len(c.recs) : c.recs[i].src # 0 /\ c.recs[i].type # "Wake"
  /\ Takes(s, c.recs) /\ Recover(s, c.recs).st = c.st
  /\ c.st \in EngineState /\ c.st.seq = s.seq + Len(c.recs) /\ c.st.ver = s.ver + 1
  /\ TimersGrow(BeginFact(s, c.recs[1]), c.st)
  /\ Counted(s) => Counted(c.st)

\* Every cycle the engine decides is one that recovery takes.
LEMMA DecideCandid ==
  ASSUME CycleAssumption, NEW st \in EngineState, NEW root \in EventRecord, root.src = 0,
         root.seq = st.seq + 1, Valid(st, root), NEW plan \in Decisions, NEW x, x = Decide(st, root, plan),
         NEW c, c = [base |-> st.ver, recs |-> x.hist, st |-> x.st]
  PROVE  c \in Candidate /\ Candid(st, c)
<1>1. /\ Lined(st, root, x) /\ Placed(x, 9) /\ Ordered(x.hist)
      /\ Counted(st) => Caught(st, x, 9)
      /\ Recover(st, x.hist) = x
  BY DecideParts
<1>2. PICK h \in Seq(EventRecord), s \in EngineState : h = x.hist /\ s = x.st
  BY <1>1 DEF Lined, Progress
<1>3. PICK n \in Nat : n = Len(h) /\ DOMAIN h = 1 .. n
  OBVIOUS
<1>4. c.base = st.ver /\ c.recs = h /\ c.st = s /\ st.ver \in Nat /\ st.seq \in Nat
  BY <1>2 DEF EngineState
<1>5. c \in Candidate
  BY <1>2, <1>4 DEF Candidate
<1>6. /\ n >= 1 /\ h[1] = root /\ s.seq = st.seq + n /\ s.ver = st.ver + 1
      /\ TimersGrow(BeginFact(st, root), s)
  BY <1>1, <1>2, <1>3 DEF Lined
<1>7. Producers \in SUBSET (1 .. 9) /\ Reducers \in SUBSET (1 .. 9)
  BY DEF CycleAssumption, Stage
<1>8. \A i \in 2 .. n : /\ h[i].src \in Producers /\ h[i].type # "Wake"
                        /\ \E j \in 1 .. i - 1 : h[j].seq = h[i].parent /\ h[j].src < h[i].src
  <2>1. ASSUME NEW i \in 2 .. n
        PROVE  /\ h[i].src \in Producers /\ h[i].type # "Wake"
               /\ \E j \in 1 .. i - 1 : h[j].seq = h[i].parent /\ h[j].src < h[i].src
    <3>1. i \in DOMAIN h /\ i > 1
      BY <1>3
    <3> QED
      BY <1>1, <1>2, <3>1 DEF Placed
  <2> QED
    BY <2>1
<1>9. WellFormed(h)
  <2>1. h[1].src = 0
    BY <1>6
  <2>2. \A k \in 2 .. Len(h) : /\ h[k].src \in Producers
                               /\ \E j \in 1 .. k - 1 : h[j].seq = h[k].parent /\ h[j].src < h[k].src
    BY <1>3, <1>8
  <2>3. \A k \in 2 .. Len(h) - 1 :
          \/ h[k].src < h[k + 1].src
          \/ h[k].src = h[k + 1].src /\ h[k].parent <= h[k + 1].parent
    BY <1>1, <1>2 DEF Ordered
  <2> QED
    BY <2>1, <2>2, <2>3 DEF WellFormed
<1>10. ASSUME Counted(st) PROVE Counted(s)
  <2>1. ASSUME NEW r \in Reducers, NEW q \in Nat
        PROVE  TimesReduced(s.trace, r, q) = IF 1 <= q /\ q <= s.seq THEN 1 ELSE 0
    <3>1. TimesReduced(s.trace, r, q) = IF 1 <= q /\ (q <= st.seq \/ (q <= s.seq /\ r <= 9)) THEN 1 ELSE 0
      BY <1>1, <1>2, <1>10 DEF Caught
    <3>2. r <= 9
      <4>1. r \in 1 .. 9
        BY <1>7
      <4> QED
        BY <4>1
    <3>3. q <= st.seq => q <= s.seq
      BY <1>4, <1>6
    <3> QED
      BY <3>1, <3>2, <3>3
  <2> QED
    BY <2>1 DEF Counted
<1>11. Takes(st, h)
  <2>1. Recover(st, h).hist = h
    BY <1>1, <1>2
  <2> QED
    BY <1>6, <1>9, <2>1 DEF Takes
<1>12. Recover(st, h).st = s
  BY <1>1, <1>2
<1>13. \A i \in 2 .. n : h[i].src # 0 /\ h[i].type # "Wake"
  <2>1. 0 \notin Producers
    BY <1>7
  <2> QED
    BY <1>8, <2>1
<1> QED
  BY <1>2, <1>3, <1>4, <1>5, <1>6, <1>10, <1>11, <1>12, <1>13 DEF Candid
-----------------------------------------------------------------------------
(* Where a log leads.                                                      *)

\* A timer that fired is gone for good.
Timed(s, l) ==
  /\ \A u \in s.timers : u.ord < s.nextOrd
  /\ \A k \in DOMAIN l : l[k].type = "Wake" =>
       l[k].timer < s.nextOrd /\ \A u \in s.timers : u.ord # l[k].timer
  /\ \A j, k \in DOMAIN l : l[j].type = "Wake" /\ l[k].type = "Wake" /\ l[j].timer = l[k].timer => j = k

\* The log l, of v cycles, leads to s.
Leads(l, v, s) ==
  /\ s = Replay(Initial, l) /\ s \in EngineState /\ s.seq = Len(l) /\ s.ver = v
  /\ Accepted(Initial, l) /\ Counted(s) /\ Timed(s, l)

\* A state is saved where a cycle ended.
Cut(l, n) == n \in 0 .. Len(l) /\ (n = Len(l) \/ l[n + 1].src = 0)
Saved(l, s) == s \in EngineState /\ Cut(l, s.seq) /\ s = Replay(Initial, SubSeq(l, 1, s.seq))

\* A candidate's timers are new, and the one it fires was waiting.
LEMMA TimedOn ==
  ASSUME NEW s \in EngineState, NEW l \in Seq(EventRecord), Timed(s, l), NEW c, Candid(s, c)
  PROVE  Timed(c.st, l \o c.recs)
<1>1. PICK h \in Seq(EventRecord), t \in EngineState : h = c.recs /\ t = c.st
  BY DEF Candid
<1>2. PICK m \in Nat, n \in Nat : m = Len(l) /\ n = Len(h) /\ n >= 1
  BY <1>1 DEF Candid
<1>3. PICK r : r = l \o h
  OBVIOUS
<1>4. /\ r \in Seq(EventRecord) /\ DOMAIN r = 1 .. m + n
      /\ (\A i \in 1 .. m : r[i] = l[i]) /\ \A i \in 1 .. n : r[m + i] = h[i]
  BY <1>2, <1>3
<1>5. PICK root \in EventRecord, b \in EngineState : root = h[1] /\ b = BeginFact(s, root)
  <2>1. h[1] \in EventRecord
    BY <1>2
  <2> QED
    BY <2>1, BeginParts
<1>6. root.src = 0 /\ Valid(s, root) /\ TimersGrow(b, t) /\ \A i \in 2 .. n : h[i].type # "Wake"
  BY <1>1, <1>2, <1>5 DEF Candid, Takes
<1>7. b.nextOrd = s.nextOrd /\ b.timers = ConsumeTimer(s, root) /\ b.timers \in SUBSET s.timers
  BY <1>5, BeginParts
<1>8. /\ s.nextOrd \in Nat /\ t.nextOrd \in Nat /\ root.timer \in Nat
      /\ (\A u \in s.timers : u.ord \in Nat) /\ \A u \in t.timers : u.ord \in Nat
  BY DEF EngineState, EventRecord, Timer
<1>9. /\ s.nextOrd <= t.nextOrd
      /\ \A u \in t.timers : u \in b.timers \/ (s.nextOrd <= u.ord /\ u.ord < t.nextOrd)
  BY <1>6, <1>7 DEF TimersGrow
<1>10. \A u \in t.timers : u.ord < t.nextOrd
  <2>1. \A u \in s.timers : u.ord < s.nextOrd
    BY DEF Timed
  <2> QED
    BY <1>7, <1>8, <1>9, <2>1
<1>11. root.type = "Wake" =>
         /\ root.timer < s.nextOrd /\ (\A u \in t.timers : u.ord # root.timer)
         /\ \E u \in s.timers : u.ord = root.timer
  <2>1. SUFFICES ASSUME root.type = "Wake"
                 PROVE  /\ root.timer < s.nextOrd /\ (\A u \in t.timers : u.ord # root.timer)
                        /\ \E u \in s.timers : u.ord = root.timer
    OBVIOUS
  <2>2. PICK u \in s.timers : u.ord = root.timer
    BY <1>6, <2>1 DEF Valid, Fires
  <2>3. root.timer < s.nextOrd
    BY <2>2 DEF Timed
  <2>4. b.timers = {v \in s.timers : ~(v.ord = root.timer)}
    BY <1>6, <1>7, <2>1 DEF ConsumeTimer, Fires
  <2>5. \A v \in t.timers : v.ord # root.timer
    BY <1>8, <1>9, <2>3, <2>4
  <2> QED
    BY <2>2, <2>3, <2>5
<1>12. \A k \in 1 .. m : r[k].type = "Wake" =>
         /\ l[k].timer < s.nextOrd /\ r[k].timer < t.nextOrd
         /\ (\A u \in s.timers : u.ord # r[k].timer) /\ \A u \in t.timers : u.ord # r[k].timer
  <2>1. ASSUME NEW k \in 1 .. m, r[k].type = "Wake"
        PROVE  /\ l[k].timer < s.nextOrd /\ r[k].timer < t.nextOrd
               /\ (\A u \in s.timers : u.ord # r[k].timer) /\ \A u \in t.timers : u.ord # r[k].timer
    <3>1. k \in DOMAIN l /\ r[k] = l[k]
      BY <1>2, <1>4
    <3>2. PICK o \in Nat : o = l[k].timer
      <4>1. l[k] \in EventRecord
        BY <3>1
      <4> QED
        BY <4>1 DEF EventRecord
    <3>3. o < s.nextOrd /\ \A u \in s.timers : u.ord # o
      BY <2>1, <3>1, <3>2 DEF Timed
    <3>4. \A u \in t.timers : u.ord # o
      BY <1>7, <1>8, <1>9, <3>3
    <3> QED
      BY <1>8, <1>9, <3>1, <3>2, <3>3, <3>4
  <2> QED
    BY <2>1
<1>13. \A k \in 1 .. m + n : r[k].type = "Wake" => k \in 1 .. m \/ (k = m + 1 /\ r[k] = root)
  <2>1. ASSUME NEW k \in 1 .. m + n, r[k].type = "Wake" PROVE k \in 1 .. m \/ (k = m + 1 /\ r[k] = root)
    <3>1. CASE k <= m
      BY <3>1
    <3>2. CASE ~(k <= m)
      <4>1. k - m \in 1 .. n /\ m + (k - m) = k
        BY <3>2
      <4>2. r[k] = h[k - m]
        BY <1>4, <4>1
      <4>3. k - m = 1
        BY <1>6, <2>1, <4>1, <4>2
      <4> QED
        BY <1>5, <4>1, <4>2, <4>3
    <3> QED
      BY <3>1, <3>2
  <2> QED
    BY <2>1
<1>14. \A k \in DOMAIN r : r[k].type = "Wake" =>
         r[k].timer < t.nextOrd /\ \A u \in t.timers : u.ord # r[k].timer
  <2>1. root.type = "Wake" => root.timer < t.nextOrd
    BY <1>8, <1>9, <1>11
  <2> QED
    BY <1>4, <1>11, <1>12, <1>13, <2>1
<1>15. ASSUME NEW j \in DOMAIN r, NEW k \in DOMAIN r, r[j].type = "Wake", r[k].type = "Wake",
              r[j].timer = r[k].timer
       PROVE  j = k
  <2>1. \A i \in 1 .. m : r[i].type = "Wake" => ~(root.type = "Wake" /\ r[i].timer = root.timer)
    BY <1>11, <1>12
  <2>2. CASE j \in 1 .. m /\ k \in 1 .. m
    <3>1. j \in DOMAIN l /\ k \in DOMAIN l /\ r[j] = l[j] /\ r[k] = l[k]
      BY <1>2, <1>4, <2>2
    <3> QED
      BY <1>15, <3>1 DEF Timed
  <2>3. CASE ~(j \in 1 .. m /\ k \in 1 .. m)
    BY <1>4, <1>13, <1>15, <2>1, <2>3
  <2> QED
    BY <2>2, <2>3
<1>16. Timed(t, r)
  BY <1>10, <1>14, <1>15 DEF Timed
<1> QED
  BY <1>1, <1>3, <1>16

\* A log goes on with a candidate of the state it leads to.
LEMMA LeadsOn ==
  ASSUME NEW l \in Seq(EventRecord), NEW v \in Nat, NEW s, Leads(l, v, s), NEW c, Candid(s, c)
  PROVE  l \o c.recs \in Seq(EventRecord) /\ Leads(l \o c.recs, v + 1, c.st)
<1>1. s \in EngineState /\ s = Replay(Initial, l) /\ s.seq = Len(l) /\ s.ver = v /\ Accepted(Initial, l)
      /\ Counted(s) /\ Timed(s, l)
  BY DEF Leads
<1>2. PICK h \in Seq(EventRecord) : h = c.recs /\ Len(h) >= 1 /\ h # <<>> /\ h[1].src = 0
                                    /\ \A i \in 2 .. Len(h) : h[i].src # 0
  <2>1. c.recs \in Seq(EventRecord) /\ Len(c.recs) >= 1 /\ c.recs[1].src = 0
        /\ \A i \in 2 .. Len(c.recs) : c.recs[i].src # 0
    BY DEF Candid
  <2>2. c.recs # <<>>
    BY <2>1
  <2> QED
    BY <2>1, <2>2
<1>3. Takes(s, h) /\ Recover(s, h).st = c.st /\ c.st \in EngineState /\ c.st.seq = s.seq + Len(h)
      /\ c.st.ver = s.ver + 1 /\ Counted(c.st)
  BY <1>1, <1>2 DEF Candid
<1>4. CycleAt(h, 1) = h /\ Replay(s, h) = c.st
  BY <1>1, <1>2, <1>3, ReplayOne
<1>5. Replay(Initial, l \o h) = c.st
  <2>1. Meets(h)
    BY <1>2 DEF Meets
  <2>2. Replay(Initial, l \o h) = Replay(Replay(Initial, l), h)
    BY <2>1, ReplayRest
  <2> QED
    BY <1>1, <1>4, <2>2
<1>6. Accepted(Initial, l \o h)
  BY <1>1, <1>2, <1>3, <1>4, AcceptedOn
<1>7. Timed(c.st, l \o h)
  BY <1>1, <1>2, TimedOn
<1>8. l \o h \in Seq(EventRecord) /\ Len(l \o h) = Len(l) + Len(h)
  BY ConcatProperties
<1> QED
  BY <1>1, <1>2, <1>3, <1>5, <1>6, <1>7, <1>8 DEF Leads

\* A saved state stays one.
LEMMA SavedOn ==
  ASSUME NEW l \in Seq(EventRecord), NEW s, Saved(l, s), NEW h \in Seq(EventRecord), h # <<>>, h[1].src = 0
  PROVE  Saved(l \o h, s)
<1>1. PICK m \in Nat, n \in Nat : m = Len(l) /\ n = Len(h) /\ n # 0
  OBVIOUS
<1>2. PICK k \in Nat : k = s.seq
  BY DEF Saved, EngineState
<1>3. k \in 0 .. m /\ (k = m \/ l[k + 1].src = 0)
  BY <1>1, <1>2 DEF Saved, Cut
<1>4. PICK r : r = l \o h
  OBVIOUS
<1>5. /\ Len(r) = m + n /\ (\A i \in 1 .. m : r[i] = l[i]) /\ \A i \in 1 .. n : r[m + i] = h[i]
  BY <1>1, <1>4
<1>6. Cut(r, k)
  <2>1. CASE k = m
    <3>1. r[m + 1] = h[1]
      BY <1>1, <1>5
    <3> QED
      BY <1>1, <1>3, <1>5, <2>1, <3>1 DEF Cut
  <2>2. CASE k # m
    <3>1. k + 1 \in 1 .. m /\ k \in 0 .. m + n
      BY <1>3, <2>2
    <3> QED
      BY <1>3, <1>5, <2>2, <3>1 DEF Cut
  <2> QED
    BY <2>1, <2>2
<1>7. SubSeq(r, 1, k) = SubSeq(l, 1, k)
  BY <1>1, <1>3, <1>4, PrefixesApart
<1> QED
  BY <1>1, <1>2, <1>4, <1>6, <1>7 DEF Saved

\* From a saved state recovery accepts the rest and ends where the log leads.
LEMMA SavedLeads ==
  ASSUME NEW l \in Seq(EventRecord), NEW v, NEW s, Leads(l, v, s), NEW t, Saved(l, t)
  PROVE  /\ Accepted(t, SubSeq(l, t.seq + 1, Len(l)))
         /\ Replay(t, SubSeq(l, t.seq + 1, Len(l))) = s
<1>1. PICK m \in Nat, k \in Nat : m = Len(l) /\ k = t.seq /\ k \in 0 .. m /\ (k = m \/ l[k + 1].src = 0)
  BY DEF Saved, Cut, EngineState
<1>2. PICK a, b : a = SubSeq(l, 1, k) /\ b = SubSeq(l, k + 1, m)
  OBVIOUS
<1>3. a \in Seq(EventRecord)
  <2>1. \A i \in 1 .. k : l[i] \in EventRecord
    BY <1>1
  <2> QED
    BY <1>1, <1>2, <2>1, SubSeqProperties
<1>4. b \in Seq(EventRecord) /\ Meets(b)
  <2>1. \A i \in k + 1 .. m : l[i] \in EventRecord
    BY <1>1
  <2>2. CASE k = m
    <3>1. m \in Int /\ k + 1 \in Int /\ m < k + 1
      BY <2>2
    <3>2. b = <<>>
      BY <1>2, <3>1, SubSeqEmpty
    <3> QED
      BY <3>2 DEF Meets
  <2>3. CASE k # m
    <3>1. k + 1 \in Int /\ m \in Int /\ 1 \in 1 .. m - (k + 1) + 1 /\ (k + 1) + 1 - 1 = k + 1
      BY <1>1, <2>3
    <3>2. SubSeq(l, k + 1, m) \in Seq(EventRecord)
          /\ \A i \in 1 .. m - (k + 1) + 1 : SubSeq(l, k + 1, m)[i] = l[(k + 1) + i - 1]
      BY <2>1, <3>1, SubSeqProperties
    <3>3. b[1] = l[k + 1]
      BY <1>2, <3>1, <3>2
    <3> QED
      BY <1>1, <1>2, <2>3, <3>2, <3>3 DEF Meets
  <2> QED
    BY <2>2, <2>3
<1>5. a \o b = l
  <2>1. 1 \in 1 .. Len(l) + 1 /\ k \in 1 - 1 .. Len(l) /\ m \in k .. Len(l)
    BY <1>1
  <2>2. SubSeq(l, 1, k) \o SubSeq(l, k + 1, m) = SubSeq(l, 1, m)
    BY <2>1, ConcatAdjacentSubSeq
  <2>3. SubSeq(l, 1, Len(l)) = l
    BY SubSeqFull
  <2> QED
    BY <1>1, <1>2, <2>2, <2>3
<1>6. t = Replay(Initial, a)
  BY <1>1, <1>2 DEF Saved
<1>7. Accepted(Initial, a \o b) /\ Replay(Initial, a \o b) = s
  BY <1>5 DEF Leads
<1>8. Accepted(Replay(Initial, a), b)
  BY <1>3, <1>4, <1>7, AcceptedRest
<1>9. Replay(Initial, a \o b) = Replay(Replay(Initial, a), b)
  BY <1>3, <1>4, ReplayRest
<1> QED
  BY <1>1, <1>2, <1>6, <1>7, <1>8, <1>9
-----------------------------------------------------------------------------
(* The inductive invariant.                                                *)

\* The state the log leads to.
Now == Replay(Initial, log)

\* The log is one that recovery accepts from the beginning; a ready engine holds
\* the state it leads to, and a candidate that waits is a cycle recovery takes
\* from this state; checkpoints are states where a cycle ended, and the journal
\* is durable as far as anything refers to it.
EngineInv ==
  /\ EngineTypeOK
  /\ Leads(log, ver, Now)
  /\ eng.ready => eng.st = Now
  /\ eng.pending # <<>> => eng.ready /\ Candid(eng.st, eng.pending[1])
  /\ \A ck \in cks : Saved(log, ck.st) /\ ck.water <= raw.synced
  /\ water <= raw.synced /\ \A k \in DOMAIN log : log[k].raw <= water

LEMMA EngineStarts ==
  ASSUME CycleAssumption, EngineInit
  PROVE  EngineInv
<1>1. Initial \in EngineState /\ Initial.seq = 0 /\ Initial.ver = 0 /\ Initial.timers = {}
      /\ Initial.trace = <<>>
  BY DEF Initial, EngineState
<1>2. EngineTypeOK
  BY <1>1 DEF EngineInit, EngineTypeOK, Down, Mode
<1>3. log = <<>> /\ ver = 0 /\ Now = Initial
  BY ReplayNone DEF EngineInit, Now
<1>4. Accepted(Initial, <<>>)
  <2>1. Meets(<<>>)
    BY DEF Meets
  <2>2. DOMAIN <<>> = {}
    OBVIOUS
  <2> QED
    BY <2>1, <2>2, AcceptedParts
<1>5. Counted(Initial)
  <2>1. ASSUME NEW s \in Reducers, NEW q \in Nat
        PROVE  TimesReduced(Initial.trace, s, q) = IF 1 <= q /\ q <= Initial.seq THEN 1 ELSE 0
    <3>1. {k \in DOMAIN <<>> : <<>>[k] = <<s, q>>} = {}
      OBVIOUS
    <3>2. TimesReduced(<<>>, s, q) = 0
      BY <3>1, FS_EmptySet DEF TimesReduced
    <3> QED
      BY <1>1, <3>2
  <2> QED
    BY <2>1 DEF Counted
<1>6. Timed(Initial, <<>>)
  BY <1>1 DEF Timed
<1>7. Leads(log, ver, Now)
  <2>1. Len(<<>>) = 0 /\ Initial = Replay(Initial, <<>>)
    BY ReplayNone
  <2>2. Leads(<<>>, 0, Initial)
    BY <1>1, <1>4, <1>5, <1>6, <2>1 DEF Leads
  <2> QED
    BY <1>3, <2>2
<1>8. eng.ready = FALSE /\ eng.pending = <<>> /\ cks = {} /\ water = 0 /\ raw.synced = 0
  BY DEF EngineInit, Down
<1> QED
  BY <1>2, <1>3, <1>7, <1>8 DEF EngineInv

\* Steps that leave the store alone.
LEMMA StoreStands ==
  ASSUME EngineInv, UNCHANGED store, raw'.synced >= raw.synced, raw' \in [written : Nat, synced : Nat]
  PROVE  /\ Leads(log, ver, Now)' /\ Now' = Now
         /\ (\A ck \in cks : Saved(log, ck.st) /\ ck.water <= raw.synced)'
         /\ (water <= raw.synced /\ \A k \in DOMAIN log : log[k].raw <= water)'
<1>1. log' = log /\ ver' = ver /\ cks' = cks /\ water' = water
  BY DEF store
<1>2. Now' = Now
  BY <1>1 DEF Now
<1>3. Leads(log, ver, Now)'
  BY <1>1, <1>2 DEF EngineInv
<1>4. raw.synced \in Nat /\ water \in Nat /\ raw'.synced \in Nat /\ \A ck \in cks : ck.water \in Nat
  BY DEF EngineInv, EngineTypeOK
<1>5. (\A ck \in cks : Saved(log, ck.st) /\ ck.water <= raw.synced)'
  <2>1. ASSUME NEW ck \in cks PROVE Saved(log', ck.st) /\ ck.water <= raw'.synced
    BY <1>1, <1>4 DEF EngineInv
  <2> QED
    BY <1>1, <2>1
<1>6. (water <= raw.synced /\ \A k \in DOMAIN log : log[k].raw <= water)'
  BY <1>1, <1>4 DEF EngineInv
<1> QED
  BY <1>2, <1>3, <1>5, <1>6

\* What is the engine's alone.
Engaged(e, s) ==
  /\ e \in [mode : Mode, ready : BOOLEAN, restored : BOOLEAN, latched : BOOLEAN,
            st : EngineState, pending : Seq(Candidate)]
  /\ Len(e.pending) <= 1
  /\ e.ready => e.st = s
  /\ e.pending # <<>> => e.ready /\ Candid(e.st, e.pending[1])

\* A step of the engine, or of the journal, that leaves the store alone.
LEMMA EngineKeeps ==
  ASSUME EngineInv, UNCHANGED store, Engaged(eng', Now), deaths' \in Nat,
         raw' \in [written : Nat, synced : Nat], raw.synced <= raw'.synced, raw'.synced <= raw'.written
  PROVE  EngineInv'
<1>1. log' = log /\ ver' = ver /\ cks' = cks /\ water' = water
  BY DEF store
<1>2. EngineTypeOK'
  BY <1>1 DEF EngineInv, EngineTypeOK, Engaged
<1>3. raw'.synced >= raw.synced
  BY DEF EngineInv, EngineTypeOK
<1>4. /\ Leads(log, ver, Now)' /\ Now' = Now
      /\ (\A ck \in cks : Saved(log, ck.st) /\ ck.water <= raw.synced)'
      /\ (water <= raw.synced /\ \A k \in DOMAIN log : log[k].raw <= water)'
  BY <1>3, StoreStands
<1>5. (eng.ready => eng.st = Now)' /\ (eng.pending # <<>> => eng.ready /\ Candid(eng.st, eng.pending[1]))'
  BY <1>4 DEF Engaged
<1> QED
  BY <1>2, <1>4, <1>5 DEF EngineInv

LEMMA EngineIsEngaged ==
  ASSUME EngineInv
  PROVE  Engaged(eng, Now)
BY DEF EngineInv, EngineTypeOK, Engaged

\* The process that is down.
LEMMA DownIsEngaged == \A s : Engaged(Down, s)
<1>1. Initial \in EngineState
  BY DEF Initial, EngineState
<1> QED
  BY <1>1 DEF Engaged, Down, Mode
-----------------------------------------------------------------------------
(* Operation by operation.                                                 *)

\* There is a next timer: the earliest, and of these the first.
LEMMA NextTimerIsOne ==
  ASSUME NEW s \in EngineState, s.timers # {}
  PROVE  NextTimer(s) \in s.timers
<1>1. PICK T : T = s.timers /\ T \in SUBSET Timer /\ \A t \in T : t.due \in Nat /\ t.ord \in Nat
  BY DEF EngineState, Timer
<1>2. PICK D : D = {t.due : t \in T}
  OBVIOUS
<1>3. D \in SUBSET Nat /\ D # {}
  BY <1>1, <1>2
<1>4. PICK d \in D : \A e \in D : d <= e
  BY <1>3, LeastOfNumbers
<1>5. PICK O : O = {t.ord : t \in {u \in T : u.due = d}}
  OBVIOUS
<1>6. O \in SUBSET Nat /\ O # {}
  BY <1>1, <1>2, <1>5
<1>7. PICK o \in O : \A e \in O : o <= e
  BY <1>6, LeastOfNumbers
<1>8. PICK t \in T : t.due = d /\ t.ord = o
  BY <1>5
<1>9. ASSUME NEW u \in T PROVE DueBefore(t, u)
  <2>1. d <= u.due /\ (u.due = d => o <= u.ord)
    BY <1>2, <1>4, <1>5, <1>7
  <2> QED
    BY <1>1, <1>3, <1>8, <2>1 DEF DueBefore
<1>10. \E v \in s.timers : \A u \in s.timers : DueBefore(v, u)
  BY <1>1, <1>9
<1> QED
  BY <1>10 DEF NextTimer

LEMMA JournalStepsKeep ==
  ASSUME EngineInv, AppendFrame \/ SyncJournal
  PROVE  EngineInv'
<1>1. raw.written \in Nat /\ raw.synced \in Nat /\ raw.synced <= raw.written /\ deaths \in Nat
      /\ raw = [written |-> raw.written, synced |-> raw.synced]
  BY DEF EngineInv, EngineTypeOK
<1>2. eng' = eng /\ UNCHANGED store /\ deaths' = deaths
  BY DEF AppendFrame, SyncJournal
<1>3. raw' \in [written : Nat, synced : Nat] /\ raw.synced <= raw'.synced /\ raw'.synced <= raw'.written
  BY <1>1 DEF AppendFrame, SyncJournal
<1>4. Engaged(eng', Now)
  BY <1>2, EngineIsEngaged
<1> QED
  BY <1>1, <1>2, <1>3, <1>4, EngineKeeps

\* A step of the engine alone.
LEMMA EngineAlone ==
  ASSUME EngineInv, UNCHANGED <<store, raw, deaths>>, Engaged(eng', Now)
  PROVE  EngineInv'
<1>1. raw \in [written : Nat, synced : Nat] /\ raw.synced <= raw.written /\ deaths \in Nat /\ raw.synced \in Nat
  BY DEF EngineInv, EngineTypeOK
<1>2. UNCHANGED store /\ raw' = raw /\ deaths' = deaths /\ raw.synced <= raw.synced
  BY <1>1
<1> QED
  BY <1>1, <1>2, EngineKeeps

LEMMA ProcessKeeps ==
  ASSUME CycleAssumption, EngineAssumption, EngineInv, NEW root \in EventRecord, root.src = 0,
         root.seq = eng.st.seq + 1, NEW plan \in Plans, Process(root, plan)
  PROVE  EngineInv'
<1>1. plan \in Decisions
  BY DEF EngineAssumption, Decisions
<1>2. PICK x : x = Decide(eng.st, root, plan)
  OBVIOUS
<1>3. PICK c : c = [base |-> eng.st.ver, recs |-> x.hist, st |-> x.st]
  OBVIOUS
<1>4. eng.st \in EngineState /\ eng.ready /\ Valid(eng.st, root)
  BY DEF EngineInv, EngineTypeOK, Process, MayProcess
<1>5. c \in Candidate /\ Candid(eng.st, c)
  BY <1>1, <1>2, <1>3, <1>4, DecideCandid
<1>6. eng' = [eng EXCEPT !.pending = <<c>>] /\ UNCHANGED <<store, raw, deaths>>
  BY <1>2, <1>3 DEF Process
<1>7. Engaged(eng', Now)
  <2>1. PICK p \in Seq(Candidate) : p = <<c>> /\ Len(p) = 1 /\ p[1] = c
    <3>1. <<c>> \in Seq(Candidate) /\ Len(<<c>>) = 1 /\ <<c>>[1] = c
      BY <1>5
    <3> QED
      BY <3>1
  <2>2. /\ eng \in [mode : Mode, ready : BOOLEAN, restored : BOOLEAN, latched : BOOLEAN,
                    st : EngineState, pending : Seq(Candidate)]
        /\ eng.st = Now
    BY <1>4 DEF EngineInv, EngineTypeOK
  <2>3. eng' = [eng EXCEPT !.pending = p]
    BY <1>6, <2>1
  <2>4. /\ eng' \in [mode : Mode, ready : BOOLEAN, restored : BOOLEAN, latched : BOOLEAN,
                     st : EngineState, pending : Seq(Candidate)]
        /\ eng'.st = eng.st /\ eng'.ready = eng.ready /\ eng'.pending = p
    BY <2>2, <2>3
  <2> QED
    BY <1>4, <1>5, <2>1, <2>2, <2>4 DEF Engaged
<1> QED
  BY <1>6, <1>7, EngineAlone

\* An input of the engine: the next fact of the log, which no stage caused.
IsInput(root) == root \in EventRecord /\ root.src = 0 /\ root.seq = eng.st.seq + 1

LEMMA InputParts ==
  ASSUME EngineInv, NEW type \in {"Trade", "Disarm", "Wake"}, NEW frame \in Nat, NEW timer \in Nat,
         NEW avail \in Nat
  PROVE  IsInput(Input(type, frame, timer, avail))
<1>1. eng.st \in EngineState
  BY DEF EngineInv, EngineTypeOK
<1>2. PICK q \in Nat : q = eng.st.seq + 1
  BY <1>1 DEF EngineState
<1>3. type \in EventType
  BY DEF EventType
<1>4. Input(type, frame, timer, avail) =
        [seq |-> q, type |-> type, src |-> 0, parent |-> 0, raw |-> frame, timer |-> timer, avail |-> avail]
  BY <1>2 DEF Input
<1>5. Input(type, frame, timer, avail) \in EventRecord
  BY <1>3, <1>4 DEF EventRecord
<1>6. Input(type, frame, timer, avail).src = 0 /\ Input(type, frame, timer, avail).seq = q
  BY <1>4
<1> QED
  BY <1>2, <1>5, <1>6 DEF IsInput

LEMMA InputsKeep ==
  ASSUME CycleAssumption, EngineAssumption, EngineInv, ProcessTrade \/ ProcessDisarm \/ ProcessTimer
  PROVE  EngineInv'
<1>1. eng.st \in EngineState /\ eng.st.seq \in Nat /\ eng.st.avail \in Nat /\ eng.st.timers \in SUBSET Timer
      /\ raw.written \in Nat
  BY DEF EngineInv, EngineTypeOK, EngineState
<1>4. CASE ProcessTrade
  <2>1. PICK frame \in 1 .. raw.written, plan \in Plans :
          Process(Input("Trade", frame, 0, eng.st.avail + 1), plan)
    BY <1>4 DEF ProcessTrade
  <2>2. PICK root : root = Input("Trade", frame, 0, eng.st.avail + 1)
    OBVIOUS
  <2>3. IsInput(Input("Trade", frame, 0, eng.st.avail + 1))
    <3>1. frame \in Nat /\ 0 \in Nat /\ eng.st.avail + 1 \in Nat /\ "Trade" \in {"Trade", "Disarm", "Wake"}
      BY <1>1
    <3> QED
      BY <3>1, InputParts
  <2> QED
    BY <2>1, <2>2, <2>3, ProcessKeeps DEF IsInput
<1>5. CASE ProcessDisarm
  <2>1. PICK plan \in Plans : Process(Input("Disarm", 0, 0, eng.st.avail), plan)
    BY <1>5 DEF ProcessDisarm
  <2>2. PICK root : root = Input("Disarm", 0, 0, eng.st.avail)
    OBVIOUS
  <2>3. IsInput(Input("Disarm", 0, 0, eng.st.avail))
    <3>1. 0 \in Nat /\ "Disarm" \in {"Trade", "Disarm", "Wake"}
      OBVIOUS
    <3> QED
      BY <1>1, <3>1, InputParts
  <2> QED
    BY <2>1, <2>2, <2>3, ProcessKeeps DEF IsInput
<1>6. CASE ProcessTimer
  <2>1. PICK t : t = NextTimer(eng.st)
    OBVIOUS
  <2>2. eng.st.timers # {}
    BY <1>6 DEF ProcessTimer
  <2>3. PICK plan \in Plans, late \in {0, 1} :
          Process(Input("Wake", 0, t.ord, late + (IF t.due > eng.st.avail THEN t.due ELSE eng.st.avail)), plan)
    BY <1>6, <2>1 DEF ProcessTimer
  <2>4. PICK root : root = Input("Wake", 0, t.ord, late + (IF t.due > eng.st.avail THEN t.due ELSE eng.st.avail))
    OBVIOUS
  <2>5. t \in Timer
    BY <1>1, <2>1, <2>2, NextTimerIsOne
  <2>6. IsInput(Input("Wake", 0, t.ord, late + (IF t.due > eng.st.avail THEN t.due ELSE eng.st.avail)))
    <3>1. t.ord \in Nat /\ t.due \in Nat
      BY <2>5 DEF Timer
    <3>2. 0 \in Nat /\ late + (IF t.due > eng.st.avail THEN t.due ELSE eng.st.avail) \in Nat
          /\ "Wake" \in {"Trade", "Disarm", "Wake"}
      BY <1>1, <3>1
    <3> QED
      BY <3>1, <3>2, InputParts
  <2> QED
    BY <2>3, <2>4, <2>6, ProcessKeeps DEF IsInput
<1> QED
  BY <1>4, <1>5, <1>6

LEMMA EngineStepsKeep ==
  ASSUME EngineInv, \/ Discard \/ CommitFails \/ RestoreFails \/ ResumeOffline
                    \/ \E mode \in {"DEMO", "RECOVERY"} : Open(mode)
  PROVE  EngineInv'
<1>1. /\ eng \in [mode : Mode, ready : BOOLEAN, restored : BOOLEAN, latched : BOOLEAN,
                  st : EngineState, pending : Seq(Candidate)]
      /\ Len(eng.pending) <= 1 /\ log \in Seq(EventRecord)
      /\ eng.ready => eng.st = Now
      /\ eng.pending # <<>> => eng.ready /\ Candid(eng.st, eng.pending[1])
  BY DEF EngineInv, EngineTypeOK
<1>2. UNCHANGED <<store, raw, deaths>>
  BY DEF Discard, CommitFails, RestoreFails, ResumeOffline, Open
<1>3. <<>> \in Seq(Candidate) /\ Len(<<>>) = 0
  OBVIOUS
<1>4. CASE Discard \/ CommitFails
  <2>1. /\ eng' \in [mode : Mode, ready : BOOLEAN, restored : BOOLEAN, latched : BOOLEAN,
                     st : EngineState, pending : Seq(Candidate)]
        /\ eng'.st = eng.st /\ eng'.ready = eng.ready /\ eng'.pending = <<>>
    <3>1. CASE Discard
      <4>1. eng' = [eng EXCEPT !.pending = <<>>]
        BY <3>1 DEF Discard
      <4> QED
        BY <1>1, <1>3, <4>1
    <3>2. CASE CommitFails
      <4>1. eng' = [eng EXCEPT !.pending = <<>>, !.latched = TRUE] /\ TRUE \in BOOLEAN
        BY <3>2 DEF CommitFails
      <4> QED
        BY <1>1, <1>3, <4>1
    <3> QED
      BY <1>4, <3>1, <3>2
  <2>2. Engaged(eng', Now)
    BY <1>1, <1>3, <2>1 DEF Engaged
  <2> QED
    BY <1>2, <2>2, EngineAlone
<1>5. CASE RestoreFails
  <2>1. Engaged(eng', Now)
    BY <1>1, <1>3, <1>5 DEF RestoreFails, Engaged
  <2> QED
    BY <1>2, <2>1, EngineAlone
<1>6. CASE ResumeOffline
  <2>1. eng' = [eng EXCEPT !.mode = "DEMO"] /\ "DEMO" \in Mode
    BY <1>6 DEF ResumeOffline, Mode
  <2>2. Engaged(eng', Now)
    BY <1>1, <2>1 DEF Engaged
  <2> QED
    BY <1>2, <2>2, EngineAlone
<1>7. CASE \E mode \in {"DEMO", "RECOVERY"} : Open(mode)
  <2>1. PICK mode \in {"DEMO", "RECOVERY"} : Open(mode)
    BY <1>7
  <2>2. eng' = [Down EXCEPT !.mode = mode, !.ready = (ver = 0 /\ StoreSeq = 0)]
    BY <2>1 DEF Open
  <2>3. mode \in Mode
    BY DEF Mode
  <2>4. (ver = 0 /\ StoreSeq = 0) => Now = Initial
    <3>1. ASSUME StoreSeq = 0 PROVE Now = Initial
      <4>1. log = <<>>
        BY <1>1, <3>1 DEF StoreSeq
      <4> QED
        BY <4>1, ReplayNone DEF Now
    <3> QED
      BY <3>1
  <2>5. Initial \in EngineState
    BY DEF Initial, EngineState
  <2>6. /\ eng'.mode = mode /\ eng'.ready = (ver = 0 /\ StoreSeq = 0) /\ eng'.st = Initial
        /\ eng'.pending = <<>>
        /\ eng' \in [mode : Mode, ready : BOOLEAN, restored : BOOLEAN, latched : BOOLEAN,
                     st : EngineState, pending : Seq(Candidate)]
    BY <1>3, <2>2, <2>3, <2>5 DEF Down
  <2>7. Engaged(eng', Now)
    BY <1>3, <2>4, <2>6 DEF Engaged
  <2> QED
    BY <1>2, <2>7, EngineAlone
<1> QED
  BY <1>4, <1>5, <1>6, <1>7
-----------------------------------------------------------------------------
(* The commit, checkpoints, recovery.                                      *)

\* What a log refers to stays covered when covered events follow.
LEMMA CoveredOn ==
  ASSUME NEW l \in Seq(EventRecord), NEW h \in Seq(EventRecord), NEW w \in Nat, NEW s \in Nat, w <= s,
         \A k \in DOMAIN l : l[k].raw <= w, \A k \in DOMAIN h : h[k].raw <= s
  PROVE  \A k \in DOMAIN (l \o h) : (l \o h)[k].raw <= s
<1>1. PICK m \in Nat, n \in Nat : m = Len(l) /\ n = Len(h)
  OBVIOUS
<1>2. PICK r : r = l \o h
  OBVIOUS
<1>3. /\ DOMAIN r = 1 .. m + n
      /\ (\A i \in 1 .. m : r[i] = l[i]) /\ \A i \in 1 .. n : r[m + i] = h[i]
  BY <1>1, <1>2
<1>4. ASSUME NEW i \in 1 .. m PROVE l[i].raw \in Nat /\ l[i].raw <= w
  <2>1. i \in DOMAIN l /\ l[i] \in EventRecord
    BY <1>1
  <2>2. l[i].raw <= w
    BY <2>1
  <2> QED
    BY <2>1, <2>2 DEF EventRecord
<1>5. ASSUME NEW k \in DOMAIN r PROVE r[k].raw <= s
  <2>1. CASE k <= m
    <3>1. k \in 1 .. m
      BY <1>3, <2>1
    <3>2. PICK v \in Nat : v = l[k].raw /\ v <= w
      BY <1>4, <3>1
    <3> QED
      BY <1>3, <3>1, <3>2
  <2>2. CASE ~(k <= m)
    <3>1. PICK j \in 1 .. n : m + j = k
      <4>1. k - m \in 1 .. n /\ m + (k - m) = k
        BY <1>3, <2>2
      <4> QED
        BY <4>1
    <3>2. r[k] = h[j] /\ j \in DOMAIN h
      BY <1>1, <1>3, <3>1
    <3>3. h[j].raw <= s
      BY <3>2
    <3> QED
      BY <3>2, <3>3
  <2> QED
    BY <2>1, <2>2
<1> QED
  BY <1>2, <1>5

\* The store takes the candidate, whatever becomes of the process.
LEMMA StoreKeeps ==
  ASSUME EngineInv, NEW c, c = eng.pending[1], eng.pending # <<>>, StoreAccepts(c), AppendEvents(c),
         raw' \in [written : Nat, synced : Nat], raw'.synced = raw.synced, raw'.synced <= raw'.written,
         deaths' \in Nat, Engaged(eng', c.st)
  PROVE  EngineInv'
<1>1. eng.ready /\ eng.st = Now /\ Candid(Now, c)
  BY DEF EngineInv
<1>2. log \in Seq(EventRecord) /\ ver \in Nat /\ water \in Nat /\ raw.synced \in Nat
      /\ \A ck \in cks : ck \in [st : EngineState, water : Nat]
  BY DEF EngineInv, EngineTypeOK
<1>3. log' = log \o c.recs /\ ver' = ver + 1 /\ water' = raw.synced /\ cks' = cks
  BY DEF AppendEvents
<1>4. Leads(log, ver, Now)
  BY DEF EngineInv
<1>5. log' \in Seq(EventRecord) /\ Leads(log', ver + 1, c.st)
  <2>1. log \o c.recs \in Seq(EventRecord) /\ Leads(log \o c.recs, ver + 1, c.st)
    BY <1>1, <1>2, <1>4, LeadsOn
  <2> QED
    BY <1>3, <2>1
<1>6. Now' = c.st
  BY <1>5 DEF Leads, Now
<1>7. Leads(log, ver, Now)'
  BY <1>3, <1>5, <1>6
<1>8. EngineTypeOK'
  BY <1>2, <1>3, <1>5 DEF EngineTypeOK, Engaged
<1>9. (eng.ready => eng.st = Now)' /\ (eng.pending # <<>> => eng.ready /\ Candid(eng.st, eng.pending[1]))'
  BY <1>6 DEF Engaged
<1>10. (\A ck \in cks : Saved(log, ck.st) /\ ck.water <= raw.synced)'
  <2>1. c.recs \in Seq(EventRecord) /\ c.recs # <<>> /\ c.recs[1].src = 0
    <3>1. c.recs \in Seq(EventRecord) /\ Len(c.recs) >= 1 /\ c.recs[1].src = 0
      BY <1>1 DEF Candid
    <3> QED
      BY <3>1
  <2>2. ASSUME NEW ck \in cks PROVE Saved(log', ck.st) /\ ck.water <= raw'.synced
    <3>1. Saved(log, ck.st) /\ ck.water <= raw.synced
      BY DEF EngineInv
    <3>2. Saved(log \o c.recs, ck.st)
      BY <1>2, <2>1, <3>1, SavedOn
    <3> QED
      BY <1>3, <3>1, <3>2
  <2> QED
    BY <1>3, <2>2
<1>11. (water <= raw.synced)'
  BY <1>2, <1>3
<1>12. \A k \in DOMAIN log' : log'[k].raw <= water'
  <2>1. c.recs \in Seq(EventRecord) /\ \A k \in DOMAIN c.recs : c.recs[k].raw <= raw.synced
    BY <1>1 DEF Candid, StoreAccepts
  <2>2. water <= raw.synced /\ \A k \in DOMAIN log : log[k].raw <= water
    BY DEF EngineInv
  <2>3. \A k \in DOMAIN (log \o c.recs) : (log \o c.recs)[k].raw <= raw.synced
    BY <1>2, <2>1, <2>2, CoveredOn
  <2> QED
    BY <1>3, <2>3
<1> QED
  BY <1>7, <1>8, <1>9, <1>10, <1>11, <1>12 DEF EngineInv

\* What a crash leaves of the raw journal.
LEMMA TailIsLost ==
  ASSUME EngineInv, LoseTail
  PROVE  raw' \in [written : Nat, synced : Nat] /\ raw'.synced = raw.synced /\ raw'.synced <= raw'.written
<1>1. PICK w \in Nat, s \in Nat : w = raw.written /\ s = raw.synced /\ s <= w /\ raw = [written |-> w, synced |-> s]
  BY DEF EngineInv, EngineTypeOK
<1>2. PICK kept \in s .. w : raw' = [raw EXCEPT !.written = kept]
  BY <1>1 DEF LoseTail
<1>3. raw' = [written |-> kept, synced |-> s] /\ kept \in Nat /\ s <= kept
  BY <1>1, <1>2
<1> QED
  BY <1>1, <1>3

LEMMA CommitKeeps ==
  ASSUME EngineInv, Commit \/ DieInCommit
  PROVE  EngineInv'
<1>1. PICK c : c = eng.pending[1]
  OBVIOUS
<1>2. eng.pending # <<>> /\ StoreAccepts(c) /\ AppendEvents(c)
  BY <1>1 DEF Commit, DieInCommit
<1>3. Candid(eng.st, c) /\ c.st \in EngineState /\ deaths \in Nat
  BY <1>1, <1>2 DEF EngineInv, EngineTypeOK, Candid
<1>4. CASE Commit
  <2>1. eng' = [eng EXCEPT !.st = c.st, !.pending = <<>>] /\ raw' = raw /\ deaths' = deaths
    BY <1>1, <1>4 DEF Commit
  <2>2. /\ eng \in [mode : Mode, ready : BOOLEAN, restored : BOOLEAN, latched : BOOLEAN,
                    st : EngineState, pending : Seq(Candidate)]
        /\ raw \in [written : Nat, synced : Nat] /\ raw.synced <= raw.written
    BY DEF EngineInv, EngineTypeOK
  <2>3. <<>> \in Seq(Candidate) /\ Len(<<>>) = 0
    OBVIOUS
  <2>4. /\ eng' \in [mode : Mode, ready : BOOLEAN, restored : BOOLEAN, latched : BOOLEAN,
                     st : EngineState, pending : Seq(Candidate)]
        /\ eng'.st = c.st /\ eng'.pending = <<>>
    BY <1>3, <2>1, <2>2, <2>3
  <2>5. Engaged(eng', c.st)
    BY <2>3, <2>4 DEF Engaged
  <2> QED
    BY <1>1, <1>2, <1>3, <2>1, <2>2, <2>5, StoreKeeps
<1>5. CASE DieInCommit
  <2>1. eng' = Down /\ LoseTail /\ deaths' = deaths + 1
    BY <1>5 DEF DieInCommit
  <2>2. Engaged(eng', c.st)
    BY <2>1, DownIsEngaged
  <2>3. deaths' \in Nat
    BY <1>3, <2>1
  <2>4. raw' \in [written : Nat, synced : Nat] /\ raw'.synced = raw.synced /\ raw'.synced <= raw'.written
    BY <2>1, TailIsLost
  <2> QED
    BY <1>1, <1>2, <2>2, <2>3, <2>4, StoreKeeps
<1> QED
  BY <1>4, <1>5

LEMMA DieKeeps ==
  ASSUME EngineInv, Die
  PROVE  EngineInv'
<1>1. eng' = Down /\ LoseTail /\ deaths' = deaths + 1 /\ UNCHANGED store
  BY DEF Die
<1>2. deaths' \in Nat /\ raw.synced \in Nat
  BY <1>1 DEF EngineInv, EngineTypeOK
<1>3. raw' \in [written : Nat, synced : Nat] /\ raw'.synced = raw.synced /\ raw'.synced <= raw'.written
  BY <1>1, TailIsLost
<1>4. Engaged(eng', Now)
  BY <1>1, DownIsEngaged
<1> QED
  BY <1>1, <1>2, <1>3, <1>4, EngineKeeps

LEMMA CheckpointKeeps ==
  ASSUME EngineInv, Checkpoint
  PROVE  EngineInv'
<1>1. UNCHANGED <<eng, log, ver, water, raw, deaths>> /\ eng.ready
  BY DEF Checkpoint
<1>2. PICK s, w : s = eng.st /\ w = (IF ver = 0 THEN raw.synced ELSE water)
  OBVIOUS
<1>3. cks' = cks \cup {[st |-> s, water |-> w]} /\ s.seq = Len(log)
  BY <1>2 DEF Checkpoint, StoreSeq
<1>4. log \in Seq(EventRecord) /\ s \in EngineState /\ w \in Nat /\ w <= raw.synced /\ s = Replay(Initial, log)
  BY <1>1, <1>2 DEF EngineInv, EngineTypeOK, Now
<1>5. Saved(log, s)
  <2>1. SubSeq(log, 1, Len(log)) = log
    BY <1>4, SubSeqFull
  <2>2. Len(log) \in 0 .. Len(log)
    BY <1>4
  <2> QED
    BY <1>3, <1>4, <2>1, <2>2 DEF Saved, Cut
<1>6. (\A ck \in cks : ck \in [st : EngineState, water : Nat])'
  <2>1. \A ck \in cks : ck \in [st : EngineState, water : Nat]
    BY DEF EngineInv, EngineTypeOK
  <2> QED
    BY <1>3, <1>4, <2>1
<1>7. EngineTypeOK'
  BY <1>1, <1>6 DEF EngineInv, EngineTypeOK
<1>8. (\A ck \in cks : Saved(log, ck.st) /\ ck.water <= raw.synced)'
  <2>1. \A ck \in cks : Saved(log, ck.st) /\ ck.water <= raw.synced
    BY DEF EngineInv
  <2> QED
    BY <1>1, <1>3, <1>4, <1>5, <2>1
<1>9. Now' = Now
  BY <1>1 DEF Now
<1> QED
  BY <1>1, <1>7, <1>8, <1>9 DEF EngineInv

LEMMA RestoreKeeps ==
  ASSUME EngineInv, NEW ck \in cks, Restore(ck)
  PROVE  EngineInv'
<1>1. PICK t : t = Replay(ck.st, TailOf(ck))
  OBVIOUS
<1>2. /\ eng' = [eng EXCEPT !.st = t, !.ready = TRUE, !.latched = FALSE, !.restored = TRUE]
      /\ eng.pending = <<>> /\ UNCHANGED <<store, raw, deaths>>
  BY <1>1 DEF Restore
<1>3. t = Now /\ Now \in EngineState
  <2>1. Leads(log, ver, Now) /\ Saved(log, ck.st) /\ log \in Seq(EventRecord)
    BY DEF EngineInv, EngineTypeOK
  <2>2. Replay(ck.st, SubSeq(log, ck.st.seq + 1, Len(log))) = Now
    BY <2>1, SavedLeads
  <2> QED
    BY <1>1, <2>1, <2>2 DEF TailOf, Leads
<1>4. eng \in [mode : Mode, ready : BOOLEAN, restored : BOOLEAN, latched : BOOLEAN,
               st : EngineState, pending : Seq(Candidate)]
  BY DEF EngineInv, EngineTypeOK
<1>5. /\ eng' \in [mode : Mode, ready : BOOLEAN, restored : BOOLEAN, latched : BOOLEAN,
                   st : EngineState, pending : Seq(Candidate)]
      /\ eng'.st = Now /\ eng'.pending = <<>>
  BY <1>2, <1>3, <1>4
<1>6. Len(<<>>) = 0
  OBVIOUS
<1>7. Engaged(eng', Now)
  BY <1>5, <1>6 DEF Engaged
<1> QED
  BY <1>2, <1>7, EngineAlone
LEMMA EngineNextKeeps ==
  ASSUME CycleAssumption, EngineAssumption, EngineInv, [EngineNext]_engineVars
  PROVE  EngineInv'
<1>1. CASE UNCHANGED engineVars
  <2>1. UNCHANGED <<eng, log, ver, water, cks, raw, deaths>>
    BY <1>1 DEF engineVars, store
  <2>2. UNCHANGED <<store, raw, deaths>> /\ eng' = eng
    BY <2>1 DEF store
  <2>3. Engaged(eng', Now)
    BY <2>2, EngineIsEngaged
  <2> QED
    BY <2>2, <2>3, EngineAlone
<1>2. CASE AppendFrame \/ SyncJournal
  BY <1>2, JournalStepsKeep
<1>3. CASE ProcessTrade \/ ProcessDisarm \/ ProcessTimer
  BY <1>3, InputsKeep
<1>4. CASE Discard \/ CommitFails \/ RestoreFails \/ ResumeOffline
           \/ \E mode \in {"DEMO", "RECOVERY"} : Open(mode)
  BY <1>4, EngineStepsKeep
<1>5. CASE Commit \/ DieInCommit
  BY <1>5, CommitKeeps
<1>6. CASE Die
  BY <1>6, DieKeeps
<1>7. CASE Checkpoint
  BY <1>7, CheckpointKeeps
<1>8. CASE \E ck \in cks : Restore(ck)
  BY <1>8, RestoreKeeps
<1> QED
  BY <1>1, <1>2, <1>3, <1>4, <1>5, <1>6, <1>7, <1>8 DEF EngineNext

\* The inductive invariant holds.
LEMMA EngineInvariant == EngineSpec => []EngineInv
<1>1. EngineInit => EngineInv
  BY CycleAssumption, EngineStarts
<1>2. EngineInv /\ [EngineNext]_engineVars => EngineInv'
  BY CycleAssumption, EngineAssumption, EngineNextKeeps
<1> QED
  BY <1>1, <1>2, PTL DEF EngineSpec

\* What the invariant says of the history.
LEMMA WholeByInvariant ==
  ASSUME EngineInv
  PROVE  HistoryWhole
<1>1. /\ EngineTypeOK /\ log \in Seq(EventRecord) /\ Leads(log, ver, Now) /\ Now.ver = ver
      /\ \A ck \in cks : Saved(log, ck.st) /\ ck.water <= raw.synced /\ ck.water \in Nat /\ raw.synced \in Nat
  BY DEF EngineInv, EngineTypeOK, Leads
<1>2. CheckpointIsPrefix
  <2>1. ASSUME NEW ck \in cks
        PROVE  ck.st.seq <= Len(log) /\ ck.st = Replay(Initial, SubSeq(log, 1, ck.st.seq))
    BY <1>1 DEF Saved, Cut
  <2> QED
    BY <2>1 DEF CheckpointIsPrefix
<1>3. NeverUnrecoverable
  <2>1. ASSUME NEW ck \in cks
        PROVE  /\ Accepted(ck.st, TailOf(ck)) /\ Replay(ck.st, TailOf(ck)).ver = ver
               /\ raw.synced >= ck.water
    <3>1. /\ Accepted(ck.st, SubSeq(log, ck.st.seq + 1, Len(log)))
          /\ Replay(ck.st, SubSeq(log, ck.st.seq + 1, Len(log))) = Now
      BY <1>1, SavedLeads
    <3>2. raw.synced >= ck.water
      BY <1>1
    <3> QED
      BY <1>1, <3>1, <3>2 DEF TailOf
  <2> QED
    BY <2>1 DEF NeverUnrecoverable
<1>4. ReferencesDurable
  BY DEF EngineInv, ReferencesDurable
<1>5. FiredOnce
  BY <1>1 DEF Leads, Timed, FiredOnce
<1>6. ReducedOnce
  <2>1. SUFFICES ASSUME Usable, NEW stage \in Reducers, NEW seq \in 1 .. eng.st.seq
                 PROVE  Cardinality({k \in DOMAIN eng.st.trace : eng.st.trace[k] = <<stage, seq>>}) = 1
    BY DEF ReducedOnce
  <2>2. eng.st = Now /\ Counted(Now)
    BY <1>1, <2>1 DEF EngineInv, Usable, Leads
  <2>3. seq \in Nat /\ 1 <= seq /\ seq <= eng.st.seq
    BY <1>1, <2>1 DEF EngineTypeOK, EngineState
  <2>4. TimesReduced(eng.st.trace, stage, seq) = 1
    BY <2>2, <2>3 DEF Counted
  <2> QED
    BY <2>4 DEF TimesReduced
<1> QED
  BY <1>1, <1>2, <1>3, <1>4, <1>5, <1>6 DEF HistoryWhole

\* Whatever the producers decide and wherever the process dies, commits fail
\* and recoveries are refused, the history stays whole: every checkpoint is the
\* state after a prefix of the log and recovery from it ends where the log
\* leads, what the log refers to is durable, no timer fires twice and no
\* reducer misses or repeats a fact (Engine.commit, checkpoint, restore).
THEOREM EngineAlwaysWhole == EngineSpec => []HistoryWhole
<1>1. EngineInv => HistoryWhole
  BY WholeByInvariant
<1> QED
  BY <1>1, EngineInvariant, PTL
-----------------------------------------------------------------------------
(* The engine and its store implement the atomic log.                      *)

published == IF Usable THEN <<eng.st>> ELSE <<>>

\* What is published is where the log leads.
LEMMA PublishedShows ==
  ASSUME EngineInv
  PROVE  Atomic!Shows(published, log)
<1>1. CASE Usable
  <2>1. eng.st = Replay(Initial, log)
    BY <1>1 DEF Usable, EngineInv, Now
  <2> QED
    BY <1>1, <2>1 DEF published, Atomic!Shows
<1>2. CASE ~Usable
  BY <1>2 DEF published, Atomic!Shows
<1> QED
  BY <1>1, <1>2

\* The two parts of a joined log.
LEMMA HalvesOfConcat ==
  ASSUME NEW l \in Seq(EventRecord), NEW h \in Seq(EventRecord), h # <<>>
  PROVE  /\ SubSeq(l \o h, 1, Len(l)) = l
         /\ SubSeq(l \o h, Len(l) + 1, Len(l) + Len(h)) = h
<1>1. PICK m \in Nat, n \in Nat : m = Len(l) /\ n = Len(h) /\ n >= 1
  OBVIOUS
<1>2. SubSeq(l \o h, 1, m) = l
  <2>1. m \in 0 .. Len(l)
    BY <1>1
  <2>2. SubSeq(l \o h, 1, m) = SubSeq(l, 1, m)
    BY <2>1, PrefixesApart
  <2> QED
    BY <1>1, <2>2, SubSeqFull
<1>3. SubSeq(l \o h, m + 1, m + n) = h
  <2>1. m + 1 \in Len(l) + 1 .. Len(l) + Len(h) /\ m + n \in Len(l) + 1 .. Len(l) + Len(h)
    BY <1>1
  <2>2. SubSeq(l \o h, m + 1, m + n) = SubSeq(h, m + 1 - Len(l), m + n - Len(l))
    BY <2>1, SubSeqOfConcat2
  <2>3. m + 1 - Len(l) = 1 /\ m + n - Len(l) = Len(h)
    BY <1>1
  <2> QED
    BY <2>2, <2>3, SubSeqFull
<1> QED
  BY <1>1, <1>2, <1>3

\* A commit, whether the process survives it or not, appends one whole cycle.
LEMMA CommitExtends ==
  ASSUME EngineInv, Commit \/ DieInCommit
  PROVE  Atomic!Extend
<1>1. PICK c : c = eng.pending[1]
  OBVIOUS
<1>2. eng.pending # <<>> /\ log' = log \o c.recs
  BY <1>1 DEF Commit, DieInCommit, AppendEvents
<1>3. Candid(eng.st, c) /\ log \in Seq(EventRecord)
  BY <1>1, <1>2 DEF EngineInv, EngineTypeOK
<1>4. PICK h \in Seq(EventRecord) : h = c.recs /\ Len(h) >= 1 /\ WellFormed(h)
  BY <1>3 DEF Candid, Takes
<1>5. PICK m \in Nat, n \in Nat : m = Len(log) /\ n = Len(h) /\ n >= 1 /\ h # <<>>
  BY <1>3, <1>4
<1>6. PICK r : r = log \o h
  OBVIOUS
<1>7. r \in Seq(EventRecord) /\ Len(r) = m + n
  BY <1>3, <1>5, <1>6
<1>8. SubSeq(r, 1, m) = log /\ SubSeq(r, m + 1, m + n) = h
  BY <1>3, <1>5, <1>6, HalvesOfConcat
<1>9. log' = r /\ Len(log') > Len(log)
  BY <1>2, <1>4, <1>5, <1>7, <1>6
<1>10. /\ SubSeq(log', 1, Len(log)) = log
      /\ SubSeq(log', Len(log) + 1, Len(log')) # <<>> /\ WellFormed(SubSeq(log', Len(log) + 1, Len(log')))
  BY <1>4, <1>5, <1>7, <1>8, <1>9
<1> QED
  BY <1>9, <1>10 DEF Atomic!Extend

\* An input is decided on a copy.
LEMMA StoreStaysInCycle ==
  ASSUME ProcessTrade \/ ProcessDisarm \/ ProcessTimer
  PROVE  UNCHANGED store
<1>1. \A root, plan : Process(root, plan) => UNCHANGED store
  BY DEF Process
<1> QED
  BY <1>1 DEF ProcessTrade, ProcessDisarm, ProcessTimer

\* Every other step leaves the log as it is.
LEMMA EngineStepIsLogStep ==
  ASSUME EngineInv, EngineInv', [EngineNext]_engineVars
  PROVE  Atomic!LogNext
<1>1. Atomic!Extend \/ UNCHANGED log
  <2>1. CASE Commit \/ DieInCommit
    BY <2>1, CommitExtends
  <2>2. CASE UNCHANGED engineVars
    BY <2>2 DEF engineVars, store
  <2>3. CASE ProcessTrade \/ ProcessDisarm \/ ProcessTimer
    BY <2>3, StoreStaysInCycle DEF store
  <2>4. CASE \E mode \in {"DEMO", "RECOVERY"} : Open(mode)
    BY <2>4 DEF Open, store
  <2>5. CASE \E ck \in cks : Restore(ck)
    BY <2>5 DEF Restore, store
  <2>6. CASE AppendFrame \/ SyncJournal \/ Discard \/ CommitFails \/ Die \/ Checkpoint \/ RestoreFails
             \/ ResumeOffline
    BY <2>6 DEF AppendFrame, SyncJournal, Discard, CommitFails, Die, Checkpoint, RestoreFails, ResumeOffline,
                store
  <2> QED
    BY <2>1, <2>2, <2>3, <2>4, <2>5, <2>6 DEF EngineNext
<1>2. Atomic!Shows(published', log')
  <2>1. (EngineInv => Atomic!Shows(published, log))'
    BY PublishedShows, PTL
  <2> QED
    BY <2>1
<1> QED
  BY <1>1, <1>2 DEF Atomic!LogNext, published

\* The durable log with the state the engine shows is the atomic log: it grows
\* by whole cycles only, and the engine shows the replay of the whole log or
\* nothing (Engine.commit, restore; EventStore.commit).
THEOREM EngineIsAtomic == EngineSpec => ImplementsLog
<1>1. EngineInit => Atomic!LogInit
  BY DEF EngineInit, Down, Usable, Atomic!LogInit, Atomic!Shows
<1>2. EngineInv /\ EngineInv' /\ [EngineNext]_engineVars =>
        [Atomic!LogNext]_<<log, IF Usable THEN <<eng.st>> ELSE <<>>>>
  BY EngineStepIsLogStep
<1> QED
  BY <1>1, <1>2, EngineInvariant, PTL DEF EngineSpec, ImplementsLog, Atomic!LogSpec
=============================================================================

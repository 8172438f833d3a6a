----------------------------- MODULE RawJournal -----------------------------
(***************************************************************************)
(* persistence/raw_journal.py: the files of the raw journal.  Appends,     *)
(* sync and seal are split where another file operation begins; the        *)
(* process may die, or a file operation fail, between any two of them.     *)
(*                                                                         *)
(* A frame is its ordinal and a body; every frame is one unit long.  A     *)
(* hash of a file is its content.  Writes not yet fsynced may be lost from *)
(* the end, the last of them torn; an unlink not yet followed by a sync of *)
(* the directory may be undone.  atomic_write is atomic and durable.       *)
(***************************************************************************)
EXTENDS Integers, Sequences, FiniteSets, SequencesExt

CONSTANTS MaxFrames,    \* bound on bodies ever written
          MaxCrashes,
          ChunkTarget   \* chunk_target_bytes, in frames

ASSUME JournalAssumption == MaxFrames \in Nat /\ MaxCrashes \in Nat /\ ChunkTarget \in Nat \ {0}

VARIABLES disk,     \* what a reopening finds
          synced,   \* frames of the active file that are on the disk for sure
          mem,      \* the writer
          pc,       \* the file operation the writer is at
          acked,    \* references covered by a watermark the caller was given, with their bodies
          bodies,   \* bodies used
          crashes

journalVars == <<disk, synced, mem, pc, acked, bodies, crashes>>

Frame == [ord : Nat, body : Nat]
NoMark == [chunk |-> 0, end |-> 0, ord |-> 0]
Ref(chunk, pos, ord) == [chunk |-> chunk, pos |-> pos, ord |-> ord]
Manifest == [data : Seq(Frame), first : Nat, last : Nat]

\* disk.zst and disk.manifests are indexed from 1; the active chunk of
\* disk.active.chunk follows them.  Chunks count from 0 elsewhere.
JournalInit ==
  /\ disk = [identity |-> FALSE, mark |-> <<>>, zst |-> <<>>, manifests |-> <<>>,
             active |-> [chunk |-> 0, data |-> <<>>, torn |-> FALSE]]
  /\ synced = 0
  /\ mem = [state |-> "DOWN", count |-> 0, manifests |-> <<>>, mark |-> NoMark]
  /\ pc = "idle"
  /\ acked = {} /\ bodies = 0 /\ crashes = 0

State == {"DOWN", "OPEN", "FAILED"}
FileSteps == {"idle", "identity", "sync", "mark", "seal", "sealed mark", "zst", "manifest", "unlink",
          "directory"}

JournalTypeOK ==
  /\ disk.identity \in BOOLEAN /\ Len(disk.mark) <= 1
  /\ disk.zst \in Seq(Seq(Frame)) /\ disk.manifests \in Seq(Manifest)
  /\ disk.active \in [chunk : Nat, data : Seq(Frame), torn : BOOLEAN]
  /\ synced \in 0 .. Len(disk.active.data)
  /\ mem.state \in State /\ mem.count \in Nat
  /\ mem.state = "OPEN" => mem.manifests = disk.manifests
  /\ pc \in FileSteps
----------------------------------------------------------------------------
(* Reading.                                                                *)

\* The chunk a reader takes for the active one.
ActiveIndex(d) == Len(d.manifests)

\* A published chunk's leftover source is not the active file.
ActiveData(d) == IF d.active.chunk = ActiveIndex(d) THEN d.active.data ELSE <<>>

ChunkFrames(d, chunk) ==
  IF chunk = ActiveIndex(d) THEN ActiveData(d)
  ELSE IF chunk \in 0 .. Len(d.manifests) - 1 THEN d.zst[chunk + 1] ELSE <<>>

Covers(mark, ref) ==
  /\ ref.ord <= mark.ord
  /\ \/ ref.chunk < mark.chunk
     \/ ref.chunk = mark.chunk /\ ref.pos + 1 <= mark.end

References(d) ==
  UNION {{[ref |-> Ref(chunk, pos - 1, ChunkFrames(d, chunk)[pos].ord),
           body |-> ChunkFrames(d, chunk)[pos].body] :
            pos \in DOMAIN ChunkFrames(d, chunk)} : chunk \in 0 .. ActiveIndex(d)}
----------------------------------------------------------------------------
(* Opening.                                                                *)

\* _scan: the ordinals continue.
Scans(data, first) == \A k \in DOMAIN data : data[k].ord = first + k - 1

First(ms, k) == IF k = 1 THEN 1 ELSE ms[k - 1].last + 1

ChainHolds(d) ==
  \A k \in DOMAIN d.manifests :
    LET m == d.manifests[k] IN
    /\ k \in DOMAIN d.zst /\ d.zst[k] = m.data /\ m.data # <<>>
    /\ m.first = First(d.manifests, k) /\ Scans(m.data, m.first)
    /\ m.last = m.first + Len(m.data) - 1

\* The active source of the last published chunk may still be there and must
\* agree with it.
LeftoverAgrees(d) ==
  \/ d.active.chunk = ActiveIndex(d)
  \/ /\ d.active.chunk \in 0 .. ActiveIndex(d) - 1
     /\ d.active.data = d.zst[d.active.chunk + 1] /\ ~d.active.torn

LastOrdinal(d) == IF d.manifests = <<>> THEN 0 ELSE Last(d.manifests).last

LastDurable(d, mark, chunk) ==
  {r \in References(d) : r.ref.chunk = chunk /\ r.ref.ord = mark.ord}

\* The frame of the watermark: in its chunk, or in the one before when an
\* empty new chunk was synced.
DurableFrame(d, mark) ==
  IF LastDurable(d, mark, mark.chunk) # {} \/ mark.end # 0 \/ mark.chunk = 0
    THEN LastDurable(d, mark, mark.chunk)
    ELSE LastDurable(d, mark, mark.chunk - 1)

MarkHolds(d, mark) ==
  mark.ord > 0 =>
    /\ DurableFrame(d, mark) # {}
    /\ \A r \in DurableFrame(d, mark) : Covers(mark, r.ref)
    /\ mark.chunk <= ActiveIndex(d)
    /\ mark.chunk = ActiveIndex(d) => mark.end <= Len(ActiveData(d))

\* _initialize finds nothing to refuse.
Opens(d) ==
  /\ d.mark # <<>>
  /\ ChainHolds(d) /\ LeftoverAgrees(d)
  /\ Scans(ActiveData(d), LastOrdinal(d) + 1)
  /\ MarkHolds(d, d.mark[1])

CreateIdentity ==
  /\ mem.state = "DOWN" /\ ~disk.identity /\ pc = "idle"
  /\ disk' = [disk EXCEPT !.identity = TRUE] /\ pc' = "identity"
  /\ UNCHANGED <<synced, mem, acked, bodies, crashes>>

CreateMark ==
  /\ pc = "identity"
  /\ disk' = [disk EXCEPT !.mark = <<NoMark>>] /\ pc' = "idle"
  /\ UNCHANGED <<synced, mem, acked, bodies, crashes>>

\* The leftover is unlinked, and the torn tail truncated and fsynced.
Repaired(d) == [d EXCEPT !.active = [chunk |-> ActiveIndex(d), data |-> ActiveData(d),
                                     torn |-> FALSE]]

Initialize ==
  /\ mem.state = "DOWN" /\ disk.identity /\ pc = "idle" /\ Opens(disk)
  /\ mem' = [state |-> "OPEN", count |-> LastOrdinal(disk) + Len(ActiveData(disk)),
             manifests |-> disk.manifests, mark |-> disk.mark[1]]
  /\ disk' = Repaired(disk)
  /\ synced' = IF disk.active.torn /\ disk.active.chunk = ActiveIndex(disk)
                 THEN Len(ActiveData(disk))
               ELSE IF disk.active.chunk = ActiveIndex(disk) THEN synced ELSE 0
  /\ UNCHANGED <<pc, acked, bodies, crashes>>
----------------------------------------------------------------------------
(* Writing.                                                                *)

Idle == mem.state = "OPEN" /\ pc = "idle"

\* Whether the chunk is full, or too old (the clock is not modelled).
Append1 ==
  \E private, old \in BOOLEAN :
    /\ Idle /\ bodies < MaxFrames
    /\ bodies' = bodies + 1 /\ mem' = [mem EXCEPT !.count = @ + 1]
    /\ disk' = [disk EXCEPT !.active.data =
                  Append(@, [ord |-> mem.count + 1, body |-> bodies + 1])]
    /\ pc' = IF Len(disk.active.data) + 1 >= ChunkTarget \/ old THEN "seal"
             ELSE IF private THEN "sync" ELSE "idle"
    /\ UNCHANGED <<synced, acked, crashes>>

\* The write is short or raises: part of the frame may be in the file.
AppendFails ==
  /\ Idle /\ bodies < MaxFrames
  /\ \E torn \in BOOLEAN : disk' = [disk EXCEPT !.active.torn = torn]
  /\ mem' = [mem EXCEPT !.state = "FAILED"]
  /\ UNCHANGED <<synced, pc, acked, bodies, crashes>>

Sync ==
  /\ Idle /\ pc' = "sync"
  /\ UNCHANGED <<disk, synced, mem, acked, bodies, crashes>>

Seal ==
  /\ Idle /\ pc' = "seal"
  /\ UNCHANGED <<disk, synced, mem, acked, bodies, crashes>>

\* (faulty) the watermark is written without an fsync before it.
FsyncSkipped ==
  /\ pc \in {"sync", "seal"} /\ mem.state = "OPEN"
  /\ pc' = IF pc = "sync" THEN "mark" ELSE "sealed mark"
  /\ UNCHANGED <<disk, synced, mem, acked, bodies, crashes>>

Fsync ==
  /\ pc \in {"sync", "seal"} /\ mem.state = "OPEN"
  /\ synced' = Len(disk.active.data)
  /\ pc' = IF pc = "sync" THEN "mark" ELSE "sealed mark"
  /\ UNCHANGED <<disk, mem, acked, bodies, crashes>>

NewMark == [chunk |-> Len(mem.manifests), end |-> Len(disk.active.data), ord |-> mem.count]

\* sync returns; seal goes on unless the chunk is empty.
PublishMark ==
  /\ pc \in {"mark", "sealed mark"} /\ mem.state = "OPEN"
  /\ disk' = [disk EXCEPT !.mark = <<NewMark>>]
  /\ mem' = [mem EXCEPT !.mark = NewMark]
  /\ acked' = acked \cup {r \in References(disk) : Covers(NewMark, r.ref)}
  /\ pc' = IF pc = "mark" \/ NewMark.end = 0 THEN "idle" ELSE "zst"
  /\ UNCHANGED <<synced, bodies, crashes>>

WriteChunk ==
  /\ pc = "zst" /\ mem.state = "OPEN"
  /\ disk' = [disk EXCEPT !.zst = Append(SubSeq(@, 1, Len(mem.manifests)), disk.active.data)]
  /\ pc' = "manifest"
  /\ UNCHANGED <<synced, mem, acked, bodies, crashes>>

NewManifest ==
  LET first == IF mem.manifests = <<>> THEN 1 ELSE Last(mem.manifests).last + 1
  IN  [data |-> disk.active.data, first |-> first, last |-> mem.count]

PublishChunk ==
  /\ pc = "manifest" /\ mem.state = "OPEN"
  /\ disk' = [disk EXCEPT !.manifests = Append(@, NewManifest)]
  /\ mem' = [mem EXCEPT !.manifests = Append(@, NewManifest)]
  /\ pc' = "unlink"
  /\ UNCHANGED <<synced, acked, bodies, crashes>>

\* The source is unlinked; until the directory is synced it may come back.
UnlinkSource ==
  /\ pc = "unlink" /\ mem.state = "OPEN"
  /\ disk' = [disk EXCEPT !.active = [chunk |-> Len(disk.manifests), data |-> <<>>,
                                      torn |-> FALSE]]
  /\ synced' = 0 /\ pc' = "directory"
  /\ UNCHANGED <<mem, acked, bodies, crashes>>

SyncDirectory ==
  /\ pc = "directory" /\ mem.state = "OPEN"
  /\ pc' = "idle"
  /\ UNCHANGED <<disk, synced, mem, acked, bodies, crashes>>

\* Any file operation may raise: the writer refuses everything from then on.
Fail ==
  /\ mem.state = "OPEN" /\ pc # "idle"
  /\ mem' = [mem EXCEPT !.state = "FAILED"]
  /\ UNCHANGED <<disk, synced, pc, acked, bodies, crashes>>

\* close acknowledges nothing.
Close ==
  /\ mem.state = "FAILED" \/ Idle
  /\ mem' = [mem EXCEPT !.state = "DOWN"] /\ pc' = "idle"
  /\ UNCHANGED <<disk, synced, acked, bodies, crashes>>

\* Power loss: the tail of the active file that was not fsynced goes, and an
\* unlink that the directory has not recorded.
Crash ==
  /\ crashes < MaxCrashes /\ (mem.state # "DOWN" \/ pc = "identity")
  /\ crashes' = crashes + 1
  /\ mem' = [mem EXCEPT !.state = "DOWN"] /\ pc' = "idle"
  /\ \/ \E kept \in synced .. Len(disk.active.data) : \E torn \in BOOLEAN :
          /\ torn => kept < Len(disk.active.data) \/ disk.active.torn
          /\ disk' = [disk EXCEPT !.active.data = SubSeq(@, 1, kept), !.active.torn = torn]
          /\ UNCHANGED synced
     \/ /\ pc = "directory"
        /\ disk' = [disk EXCEPT !.active = [chunk |-> Len(disk.manifests) - 1,
                                            data |-> Last(disk.zst), torn |-> FALSE]]
        /\ synced' = Len(Last(disk.zst))
  /\ UNCHANGED <<acked, bodies>>

JournalNext ==
  \/ CreateIdentity \/ CreateMark \/ Initialize
  \/ Append1 \/ AppendFails \/ Sync \/ Seal
  \/ Fsync \/ PublishMark \/ WriteChunk \/ PublishChunk \/ UnlinkSource \/ SyncDirectory
  \/ Fail \/ Close \/ Crash

JournalSpec == JournalInit /\ [][JournalNext]_journalVars
----------------------------------------------------------------------------
(* Properties.                                                             *)

Established == disk.mark # <<>>

\* Whatever operation the writer died or failed in, and however often, a
\* journal whose first watermark was written opens again: no crash looks like
\* corruption (RawJournal._initialize; the class comment calls each crash cut
\* safe).
NeverRefused == mem.state = "DOWN" /\ pc = "idle" /\ Established => Opens(disk)

\* A reference the caller was told is durable is readable for ever and names
\* the frame it named then, across seals and crashes (RawJournal.sync, read).
AckedReadable == acked \subseteq References(disk)

\* The ordinal of a watermark and its chunk and offset cut the journal at the
\* same frame, also after a seal has moved the offset to an empty chunk: a
\* watermark never covers a frame by one and not by the other
\* (DurableWatermark.covers, RawJournal.sync).
MarkCutsOnce ==
  Established =>
    \A r \in References(disk) :
      LET mark == disk.mark[1] IN
      r.ref.ord <= mark.ord <=>
        \/ r.ref.chunk < mark.chunk
        \/ r.ref.chunk = mark.chunk /\ r.ref.pos + 1 <= mark.end

\* The readable frames, by their ordinals, and the durable watermark behave as
\* the append-only log EngineStore takes the journal for.
FrameOf(d, n) == CHOOSE r \in {q \in References(d) : q.ref.ord = n} : TRUE
ReadableBodies(d) == [n \in 1 .. LastOrdinal(d) + Len(ActiveData(d)) |-> FrameOf(d, n).body]

View == INSTANCE DurableLog WITH
  frames  <- ReadableBodies(disk),
  durable <- IF Established THEN disk.mark[1].ord ELSE 0

ImplementsDurableLog == View!LogSpec

\* Whatever operation the writer died in, the journal opens again, names the
\* frames it named, cuts them where its watermark says, and behaves as a log
\* whose acknowledged prefix is never lost (RawJournal).
JournalKept ==
  /\ [](JournalTypeOK /\ NeverRefused /\ AckedReadable /\ MarkCutsOnce)
  /\ ImplementsDurableLog

============================================================================

------------------------------ MODULE Datasets ------------------------------
(***************************************************************************)
(* Datasets of the research catalog: bars imported from an upload, trades  *)
(* imported from the raw journal, partitions exported from committed       *)
(* events, and the publication of each as an artifact named by its content *)
(* and a manifest named by its own (data/importer.py, recorder.py,         *)
(* catalog.py).  Publishers are processes that can stop at any step; a     *)
(* power loss takes the directory entries nobody synced.  A content stands *)
(* for its own hash.                                                       *)
(***************************************************************************)
EXTENDS Integers, Sequences, FiniteSets, SequencesExt

CONSTANTS
  Publishers,
  Uploads,     \* sequences of rows [start, bar]; bar is a price or Bad
  Mappings,    \* mappings an upload can be read under: [delay, source]
  Bad,         \* a row that does not parse
  Receipts,    \* receipt times of journal frames
  MaxFrames,   \* bound of frames in the journal
  EventKinds, Hours, MaxEvents, \* bound of committed events
  Damages,     \* bound of damaged files
  MayStop,     \* whether publishers stop on the way
  MaxPromised, \* bound of publications
  NewDirectory,\* TRUE: a directory made by the publisher can be lost with it
  None

VARIABLES
  frames,    \* receipt times in the raw journal
  synced,    \* durable watermark: frames covered
  events,    \* committed canonical events: [kind, hour, private, evidence]
  job,       \* publisher -> [manifest, upload] it publishes, or None
  step,      \* publisher -> step of the publication
  report,    \* publisher -> report of the last validation, or None
  artifacts, \* content -> [whole, durable] of the artifact files there are
  manifests, \* manifest -> [whole, durable]
  promised,  \* jobs whose publication returned (observation)
  damaged    \* files damaged by something else (observation)
vars == <<frames, synced, events, job, step, report, artifacts, manifests, promised, damaged>>
sources == <<frames, synced, events>>
disk == <<artifacts, manifests>>

Steps == {"idle", "link", "sync", "check", "name", "keep"}
TypeOK ==
  /\ synced \in 0 .. Len(frames)
  /\ step \in [Publishers -> Steps]
  /\ \A p \in Publishers : step[p] # "idle" => job[p] # None
  /\ \A j \in promised : j.manifest.rows # <<>>
  /\ \A m \in DOMAIN manifests : manifests[m].whole \in BOOLEAN

Init ==
  /\ frames = <<>> /\ synced = 0 /\ events = <<>>
  /\ job = [p \in Publishers |-> None] /\ step = [p \in Publishers |-> "idle"]
  /\ report = [p \in Publishers |-> None]
  /\ artifacts = <<>> /\ manifests = <<>> /\ promised = {} /\ damaged = {}

-----------------------------------------------------------------------------
(* Importer *)
\* validate reads the rows once: a repeated bar is skipped, a conflicting one,
\* a regression and a row that does not parse are errors.
Row(r, delay) == [at |-> r.start, kind |-> "OHLCV", value |-> r.bar, available |-> r.start + 1 + delay]
Repeats(acc, r) == \E i \in DOMAIN acc.rows : acc.rows[i].at = r.start
Conflicts(acc, r) == \E i \in DOMAIN acc.rows : acc.rows[i].at = r.start /\ acc.rows[i].value # r.bar
Regresses(acc, r) == r.start < acc.last
Read(acc, r, delay) ==
  IF r.bar = Bad THEN [acc EXCEPT !.errors = @ + 1]
  ELSE IF Repeats(acc, r) THEN [acc EXCEPT !.errors = IF Conflicts(acc, r) THEN @ + 1 ELSE @]
  ELSE [rows |-> Append(acc.rows, Row(r, delay)),
        errors |-> IF Regresses(acc, r) THEN acc.errors + 1 ELSE acc.errors,
        last |-> IF r.start > acc.last THEN r.start ELSE acc.last]
Validate(upload, delay) ==
  FoldLeft(LAMBDA acc, r : Read(acc, r, delay), [rows |-> <<>>, errors |-> 0, last |-> -1], upload)
Valid(rep) == rep.rows # <<>> /\ rep.errors = 0

\* The operator sees a report and confirms it, with a mapping sent again.
ValidateUpload(p) ==
  \E u \in Uploads, m \in Mappings :
    /\ step[p] = "idle"
    /\ report' = [report EXCEPT ![p] = [upload |-> u, mapping |-> m, read |-> Validate(u, m.delay)]]
    /\ UNCHANGED <<sources, job, step, disk, promised, damaged>>
SameMapping(rep, m) == rep.mapping = m
Manifest(origin, rows, source) == [origin |-> origin, rows |-> rows, source |-> source]
\* The upload of a job is kept for the properties only.
Take(p, manifest, upload) ==
  /\ step[p] = "idle" /\ Cardinality(promised) < MaxPromised
  /\ job' = [job EXCEPT ![p] = [manifest |-> manifest, upload |-> upload]]
  /\ step' = [step EXCEPT ![p] = "link"]
ConfirmImport(p) ==
  \E m \in Mappings :
    /\ report[p] # None
    /\ Valid(report[p].read) /\ SameMapping(report[p], m)
    /\ Take(p, Manifest("IMPORTED", report[p].read.rows, m), report[p].upload)
    /\ report' = [report EXCEPT ![p] = None]
    /\ UNCHANGED <<sources, disk, promised, damaged>>

\* The raw journal: a frame is appended, then made durable.
AppendFrame ==
  \E t \in Receipts :
    /\ Len(frames) < MaxFrames
    /\ frames' = Append(frames, t)
    /\ UNCHANGED <<synced, events, job, step, report, disk, promised, damaged>>
SyncFrames ==
  /\ synced < Len(frames) /\ synced' = Len(frames)
  /\ UNCHANGED <<frames, events, job, step, report, disk, promised, damaged>>
\* The availability of a trade is its receipt, and never before the trade before.
Available[i \in Nat] ==
  IF i = 0 THEN 0 ELSE LET a == Available[i - 1] IN IF frames[i] > a THEN frames[i] ELSE a
Trade(i) == [at |-> i, kind |-> "TRADES", value |-> frames[i], available |-> Available[i]]
AllDurable == frames # <<>> /\ synced = Len(frames)
ImportJournal(p) ==
  /\ AllDurable
  /\ Take(p, Manifest("JOURNAL", [i \in 1 .. Len(frames) |-> Trade(i)], None), None)
  /\ UNCHANGED <<sources, report, disk, promised, damaged>>

-----------------------------------------------------------------------------
(* Recorder *)
CommitEvent ==
  \E k \in EventKinds, h \in Hours, private, evidence \in BOOLEAN :
    /\ Len(events) < MaxEvents
    /\ events' = Append(events, [kind |-> k, hour |-> h, private |-> private, evidence |-> evidence])
    /\ UNCHANGED <<frames, synced, job, step, report, disk, promised, damaged>>
Committed(first, last) == last <= Len(events)
Exportable(first, last) ==
  LET part == {events[i] : i \in first .. last} IN
  /\ \A e \in part : ~e.private /\ e.evidence
  /\ Cardinality({e.kind : e \in part}) = 1 /\ Cardinality({e.hour : e \in part}) = 1
Exported(first, last) ==
  [i \in 1 .. last - first + 1 |->
     LET e == events[first + i - 1] IN [at |-> first + i - 1, kind |-> e.kind, value |-> e, available |-> first + i - 1]]
Export(p) ==
  \E first \in 1 .. MaxEvents : \E last \in first .. MaxEvents :
    /\ Committed(first, last) /\ Exportable(first, last)
    /\ Take(p, Manifest("RECORDED", Exported(first, last), <<first, last>>), None)
    /\ UNCHANGED <<sources, report, disk, promised, damaged>>

-----------------------------------------------------------------------------
(* publish_bytes and Catalog.publish *)
File(durable) == [whole |-> TRUE, durable |-> durable]
Put(files, name) == [n \in DOMAIN files \union {name} |-> IF n \in DOMAIN files THEN files[n] ELSE File(FALSE)]
Synced(files) == [n \in DOMAIN files |-> [files[n] EXCEPT !.durable = TRUE]]
Collides(files, name) == name \in DOMAIN files /\ ~files[name].whole
Goto(p, s) ==
  /\ step' = [step EXCEPT ![p] = s]
  /\ job' = [job EXCEPT ![p] = IF s = "idle" THEN None ELSE @]

\* The temporary file is linked under its name; one that is there must have
\* the same bytes.
LinkArtifact(p) ==
  /\ step[p] = "link"
  /\ IF Collides(artifacts, job[p].manifest.rows)
     THEN Goto(p, "idle") /\ UNCHANGED artifacts
     ELSE Goto(p, "sync") /\ artifacts' = Put(artifacts, job[p].manifest.rows)
  /\ UNCHANGED <<sources, report, manifests, promised, damaged>>
SyncArtifact(p) ==
  /\ step[p] = "sync" /\ Goto(p, "check")
  /\ artifacts' = Synced(artifacts)
  /\ UNCHANGED <<sources, report, manifests, promised, damaged>>

\* _validate_artifact: the file is read again, its hash and its rows checked.
\* In the order of their source, never available before the row before, and a
\* bar never before it closed.
RowsFit(rows) ==
  /\ \A i \in 1 .. Len(rows) - 1 :
       /\ rows[i].available <= rows[i+1].available
       /\ rows[i].kind = "OHLCV" \/ rows[i].at < rows[i+1].at
  /\ \A i \in DOMAIN rows : rows[i].kind = "OHLCV" => rows[i].available > rows[i].at
Whole(rows) == rows \in DOMAIN artifacts /\ artifacts[rows].whole
CheckArtifact(p) ==
  /\ step[p] = "check"
  /\ Goto(p, IF Whole(job[p].manifest.rows) /\ RowsFit(job[p].manifest.rows) THEN "name" ELSE "idle")
  /\ UNCHANGED <<sources, report, disk, promised, damaged>>
LinkManifest(p) ==
  /\ step[p] = "name"
  /\ IF Collides(manifests, job[p].manifest)
     THEN Goto(p, "idle") /\ UNCHANGED manifests
     ELSE Goto(p, "keep") /\ manifests' = Put(manifests, job[p].manifest)
  /\ UNCHANGED <<sources, report, artifacts, promised, damaged>>
SyncManifest(p) ==
  /\ step[p] = "keep" /\ Goto(p, "idle")
  /\ manifests' = Synced(manifests)
  /\ promised' = promised \union {job[p]}
  /\ UNCHANGED <<sources, report, artifacts, damaged>>

\* get: a manifest whose name and artifact still fit.
Readable(m) == m \in DOMAIN manifests /\ manifests[m].whole /\ Whole(m.rows) /\ RowsFit(m.rows)

-----------------------------------------------------------------------------
(* Environment *)
Stopped == job' = [p \in Publishers |-> None] /\ step' = [p \in Publishers |-> "idle"] /\ report' = [p \in Publishers |-> None]
Crash == MayStop /\ (\E p \in Publishers : step[p] # "idle") /\ Stopped /\ UNCHANGED <<sources, disk, promised, damaged>>
Kept(files) == {n \in DOMAIN files : files[n].durable}
Only(files, names) == [n \in names |-> [files[n] EXCEPT !.durable = TRUE]]
PowerLoss ==
  /\ MayStop /\ Stopped
  /\ \E lost \in SUBSET (DOMAIN artifacts \ Kept(artifacts)) : artifacts' = Only(artifacts, DOMAIN artifacts \ lost)
  /\ \E lost \in SUBSET (DOMAIN manifests \ Kept(manifests)) : manifests' = Only(manifests, DOMAIN manifests \ lost)
  /\ frames' = SubSeq(frames, 1, synced)
  /\ UNCHANGED <<synced, events, promised, damaged>>
\* publish_bytes makes the directories above a file and syncs only the last.
DirectoryLoss ==
  /\ NewDirectory /\ artifacts # <<>> /\ Stopped /\ artifacts' = <<>>
  /\ frames' = SubSeq(frames, 1, synced)
  /\ manifests' = Only(manifests, Kept(manifests))
  /\ UNCHANGED <<synced, events, promised, damaged>>
Damage ==
  \E n \in DOMAIN artifacts :
    /\ Cardinality(damaged) < Damages
    /\ artifacts' = [artifacts EXCEPT ![n].whole = FALSE]
    /\ damaged' = damaged \union {n}
    /\ UNCHANGED <<sources, job, step, report, manifests, promised>>

Next ==
  \/ AppendFrame \/ SyncFrames \/ CommitEvent \/ Crash \/ PowerLoss \/ DirectoryLoss \/ Damage
  \/ \E p \in Publishers :
       \/ ValidateUpload(p) \/ ConfirmImport(p) \/ ImportJournal(p) \/ Export(p)
       \/ LinkArtifact(p) \/ SyncArtifact(p) \/ CheckArtifact(p) \/ LinkManifest(p) \/ SyncManifest(p)
Spec == Init /\ [][Next]_vars

-----------------------------------------------------------------------------
(* Properties *)
\* A dataset whose publication returned can be read from then on, through
\* stops and power losses, unless its file was damaged.
PromisedSurvives == \A j \in promised : Readable(j.manifest) \/ j.manifest.rows \in damaged

\* A manifest in the catalog never names an artifact that is not there.
NeverDangling == \A m \in DOMAIN manifests : m.rows \in DOMAIN artifacts

\* Imported bars are the bars of the upload, each once and in order, under the
\* mapping the operator saw.
OfOrigin(origin) == {j \in promised : j.manifest.origin = origin}
BarsAreTheUpload ==
  \A j \in OfOrigin("IMPORTED") : LET u == j.upload
                                     m == j.manifest IN
    /\ \A i \in DOMAIN u : u[i].bar # Bad
    /\ \A i \in 1 .. Len(m.rows) - 1 : m.rows[i].at < m.rows[i+1].at
    /\ {<<m.rows[i].at, m.rows[i].value>> : i \in DOMAIN m.rows} = {<<u[i].start, u[i].bar>> : i \in DOMAIN u}
    /\ \A i \in DOMAIN m.rows : m.rows[i].available = m.rows[i].at + 1 + m.source.delay

\* Trades imported from the journal are frames that survive a power loss.
FromDurableFrames ==
  \A j \in OfOrigin("JOURNAL") : LET m == j.manifest IN
    /\ Len(m.rows) <= synced
    /\ \A i \in DOMAIN m.rows : m.rows[i].value = frames[i] /\ m.rows[i].available >= frames[i]

\* A partition is an unbroken range of committed public events of one kind and
\* hour, each with its raw evidence.
PartitionWhole ==
  \A d \in OfOrigin("RECORDED") : LET m == d.manifest IN
    /\ \A i \in DOMAIN m.rows : m.rows[i].value = events[m.source[1] + i - 1] /\ m.rows[i].value.evidence /\ ~m.rows[i].value.private
    /\ Len(m.rows) = m.source[2] - m.source[1] + 1
    /\ \A i, j \in DOMAIN m.rows : m.rows[i].kind = m.rows[j].kind /\ m.rows[i].value.hour = m.rows[j].value.hour
=============================================================================

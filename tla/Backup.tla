-------------------------------- MODULE Backup --------------------------------
(***************************************************************************)
(* persistence/backup.py: bundles of one account's database and raw        *)
(* journal, their restoration into a new directory, and the cleanup of old *)
(* files.  A creation runs on the account's writer, so the account stands  *)
(* still meanwhile; a restoration and a cleanup are other processes.  Each *)
(* step is one file operation, with a crash possible between any two.      *)
(*                                                                         *)
(* The hash of a file is its content.  An event is the ordinal of the      *)
(* frame it names (0 for none) and whether it is private; a frame is       *)
(* whether it is private.  Every seal makes one chunk.                     *)
(***************************************************************************)
EXTENDS Integers, Sequences, FiniteSets, SequencesExt

CONSTANTS Names,      \* bundle names
          Dests,      \* directories to restore into
          Keys,       \* keys of ciphers
          MaxEvents, MaxFrames,
          Privacies,  \* whether events and frames may be private
          MaxFaults,  \* crashes, power losses and damaged files
          Lossy,      \* TRUE: cleanups are run
  Modes,      \* modes restored directories are started in
          None

VARIABLES account,    \* the database and the journal
          making,     \* the creation under way
          bundles,    \* published bundles
          synced,     \* names whose directory entry is on the disk
          promised,   \* names create_backup has returned
          touched,    \* names whose files were damaged
          written,    \* bundles as they were published
          restoring,  \* the restoration under way
          restored,   \* directories restored
          booted,     \* the mode a restored directory was started in
          faults

vars == <<account, making, bundles, synced, promised, touched, written, restoring, restored,
          booted, faults>>
stores == <<bundles, synced, promised, touched, written>>

Event == [ref : 0 .. MaxFrames, private : Privacies]
Idle == [step |-> "idle"]

Init ==
  /\ account = [events |-> <<>>, frames |-> <<>>, durable |-> 0, mark |-> 0, chunks |-> <<>>,
                lost |-> {}, checkpoint |-> 0, residue |-> FALSE]
  /\ making = Idle /\ restoring = Idle
  /\ bundles = [n \in Names |-> None] /\ restored = [d \in Dests |-> None]
  /\ synced = {} /\ promised = {} /\ touched = {} /\ written = {}
  /\ booted = [d \in Dests |-> None] /\ faults = 0
----------------------------------------------------------------------------
(* The account's writer.                                                   *)

Capture(private) ==
  /\ making = Idle /\ Len(account.frames) < MaxFrames
  /\ account' = [account EXCEPT !.frames = Append(@, private)]
  /\ UNCHANGED <<making, restoring, restored, booted, faults, stores>>

SyncJournal(a) == [a EXCEPT !.durable = Len(a.frames)]

\* An event names a durable frame, and its commit records the watermark.
Commit(event) ==
  /\ making = Idle /\ Len(account.events) < MaxEvents
  /\ event.ref <= Len(account.frames)
  /\ event.ref > 0 => (account.frames[event.ref] => event.private)
  /\ account' = [SyncJournal(account) EXCEPT !.events = Append(@, event),
                                             !.mark = Len(account.frames)]
  /\ UNCHANGED <<making, restoring, restored, booted, faults, stores>>

SaveCheckpoint ==
  /\ making = Idle /\ account.checkpoint # Len(account.events)
  /\ account' = [account EXCEPT !.checkpoint = Len(account.events)]
  /\ UNCHANGED <<making, restoring, restored, booted, faults, stores>>

\* A private row is written to a projection and deleted again: its bytes stay
\* in the free pages of the file.
LeaveResidue ==
  /\ making = Idle /\ TRUE \in Privacies /\ ~account.residue
  /\ account' = [account EXCEPT !.residue = TRUE]
  /\ UNCHANGED <<making, restoring, restored, booted, faults, stores>>
----------------------------------------------------------------------------
(* Validation of a directory with the files of a bundle.                   *)

PrivateEvents(events) == \E k \in DOMAIN events : events[k].private
PrivateFrames(frames) == \E k \in DOMAIN frames : frames[k]

\* Only accountless public facts may be written in the clear; a checkpoint is
\* opaque.
RequiresEncryption(db) == PrivateEvents(db.events) \/ db.checkpoint > 0

HashesHold(dir) ==
  /\ dir.manifest.db = dir.db
  /\ dir.manifest.raw = dir.raw

\* The watermarks of database, journal and manifest agree, and every
\* reference of the database is a frame of the journal.
MarksHold(dir) ==
  /\ Len(dir.db.events) = dir.manifest.seq
  /\ dir.db.mark <= dir.manifest.mark
  /\ \A k \in DOMAIN dir.db.events : dir.db.events[k].ref <= dir.manifest.mark
  /\ dir.db.checkpoint = dir.manifest.checkpoint /\ dir.db.checkpoint <= dir.manifest.seq
  /\ dir.raw.durable = dir.manifest.mark
  /\ \A k \in DOMAIN dir.db.events : dir.db.events[k].ref <= Len(dir.raw.frames)

Validates(dir, key) ==
  /\ dir.manifest # None /\ dir.db # None /\ dir.raw # None
  /\ HashesHold(dir)
  /\ dir.manifest.key # None => key = dir.manifest.key
  /\ dir.manifest.key = None => ~RequiresEncryption(dir.db) /\ ~PrivateFrames(dir.raw.frames)
  /\ MarksHold(dir)
----------------------------------------------------------------------------
(* Creation.                                                               *)

\* What create_backup refuses before it writes anything.
Confidential ==
  PrivateFrames(account.frames) \/ RequiresEncryption(account)

\* journal.seal: everything captured is durable in published chunks.
Seal(a) ==
  LET start == IF a.chunks = <<>> THEN 0 ELSE Last(a.chunks) IN
  [SyncJournal(a) EXCEPT !.chunks = IF Len(a.frames) > start THEN Append(@, Len(a.frames)) ELSE @]

BeginCreate(n, key) ==
  /\ making = Idle
  /\ key = None => ~Confidential
  /\ bundles[n] = None
  /\ account' = Seal(account)
  /\ making' = [step |-> "image", name |-> n, key |-> key, db |-> None, raw |-> None,
                manifest |-> None]
  /\ UNCHANGED <<restoring, restored, booted, faults, stores>>

\* The image is rebuilt, so deleted rows are not in it.
Image(a) == [events |-> a.events, mark |-> a.mark, checkpoint |-> a.checkpoint,
             residue |-> FALSE]

WriteImage ==
  /\ making.step = "image"
  /\ making' = [making EXCEPT !.step = "raw", !.db = Image(account)]
  /\ UNCHANGED <<account, restoring, restored, booted, faults, stores>>

\* A file a cleanup has taken away fails the copy.
CopyRaw ==
  /\ making.step = "raw" /\ account.lost = {}
  /\ making' = [making EXCEPT !.step = "manifest",
                              !.raw = [frames |-> account.frames, durable |-> account.durable]]
  /\ UNCHANGED <<account, restoring, restored, booted, faults, stores>>

WriteManifest ==
  /\ making.step = "manifest"
  /\ making' = [making EXCEPT !.step = "publish",
       !.manifest = [seq |-> Len(account.events), mark |-> account.durable,
                     checkpoint |-> account.checkpoint, key |-> making.key,
                     db |-> making.db, raw |-> making.raw]]
  /\ UNCHANGED <<account, restoring, restored, booted, faults, stores>>

Files(dir) == [db |-> dir.db, raw |-> dir.raw, manifest |-> dir.manifest]

\* The rename never replaces a bundle.
Publish ==
  /\ making.step = "publish" /\ bundles[making.name] = None
  /\ Validates(Files(making), making.key)
  /\ bundles' = [bundles EXCEPT ![making.name] = Files(making)]
  /\ written' = written \union {Files(making)}
  /\ making' = [making EXCEPT !.step = "sync"]
  /\ UNCHANGED <<account, synced, promised, touched, restoring, restored, booted, faults>>

Returned == promised' = promised \union {making.name} /\ making' = Idle

\* (faulty) the directory is left to the system.
ReturnUnsynced ==
  /\ making.step = "sync"
  /\ Returned
  /\ UNCHANGED <<account, bundles, synced, touched, written, restoring, restored, booted, faults>>

SyncDirectory ==
  /\ making.step = "sync"
  /\ synced' = synced \union {making.name}
  /\ Returned
  /\ UNCHANGED <<account, bundles, touched, written, restoring, restored, booted, faults>>

\* Any failure removes what was written so far.
CreateFails ==
  /\ making.step \in {"raw", "publish"}
  /\ \/ making.step = "raw" /\ account.lost # {}
     \/ making.step = "publish"
        /\ (bundles[making.name] # None \/ ~Validates(Files(making), making.key))
  /\ making' = Idle
  /\ UNCHANGED <<account, restoring, restored, booted, faults, stores>>
----------------------------------------------------------------------------
(* Restoration.                                                            *)

Empty == [db |-> None, raw |-> None, manifest |-> None]

BeginRestore(n, d, key) ==
  /\ restoring = Idle /\ restored[d] = None /\ bundles[n] # None
  /\ Validates(bundles[n], key)
  /\ restoring' = [step |-> "copy", name |-> n, dest |-> d, key |-> key,
                   checked |-> bundles[n].manifest, dir |-> Empty]
  /\ UNCHANGED <<account, making, restored, booted, faults, stores>>

\* One file after another, under the manifest that was read first.
CopyDatabase ==
  /\ restoring.step = "copy" /\ bundles[restoring.name] # None
  /\ restoring' = [restoring EXCEPT !.step = "copy raw", !.dir.db = bundles[restoring.name].db]
  /\ UNCHANGED <<account, making, restored, booted, faults, stores>>

CopyJournal ==
  /\ restoring.step = "copy raw" /\ bundles[restoring.name] # None
  /\ restoring' = [restoring EXCEPT !.step = "check", !.dir.raw = bundles[restoring.name].raw,
                                    !.dir.manifest = restoring.checked]
  /\ UNCHANGED <<account, making, restored, booted, faults, stores>>

CheckCopy ==
  /\ restoring.step = "check" /\ Validates(restoring.dir, restoring.key)
  /\ restoring' = [restoring EXCEPT !.step = "rename"]
  /\ UNCHANGED <<account, making, restored, booted, faults, stores>>

\* The opened database and restore.json are written, and the directory gets
\* its name.
FinishRestore ==
  /\ restoring.step = "rename" /\ restored[restoring.dest] = None
  /\ restored' = [restored EXCEPT ![restoring.dest] =
                    [dir |-> restoring.dir, mode |-> "RECOVERY", live_enabled |-> FALSE]]
  /\ restoring' = Idle
  /\ UNCHANGED <<account, making, booted, faults, stores>>

RestoreFails ==
  /\ \/ restoring.step \in {"copy", "copy raw"} /\ bundles[restoring.name] = None
     \/ restoring.step = "check" /\ ~Validates(restoring.dir, restoring.key)
     \/ restoring.step = "rename" /\ restored[restoring.dest] # None
  /\ restoring' = Idle
  /\ UNCHANGED <<account, making, restored, booted, faults, stores>>

\* An engine is started on a restored directory in the mode of its
\* configuration; nothing reads restore.json.
Boot(d, mode) ==
  /\ restored[d] # None /\ booted[d] = None
  /\ booted' = [booted EXCEPT ![d] = mode]
  /\ UNCHANGED <<account, making, restoring, restored, faults, stores>>
----------------------------------------------------------------------------
(* Cleanup and faults.                                                     *)

Segments(a) == DOMAIN a.chunks

\* Files of the directory raw whose age has passed, unless their name holds a
\* pinned identifier: nothing asks whether the database names them.
ApplyRetention(pinned) ==
  /\ Lossy
  /\ \E old \in Segments(account) :
       account' = [account EXCEPT !.lost = @ \union (1 .. old \ pinned)]
  /\ UNCHANGED <<making, restoring, restored, booted, faults, stores>>

Fault == faults < MaxFaults /\ faults' = faults + 1

CrashCreate ==
  /\ Fault /\ making # Idle /\ making' = Idle
  /\ UNCHANGED <<account, restoring, restored, booted, stores>>

CrashRestore ==
  /\ Fault /\ restoring # Idle /\ restoring' = Idle
  /\ UNCHANGED <<account, making, restored, booted, stores>>

PowerLoss ==
  /\ Fault
  /\ making' = Idle /\ restoring' = Idle
  /\ \E gone \in SUBSET (Names \ synced) :
       bundles' = [n \in Names |-> IF n \in gone THEN None ELSE bundles[n]]
  /\ UNCHANGED <<account, synced, promised, touched, written, restored, booted>>

\* Other content in the place of a file: of another bundle, or shortened.
Shortened(dir) ==
  [dir EXCEPT !.db.events = IF @ = <<>> THEN @ ELSE Front(@),
              !.raw.frames = IF @ = <<>> THEN @ ELSE Front(@)]

Damage(n) ==
  /\ Fault /\ bundles[n] # None
  /\ \E other \in {Shortened(bundles[n])} \union written :
       \/ bundles' = [bundles EXCEPT ![n].db = other.db]
       \/ bundles' = [bundles EXCEPT ![n].raw = other.raw]
       \/ bundles' = [bundles EXCEPT ![n].manifest = other.manifest]
  /\ bundles' # bundles /\ touched' = touched \union {n}
  /\ UNCHANGED <<account, making, synced, promised, written, restoring, restored, booted>>

Next ==
  \/ \E private \in Privacies : Capture(private)
  \/ \E event \in Event : Commit(event)
  \/ SaveCheckpoint \/ LeaveResidue
  \/ \E n \in Names, key \in Keys \union {None} : BeginCreate(n, key)
  \/ WriteImage \/ CopyRaw \/ WriteManifest \/ Publish \/ SyncDirectory \/ CreateFails
  \/ \E n \in Names, d \in Dests, key \in Keys \union {None} : BeginRestore(n, d, key)
  \/ CopyDatabase \/ CopyJournal \/ CheckCopy \/ FinishRestore \/ RestoreFails
  \/ \E d \in Dests, mode \in Modes : Boot(d, mode)
  \/ \E pinned \in {{}, {1}} : ApplyRetention(pinned)
  \/ CrashCreate \/ CrashRestore \/ PowerLoss
  \/ \E n \in Names : Damage(n)

Spec == Init /\ [][Next]_vars
----------------------------------------------------------------------------
(* Properties.                                                             *)

\* What is published has all its files, and a chunk ends where the next
\* begins.
TypeOK ==
  /\ \A n \in Names : bundles[n] # None =>
       bundles[n].db # None /\ bundles[n].raw # None /\ bundles[n].manifest # None
  /\ account.durable <= Len(account.frames) /\ account.mark <= account.durable
  /\ \A k \in DOMAIN account.chunks : account.chunks[k] \in 1 .. account.durable
  /\ promised \subseteq Names /\ touched \subseteq Names

\* create_backup: the bundle it returned is still there after any crash or
\* power loss, and unless its files were damaged it validates with its key.
PromisedRestores ==
  \A n \in promised \ touched :
    bundles[n] # None /\ Validates(bundles[n], bundles[n].manifest.key)

\* create_backup: a published bundle holds a whole prefix of the account's
\* events and every frame they name.
WholePrefix ==
  \A b \in written :
    /\ IsPrefix(b.db.events, account.events)
    /\ IsPrefix(b.raw.frames, account.frames)
    /\ \A k \in DOMAIN b.db.events : b.db.events[k].ref <= b.raw.durable
    /\ b.raw.durable = Len(b.raw.frames)

\* restore_backup: a directory that got its name holds the files of one
\* bundle as it was published, however its files were damaged or exchanged,
\* before the restoration or while it copied them.
RestoredAsPublished ==
  \A d \in Dests : restored[d] # None => restored[d].dir \in written

Clear(dir) ==
  dir.key # None \/
    /\ dir.db # None => ~PrivateEvents(dir.db.events) /\ dir.db.checkpoint = 0 /\ ~dir.db.residue
    /\ dir.raw # None => ~PrivateFrames(dir.raw.frames)

\* create_backup: nothing private is ever written in the clear, not even in
\* the files of a creation that never ends.
NothingPrivateInTheClear ==
  /\ making # Idle => Clear(making)
  /\ \A b \in written : Clear([db |-> b.db, raw |-> b.raw, key |-> b.manifest.key])

=============================================================================

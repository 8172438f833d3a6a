-------------------------------- MODULE Clock --------------------------------
(***************************************************************************)
(* core/clock.py.  DeterministicScheduler: entries are handed out in the   *)
(* order of availability, declared rank, source ordinal and scheduling; a  *)
(* snapshot holds the queue and the watermark of what was handed out.      *)
(* AvailabilityClock: availability runs with the monotonic clock from an   *)
(* anchor, while the wall clock jumps, processes restart and machines boot.*)
(*                                                                         *)
(* The callers are external.  Whoever schedules: inputs, and effects of    *)
(* the last entry.  Whoever keeps the clock saves it with every input it   *)
(* commits and with every adjustment, and a process that has no use for    *)
(* the saved clock anchors a new one at the availability of the last       *)
(* commit.                                                                 *)
(***************************************************************************)
EXTENDS Integers, Sequences, FiniteSets

CONSTANTS MaxAvail, Ranks, Sources, MaxEntries, NoSnapshot

SourceRank == {10, 20, 30, 40, 50}

VARIABLES queue,    \* _queue
          next,     \* _next_ordinal
          last,     \* _last_available_ns
          handed,   \* what pop returned, and how much had been scheduled then
          snapshot  \* the last to_bytes, with what had been handed out

schedulerVars == <<queue, next, last, handed, snapshot>>

SchedulerInit ==
  /\ queue = {} /\ next = 0 /\ last = 0 /\ handed = <<>> /\ snapshot = NoSnapshot

\* The refusals of schedule.
MaySchedule(avail, rank, source, cause) ==
  /\ source \in Nat /\ rank \in SourceRank
  /\ avail >= last /\ avail >= cause

Schedule(avail, rank, source, cause) ==
  /\ next < MaxEntries /\ MaySchedule(avail, rank, source, cause)
  /\ queue' = queue \union {[avail |-> avail, rank |-> rank, source |-> source, ord |-> next]}
  /\ next' = next + 1
  /\ UNCHANGED <<last, handed, snapshot>>

\* (faulty) entries of one time are handed out as they were scheduled.
ByTime(a, b) == \/ a.avail < b.avail
                \/ a.avail = b.avail /\ a.ord < b.ord

\* The order of the tuples in the heap.
EntryBefore(a, b) ==
  \/ a.avail < b.avail
  \/ a.avail = b.avail /\ a.rank < b.rank
  \/ a.avail = b.avail /\ a.rank = b.rank /\ a.source < b.source
  \/ a.avail = b.avail /\ a.rank = b.rank /\ a.source = b.source /\ a.ord < b.ord

Pop ==
  \E e \in queue :
    /\ \A f \in queue \ {e} : EntryBefore(e, f)
    /\ queue' = queue \ {e} /\ last' = e.avail
    /\ handed' = Append(handed, [entry |-> e, at |-> next])
    /\ UNCHANGED <<next, snapshot>>

ToBytes ==
  /\ snapshot' = [queue |-> queue, next |-> next, last |-> last, handed |-> handed]
  /\ UNCHANGED <<queue, next, last, handed>>

Watermark(s) == s.last

\* The refusals of from_bytes.
SnapshotReadable(s) ==
  \A e \in s.queue : /\ e.avail >= s.last /\ e.ord \in 0 .. s.next - 1
                     /\ \A f \in s.queue : e.ord = f.ord => e = f

\* A process that starts from the snapshot begins where it was taken.
FromSnapshot ==
  /\ snapshot # NoSnapshot /\ SnapshotReadable(snapshot)
  /\ queue' = snapshot.queue /\ next' = snapshot.next /\ last' = Watermark(snapshot)
  /\ handed' = snapshot.handed
  /\ UNCHANGED snapshot

\* Inputs have no cause; an effect is caused at the time handed out last.
SchedulerNext ==
  \/ \E avail \in 0 .. MaxAvail, rank \in Ranks, source \in Sources, cause \in {0, last} :
       Schedule(avail, rank, source, cause)
  \/ Pop \/ ToBytes \/ FromSnapshot

SchedulerSpec == SchedulerInit /\ [][SchedulerNext]_schedulerVars
----------------------------------------------------------------------------
(* Properties.                                                             *)

\* Whatever was in the queue together comes out in the order of time, rank,
\* source and scheduling, before and after snapshots; what is scheduled later
\* never precedes (DeterministicScheduler.pop).
InDeclaredOrder ==
  \A i, j \in DOMAIN handed :
    LET a == handed[i].entry  b == handed[j].entry IN
    i < j /\ b.ord < handed[i].at =>
      \/ a.avail < b.avail
      \/ a.avail = b.avail /\ a.rank <= b.rank
           /\ (a.rank = b.rank => a.source <= b.source)
           /\ (a.rank = b.rank /\ a.source = b.source => a.ord < b.ord)

\* Time handed out never goes back, across snapshots and restarts
\* (DeterministicScheduler.schedule, from_bytes).
TimeNeverBack ==
  \A i, j \in DOMAIN handed : i < j => handed[i].entry.avail <= handed[j].entry.avail

\* from_bytes refuses no snapshot that to_bytes made.
OwnSnapshotReadable ==
  SnapshotReadable([queue |-> queue, next |-> next, last |-> last, handed |-> handed])

\* What the scheduler hands out, in what order and after which restart
\* (DeterministicScheduler).
OrderKept == InDeclaredOrder /\ TimeNeverBack /\ OwnSnapshotReadable
-----------------------------------------------------------------------------
(* AvailabilityClock.                                                      *)

CONSTANTS MaxTime,   \* of either clock of a host
          MaxBoots, MaxAdjustments, NoClock

VARIABLES host,   \* wall clock, monotonic clock and boot epoch
          live,   \* the clock of the running process
          saved,  \* its last to_bytes
          used    \* availability of the last input committed

clockVars == <<host, live, saved, used>>

ClockInit ==
  /\ host = [wall |-> 1, mono |-> 0, boot |-> 1]
  /\ live = NoClock /\ saved = NoClock /\ used = 0
----------------------------------------------------------------------------
(* The host.                                                               *)

Pass ==
  /\ host.wall < MaxTime /\ host.mono < MaxTime
  /\ host' = [host EXCEPT !.wall = @ + 1, !.mono = @ + 1]
  /\ UNCHANGED <<live, saved, used>>

SetWall ==
  /\ \E wall \in 0 .. MaxTime : host' = [host EXCEPT !.wall = wall]
  /\ UNCHANGED <<live, saved, used>>

Exit ==
  /\ live # NoClock /\ live' = NoClock
  /\ UNCHANGED <<host, saved, used>>

Reboot ==
  /\ host.boot < MaxBoots
  /\ host' = [host EXCEPT !.mono = 0, !.boot = @ + 1]
  /\ live' = NoClock
  /\ UNCHANGED <<saved, used>>
----------------------------------------------------------------------------
(* The clock.                                                              *)

\* (faulty) the anchor is the wall clock.
AtWall(wall, persisted) == wall

\* max(wall_ns, persisted_available_ns).
NotBefore(wall, persisted) == IF wall < persisted THEN persisted ELSE wall

Adjusted(prior, following) == [prior |-> prior, following |-> following]

Anchored(persisted, adjustments) ==
  LET start == NotBefore(host.wall, persisted)
  IN  [wall |-> host.wall, mono |-> host.mono, boot |-> host.boot, anchor |-> start,
       last |-> host.mono, avail |-> start,
       adjustments |-> Append(adjustments, Adjusted(persisted, start))]

Anchor ==
  /\ live = NoClock
  /\ live' = Anchored(used, <<>>) /\ saved' = live'
  /\ UNCHANGED <<host, used>>

Elapsed(c) == c.anchor + host.mono - c.mono

Observed(c) == [c EXCEPT !.last = host.mono, !.avail = Elapsed(c)]

\* Refused in a new boot epoch and behind the last observation.
Observe ==
  /\ live # NoClock /\ live.boot = host.boot /\ host.mono >= live.last
  /\ live' = Observed(live) /\ saved' = live' /\ used' = live'.avail
  /\ UNCHANGED host

Reanchor ==
  /\ live # NoClock /\ Len(live.adjustments) < MaxAdjustments
  /\ live' = Anchored(live.avail, live.adjustments) /\ saved' = live'
  /\ UNCHANGED <<host, used>>

\* from_bytes refuses a clock that contradicts itself.
Readable(c) == c.avail = c.anchor + c.last - c.mono

FromBytes ==
  /\ live = NoClock /\ saved # NoClock /\ Readable(saved)
  /\ live' = saved
  /\ UNCHANGED <<host, saved, used>>

ClockNext ==
  \/ Pass \/ SetWall \/ Exit \/ Reboot
  \/ Anchor \/ Observe \/ Reanchor \/ FromBytes

ClockSpec == ClockInit /\ [][ClockNext]_clockVars
----------------------------------------------------------------------------
(* Properties.                                                             *)

\* The availability of inputs never goes back, whatever the wall clock does,
\* across adjustments, restarts and boots (AvailabilityClock.anchor).
NeverBack == [][used' >= used]_clockVars

\* Between two observations without an adjustment, as much availability
\* passes as monotonic time, whatever the wall clock did meanwhile
\* (AvailabilityClock.observe).
PaceIsMonotonic == [][used' # used => used' = live.avail + host.mono - live.last]_clockVars

\* A clock that was saved is never refused (AvailabilityClock.from_bytes).
SavedIsReadable == saved # NoClock => Readable(saved)

\* The adjustments tell all that moved availability but the passing of time:
\* each begins no earlier than where the one before it left it, and the last
\* one and the monotonic time since make what the clock shows.
AdjustmentsExplain ==
  live # NoClock =>
    LET all == live.adjustments IN
    /\ \A k \in 1 .. Len(all) - 1 : all[k].following <= all[k + 1].prior
    /\ live.avail = all[Len(all)].following + live.last - live.mono

\* The availability clock as those rely on it who order inputs by it
\* (AvailabilityClock).
AvailabilityHolds == [](SavedIsReadable /\ AdjustmentsExplain) /\ NeverBack /\ PaceIsMonotonic
=============================================================================

--------------------------- MODULE Operations_proofs ---------------------------
(***************************************************************************)
(* What is proved of the components that run beside the desk, for every    *)
(* value of their constants.  The scheduler hands entries out in the       *)
(* declared order and time never goes back, across any snapshots and       *)
(* restarts.  Availability never goes back and runs at the pace of the     *)
(* monotonic clock, for every number of boots and adjustments and every    *)
(* jump of the wall clock.  The states, champions and histories of the     *)
(* model registry agree.  A running launcher is the one its file names,    *)
(* and, where the system gives no pid twice, nobody opens the dashboard of *)
(* an account that no one holds.  What a row a model is fitted on knows    *)
(* ends before the rows it is validated on begin.  A book that is shown is *)
(* one the venue had.                                                      *)
(***************************************************************************)
EXTENDS Clock, Registry, Supervisor, WalkForward, BookFeed, SequenceTheorems, TLAPS

-----------------------------------------------------------------------------
(* DeterministicScheduler.                                                 *)

FullEntry == [avail : Nat, rank : Nat, source : Nat, ord : Nat]
Handed == [entry : FullEntry, at : Nat]

\* b may be handed out after a.
Follows(a, b) ==
  \/ a.avail < b.avail
  \/ a.avail = b.avail /\ a.rank <= b.rank
       /\ (a.rank = b.rank => a.source <= b.source)
       /\ (a.rank = b.rank /\ a.source = b.source => a.ord < b.ord)

Typed(q, n, l, h) ==
  q \in SUBSET FullEntry /\ n \in Nat /\ l \in Nat /\ h \in Seq(Handed)

\* The queue is not behind what was handed out, and its ordinals are its own.
QueueSound(q, n, l) ==
  /\ \A e \in q : e.avail >= l /\ e.ord < n
  /\ \A e, f \in q : e.ord = f.ord => e = f

\* What was handed out is ordered, and what waited with it follows it.
HandedSound(q, n, l, h) ==
  /\ \A k \in DOMAIN h : h[k].entry.avail <= l /\ h[k].at <= n
  /\ \A k \in DOMAIN h, e \in q : e.ord < h[k].at => Follows(h[k].entry, e)
  /\ \A i, j \in DOMAIN h :
       i < j => /\ h[i].entry.avail <= h[j].entry.avail
                /\ h[j].entry.ord < h[i].at => Follows(h[i].entry, h[j].entry)

SchedulerSound(q, n, l, h) == Typed(q, n, l, h) /\ QueueSound(q, n, l) /\ HandedSound(q, n, l, h)

SchedulerInv ==
  /\ SchedulerSound(queue, next, last, handed)
  /\ snapshot # NoSnapshot =>
       SchedulerSound(snapshot.queue, snapshot.next, snapshot.last, snapshot.handed)

\* Entries handed out are entries.
LEMMA HandedTyped ==
  ASSUME NEW h \in Seq(Handed), NEW k \in DOMAIN h
  PROVE  h[k].entry \in FullEntry /\ h[k].entry.avail \in Nat /\ h[k].at \in Nat
<1>1. h[k] \in Handed
  OBVIOUS
<1> QED
  BY <1>1 DEF Handed, FullEntry

\* The order of the queue is the declared one.
LEMMA BeforeFollows ==
  ASSUME NEW a \in FullEntry, NEW b \in FullEntry, EntryBefore(a, b)
  PROVE  Follows(a, b) /\ a.avail <= b.avail
BY DEF EntryBefore, Follows, FullEntry

\* Nothing is queued or handed out at first.
LEMMA SchedulerInitInv == SchedulerInit => SchedulerInv
BY DEF SchedulerInit, SchedulerInv, SchedulerSound, Typed, QueueSound, HandedSound

\* A new entry is behind everything handed out and has an ordinal of its own.
LEMMA ScheduleSound ==
  ASSUME SchedulerSound(queue, next, last, handed),
         NEW avail \in Nat, NEW rank \in Nat, NEW source \in Nat, avail >= last
  PROVE  SchedulerSound(queue \union {[avail |-> avail, rank |-> rank, source |-> source, ord |-> next]},
               next + 1, last, handed)
<1> DEFINE new == [avail |-> avail, rank |-> rank, source |-> source, ord |-> next]
           q   == queue \union {new}
<1>1. Typed(queue, next, last, handed) /\ QueueSound(queue, next, last)
      /\ HandedSound(queue, next, last, handed)
  BY DEF SchedulerSound
<1>2. new \in FullEntry /\ new.avail = avail /\ new.ord = next /\ next \in Nat /\ last \in Nat
  BY <1>1 DEF Typed, FullEntry
<1>3. Typed(q, next + 1, last, handed)
  BY <1>1, <1>2 DEF Typed
<1>4. QueueSound(q, next + 1, last)
  <2>1. \A e \in queue : e.ord \in Nat /\ e.ord < next /\ e.avail >= last
    BY <1>1 DEF Typed, FullEntry, QueueSound
  <2>2. \A e \in q : e.avail >= last /\ e.ord < next + 1
    BY <1>2, <2>1
  <2>3. \A e, f \in q : e.ord = f.ord => e = f
    BY <1>1, <1>2, <2>1 DEF QueueSound
  <2> QED
    BY <2>2, <2>3 DEF QueueSound
<1>5. HandedSound(q, next + 1, last, handed)
  <2>1. \A k \in DOMAIN handed : handed[k].at \in Nat /\ handed[k].at <= next
    BY <1>1, HandedTyped DEF Typed, HandedSound
  <2>2. \A k \in DOMAIN handed : handed[k].at <= next + 1 /\ ~(new.ord < handed[k].at)
    BY <1>2, <2>1
  <2> QED
    BY <1>1, <2>2 DEF HandedSound
<1> QED
  BY <1>3, <1>4, <1>5 DEF SchedulerSound

\* The first entry of the queue follows all handed out before it, and what
\* stays follows it.
LEMMA PopSound ==
  ASSUME SchedulerSound(queue, next, last, handed),
         NEW e \in queue, \A f \in queue \ {e} : EntryBefore(e, f)
  PROVE  SchedulerSound(queue \ {e}, next, e.avail, Append(handed, [entry |-> e, at |-> next]))
<1> DEFINE new == [entry |-> e, at |-> next]
           h   == Append(handed, new)
           q   == queue \ {e}
<1>1. Typed(queue, next, last, handed) /\ QueueSound(queue, next, last)
      /\ HandedSound(queue, next, last, handed)
  BY DEF SchedulerSound
<1>2. /\ e \in FullEntry /\ e.avail \in Nat /\ e.ord \in Nat /\ e.avail >= last
      /\ next \in Nat /\ last \in Nat /\ handed \in Seq(Handed)
  BY <1>1 DEF Typed, FullEntry, QueueSound
<1>3. new \in Handed /\ h \in Seq(Handed)
  BY <1>2 DEF Handed
<1>4. /\ DOMAIN h = 1 .. Len(handed) + 1 /\ DOMAIN handed = 1 .. Len(handed)
      /\ Len(handed) \in Nat
      /\ h[Len(handed) + 1] = new
      /\ \A k \in DOMAIN handed : h[k] = handed[k]
  BY <1>2
<1>5. Typed(q, next, e.avail, h)
  BY <1>1, <1>2, <1>3 DEF Typed
<1>6. \A f \in q : Follows(e, f) /\ f.avail >= e.avail
  <2> SUFFICES ASSUME NEW f \in q PROVE Follows(e, f) /\ f.avail >= e.avail
    OBVIOUS
  <2>1. f \in FullEntry /\ EntryBefore(e, f)
    BY <1>1 DEF Typed
  <2>2. f.avail \in Nat
    BY <2>1 DEF FullEntry
  <2> QED
    BY <1>2, <2>1, <2>2, BeforeFollows
<1>7. QueueSound(q, next, e.avail)
  BY <1>1, <1>6 DEF QueueSound
<1>8. HandedSound(q, next, e.avail, h)
  <2>1. \A k \in DOMAIN handed :
          /\ handed[k].entry.avail \in Nat /\ handed[k].at \in Nat
          /\ handed[k].entry.avail <= last /\ handed[k].at <= next
    BY <1>1, <1>2, HandedTyped DEF HandedSound
  <2>2. new.entry = e /\ new.at = next
    OBVIOUS
  <2>3. \A k \in DOMAIN h : h[k].entry.avail <= e.avail /\ h[k].at <= next
    <3> SUFFICES ASSUME NEW k \in DOMAIN h
                 PROVE  h[k].entry.avail <= e.avail /\ h[k].at <= next
      OBVIOUS
    <3>1. CASE k \in DOMAIN handed
      BY <1>2, <1>4, <2>1, <3>1
    <3>2. CASE k = Len(handed) + 1
      BY <1>2, <1>4, <2>2, <3>2
    <3> QED
      BY <1>4, <3>1, <3>2
  <2>4. \A k \in DOMAIN h, f \in q : f.ord < h[k].at => Follows(h[k].entry, f)
    <3> SUFFICES ASSUME NEW k \in DOMAIN h, NEW f \in q, f.ord < h[k].at
                 PROVE  Follows(h[k].entry, f)
      OBVIOUS
    <3>1. CASE k \in DOMAIN handed
      BY <1>1, <1>4, <3>1 DEF HandedSound
    <3>2. CASE k = Len(handed) + 1
      BY <1>4, <1>6, <2>2, <3>2
    <3> QED
      BY <1>4, <3>1, <3>2
  <2>5. \A i, j \in DOMAIN h :
          i < j => /\ h[i].entry.avail <= h[j].entry.avail
                   /\ h[j].entry.ord < h[i].at => Follows(h[i].entry, h[j].entry)
    <3> SUFFICES ASSUME NEW i \in DOMAIN h, NEW j \in DOMAIN h, i < j
                 PROVE  /\ h[i].entry.avail <= h[j].entry.avail
                        /\ h[j].entry.ord < h[i].at => Follows(h[i].entry, h[j].entry)
      OBVIOUS
    <3>1. i \in DOMAIN handed
      BY <1>4
    <3>2. CASE j \in DOMAIN handed
      BY <1>1, <1>4, <3>1, <3>2 DEF HandedSound
    <3>3. CASE j = Len(handed) + 1
      <4>1. h[j].entry = e /\ h[i] = handed[i]
        BY <1>4, <2>2, <3>1, <3>3
      <4>2. handed[i].entry.avail <= e.avail
        BY <1>2, <2>1, <3>1
      <4>3. e.ord < handed[i].at => Follows(handed[i].entry, e)
        BY <1>1, <3>1 DEF HandedSound
      <4> QED
        BY <4>1, <4>2, <4>3
    <3> QED
      BY <1>4, <3>2, <3>3
  <2> QED
    BY <2>3, <2>4, <2>5 DEF HandedSound
<1> QED
  BY <1>5, <1>7, <1>8 DEF SchedulerSound

\* Every step keeps the queue and the snapshot sound.
LEMMA SchedulerStepInv == SchedulerInv /\ [SchedulerNext]_schedulerVars => SchedulerInv'
<1> SUFFICES ASSUME SchedulerInv, [SchedulerNext]_schedulerVars PROVE SchedulerInv'
  OBVIOUS
<1>0. SchedulerSound(queue, next, last, handed)
  BY DEF SchedulerInv
<1>6. ASSUME snapshot' = snapshot
      PROVE  (snapshot # NoSnapshot
                => SchedulerSound(snapshot.queue, snapshot.next, snapshot.last, snapshot.handed))'
  BY <1>6 DEF SchedulerInv, SchedulerSound, Typed, QueueSound, HandedSound, Follows
<1>1. ASSUME NEW avail \in 0 .. MaxAvail, NEW rank \in Ranks, NEW source \in Sources,
             NEW cause \in {0, last}, Schedule(avail, rank, source, cause)
      PROVE  SchedulerInv'
  <2>1. avail \in Nat /\ rank \in Nat /\ source \in Nat /\ avail >= last
    BY <1>1 DEF Schedule, MaySchedule, SourceRank
  <2>2. SchedulerSound(queue', next', last', handed')
    BY <1>0, <1>1, <2>1, ScheduleSound DEF Schedule
  <2>3. snapshot' = snapshot
    BY <1>1 DEF Schedule
  <2> QED
    BY <1>6, <2>2, <2>3 DEF SchedulerInv
<1>2. CASE Pop
  <2>1. PICK e \in queue :
          /\ \A f \in queue \ {e} : EntryBefore(e, f)
          /\ queue' = queue \ {e} /\ last' = e.avail
          /\ handed' = Append(handed, [entry |-> e, at |-> next])
          /\ UNCHANGED <<next, snapshot>>
    BY <1>2 DEF Pop
  <2>2. SchedulerSound(queue', next', last', handed')
    BY <1>0, <2>1, PopSound
  <2> QED
    BY <1>6, <2>1, <2>2 DEF SchedulerInv
<1>3. CASE ToBytes
  <2>1. /\ snapshot' = [queue |-> queue, next |-> next, last |-> last, handed |-> handed]
        /\ queue' = queue /\ next' = next /\ last' = last /\ handed' = handed
    BY <1>3 DEF ToBytes
  <2>2. SchedulerSound(snapshot'.queue, snapshot'.next, snapshot'.last, snapshot'.handed)
    BY <1>0, <2>1
  <2> QED
    BY <1>0, <2>1, <2>2 DEF SchedulerInv
<1>4. CASE FromSnapshot
  <2>1. /\ snapshot # NoSnapshot /\ snapshot' = snapshot
        /\ queue' = snapshot.queue /\ next' = snapshot.next
        /\ last' = snapshot.last /\ handed' = snapshot.handed
    BY <1>4 DEF FromSnapshot, Watermark
  <2>2. SchedulerSound(snapshot.queue, snapshot.next, snapshot.last, snapshot.handed)
    BY <2>1 DEF SchedulerInv
  <2> QED
    BY <1>6, <2>1, <2>2 DEF SchedulerInv
<1>5. CASE UNCHANGED schedulerVars
  <2>1. /\ queue' = queue /\ next' = next /\ last' = last /\ handed' = handed
        /\ snapshot' = snapshot
    BY <1>5 DEF schedulerVars
  <2> QED
    BY <1>0, <1>6, <2>1 DEF SchedulerInv
<1> QED
  BY <1>1, <1>2, <1>3, <1>4, <1>5 DEF SchedulerNext

\* The queue and the snapshot are always sound.
LEMMA SchedulerInvAlways == SchedulerSpec => []SchedulerInv
BY SchedulerInitInv, SchedulerStepInv, PTL DEF SchedulerSpec

\* Time handed out never goes back (DeterministicScheduler.schedule, pop).
LEMMA TimeAlwaysForward == SchedulerSpec => []TimeNeverBack
<1>1. SchedulerInv => TimeNeverBack
  BY DEF SchedulerInv, SchedulerSound, HandedSound, TimeNeverBack
<1> QED
  BY <1>1, SchedulerInvAlways, PTL

\* What waited together comes out in the declared order
\* (DeterministicScheduler.pop).
LEMMA AlwaysInOrder == SchedulerSpec => []InDeclaredOrder
<1>1. SchedulerInv => InDeclaredOrder
  BY DEF SchedulerInv, SchedulerSound, HandedSound, InDeclaredOrder, Follows
<1> QED
  BY <1>1, SchedulerInvAlways, PTL

\* from_bytes refuses no snapshot of a scheduler (DeterministicScheduler).
LEMMA SnapshotsAlwaysReadable == SchedulerSpec => []OwnSnapshotReadable
<1>1. SchedulerInv => OwnSnapshotReadable
  BY DEF SchedulerInv, SchedulerSound, Typed, QueueSound, FullEntry, OwnSnapshotReadable, SnapshotReadable
<1> QED
  BY <1>1, SchedulerInvAlways, PTL

\* Whatever is scheduled, handed out, saved and restored, entries come out in
\* the declared order, time never goes back, and no snapshot is refused
\* (DeterministicScheduler).
THEOREM OrderAlwaysKept == SchedulerSpec => []OrderKept
BY TimeAlwaysForward, AlwaysInOrder, SnapshotsAlwaysReadable, PTL DEF OrderKept

-----------------------------------------------------------------------------
(* AvailabilityClock.                                                      *)

Host == [wall : Nat, mono : Nat, boot : Nat]
Adjustment == [prior : Nat, following : Nat]
ClockRecord == [wall : Nat, mono : Nat, boot : Nat, anchor : Nat, last : Nat, avail : Nat,
          adjustments : Seq(Adjustment)]

\* Adjustments begin no earlier than where the one before left availability.
Chained(all) == \A k \in 1 .. Len(all) - 1 : all[k].following <= all[k + 1].prior
Explained(all) == all # <<>> /\ Chained(all)

\* A clock, running or saved, shows its anchor and what passed since, and is
\* not behind what inputs were given.
ClockSound(c) ==
  /\ c \in ClockRecord /\ Readable(c)
  /\ c.last >= c.mono /\ c.avail >= used
  /\ Explained(c.adjustments) /\ c.anchor = c.adjustments[Len(c.adjustments)].following

ClockInv ==
  /\ host \in Host /\ used \in Nat
  /\ live = NoClock \/ ClockSound(live)
  /\ saved = NoClock \/ ClockSound(saved)

\* The later of two times is before neither.
LEMMA NotBeforeBoth ==
  ASSUME NEW wall \in Nat, NEW persisted \in Nat
  PROVE  NotBefore(wall, persisted) \in Nat /\ NotBefore(wall, persisted) >= persisted
BY DEF NotBefore

\* No clock and nothing used at first.
LEMMA ClockInitInv == ClockInit => ClockInv
BY DEF ClockInit, ClockInv, Host

\* An adjustment that begins where availability is continues the chain.
LEMMA ChainGrows ==
  ASSUME NEW all \in Seq(Adjustment), NEW a \in Adjustment, Chained(all),
         all # <<>> => all[Len(all)].following <= a.prior
  PROVE  /\ Append(all, a) \in Seq(Adjustment) /\ Explained(Append(all, a))
         /\ Append(all, a)[Len(Append(all, a))] = a
<1> DEFINE more == Append(all, a)
<1>1. /\ more \in Seq(Adjustment) /\ Len(more) = Len(all) + 1 /\ more[Len(more)] = a
      /\ more # <<>> /\ Len(all) \in Nat
      /\ \A k \in 1 .. Len(all) : more[k] = all[k]
  BY AppendProperties
<1>2. ASSUME NEW k \in 1 .. Len(more) - 1 PROVE more[k].following <= more[k + 1].prior
  <2>1. CASE k = Len(all)
    <3>1. more[k] = all[k] /\ more[k + 1] = a /\ all # <<>>
      BY <1>1, <2>1
    <3> QED
      BY <2>1, <3>1
  <2>2. CASE k # Len(all)
    <3>1. k \in 1 .. Len(all) - 1
      BY <1>1, <1>2, <2>2
    <3>2. more[k] = all[k] /\ more[k + 1] = all[k + 1]
      BY <1>1, <3>1
    <3> QED
      BY <3>1, <3>2 DEF Chained
  <2> QED
    BY <2>1, <2>2
<1> QED
  BY <1>1, <1>2 DEF Explained, Chained

\* A new anchor is sound when it begins at or after what was used and where
\* the adjustments before it left availability.
LEMMA AnchoredSound ==
  ASSUME host \in Host, used \in Nat, NEW persisted \in Nat, persisted >= used,
         NEW adjustments \in Seq(Adjustment), Chained(adjustments),
         adjustments # <<>> => adjustments[Len(adjustments)].following <= persisted
  PROVE  ClockSound(Anchored(persisted, adjustments))
<1> DEFINE start == NotBefore(host.wall, persisted)
           a     == Adjusted(persisted, start)
           c     == Anchored(persisted, adjustments)
<1>1. start \in Nat /\ start >= persisted
  BY NotBeforeBoth DEF Host
<1>2. a \in Adjustment /\ a.prior = persisted /\ a.following = start
  BY <1>1 DEF Adjusted, Adjustment
<1>3. /\ Append(adjustments, a) \in Seq(Adjustment) /\ Explained(Append(adjustments, a))
      /\ Append(adjustments, a)[Len(Append(adjustments, a))] = a
  BY <1>2, ChainGrows
<1>4. /\ c.avail = start /\ c.anchor = start /\ c.last = host.mono /\ c.mono = host.mono
      /\ c.adjustments = Append(adjustments, a)
  BY DEF Anchored
<1>5. c \in ClockRecord
  BY <1>1, <1>3 DEF Anchored, ClockRecord, Host
<1> QED
  BY <1>1, <1>2, <1>3, <1>4, <1>5 DEF ClockSound, Readable, Host

\* An observation is not behind what was used before.
LEMMA ObservedSound ==
  ASSUME host \in Host, used \in Nat, ClockSound(live), host.mono >= live.last
  PROVE  LET c == Observed(live) IN
           /\ c \in ClockRecord /\ Readable(c) /\ c.last >= c.mono
           /\ c.anchor = live.anchor /\ c.adjustments = live.adjustments
           /\ c.avail >= used /\ c.avail = live.avail + host.mono - live.last
<1> DEFINE c == Observed(live)
<1>1. live \in ClockRecord /\ live.avail = live.anchor + live.last - live.mono
      /\ live.last >= live.mono /\ live.avail >= used
  BY DEF ClockSound, Readable
<1>2. /\ live.anchor \in Nat /\ live.last \in Nat /\ live.mono \in Nat
      /\ live.avail \in Nat /\ host.mono \in Nat
  BY <1>1 DEF ClockRecord, Host
<1>3. /\ Elapsed(live) = live.avail + host.mono - live.last
      /\ Elapsed(live) \in Nat /\ Elapsed(live) >= used
  BY <1>1, <1>2 DEF Elapsed
<1>4. /\ c \in ClockRecord /\ c.avail = Elapsed(live) /\ c.last = host.mono
      /\ c.anchor = live.anchor /\ c.mono = live.mono /\ c.adjustments = live.adjustments
  BY <1>1, <1>2, <1>3 DEF Observed, ClockRecord
<1> QED
  BY <1>1, <1>2, <1>3, <1>4 DEF Readable, Elapsed

\* The clocks of a process that does nothing stay sound.
LEMMA ClockRests ==
  ASSUME ClockInv, host' \in Host, used' = used, saved' = saved, live' = live \/ live' = NoClock
  PROVE  ClockInv'
<1>2. saved' = NoClock \/ ClockSound(saved)'
  BY DEF ClockInv, ClockSound
<1>3. live' = NoClock \/ ClockSound(live)'
  BY DEF ClockInv, ClockSound
<1> QED
  BY <1>2, <1>3 DEF ClockInv

\* Every step keeps the clocks sound.
LEMMA ClockStepInv == ClockInv /\ [ClockNext]_clockVars => ClockInv'
<1> SUFFICES ASSUME ClockInv, [ClockNext]_clockVars PROVE ClockInv'
  OBVIOUS
<1>0. host \in Host /\ used \in Nat
  BY DEF ClockInv
<1>1. CASE Pass
  <2>1. host' \in Host
    <3>1. host' = [wall |-> host.wall + 1, mono |-> host.mono + 1, boot |-> host.boot]
      BY <1>0, <1>1, Zenon DEF Pass, Host
    <3>2. host.wall + 1 \in Nat /\ host.mono + 1 \in Nat /\ host.boot \in Nat
      BY <1>0 DEF Host
    <3> QED
      BY <3>1, <3>2 DEF Host
  <2> QED
    BY <1>1, <2>1, ClockRests DEF Pass
<1>2. CASE SetWall
  <2>1. PICK wall \in 0 .. MaxTime : host' = [host EXCEPT !.wall = wall]
    BY <1>2 DEF SetWall
  <2>2. host' \in Host
    BY <1>0, <2>1 DEF Host
  <2> QED
    BY <1>2, <2>2, ClockRests DEF SetWall
<1>3. CASE Exit
  BY <1>0, <1>3, ClockRests DEF Exit
<1>4. CASE Reboot
  <2>1. host' \in Host
    <3>1. host' = [wall |-> host.wall, mono |-> 0, boot |-> host.boot + 1]
      BY <1>0, <1>4, Zenon DEF Reboot, Host
    <3>2. host.wall \in Nat /\ host.boot + 1 \in Nat
      BY <1>0 DEF Host
    <3> QED
      BY <3>1, <3>2 DEF Host
  <2> QED
    BY <1>4, <2>1, ClockRests DEF Reboot
<1>5. CASE Anchor
  <2>1. << >> \in Seq(Adjustment) /\ used >= used /\ Chained(<< >>)
    BY <1>0 DEF Chained
  <2>2. ClockSound(Anchored(used, << >>))
    BY <1>0, <2>1, AnchoredSound
  <2> QED
    BY <1>0, <1>5, <2>2 DEF Anchor, ClockInv, ClockSound
<1>6. CASE Observe
  <2>1. ClockSound(live)
    BY <1>6 DEF Observe, ClockInv
  <2>2. live' = Observed(live) /\ saved' = live' /\ used' = live'.avail /\ host' = host
        /\ host.mono >= live.last
    BY <1>6 DEF Observe
  <2>3. /\ live' \in ClockRecord /\ Readable(live') /\ live'.last >= live'.mono
        /\ live'.anchor = live.anchor /\ live'.adjustments = live.adjustments
    BY <1>0, <2>1, <2>2, ObservedSound
  <2>4. used' \in Nat
    BY <2>2, <2>3 DEF ClockRecord
  <2> QED
    BY <1>0, <2>1, <2>2, <2>3, <2>4 DEF ClockInv, ClockSound, ClockRecord
<1>7. CASE Reanchor
  <2>1. ClockSound(live)
    BY <1>7 DEF Reanchor, ClockInv
  <2>2. live.avail \in Nat /\ live.avail >= used /\ live.adjustments \in Seq(Adjustment)
    BY <2>1 DEF ClockSound, ClockRecord
  <2>3. /\ live.adjustments # <<>> => live.adjustments[Len(live.adjustments)].following <= live.avail
        /\ Chained(live.adjustments)
    BY <2>1 DEF ClockSound, Explained, Readable, ClockRecord
  <2>4. ClockSound(Anchored(live.avail, live.adjustments))
    BY <1>0, <2>2, <2>3, AnchoredSound
  <2> QED
    BY <1>0, <1>7, <2>4 DEF Reanchor, ClockInv, ClockSound
<1>8. CASE FromBytes
  BY <1>0, <1>8 DEF FromBytes, ClockInv, ClockSound
<1>9. CASE UNCHANGED clockVars
  BY <1>0, <1>9, ClockRests DEF clockVars
<1> QED
  BY <1>1, <1>2, <1>3, <1>4, <1>5, <1>6, <1>7, <1>8, <1>9 DEF ClockNext

\* The clocks are always sound.
LEMMA ClockInvAlways == ClockSpec => []ClockInv
BY ClockInitInv, ClockStepInv, PTL DEF ClockSpec

\* A saved clock is never refused (AvailabilityClock.from_bytes).
LEMMA SavedAlwaysReadable == ClockSpec => []SavedIsReadable
<1>1. ClockInv => SavedIsReadable
  BY DEF ClockInv, SavedIsReadable, ClockSound
<1> QED
  BY <1>1, ClockInvAlways, PTL

\* What an observation hands out is the availability before it and the
\* monotonic time since, and so never less.
LEMMA ObserveMoves ==
  ASSUME ClockInv, Observe
  PROVE  used' >= used /\ used' = live.avail + host.mono - live.last
<1>1. ClockSound(live) /\ host.mono >= live.last /\ used' = Observed(live).avail
  BY DEF ClockInv, Observe
<1> QED
  BY <1>1, ObservedSound DEF ClockInv

\* Only an observation hands out availability.
LEMMA OnlyObserveMoves == ClockNext /\ ~Observe => used' = used
BY DEF ClockNext, Pass, SetWall, Exit, Reboot, Anchor, Reanchor, FromBytes

\* The availability of inputs never goes back (AvailabilityClock.anchor).
LEMMA AvailabilityNeverBack == ClockSpec => NeverBack
<1>1. ClockInv /\ [ClockNext]_clockVars => [used' >= used]_clockVars
  BY ObserveMoves, OnlyObserveMoves DEF ClockInv
<1> QED
  BY <1>1, ClockInvAlways, PTL DEF ClockSpec, NeverBack

\* Availability passes with the monotonic clock (AvailabilityClock.observe).
LEMMA AvailabilityPace == ClockSpec => PaceIsMonotonic
<1>1. ClockInv /\ [ClockNext]_clockVars
        => [used' # used => used' = live.avail + host.mono - live.last]_clockVars
  BY ObserveMoves, OnlyObserveMoves
<1> QED
  BY <1>1, ClockInvAlways, PTL DEF ClockSpec, PaceIsMonotonic

\* The adjustments of a clock account for what it shows, on top of the time
\* that passed (AvailabilityClock.anchor, reanchor).
LEMMA AdjustmentsAlwaysExplain == ClockSpec => []AdjustmentsExplain
<1>1. ClockInv => AdjustmentsExplain
  BY DEF ClockInv, ClockSound, Explained, Chained, Readable, AdjustmentsExplain
<1> QED
  BY <1>1, ClockInvAlways, PTL

\* Inputs ordered by availability stay in order across adjustments, restarts
\* and boots, at the pace of the monotonic clock; every saved clock opens
\* again and tells what moved it (AvailabilityClock).
THEOREM AvailabilityAlwaysHolds == ClockSpec => AvailabilityHolds
BY SavedAlwaysReadable, AdjustmentsAlwaysExplain, AvailabilityNeverBack, AvailabilityPace, PTL
   DEF AvailabilityHolds
-----------------------------------------------------------------------------
(* Registry.  A seat that was never taken has no history, so a rollback    *)
(* always unseats a champion for one that is different.                    *)

OneSeatedPerHistory == \A k \in Keys : champions[k] = NoModel => history[k] = <<>>

RegistryInv ==
  /\ states \in [Models -> ModelState \union {NoModel}]
  /\ champions \in [Keys -> Models \union {NoModel}]
  /\ history \in [Keys -> Seq(Models)]
  /\ active \in Models \union {NoModel} /\ held \subseteq Strategies
  /\ active = NoModel <=> \A k \in Keys : champions[k] = NoModel
  /\ OneSeatedPerHistory /\ ActiveHasSeat /\ RollbackChanges /\ NeverLiveSynthetic

\* m takes the seat of key, whose history becomes h.
LEMMA SeatTaken ==
  ASSUME RegistryInv, NEW key \in Keys, NEW m \in Models, NEW h \in Seq(Models),
         states' = Seated(key, m, states), champions' = [champions EXCEPT ![key] = m],
         history' = [history EXCEPT ![key] = h], active' = m, held' = held,
         h # <<>> => m # Last(h),
         \A i \in 1 .. Len(h) - 1 : h[i] # h[i + 1],
         key[2] = "LIVE" => m \notin Synthetic /\ \A i \in DOMAIN h : h[i] \notin Synthetic
  PROVE  RegistryInv'
<1> USE RegistryAssumption DEF RegistryInv
<1>1. states' \in [Models -> ModelState \union {NoModel}]
  BY DEF Seated, ModelState
<1>2. /\ champions' \in [Keys -> Models \union {NoModel}] /\ champions'[key] = m
      /\ \A k \in Keys \ {key} : champions'[k] = champions[k]
  OBVIOUS
<1>3. /\ history' \in [Keys -> Seq(Models)] /\ history'[key] = h
      /\ \A k \in Keys \ {key} : history'[k] = history[k]
  OBVIOUS
<1>4. m # NoModel
  OBVIOUS
<1>5. OneSeatedPerHistory'
  BY <1>2, <1>3, <1>4 DEF OneSeatedPerHistory
<1>6. ActiveHasSeat'
  <2> SUFFICES ASSUME NEW x \in Models, states'[x] = "ACTIVE"
               PROVE  \E k \in Keys : champions'[k] = x
    BY DEF ActiveHasSeat
  <2>1. CASE x = m
    BY <1>2, <2>1
  <2>2. CASE x # m
    <3>1. x # champions[key] /\ states[x] = "ACTIVE"
      BY <2>2 DEF Seated
    <3>2. PICK k \in Keys : champions[k] = x
      BY <3>1 DEF ActiveHasSeat
    <3> QED
      BY <1>2, <3>1, <3>2
  <2> QED
    BY <2>1, <2>2
<1>7. RollbackChanges'
  <2> SUFFICES ASSUME NEW k \in Keys, history'[k] # <<>>
               PROVE  /\ champions'[k] # Last(history'[k])
                      /\ \A i \in 1 .. Len(history'[k]) - 1 : history'[k][i] # history'[k][i + 1]
    BY DEF RollbackChanges
  <2>1. CASE k = key
    BY <1>2, <1>3, <2>1
  <2>2. CASE k # key
    <3>1. champions'[k] = champions[k] /\ history'[k] = history[k]
      BY <1>2, <1>3, <2>2
    <3> QED
      BY <3>1 DEF RollbackChanges
  <2> QED
    BY <2>1, <2>2
<1>8. NeverLiveSynthetic'
  <2> SUFFICES ASSUME NEW k \in Keys, k[2] = "LIVE"
               PROVE  /\ champions'[k] \notin Synthetic
                      /\ \A i \in DOMAIN history'[k] : history'[k][i] \notin Synthetic
    BY DEF NeverLiveSynthetic
  <2>1. CASE k = key
    BY <1>2, <1>3, <2>1
  <2>2. CASE k # key
    <3>1. champions'[k] = champions[k] /\ history'[k] = history[k]
      BY <1>2, <1>3, <2>2
    <3> QED
      BY <3>1 DEF NeverLiveSynthetic
  <2> QED
    BY <2>1, <2>2
<1> QED
  BY <1>1, <1>2, <1>3, <1>4, <1>5, <1>6, <1>7, <1>8

\* A promotion remembers the champion that gives way.
LEMMA PromotionKeeps ==
  ASSUME RegistryInv, NEW m \in Models, NEW key \in Keys, NEW confirmed \in BOOLEAN,
         Transition(m, key, "ACTIVE", confirmed)
  PROVE  RegistryInv'
<1> DEFINE c == champions[key]
           h == IF c \notin {NoModel, m} THEN Append(history[key], c) ELSE history[key]
<1>1. /\ history[key] \in Seq(Models) /\ c \in Models \union {NoModel}
      /\ c = NoModel => history[key] = <<>>
      /\ history[key] # <<>> => c # Last(history[key])
      /\ \A i \in 1 .. Len(history[key]) - 1 : history[key][i] # history[key][i + 1]
  <2>1. history[key] \in Seq(Models) /\ c \in Models \union {NoModel}
    BY DEF RegistryInv
  <2>2. c = NoModel => history[key] = <<>>
    BY DEF RegistryInv, OneSeatedPerHistory
  <2>3. /\ history[key] # <<>> => c # Last(history[key])
        /\ \A i \in 1 .. Len(history[key]) - 1 : history[key][i] # history[key][i + 1]
    <3>1. RollbackChanges
      BY DEF RegistryInv
    <3>2. CASE history[key] # <<>>
      BY <3>1, <3>2 DEF RollbackChanges
    <3>3. CASE history[key] = <<>>
      <4>1. Len(history[key]) - 1 = -1 /\ 1 .. -1 = {}
        BY <3>3
      <4>2. QED
        BY <3>3, <4>1
    <3> QED
      BY <3>2, <3>3
  <2> QED
    BY <2>1, <2>2, <2>3
<1>2. history' = [history EXCEPT ![key] = h]
  <2>1. history \in [Keys -> Seq(Models)] /\ history' = WithPrevious(key, m, history)
    BY DEF Transition, RegistryInv
  <2>2. CASE c \notin {NoModel, m}
    BY <2>1, <2>2 DEF WithPrevious
  <2>3. CASE c \in {NoModel, m}
    <3>1. history' = history
      BY <2>1, <2>3 DEF WithPrevious
    <3>2. history = [history EXCEPT ![key] = history[key]]
      BY <2>1
    <3> QED
      BY <2>3, <3>1, <3>2
  <2> QED
    BY <2>2, <2>3
<1>3. h \in Seq(Models) /\ (h # <<>> => m # Last(h)) /\ \A i \in 1 .. Len(h) - 1 : h[i] # h[i + 1]
  <2>1. CASE c \in {NoModel, m}
    <3>1. h = history[key]
      BY <2>1
    <3>2. h # <<>> => m # Last(h)
      BY <1>1, <2>1, <3>1
    <3> QED
      BY <1>1, <3>1, <3>2
  <2>2. CASE c \notin {NoModel, m}
    <3>1. h = Append(history[key], c) /\ c \in Models /\ c # m
      BY <1>1, <2>2
    <3> DEFINE n == Len(history[key])
    <3>2. /\ h \in Seq(Models) /\ Len(h) = n + 1 /\ n \in Nat /\ h[n + 1] = c
          /\ \A i \in 1 .. n : h[i] = history[key][i]
      BY <1>1, <3>1
    <3>3. Last(h) = c
      BY <3>2 DEF Last
    <3>4. ASSUME NEW i \in 1 .. Len(h) - 1
          PROVE  h[i] # h[i + 1]
      <4>1. CASE i < n
        BY <1>1, <3>2, <4>1
      <4>2. CASE i = n
        <5>1. history[key] # <<>> /\ Last(history[key]) = h[i]
          BY <1>1, <3>2, <4>2 DEF Last
        <5> QED
          BY <1>1, <3>2, <4>2, <5>1
      <4> QED
        BY <3>2, <4>1, <4>2
    <3> QED
      BY <3>1, <3>2, <3>3, <3>4
  <2> QED
    BY <2>1, <2>2
<1>4. ASSUME key[2] = "LIVE"
      PROVE  m \notin Synthetic /\ \A i \in DOMAIN h : h[i] \notin Synthetic
  <2>1. m \notin Synthetic
    BY <1>4 DEF Transition, LiveAllowed
  <2>2. c \notin Synthetic /\ \A i \in DOMAIN history[key] : history[key][i] \notin Synthetic
    BY <1>4 DEF RegistryInv, NeverLiveSynthetic
  <2>3. \A i \in DOMAIN Append(history[key], c) : Append(history[key], c)[i] \notin Synthetic
    BY <1>1, <2>2
  <2> QED
    BY <2>1, <2>2, <2>3
<1>5. states' = Seated(key, m, states) /\ champions' = [champions EXCEPT ![key] = m]
      /\ active' = m /\ held' = held
  BY DEF Transition
<1> HIDE DEF h, c
<1> QED
  BY <1>2, <1>3, <1>4, <1>5, SeatTaken

\* A rollback seats the champion remembered last.
LEMMA RollbackKeeps ==
  ASSUME RegistryInv, NEW key \in Keys, Rollback(key)
  PROVE  RegistryInv'
<1> DEFINE p == history[key]  n == Len(p)  h == Front(p)
<1>1. /\ p \in Seq(Models) /\ p # <<>> /\ n \in Nat /\ n > 0 /\ DOMAIN p = 1 .. n
      /\ \A i \in 1 .. n : p[i] \in Models
  <2>1. p \in Seq(Models) /\ p # <<>>
    BY DEF RegistryInv, Rollback
  <2> QED
    BY <2>1, ElementOfSeq, LenProperties, EmptySeq
<1>2. /\ \A i \in 1 .. n - 1 : p[i] # p[i + 1]
      /\ key[2] = "LIVE" => \A i \in 1 .. n : p[i] \notin Synthetic
  <2>1. RollbackChanges /\ NeverLiveSynthetic
    BY DEF RegistryInv
  <2> QED
    BY <1>1, <2>1 DEF RollbackChanges, NeverLiveSynthetic
<1> HIDE DEF p, n
<1>3. /\ h \in Seq(Models) /\ Len(h) = n - 1 /\ DOMAIN h = 1 .. n - 1
      /\ \A i \in 1 .. n - 1 : h[i] = p[i]
  <2>1. h = SubSeq(p, 1, n - 1)
    BY DEF Front, n
  <2> QED
    BY <1>1, <2>1, SubSeqProperties, LenProperties
<1>4. Last(p) \in Models /\ Last(p) = p[n] /\ (key[2] = "LIVE" => Last(p) \notin Synthetic)
  BY <1>1, <1>2 DEF Last, n
<1>5. h # <<>> => Last(p) # Last(h)
  <2>1. h # <<>> => Len(h) # 0
    BY <1>3, EmptySeq
  <2>2. n - 1 # 0 => p[n - 1] # p[n]
    BY <1>1, <1>2, n - 1 + 1 = n
  <2>3. n - 1 # 0 => Last(h) = p[n - 1]
    BY <1>1, <1>3 DEF Last
  <2> QED
    BY <1>3, <1>4, <2>1, <2>2, <2>3
<1>6. /\ states' = Seated(key, Last(p), states) /\ champions' = [champions EXCEPT ![key] = Last(p)]
      /\ active' = Last(p) /\ held' = held /\ history' = [history EXCEPT ![key] = h]
  BY DEF Rollback, p
<1>7. /\ \A i \in 1 .. Len(h) - 1 : h[i] # h[i + 1]
      /\ key[2] = "LIVE" => \A i \in DOMAIN h : h[i] \notin Synthetic
  <2>1. \A i \in 1 .. n - 1 - 1 : i \in 1 .. n - 1 /\ i + 1 \in 1 .. n - 1
    BY <1>1
  <2>2. \A i \in 1 .. n - 1 : i \in 1 .. n
    BY <1>1
  <2> QED
    BY <1>2, <1>3, <2>1, <2>2
<1> HIDE DEF h
<1> QED
  BY <1>3, <1>4, <1>5, <1>6, <1>7, SeatTaken

\* Every step preserves the invariant.
LEMMA RegistryInvAlways == RegistrySpec => []RegistryInv
<1>1. ASSUME RegistryInit
      PROVE  RegistryInv
  <2>1. /\ states \in [Models -> ModelState \union {NoModel}]
        /\ champions \in [Keys -> Models \union {NoModel}] /\ active = NoModel /\ held = {}
        /\ \A m \in Models : states[m] = NoModel
        /\ \A k \in Keys : champions[k] = NoModel /\ history[k] = <<>>
    BY <1>1 DEF RegistryInit
  <2>2. history \in [Keys -> Seq(Models)]
    BY <1>1, EmptySeq DEF RegistryInit
  <2>3. ActiveHasSeat
    BY <2>1, RegistryAssumption DEF ActiveHasSeat, ModelState
  <2>4. DOMAIN <<>> = {}
    OBVIOUS
  <2>5. OneSeatedPerHistory /\ RollbackChanges /\ NeverLiveSynthetic
    BY <2>1, <2>4, RegistryAssumption DEF OneSeatedPerHistory, RollbackChanges, NeverLiveSynthetic
  <2> QED
    BY <2>1, <2>2, <2>3, <2>5 DEF RegistryInv
<1>2. ASSUME RegistryInv, NEW s \in [Models -> ModelState \union {NoModel}], states' = s,
             \A x \in Models : s[x] = "ACTIVE" => states[x] = "ACTIVE",
             UNCHANGED <<champions, history, active>>, held' \subseteq Strategies
      PROVE  RegistryInv'
  BY <1>2 DEF RegistryInv, OneSeatedPerHistory, ActiveHasSeat, RollbackChanges, NeverLiveSynthetic
<1>3. ASSUME RegistryInv, [RegistryNext]_registryVars
      PROVE  RegistryInv'
  <2>0. states \in [Models -> ModelState \union {NoModel}] /\ held \subseteq Strategies
    BY <1>3 DEF RegistryInv
  <2>1. ASSUME NEW m \in Models, NEW initial \in {"EVALUATED", "TRAINING"}, Register(m, initial)
        PROVE  RegistryInv'
    <3>1. /\ states' = [states EXCEPT ![m] = initial] /\ initial # "ACTIVE"
          /\ UNCHANGED <<champions, history, active, held>>
          /\ states' \in [Models -> ModelState \union {NoModel}]
      BY <2>0, <2>1 DEF Register, ModelState
    <3>2. \A x \in Models : states'[x] = "ACTIVE" => states[x] = "ACTIVE"
      BY <2>0, <3>1
    <3> QED
      BY <1>2, <1>3, <2>0, <3>1, <3>2
  <2>2. ASSUME NEW m \in Models, NEW key \in Keys, NEW target \in ModelState, NEW confirmed \in BOOLEAN,
               Transition(m, key, target, confirmed)
        PROVE  RegistryInv'
    <3>1. CASE target = "ACTIVE"
      BY <1>3, <2>2, <3>1, PromotionKeeps
    <3>2. CASE target # "ACTIVE"
      <4>1. /\ states' = [states EXCEPT ![m] = target] /\ UNCHANGED <<champions, history, active, held>>
            /\ states' \in [Models -> ModelState \union {NoModel}]
        BY <2>0, <2>2, <3>2 DEF Transition
      <4>2. \A x \in Models : states'[x] = "ACTIVE" => states[x] = "ACTIVE"
        BY <2>0, <3>2, <4>1
      <4> QED
        BY <1>2, <1>3, <2>0, <4>1, <4>2
    <3> QED
      BY <3>1, <3>2
  <2>3. ASSUME NEW key \in Keys, Rollback(key)
        PROVE  RegistryInv'
    BY <1>3, <2>3, RollbackKeeps
  <2>4. ASSUME NEW key \in Keys, GateEntry(key)
        PROVE  RegistryInv'
    BY <1>2, <1>3, <2>0, <2>4 DEF GateEntry
  <2>5. ASSUME NEW s \in Strategies, Trade(s)
        PROVE  RegistryInv'
    BY <1>2, <1>3, <2>0, <2>5 DEF Trade
  <2>6. ASSUME UNCHANGED registryVars
        PROVE  RegistryInv'
    BY <1>2, <1>3, <2>0, <2>6 DEF registryVars
  <2> QED
    BY <1>3, <2>1, <2>2, <2>3, <2>4, <2>5, <2>6 DEF RegistryNext
<1> QED
  BY <1>1, <1>3, PTL DEF RegistrySpec

\* Whatever is promoted, rejected and rolled back in whatever order, an active
\* model has a seat, a rollback changes the champion, and no model of synthetic
\* data goes live (ModelRegistry.transition, rollback).
THEOREM ChampionsAlwaysSound == RegistrySpec => []ChampionsSound
<1>1. RegistryInv => ChampionsSound
  BY DEF RegistryInv, ChampionsSound, RegistryTypeOK
<1> QED
  BY <1>1, RegistryInvAlways, PTL

-----------------------------------------------------------------------------
(* Supervisor and launcher.  The lock is held exactly by the launcher      *)
(* between acquiring and giving it back; all else follows from that.       *)

\* The steps of a launcher that has the lock, and those after it published
\* itself and before it removes its file.
Owning == {"advancing", "publishing", "spawning", "running", "unlinking", "unlocking"}
Published == {"spawning", "running", "unlinking"}

Instances == {None} \union [pid : Procs, epoch : Nat]

LauncherTyped ==
  /\ at \in [Procs -> Steps] /\ lock \in Procs \union {None}
  /\ epoch \in Nat /\ top \in Nat /\ granted \in [Procs -> Nat]
  /\ instance \in Instances /\ api \subseteq Procs

LockOfOwner == \A p \in Procs : at[p] \in Owning <=> lock = p

PublishedIsNamed == \A p \in Procs : at[p] \in Published => instance # None /\ instance.pid = p

\* Without reuse of pids a file of a live process is the owner's, and that one
\* has not begun to locate itself again.
NamedIsOwner ==
  ~Reuse => /\ \A p \in Procs : at[p] # "other"
            /\ instance # None /\ at[instance.pid] \notin Published => at[instance.pid] = "dead"

SupervisorInv == LauncherTyped /\ LockOfOwner /\ PublishedIsNamed /\ NamedIsOwner

\* None is not a record of an instance, so the file can be told from its absence.
LEMMA InstanceTyped ==
  ASSUME LauncherTyped, instance # None
  PROVE  instance.pid \in Procs /\ instance.epoch \in Nat
BY DEF LauncherTyped, Instances

\* Nobody owns the account at first.
LEMMA SupervisorInitInv == Init => SupervisorInv
BY NoneIsNoProc DEF Init, SupervisorInv, LauncherTyped, Instances, LockOfOwner, PublishedIsNamed,
  NamedIsOwner, Steps, Owning, Published, Alive

\* Every step keeps the lock with its owner.
LEMMA SupervisorStepInv == SupervisorInv /\ [Next]_vars => SupervisorInv'
<1> SUFFICES ASSUME SupervisorInv, [Next]_vars
             PROVE  SupervisorInv'
  OBVIOUS
<1> USE NoneIsNoProc DEF SupervisorInv, LauncherTyped, Instances, LockOfOwner, PublishedIsNamed,
      NamedIsOwner, Steps, Owning, Published, Goes
<1>1. ASSUME NEW p \in Procs, Check(p)
      PROVE  SupervisorInv'
  BY <1>1 DEF Check
<1>2. ASSUME NEW p \in Procs, Acquire(p)
      PROVE  SupervisorInv'
  BY <1>2 DEF Acquire
<1>3. ASSUME NEW p \in Procs, AdvanceEpoch(p)
      PROVE  SupervisorInv'
  BY <1>3 DEF AdvanceEpoch, NextEpoch
<1>4. ASSUME NEW p \in Procs, Publish(p)
      PROVE  SupervisorInv'
  BY <1>4 DEF Publish
<1>5. ASSUME NEW p \in Procs, SpawnApi(p)
      PROVE  SupervisorInv'
  BY <1>5 DEF SpawnApi
<1>6. ASSUME NEW p \in Procs, StopChildren(p)
      PROVE  SupervisorInv'
  BY <1>6 DEF StopChildren
<1>7. ASSUME NEW p \in Procs, Unlink(p)
      PROVE  SupervisorInv'
  BY <1>7 DEF Unlink
<1>8. ASSUME NEW p \in Procs, Release(p)
      PROVE  SupervisorInv'
  BY <1>8 DEF Release
<1>9. ASSUME NEW p \in Procs, Ends(p)
      PROVE  SupervisorInv'
  BY <1>9 DEF Ends, Alive
<1>10. ASSUME NEW p \in Procs, ApiEnds(p)
       PROVE  SupervisorInv'
  BY <1>10 DEF ApiEnds
<1>11. ASSUME NEW p \in Procs, PidReused(p)
       PROVE  SupervisorInv'
  BY <1>11 DEF PidReused
<1>12. ASSUME PowerLoss
       PROVE  SupervisorInv'
  BY <1>12 DEF PowerLoss, Alive
<1>13. ASSUME UNCHANGED vars
       PROVE  SupervisorInv'
  BY <1>13 DEF vars
<1> QED
  BY <1>1, <1>2, <1>3, <1>4, <1>5, <1>6, <1>7, <1>8, <1>9, <1>10, <1>11, <1>12, <1>13 DEF Next

\* The invariant holds at every state.
LEMMA SupervisorInvAlways == Spec => []SupervisorInv
BY SupervisorInitInv, SupervisorStepInv, PTL DEF Spec

\* A second click finds the running launcher: no launcher that stops, and no
\* later owner, takes its file away (check_existing_instance, stop).
THEOREM RunningAlwaysFound == Spec => []RunningIsFound
<1>1. SupervisorInv => RunningIsFound
  BY DEF SupervisorInv, PublishedIsNamed, Published, RunningIsFound
<1> QED
  BY <1>1, SupervisorInvAlways, PTL

\* The file names the owner or a dead process.
LEMMA ExistingIsOwner == SupervisorInv /\ ~Reuse /\ ExistingInstance => lock # None
<1> SUFFICES ASSUME SupervisorInv, ~Reuse, ExistingInstance
             PROVE  lock # None
  OBVIOUS
<1>1. instance.pid \in Procs
  BY InstanceTyped DEF SupervisorInv, ExistingInstance
<1>2. at[instance.pid] \in Owning
  BY DEF SupervisorInv, NamedIsOwner, ExistingInstance, Alive, Published, Owning
<1> QED
  BY <1>1, <1>2, NoneIsNoProc DEF SupervisorInv, LockOfOwner

\* Without reuse of pids a launcher opens the dashboard of another only while
\* one holds the account (check_existing_instance, AccountLock.acquire).
THEOREM OpenedAlwaysOwned == ASSUME ~Reuse PROVE Spec => OpenedIsOwned
<1>1. SupervisorInv /\ [Next]_vars
        => [\A p \in Procs : at[p] # "opened" /\ at'[p] = "opened" => lock # None]_vars
  <2> SUFFICES ASSUME SupervisorInv, Next, NEW q \in Procs, at[q] # "opened", at'[q] = "opened"
               PROVE  lock # None
    OBVIOUS
  <2> USE DEF SupervisorInv, LauncherTyped, Goes
  <2>1. ASSUME NEW p \in Procs, Check(p) \/ Acquire(p)
        PROVE  lock # None
    BY <2>1, ExistingIsOwner DEF Check, Acquire
  <2>2. ASSUME NEW p \in Procs,
               \/ AdvanceEpoch(p) \/ Publish(p) \/ SpawnApi(p) \/ StopChildren(p) \/ Unlink(p)
               \/ Release(p) \/ Ends(p) \/ ApiEnds(p) \/ PidReused(p)
        PROVE  at'[q] # "opened"
    BY <2>2 DEF AdvanceEpoch, Publish, SpawnApi, StopChildren, Unlink, Release, Ends, ApiEnds,
      PidReused
  <2>3. ASSUME PowerLoss
        PROVE  at'[q] # "opened"
    BY <2>3 DEF PowerLoss
  <2> QED
    BY <2>1, <2>2, <2>3 DEF Next
<1> QED
  BY <1>1, SupervisorInvAlways, PTL DEF Spec, OpenedIsOwned

-----------------------------------------------------------------------------
\* Without a loss of power the file holds the highest epoch ever granted.
EpochKept == losses = 0 /\ epoch = top

\* Only an owner writes the epoch, and then also the highest one.
LEMMA EpochAlwaysKept == ASSUME MaxLosses = 0 PROVE Spec => [](SupervisorInv /\ EpochKept)
<1>1. Init => EpochKept
  BY DEF Init, EpochKept
<1>2. SupervisorInv /\ EpochKept /\ [Next]_vars => EpochKept'
  BY DEF SupervisorInv, LauncherTyped, EpochKept, Next, vars, Check, Acquire, AdvanceEpoch, NextEpoch,
    Publish, SpawnApi, StopChildren, Unlink, Release, Ends, ApiEnds, PidReused, PowerLoss
<1> QED
  BY <1>1, <1>2, SupervisorInvAlways, PTL DEF Spec

\* Without a loss of power every owner has a higher epoch than all owners
\* before it, however many crash (AccountLock._advance_epoch).
THEOREM EpochsAlwaysIncrease == ASSUME MaxLosses = 0 PROVE Spec => EpochsIncrease
<1>1. SupervisorInv /\ EpochKept /\ [Next]_vars
        => [\A p \in Procs : granted'[p] # granted[p] => granted'[p] > top]_vars
  <2> SUFFICES ASSUME SupervisorInv, EpochKept, Next, NEW q \in Procs, granted'[q] # granted[q]
               PROVE  granted'[q] > top
    OBVIOUS
  <2>1. PICK p \in Procs : AdvanceEpoch(p)
    BY DEF Next, Check, Acquire, Publish, SpawnApi, StopChildren, Unlink, Release, Ends, ApiEnds,
      PidReused, PowerLoss
  <2> QED
    BY <2>1 DEF AdvanceEpoch, NextEpoch, SupervisorInv, LauncherTyped, EpochKept
<1> QED
  BY <1>1, EpochAlwaysKept, PTL DEF Spec, EpochsIncrease
-----------------------------------------------------------------------------
(* PurgedWalkForward and LabelBuilder.                                     *)

TimesAscend(t) == t \in Seq(Nat) /\ \A k \in 2 .. Len(t) : t[k - 1] <= t[k]

\* Sums of gaps are times in order.
LEMMA SumsAscend ==
  ASSUME NEW n \in Nat, NEW gaps \in [1 .. n -> Nat]
  PROVE  TimesAscend([k \in 1 .. n |-> SumTo(gaps, k)])
<1>1. PICK T \in SUBSET Nat : T = {k \in Nat : k <= n /\ SumTo(gaps, k) \notin Nat}
  OBVIOUS
<1>2. ASSUME T # {} PROVE FALSE
  <2>1. PICK k \in T : \A j \in T : k <= j
    BY <1>2, LeastOfNumbers
  <2>2. k # 0
    BY <1>1, <2>1, SumToParts
  <2>3. k - 1 \in Nat /\ k - 1 \notin T /\ k - 1 <= n /\ k \in 1 .. n
    BY <1>1, <2>1, <2>2
  <2>4. SumTo(gaps, k - 1) \in Nat /\ gaps[k] \in Nat
    BY <1>1, <2>3
  <2>5. SumTo(gaps, k) = SumTo(gaps, k - 1) + gaps[k]
    BY <2>2, SumToParts
  <2> QED
    BY <1>1, <2>1, <2>4, <2>5
<1>3. \A k \in 0 .. n : SumTo(gaps, k) \in Nat
  BY <1>1, <1>2
<1>4. PICK t : t = [k \in 1 .. n |-> SumTo(gaps, k)]
  OBVIOUS
<1>5. t \in Seq(Nat) /\ Len(t) = n
  BY <1>3, <1>4
<1>6. ASSUME NEW k \in 2 .. n PROVE t[k - 1] <= t[k]
  <2>1. k \in Nat /\ k # 0 /\ k \in 1 .. n /\ k - 1 \in 1 .. n /\ k - 1 \in 0 .. n
    OBVIOUS
  <2>2. SumTo(gaps, k) = SumTo(gaps, k - 1) + gaps[k]
    BY <2>1, SumToParts
  <2>3. SumTo(gaps, k - 1) \in Nat /\ gaps[k] \in Nat
    BY <1>3, <2>1
  <2> QED
    BY <1>4, <2>1, <2>2, <2>3
<1> QED
  BY <1>4, <1>5, <1>6 DEF TimesAscend

\* Among numbers that are bounded there is a greatest.
LEMMA GreatestOfBounded ==
  ASSUME NEW S \in SUBSET Nat, S # {}, NEW bound \in Nat, \A q \in S : q <= bound
  PROVE  Max(S) \in S /\ \A q \in S : q <= Max(S)
<1>1. PICK T \in SUBSET Nat : T = {x \in Nat : \A q \in S : q <= x}
  OBVIOUS
<1>2. bound \in T
  BY <1>1
<1>3. PICK x \in T : \A y \in T : x <= y
  BY <1>2, LeastOfNumbers
<1>4. x \in S
  <2>1. SUFFICES ASSUME x \notin S PROVE FALSE
    OBVIOUS
  <2>2. PICK q \in S : TRUE
    OBVIOUS
  <2>3. q <= x /\ q # x
    BY <1>1, <1>3, <2>1
  <2>4. x - 1 \in Nat
    BY <2>3
  <2>5. \A p \in S : p <= x - 1
    <3>1. SUFFICES ASSUME NEW p \in S PROVE p <= x - 1
      OBVIOUS
    <3>2. p \in Nat /\ p <= x /\ p # x
      BY <1>1, <1>3, <2>1
    <3> QED
      BY <3>2
  <2>6. x - 1 \in T
    BY <1>1, <2>4, <2>5
  <2> QED
    BY <1>3, <2>4, <2>6
<1>5. \E m \in S : \A q \in S : m >= q
  BY <1>1, <1>3, <1>4
<1>6. Max(S) \in S /\ \A q \in S : Max(S) >= q
  BY <1>5 DEF Max
<1> QED
  BY <1>6

\* The quotes a label may be made from.
Usable(time) == {q \in quotes : q <= time /\ time - q <= Staleness}

\* get_price_at returns the last of them, if there is any.
LEMMA QuoteIsLast ==
  ASSUME quotes \in SUBSET Nat, NEW target \in Nat
  PROVE  /\ QuoteAt(target) \in Int
         /\ QuoteAt(target) = -1 => Usable(target) = {}
         /\ QuoteAt(target) # -1 => /\ QuoteAt(target) \in Usable(target)
                                    /\ \A q \in Usable(target) : q <= QuoteAt(target)
<1>1. PICK B : B = {q \in quotes : q <= target}
  OBVIOUS
<1>2. QuoteAt(target) = IF B = {} \/ target - Max(B) > Staleness THEN -1 ELSE Max(B)
  BY <1>1 DEF QuoteAt
<1>3. Staleness \in Nat
  BY WalkForwardAssumption
<1>4. CASE B = {}
  <2>1. QuoteAt(target) = -1
    BY <1>2, <1>4
  <2>2. Usable(target) = {}
    BY <1>1, <1>4 DEF Usable
  <2> QED
    BY <2>1, <2>2
<1>5. CASE B # {}
  <2>1. B \in SUBSET Nat /\ \A q \in B : q <= target
    BY <1>1
  <2>2. Max(B) \in B /\ \A q \in B : q <= Max(B)
    BY <1>5, <2>1, GreatestOfBounded
  <2>3. PICK m \in Nat : m = Max(B) /\ m \in quotes /\ m <= target /\ \A q \in B : q <= m
    BY <1>1, <2>2
  <2>4. CASE target - m > Staleness
    <3>1. ASSUME NEW q \in Usable(target) PROVE FALSE
      <4>1. q \in Nat /\ q \in B /\ target - q <= Staleness
        BY <1>1 DEF Usable
      <4>2. q <= m
        BY <2>3, <4>1
      <4> QED
        BY <1>3, <2>4, <4>1, <4>2
    <3>2. QuoteAt(target) = -1
      BY <1>2, <2>3, <2>4
    <3> QED
      BY <3>1, <3>2
  <2>5. CASE ~(target - m > Staleness)
    <3>1. QuoteAt(target) = m
      BY <1>2, <1>5, <2>3, <2>5
    <3>2. m \in Usable(target)
      BY <1>3, <2>3, <2>5 DEF Usable
    <3>3. \A q \in Usable(target) : q <= m
      BY <1>1, <2>3 DEF Usable
    <3>4. m # -1 /\ m \in Int
      OBVIOUS
    <3> QED
      BY <3>1, <3>2, <3>3, <3>4
  <2> QED
    BY <2>4, <2>5
<1> QED
  BY <1>4, <1>5

\* The times of a row's label are those of quotes, and the row is dropped when
\* there is none for one of them.
LEMMA LabelledSound ==
  ASSUME quotes \in SUBSET Nat, spec \in [horizon : Nat, uncertainty : Nat], NEW t \in Nat
  PROVE  LET r == Labelled(t)
         IN  /\ r \in Row /\ r.decision = t
             /\ ~r.dropped => /\ r.entry \in Usable(r.decision + Latency)
                              /\ r.exit \in Usable(r.decision + spec.horizon)
                              /\ \A q \in Usable(r.decision + spec.horizon) : q <= r.exit
             /\ r.dropped => \/ Usable(r.decision + Latency) = {}
                             \/ Usable(r.decision + spec.horizon) = {}
<1>1. PICK a, b : a = QuoteAt(t + Latency) /\ b = QuoteAt(t + spec.horizon)
  OBVIOUS
<1>2. t + Latency \in Nat /\ t + spec.horizon \in Nat
  BY WalkForwardAssumption
<1>0. PICK d \in BOOLEAN : d = (a = -1 \/ b = -1)
  BY Zenon
<1>3. Labelled(t) = [decision |-> t, entry |-> a, exit |-> b, dropped |-> d]
  BY <1>0, <1>1 DEF Labelled
<1>4. a \in Int /\ (a = -1 => Usable(t + Latency) = {}) /\ (a # -1 => a \in Usable(t + Latency))
  BY <1>1, <1>2, QuoteIsLast
<1>5. /\ b \in Int /\ (b = -1 => Usable(t + spec.horizon) = {})
      /\ b # -1 => /\ b \in Usable(t + spec.horizon)
                   /\ \A q \in Usable(t + spec.horizon) : q <= b
  BY <1>1, <1>2, QuoteIsLast
<1>6. PICK r : r = Labelled(t)
  OBVIOUS
<1>7. r.decision = t /\ r.entry = a /\ r.exit = b /\ r.dropped = d /\ r \in Row
  BY <1>0, <1>3, <1>4, <1>5, <1>6 DEF Row
<1> QED
  BY <1>0, <1>4, <1>5, <1>6, <1>7

\* Every row is labelled as its decision is.
RowsLabelled == rows = [k \in DOMAIN times |-> Labelled(times[k])]

LEMMA LabelledFromTheirTime ==
  ASSUME TimesAscend(times), quotes \in SUBSET Nat,
         spec \in [horizon : Nat, uncertainty : Nat], RowsLabelled
  PROVE  LabelsFromTheirTime
<1>1. SUFFICES ASSUME NEW k \in DOMAIN rows, NEW r, r = rows[k]
               PROVE  /\ ~r.dropped => /\ r.entry \in Usable(r.decision + Latency)
                                       /\ r.exit \in Usable(r.decision + spec.horizon)
                                       /\ \A q \in Usable(r.decision + spec.horizon) : q <= r.exit
                      /\ r.dropped => \/ Usable(r.decision + Latency) = {}
                                      \/ Usable(r.decision + spec.horizon) = {}
  BY DEF LabelsFromTheirTime, Usable
<1>2. k \in DOMAIN times /\ times[k] \in Nat /\ r = Labelled(times[k])
  BY <1>1 DEF RowsLabelled, TimesAscend
<1> QED
  BY <1>2, LabelledSound

Ascends(s) == \A i, j \in DOMAIN s : i <= j => s[i].decision <= s[j].decision

\* A row that is not before any of the others may follow them.
LEMMA AscendsFurther ==
  ASSUME NEW s \in Seq(Row), Ascends(s), NEW r \in Row,
         \A i \in DOMAIN s : s[i].decision <= r.decision
  PROVE  /\ Append(s, r) \in Seq(Row) /\ Ascends(Append(s, r))
         /\ \A i \in DOMAIN Append(s, r) : Append(s, r)[i].decision <= r.decision
<1>1. PICK e : e = Append(s, r)
  OBVIOUS
<1>2. e \in Seq(Row) /\ Len(e) = Len(s) + 1 /\ e[Len(s) + 1] = r
      /\ \A i \in 1 .. Len(s) : e[i] = s[i]
  BY <1>1
<1>3. r.decision \in Nat /\ DOMAIN s = 1 .. Len(s) /\ DOMAIN e = 1 .. Len(s) + 1 /\ Len(s) \in Nat
  BY <1>2 DEF Row
<1>4. ASSUME NEW i \in DOMAIN e PROVE e[i].decision <= r.decision
  <2>1. CASE i = Len(s) + 1
    BY <1>2, <1>3, <2>1
  <2>2. CASE i # Len(s) + 1
    <3>1. i \in DOMAIN s
      BY <1>3, <2>2
    <3> QED
      BY <1>2, <1>3, <3>1
  <2> QED
    BY <2>1, <2>2
<1>5. ASSUME NEW i \in DOMAIN e, NEW j \in DOMAIN e, i <= j PROVE e[i].decision <= e[j].decision
  <2>1. CASE j = Len(s) + 1
    BY <1>2, <1>4, <2>1
  <2>2. CASE j # Len(s) + 1
    <3>1. i \in 1 .. Len(s) /\ j \in 1 .. Len(s)
      BY <1>3, <1>5, <2>2
    <3> QED
      BY <1>2, <1>3, <1>5, <3>1 DEF Ascends
  <2> QED
    BY <2>1, <2>2
<1> QED
  BY <1>1, <1>2, <1>4, <1>5 DEF Ascends

\* The rows that are kept ascend as the decisions do: after so many rows they
\* are none of them after the last.
LEMMA KeptAscend ==
  ASSUME TimesAscend(times), quotes \in SUBSET Nat,
         spec \in [horizon : Nat, uncertainty : Nat], RowsLabelled
  PROVE  ValidRows \in Seq(Row) /\ Ascends(ValidRows)
<1>1. PICK n \in Nat : n = Len(times) /\ DOMAIN times = 1 .. n /\ DOMAIN rows = 1 .. n /\ Len(rows) = n
  BY DEF TimesAscend, RowsLabelled
<1>2. ASSUME NEW k \in 1 .. n PROVE times[k] \in Nat /\ rows[k] \in Row /\ rows[k].decision = times[k]
  <2>1. times[k] \in Nat /\ rows[k] = Labelled(times[k])
    BY <1>1 DEF TimesAscend, RowsLabelled
  <2> QED
    BY <2>1, LabelledSound
<1>3. PICK g : g = [k \in DOMAIN rows |->
                      [kept \in Seq(Row) |-> IF rows[k].dropped THEN kept ELSE Append(kept, rows[k])]]
  OBVIOUS
<1>4. PICK J : J = [k \in Nat |-> {s \in Seq(Row) : /\ Ascends(s)
                                                    /\ \A i \in DOMAIN s : k # 0 /\ s[i].decision <= times[k]}]
  OBVIOUS
<1>5. <<>> \in J[0]
  BY <1>4 DEF Ascends
<1>6. ASSUME NEW k \in 1 .. n, NEW y \in J[k - 1] PROVE g[k][y] \in J[k]
  <2>1. k \in Nat /\ k - 1 \in Nat /\ k # 0
    OBVIOUS
  <2>2. /\ y \in Seq(Row) /\ Ascends(y)
        /\ \A i \in DOMAIN y : k - 1 # 0 /\ y[i].decision <= times[k - 1]
    BY <1>4, <1>6, <2>1
  <2>3. ASSUME NEW i \in DOMAIN y PROVE y[i].decision <= times[k]
    <3>1. k - 1 # 0 /\ y[i].decision <= times[k - 1] /\ y[i] \in Row
      BY <2>2
    <3>2. k \in 2 .. n /\ k - 1 \in 1 .. n
      BY <3>1
    <3>3. times[k - 1] <= times[k]
      BY <1>1, <3>2 DEF TimesAscend
    <3>4. y[i].decision \in Nat /\ times[k - 1] \in Nat /\ times[k] \in Nat
      BY <1>2, <3>1, <3>2 DEF Row
    <3> QED
      BY <3>1, <3>3, <3>4
  <2>4. g[k][y] = IF rows[k].dropped THEN y ELSE Append(y, rows[k])
    BY <1>1, <1>3, <2>2
  <2>5. PICK e : e = Append(y, rows[k])
    OBVIOUS
  <2>6. e \in Seq(Row) /\ Ascends(e) /\ \A i \in DOMAIN e : e[i].decision <= times[k]
    <3>1. rows[k] \in Row /\ rows[k].decision = times[k]
      BY <1>2
    <3> QED
      BY <2>2, <2>3, <2>5, <3>1, AscendsFurther
  <2>7. y \in J[k] /\ e \in J[k]
    BY <1>4, <2>1, <2>2, <2>3, <2>6
  <2> QED
    BY <2>4, <2>5, <2>7
<1>7. n \in 0 .. n
  OBVIOUS
<1>8. InTurn(g, <<>>, n) \in J[n]
  BY <1>5, <1>6, <1>7, InTurnLeads
<1>9. ValidRows = InTurn(g, <<>>, n)
  BY <1>1, <1>3 DEF ValidRows
<1> QED
  BY <1>4, <1>8, <1>9

\* The segments of validation, from a[i] through b[i], follow one another up to
\* dev.
Segments(a, b, dev) ==
  /\ dev \in Nat /\ a \in [1 .. FoldCount -> Nat] /\ b \in [1 .. FoldCount -> Nat]
  /\ \A i \in 1 .. FoldCount : 0 < a[i] /\ a[i] <= b[i] /\ b[i] <= dev
  /\ \A i, j \in 1 .. FoldCount : i < j => b[i] < a[j]
  /\ \A i \in 1 .. FoldCount : i < FoldCount => b[i] + 1 = a[i + 1]
  /\ b[FoldCount] = dev

\* A row from the first one of a segment on is in that one or a later one.
LEMMA SegmentsCover ==
  ASSUME NEW a, NEW b, NEW dev, Segments(a, b, dev), NEW i \in 1 .. FoldCount,
         NEW x \in a[i] .. dev
  PROVE  \E j \in i .. FoldCount : x \in a[j] .. b[j]
<1>0. FoldCount \in Nat \ {0}
  BY WalkForwardAssumption
<1>1. i \in Nat /\ a[i] \in Nat /\ x \in Nat /\ a[i] <= x /\ x <= dev
  BY DEF Segments
<1>2. PICK T \in SUBSET Nat : T = {j \in i .. FoldCount : x <= b[j]}
  <2>1. {j \in i .. FoldCount : x <= b[j]} \in SUBSET Nat
    BY <1>0, <1>1
  <2> QED
    BY <2>1
<1>3. FoldCount \in T
  BY <1>0, <1>1, <1>2 DEF Segments
<1>4. PICK j \in T : \A k \in T : j <= k
  BY <1>3, LeastOfNumbers
<1>5. j \in i .. FoldCount /\ x <= b[j] /\ j \in 1 .. FoldCount /\ a[j] \in Nat /\ b[j] \in Nat
  BY <1>0, <1>1, <1>2, <1>4 DEF Segments
<1>6. a[j] <= x
  <2>1. CASE j = i
    BY <1>1, <2>1
  <2>2. CASE j # i
    <3>1. PICK k \in 1 .. FoldCount : k = j - 1 /\ k \in i .. FoldCount /\ k < j /\ k < FoldCount
                                      /\ j = k + 1
      BY <1>0, <1>1, <1>5, <2>2
    <3>2. k \notin T
      BY <1>4, <3>1
    <3>3. ~(x <= b[k])
      BY <1>2, <3>1, <3>2
    <3>4. b[k] + 1 = a[j] /\ b[k] \in Nat
      BY <3>1 DEF Segments
    <3> QED
      BY <1>1, <1>5, <3>3, <3>4
  <2> QED
    BY <2>1, <2>2
<1> QED
  BY <1>1, <1>5, <1>6

\* Products of numbers are numbers, and ascend.
LEMMA ProductsAscend ==
  ASSUME NEW x \in Nat, NEW y \in Nat, NEW z \in Nat
  PROVE  x * z \in Nat /\ (x <= y => x * z <= y * z)
<1>1. x * z \in Nat
  OBVIOUS
<1>2. ASSUME x <= y PROVE x * z <= y * z
  <2>1. PICK d \in Nat : y = x + d
    <3>1. y - x \in Nat /\ y = x + (y - x)
      BY <1>2
    <3> QED
      BY <3>1
  <2>2. y * z = x * z + d * z /\ d * z \in Nat
    BY <2>1
  <2> QED
    BY <1>1, <2>2
<1> QED
  BY <1>1, <1>2

\* What division leaves out.
LEMMA Divided ==
  ASSUME NEW m \in Nat, NEW d \in Nat \ {0}
  PROVE  m \div d \in Nat /\ d * (m \div d) <= m /\ (d <= m => m \div d # 0)
<1>1. m \div d \in Int /\ m % d \in 0 .. d - 1 /\ m = d * (m \div d) + (m % d)
  OBVIOUS
<1> QED
  BY <1>1

\* How many rows are for development, how many come before the first segment,
\* and how many a segment has.
LEMMA SizesFit ==
  ASSUME NEW n \in Nat, NEW dev, dev = (4 * n) \div 5, NEW half, half = dev \div 2,
         NEW first, first = IF half = 0 THEN 1 ELSE half,
         NEW size, size = (dev - first) \div FoldCount,
         ~(dev < FoldCount + 2), ~(dev - first < FoldCount)
  PROVE  /\ dev \in Nat /\ dev <= n
         /\ first \in Nat \ {0} /\ size \in Nat \ {0} /\ first + FoldCount * size <= dev
<1>0. FoldCount \in Nat \ {0}
  BY WalkForwardAssumption
<1>1. dev \in Nat /\ dev <= n
  OBVIOUS
<1>2. half \in Nat
  BY <1>1
<1>3. first \in Nat \ {0}
  BY <1>2
<1>4. PICK m \in Nat : m = dev - first /\ FoldCount <= m
  <2>1. PICK m : m = dev - first
    OBVIOUS
  <2>2. m \in Int /\ ~(m < FoldCount)
    BY <1>1, <1>3, <2>1
  <2>3. m \in Nat /\ FoldCount <= m
    BY <1>0, <2>2
  <2> QED
    BY <2>1, <2>3
<1>5. size \in Nat /\ FoldCount * size <= m /\ size # 0
  BY <1>0, <1>4, Divided
<1>6. FoldCount * size \in Nat
  BY <1>0, <1>5
<1> QED
  BY <1>1, <1>3, <1>4, <1>5, <1>6

\* What split makes of segments of the same size behind the first rows.
LEMMA EqualSegments ==
  ASSUME NEW dev \in Nat, NEW first \in Nat \ {0}, NEW size \in Nat \ {0},
         first + FoldCount * size <= dev,
         NEW a, a = [i \in 1 .. FoldCount |-> StartOfValidation(first, size, i)],
         NEW b, b = [i \in 1 .. FoldCount |-> IF i < FoldCount THEN a[i] + size - 1 ELSE dev]
  PROVE  Segments(a, b, dev)
<1>0. FoldCount \in Nat \ {0}
  BY WalkForwardAssumption
<1>1. PICK p : p = [i \in 1 .. FoldCount |-> (i - 1) * size]
  OBVIOUS
<1>2. ASSUME NEW i \in 1 .. FoldCount
      PROVE  p[i] \in Nat /\ p[i] + size = i * size /\ a[i] = first + p[i] + 1
  <2>1. i \in Nat /\ i - 1 \in Nat
    OBVIOUS
  <2>2. (i - 1) * size \in Nat /\ (i - 1) * size + size = i * size
    BY <2>1, ProductsAscend
  <2>3. a[i] = first + (i - 1) * size + 1
    BY DEF StartOfValidation
  <2> QED
    BY <1>1, <2>2, <2>3
<1>3. ASSUME NEW i \in 1 .. FoldCount, NEW j \in 1 .. FoldCount, i < j PROVE p[i] + size <= p[j]
  <2>1. i \in Nat /\ j - 1 \in Nat /\ i <= j - 1
    BY <1>3
  <2>2. i * size <= (j - 1) * size
    BY <2>1, ProductsAscend
  <2> QED
    BY <1>1, <1>2, <2>2
<1>4. p[FoldCount] \in Nat /\ first + p[FoldCount] + size <= dev
  <2>1. FoldCount \in 1 .. FoldCount
    BY <1>0
  <2>2. PICK q : q = FoldCount * size
    OBVIOUS
  <2>3. first + q <= dev /\ p[FoldCount] + size = q /\ p[FoldCount] \in Nat
    BY <1>2, <2>1, <2>2
  <2> QED
    BY <2>3
<1>5. ASSUME NEW i \in 1 .. FoldCount, i < FoldCount
      PROVE  /\ b[i] = first + p[i] + size /\ first + p[i] + size <= dev
             /\ a[i + 1] = b[i] + 1
  <2>1. b[i] = first + p[i] + 1 + size - 1
    BY <1>2, <1>5
  <2>2. p[i] + size <= p[FoldCount]
    BY <1>0, <1>3, <1>5
  <2>3. i + 1 \in 1 .. FoldCount /\ i \in Nat
    BY <1>0, <1>5
  <2>4. p[i + 1] = p[i] + size
    <3>1. p[i + 1] = ((i + 1) - 1) * size /\ (i + 1) - 1 = i
      BY <1>1, <2>3
    <3> QED
      BY <1>2, <3>1
  <2>5. a[i + 1] = first + p[i + 1] + 1
    BY <1>2, <2>3
  <2>6. PICK x, y : x = p[i] /\ y = p[FoldCount]
    OBVIOUS
  <2>7. x \in Nat /\ y \in Nat /\ x + size <= y /\ first + y + size <= dev
    BY <1>2, <1>4, <2>2, <2>6
  <2>8. b[i] = first + x + size
    <3>1. b[i] = first + x + 1 + size - 1
      BY <2>1, <2>6
    <3>2. first + x + 1 + size - 1 = first + x + size
      BY <2>7
    <3> QED
      BY <3>1, <3>2
  <2>9. a[i + 1] = first + (x + size) + 1
    BY <2>4, <2>5, <2>6
  <2>10. first + x + size <= dev /\ first + (x + size) + 1 = (first + x + size) + 1
    BY <2>7
  <2> QED
    BY <2>6, <2>8, <2>9, <2>10
<1>6. ASSUME NEW i \in 1 .. FoldCount, i = FoldCount PROVE b[i] = dev /\ a[i] <= dev
  <2>1. b[i] = dev
    BY <1>0, <1>6
  <2>2. a[i] = first + p[FoldCount] + 1
    BY <1>2, <1>6
  <2> QED
    BY <1>4, <2>1, <2>2
<1>7. ASSUME NEW i \in 1 .. FoldCount
      PROVE  a[i] \in Nat /\ b[i] \in Nat /\ 0 < a[i] /\ a[i] <= b[i] /\ b[i] <= dev
  <2>1. p[i] \in Nat /\ a[i] = first + p[i] + 1
    BY <1>2
  <2>2. CASE i < FoldCount
    BY <1>5, <2>1, <2>2
  <2>3. CASE i = FoldCount
    BY <1>6, <2>1, <2>3
  <2> QED
    BY <1>0, <2>2, <2>3
<1>8. ASSUME NEW i \in 1 .. FoldCount, NEW j \in 1 .. FoldCount, i < j PROVE b[i] < a[j]
  <2>1. i < FoldCount
    BY <1>0, <1>8
  <2>2. b[i] = first + p[i] + size /\ p[i] + size <= p[j] /\ a[j] = first + p[j] + 1
    BY <1>2, <1>3, <1>5, <1>8, <2>1
  <2>3. PICK x, y : x = p[i] /\ y = p[j]
    OBVIOUS
  <2>4. x \in Nat /\ y \in Nat /\ x + size <= y /\ b[i] = first + x + size /\ a[j] = first + y + 1
    BY <1>2, <2>2, <2>3
  <2>5. first + x + size < first + y + 1
    BY <2>4
  <2> QED
    BY <2>4, <2>5
<1>9. a \in [1 .. FoldCount -> Nat] /\ b \in [1 .. FoldCount -> Nat]
  BY <1>7
<1>10. b[FoldCount] = dev
  BY <1>0, <1>6
<1> QED
  BY <1>5, <1>7, <1>8, <1>9, <1>10 DEF Segments

\* What the folds of rows at the times r are: their validation is a segment, and
\* what comes before it is trained on, or purged.
FoldsShaped(f, r, a, b, dev) ==
  /\ Segments(a, b, dev) /\ dev <= Len(r)
  /\ DOMAIN f = 1 .. FoldCount /\ Len(f) = FoldCount
  /\ \A i \in 1 .. FoldCount :
       /\ f[i].val = a[i] .. b[i] /\ f[i].holdout = dev + 1 .. Len(r)
       /\ f[i].train \union f[i].purged = 1 .. a[i] - 1
       /\ \A j \in f[i].train : j \in 1 .. a[i] - 1 /\ Kept(r[j], r[a[i]])

LEMMA FoldsHaveShape ==
  ASSUME NEW r \in Seq(Nat), FoldsOf(r) # <<>>
  PROVE  \E a, b, dev : FoldsShaped(FoldsOf(r), r, a, b, dev)
<1>0. FoldCount \in Nat \ {0}
  BY WalkForwardAssumption
<1>1. PICK dev, half : dev = (4 * Len(r)) \div 5 /\ half = dev \div 2
  OBVIOUS
<1>2. PICK first : first = IF half = 0 THEN 1 ELSE half
  OBVIOUS
<1>3. PICK size : size = (dev - first) \div FoldCount
  OBVIOUS
<1>4. PICK f : f = FoldsOf(r)
  OBVIOUS
<1>5. /\ ~(dev < FoldCount + 2) /\ ~(dev - first < FoldCount)
      /\ f = [i \in 1 .. FoldCount |-> FoldOf(r, dev, i)]
  <2>1. f = IF dev < FoldCount + 2 \/ dev - first < FoldCount THEN <<>>
            ELSE [i \in 1 .. FoldCount |-> FoldOf(r, dev, i)]
    BY <1>1, <1>2, <1>4 DEF FoldsOf
  <2> QED
    BY <1>4, <2>1
<1>6. Len(r) \in Nat
  OBVIOUS
<1>7. /\ dev \in Nat /\ dev <= Len(r)
      /\ first \in Nat \ {0} /\ size \in Nat \ {0} /\ first + FoldCount * size <= dev
  BY <1>1, <1>2, <1>3, <1>5, <1>6, SizesFit
<1>8. PICK a : a = [i \in 1 .. FoldCount |-> StartOfValidation(first, size, i)]
  OBVIOUS
<1>9. PICK b : b = [i \in 1 .. FoldCount |-> IF i < FoldCount THEN a[i] + size - 1 ELSE dev]
  OBVIOUS
<1>10. Segments(a, b, dev)
  BY <1>7, <1>8, <1>9, EqualSegments
<1>11. ASSUME NEW i \in 1 .. FoldCount
       PROVE  /\ f[i].val = a[i] .. b[i] /\ f[i].holdout = dev + 1 .. Len(r)
              /\ f[i].train \union f[i].purged = 1 .. a[i] - 1
              /\ \A j \in f[i].train : j \in 1 .. a[i] - 1 /\ Kept(r[j], r[a[i]])
  <2>1. PICK earlier : earlier = 1 .. first + (i - 1) * size
    OBVIOUS
  <2>2. f[i] = [train   |-> {j \in earlier : Kept(r[j], r[a[i]])},
                purged  |-> {j \in earlier : ~Kept(r[j], r[a[i]])},
                val     |-> a[i] .. b[i],
                holdout |-> dev + 1 .. Len(r),
                start   |-> r[a[i]]]
    BY <1>1, <1>2, <1>3, <1>5, <1>8, <1>9, <2>1 DEF FoldOf
  <2>3. earlier = 1 .. a[i] - 1
    <3>1. PICK q \in Nat : q = (i - 1) * size
      <4>1. i - 1 \in Nat
        OBVIOUS
      <4> QED
        BY <1>7, <4>1, ProductsAscend
    <3>2. a[i] = first + q + 1 /\ earlier = 1 .. first + q
      BY <1>8, <2>1, <3>1 DEF StartOfValidation
    <3>3. a[i] - 1 = first + q
      BY <1>7, <3>1, <3>2
    <3> QED
      BY <3>2, <3>3
  <2> QED
    BY <2>2, <2>3
<1>12. DOMAIN f = 1 .. FoldCount /\ Len(f) = FoldCount
  <2>1. DOMAIN f = 1 .. FoldCount /\ f \in [1 .. FoldCount -> {f[i] : i \in DOMAIN f}]
    BY <1>5
  <2> QED
    BY <1>0, <2>1
<1>13. FoldsShaped(f, r, a, b, dev)
  BY <1>7, <1>10, <1>11, <1>12 DEF FoldsShaped
<1> QED
  BY <1>4, <1>13

\* The times of the rows that are kept.
Decisions == [k \in DOMAIN ValidRows |-> ValidRows[k].decision]

LEMMA DecisionsAscend ==
  ASSUME ValidRows \in Seq(Row), Ascends(ValidRows)
  PROVE  /\ Decisions \in Seq(Nat) /\ Len(Decisions) = Len(ValidRows)
         /\ DOMAIN ValidRows = 1 .. Len(Decisions) /\ Len(Decisions) \in Nat
         /\ \A i \in DOMAIN ValidRows : Decisions[i] = ValidRows[i].decision /\ Decisions[i] \in Nat
         /\ \A i, j \in DOMAIN ValidRows : i <= j => Decisions[i] <= Decisions[j]
<1>1. PICK v \in Seq(Row) : v = ValidRows
  OBVIOUS
<1>2. PICK d : d = Decisions
  OBVIOUS
<1>3. d = [k \in DOMAIN v |-> v[k].decision] /\ DOMAIN v = 1 .. Len(v) /\ Len(v) \in Nat
  BY <1>1, <1>2 DEF Decisions
<1>4. ASSUME NEW k \in DOMAIN v PROVE d[k] = v[k].decision /\ d[k] \in Nat
  <2>1. v[k] \in Row
    BY <1>3
  <2> QED
    BY <1>3, <2>1 DEF Row
<1>5. d \in Seq(Nat) /\ Len(d) = Len(v)
  <2>1. d \in [1 .. Len(v) -> Nat]
    BY <1>3, <1>4
  <2> QED
    BY <1>3, <2>1
<1> QED
  BY <1>1, <1>2, <1>3, <1>4, <1>5 DEF Ascends

\* What a training row knows ends before the first row of validation is decided,
\* and the rows of validation ascend.
LEMMA ShapeKeepsApart ==
  ASSUME ValidRows \in Seq(Row), Ascends(ValidRows), spec \in [horizon : Nat, uncertainty : Nat],
         NEW a, NEW b, NEW dev, FoldsShaped(folds, Decisions, a, b, dev)
  PROVE  NoLabelReachesValidation
<1>1. SUFFICES ASSUME NEW i \in 1 .. FoldCount, NEW j \in folds[i].train, NEW k \in folds[i].val
               PROVE  ValidRows[j].decision + spec.horizon + spec.uncertainty < ValidRows[k].decision
  BY DEF NoLabelReachesValidation, FoldsShaped
<1>2. PICK n \in Nat : n = Len(Decisions) /\ DOMAIN ValidRows = 1 .. n
  BY DecisionsAscend
<1>3. j \in 1 .. a[i] - 1 /\ k \in a[i] .. b[i] /\ Kept(Decisions[j], Decisions[a[i]])
  BY DEF FoldsShaped
<1>4. a[i] \in Nat /\ 0 < a[i] /\ a[i] <= b[i] /\ b[i] <= dev /\ dev <= n /\ b[i] \in Nat /\ dev \in Nat
  BY <1>2 DEF FoldsShaped, Segments
<1>5. j \in 1 .. n /\ a[i] \in 1 .. n /\ k \in 1 .. n /\ a[i] <= k
  <2>1. PICK from, to : from = a[i] /\ to = b[i]
    OBVIOUS
  <2>2. /\ from \in Nat /\ to \in Nat /\ 0 < from /\ from <= to /\ to <= n
        /\ j \in 1 .. from - 1 /\ k \in from .. to
    BY <1>3, <1>4, <2>1
  <2>3. j \in 1 .. n /\ from \in 1 .. n /\ k \in 1 .. n /\ from <= k
    BY <2>2
  <2> QED
    BY <2>1, <2>3
<1>6. PICK x, y, z : x = Decisions[j] /\ y = Decisions[a[i]] /\ z = Decisions[k]
  OBVIOUS
<1>7. /\ x \in Nat /\ y \in Nat /\ z \in Nat /\ y <= z
      /\ x = ValidRows[j].decision /\ z = ValidRows[k].decision
  BY <1>2, <1>5, <1>6, DecisionsAscend
<1>8. PICK h, u : h = spec.horizon /\ u = spec.uncertainty /\ h \in Nat /\ u \in Nat
  OBVIOUS
<1>9. x < y - (h + u)
  BY <1>3, <1>6, <1>8 DEF Kept
<1>10. x + h + u < z
  <2>1. x \in Nat /\ y \in Nat /\ z \in Nat /\ y <= z /\ h \in Nat /\ u \in Nat
    BY <1>7, <1>8
  <2>2. PICK w \in Nat : w = x + h + u
    BY <2>1
  <2>3. w < y
    BY <1>9, <2>1, <2>2
  <2>4. w < z
    BY <2>1, <2>3
  <2> QED
    BY <2>2, <2>4
<1> QED
  BY <1>7, <1>8, <1>10

\* The segments tile the rows.
LEMMA ShapeTiles ==
  ASSUME ValidRows \in Seq(Row), Ascends(ValidRows),
         NEW a, NEW b, NEW dev, FoldsShaped(folds, Decisions, a, b, dev)
  PROVE  SegmentsTile
<1>0. FoldCount \in Nat \ {0}
  BY WalkForwardAssumption
<1>1. PICK n \in Nat : n = Len(Decisions) /\ AllRows = 1 .. n
  BY DecisionsAscend DEF AllRows
<1>2. /\ Segments(a, b, dev) /\ dev \in Nat /\ dev <= n
      /\ DOMAIN folds = 1 .. FoldCount /\ Len(folds) = FoldCount
  BY <1>1 DEF FoldsShaped, Segments
<1>3. ASSUME NEW i \in 1 .. FoldCount
      PROVE  /\ folds[i].val = a[i] .. b[i] /\ folds[i].holdout = dev + 1 .. n
             /\ folds[i].train \union folds[i].purged = 1 .. a[i] - 1
             /\ folds[i].train \subseteq 1 .. a[i] - 1
             /\ a[i] \in Nat /\ b[i] \in Nat /\ 0 < a[i] /\ a[i] <= b[i] /\ b[i] <= dev
  BY <1>1 DEF FoldsShaped, Segments
<1>4. ASSUME NEW i \in 1 .. FoldCount, NEW j \in 1 .. FoldCount, i # j
      PROVE  folds[i].val \cap folds[j].val = {}
  <2>1. b[i] < a[j] \/ b[j] < a[i]
    BY <1>2, <1>4 DEF Segments
  <2>2. /\ a[i] \in Nat /\ b[i] \in Nat /\ a[j] \in Nat /\ b[j] \in Nat
        /\ folds[i].val = a[i] .. b[i] /\ folds[j].val = a[j] .. b[j]
    BY <1>3
  <2>3. (a[i] .. b[i]) \cap (a[j] .. b[j]) = {}
    BY <2>1, <2>2
  <2> QED
    BY <2>2, <2>3
<1>5. ASSUME NEW i \in 1 .. FoldCount
      PROVE  UNION {folds[j].val : j \in i .. FoldCount} = a[i] .. dev
  <2>1. ASSUME NEW j \in i .. FoldCount, NEW x \in folds[j].val PROVE x \in a[i] .. dev
    <3>1. j \in 1 .. FoldCount
      BY <1>0
    <3>2. x \in a[j] .. b[j] /\ a[j] \in Nat /\ b[j] \in Nat /\ b[j] <= dev /\ a[i] \in Nat
      BY <1>3, <3>1
    <3>3. a[i] <= a[j]
      <4>1. CASE i = j
        BY <3>2, <4>1
      <4>2. CASE i # j
        <5>1. i < j
          BY <4>2
        <5>2. b[i] < a[j] /\ a[i] <= b[i] /\ b[i] \in Nat
          BY <1>2, <1>3, <3>1, <5>1 DEF Segments
        <5> QED
          BY <3>2, <5>2
      <4> QED
        BY <4>1, <4>2
    <3> QED
      BY <1>2, <3>2, <3>3
  <2>2. ASSUME NEW x \in a[i] .. dev PROVE \E j \in i .. FoldCount : x \in folds[j].val
    <3>1. PICK j \in i .. FoldCount : x \in a[j] .. b[j]
      BY <1>2, SegmentsCover
    <3>2. j \in 1 .. FoldCount
      BY <1>0
    <3> QED
      BY <1>3, <3>1, <3>2
  <2> QED
    BY <2>1, <2>2
<1>6. ASSUME NEW i \in 1 .. FoldCount
      PROVE  /\ folds[i].val # {}
             /\ \A x \in folds[i].train \union folds[i].purged, y \in folds[i].val : x < y
             /\ (folds[i].train \union folds[i].val) \cap folds[i].holdout = {}
             /\ folds[i].train \union folds[i].purged
                  = AllRows \ (folds[i].holdout
                               \union UNION {folds[j].val : j \in i .. Len(folds)})
  <2>1. a[i] \in folds[i].val
    BY <1>3
  <2>2. ASSUME NEW x \in folds[i].train \union folds[i].purged, NEW y \in folds[i].val PROVE x < y
    <3>1. x \in 1 .. a[i] - 1 /\ y \in a[i] .. b[i]
      BY <1>3
    <3> QED
      BY <1>3, <3>1
  <2>3. (folds[i].train \union folds[i].val) \cap folds[i].holdout = {}
    <3>1. ASSUME NEW x \in folds[i].train \union folds[i].val PROVE x \notin folds[i].holdout
      <4>1. x \in 1 .. a[i] - 1 \/ x \in a[i] .. b[i]
        BY <1>3
      <4>2. x \in Nat /\ x <= dev
        BY <1>2, <1>3, <4>1
      <4> QED
        BY <1>2, <1>3, <4>2
    <3> QED
      BY <3>1
  <2>4. UNION {folds[j].val : j \in i .. Len(folds)} = a[i] .. dev
    BY <1>2, <1>5
  <2>5. 1 .. a[i] - 1 = (1 .. n) \ ((dev + 1 .. n) \union (a[i] .. dev))
    <3>1. a[i] \in Nat /\ a[i] <= dev /\ 0 < a[i]
      BY <1>2, <1>3
    <3> QED
      BY <1>2, <3>1
  <2>6. folds[i].train \union folds[i].purged
          = AllRows \ (folds[i].holdout \union UNION {folds[j].val : j \in i .. Len(folds)})
    BY <1>1, <1>3, <2>4, <2>5
  <2> QED
    BY <2>1, <2>2, <2>3, <2>6
<1>7. AllRows = folds[1].train \union folds[1].purged
                  \union (UNION {folds[i].val : i \in DOMAIN folds}) \union folds[1].holdout
  <2>1. 1 \in 1 .. FoldCount
    BY <1>0
  <2>2. UNION {folds[i].val : i \in DOMAIN folds} = a[1] .. dev
    BY <1>2, <1>5, <2>1
  <2>3. folds[1].train \union folds[1].purged = 1 .. a[1] - 1 /\ folds[1].holdout = dev + 1 .. n
    BY <1>3, <2>1
  <2>4. a[1] \in Nat /\ 0 < a[1] /\ a[1] <= dev
    BY <1>2, <1>3, <2>1
  <2>5. 1 .. n = (1 .. a[1] - 1) \union (a[1] .. dev) \union (dev + 1 .. n)
    BY <1>2, <2>4
  <2> QED
    BY <1>1, <2>2, <2>3, <2>5
<1>8. PICK seen : seen = UNION {folds[i].val : i \in DOMAIN folds}
  OBVIOUS
<1>9. AllRows = folds[1].train \union folds[1].purged \union seen \union folds[1].holdout
  BY <1>7, <1>8
<1> QED
  BY <1>2, <1>4, <1>6, <1>8, <1>9, Zenon DEF SegmentsTile

\* Labels are made once, of the times as they are, and folds once, of the rows
\* that were kept.
FoldInv ==
  /\ TimesAscend(times) /\ quotes \in SUBSET Nat /\ spec \in [horizon : Nat, uncertainty : Nat]
  /\ rows = <<>> \/ RowsLabelled
  /\ folds = <<>> \/ (rows # <<>> /\ folds = FoldsOf(Decisions))

LEMMA FoldInvApart == ASSUME FoldInv PROVE FoldsApart
<1>1. CASE rows = <<>>
  <2>1. folds = <<>>
    BY <1>1 DEF FoldInv
  <2> QED
    BY <1>1, <2>1 DEF FoldsApart, NoLabelReachesValidation, SegmentsTile, LabelsFromTheirTime
<1>2. CASE rows # <<>>
  <2>1. RowsLabelled
    BY <1>2 DEF FoldInv
  <2>2. LabelsFromTheirTime
    BY <2>1, LabelledFromTheirTime DEF FoldInv
  <2>3. ValidRows \in Seq(Row) /\ Ascends(ValidRows)
    BY <2>1, KeptAscend DEF FoldInv
  <2>4. CASE folds = <<>>
    BY <2>2, <2>4 DEF FoldsApart, NoLabelReachesValidation, SegmentsTile
  <2>5. CASE folds # <<>>
    <3>1. folds = FoldsOf(Decisions) /\ Decisions \in Seq(Nat)
      BY <2>3, <2>5, DecisionsAscend DEF FoldInv
    <3>2. PICK a, b, dev : FoldsShaped(folds, Decisions, a, b, dev)
      BY <2>5, <3>1, FoldsHaveShape
    <3>3. NoLabelReachesValidation /\ SegmentsTile
      BY <2>3, <3>2, ShapeKeepsApart, ShapeTiles DEF FoldInv
    <3> QED
      BY <2>2, <3>3 DEF FoldsApart
  <2> QED
    BY <2>4, <2>5
<1> QED
  BY <1>1, <1>2

\* The times are sums of gaps, and the quotes are at some of the instants up to
\* the last horizon.
LEMMA FoldInvInit == ASSUME WalkForwardInit PROVE FoldInv
<1>0. PICK n \in Counts :
        \E gaps \in [1 .. n -> Gaps] : times = [k \in 1 .. n |-> SumTo(gaps, k)]
  BY DEF WalkForwardInit
<1>1. PICK gaps \in [1 .. n -> Gaps] : times = [k \in 1 .. n |-> SumTo(gaps, k)]
  BY <1>0
<1>2. n \in Nat \ {0} /\ gaps \in [1 .. n -> Nat]
  BY <1>1, WalkForwardAssumption
<1>3. TimesAscend(times)
  BY <1>1, <1>2, SumsAscend
<1>4. spec \in [horizon : Nat, uncertainty : Nat]
  BY WalkForwardAssumption DEF WalkForwardInit
<1>5. Last(times) \in Nat
  <2>1. times \in Seq(Nat) /\ DOMAIN times = 1 .. n /\ Len(times) = n
    BY <1>1, <1>2, <1>3 DEF TimesAscend
  <2>2. n \in DOMAIN times
    BY <1>2, <2>1
  <2> QED
    BY <2>1, <2>2 DEF Last
<1>6. quotes \in SUBSET Nat
  <2>1. PICK to : to = Last(times) + spec.horizon
    OBVIOUS
  <2>2. to \in Nat
    BY <1>4, <1>5, <2>1
  <2>3. quotes \subseteq 0 .. to
    BY <2>1 DEF WalkForwardInit
  <2> QED
    BY <2>2, <2>3
<1>7. rows = <<>> /\ folds = <<>>
  BY DEF WalkForwardInit
<1> QED
  BY <1>3, <1>4, <1>6, <1>7 DEF FoldInv

LEMMA FoldInvStep ==
  ASSUME FoldInv, [WalkForwardNext]_walkForwardVars
  PROVE  FoldInv'
<1>1. /\ UNCHANGED <<times, quotes, spec>>
      /\ TimesAscend(times') /\ (quotes \in SUBSET Nat)' /\ (spec \in [horizon : Nat, uncertainty : Nat])'
  BY DEF WalkForwardNext, walkForwardVars, Label, Split, TrainLightgbm, TrainLogistic, FoldInv
<1>2. CASE Label
  <2>1. rows = <<>> /\ folds = <<>> /\ UNCHANGED folds
    BY <1>2 DEF Label, FoldInv
  <2>2. ASSUME NEW t PROVE Labelled(t)' = Labelled(t)
    BY <1>1 DEF Labelled, QuoteAt
  <2>3. RowsLabelled'
    BY <1>1, <1>2, <2>2 DEF Label, RowsLabelled
  <2> QED
    BY <1>1, <2>1, <2>3 DEF FoldInv
<1>3. CASE UNCHANGED rows
  <2>1. ValidRows' = ValidRows
    BY <1>3 DEF ValidRows
  <2>2. Decisions' = Decisions
    BY <2>1 DEF Decisions
  <2>3. FoldsOf(Decisions)' = FoldsOf(Decisions)
    BY <1>1, <2>2 DEF FoldsOf, FoldOf, Kept
  <2>4. (rows = <<>> \/ RowsLabelled)'
    <3>1. ASSUME NEW t PROVE Labelled(t)' = Labelled(t)
      BY <1>1 DEF Labelled, QuoteAt
    <3> QED
      BY <1>1, <1>3, <3>1 DEF FoldInv, RowsLabelled
  <2>5. CASE UNCHANGED folds
    BY <1>1, <1>3, <2>3, <2>4, <2>5 DEF FoldInv
  <2>6. CASE Split
    BY <1>1, <1>3, <2>3, <2>4, <2>6 DEF FoldInv, Split, Decisions
  <2> QED
    BY <1>3, <2>5, <2>6
       DEF WalkForwardNext, walkForwardVars, Label, TrainLightgbm, TrainLogistic
<1> QED
  BY <1>2, <1>3 DEF WalkForwardNext, walkForwardVars, Split, TrainLightgbm, TrainLogistic

\* No label of a training row reaches validation, segments tile the rows, and
\* labels are made from quotes of their time: for any number of rows, gaps
\* between decisions, missing quotes, horizon, uncertainty and number of folds
\* (PurgedWalkForward.split, LabelBuilder.build).
THEOREM FoldsAlwaysApart == WalkForwardSpec => []FoldsApart
<1>1. WalkForwardInit => FoldInv
  BY FoldInvInit
<1>2. FoldInv /\ [WalkForwardNext]_walkForwardVars => FoldInv'
  BY FoldInvStep
<1>3. FoldInv => FoldsApart
  BY FoldInvApart
<1> QED
  BY <1>1, <1>2, <1>3, PTL DEF WalkForwardSpec
-----------------------------------------------------------------------------
(* BookBuilder.                                                            *)

Sides == [bids : SUBSET Ticks, asks : SUBSET Ticks]
FeedStates == {"EMPTY", "SYNCING", "VALID", "INVALID", "STALE"}

\* A delta that is lost shows: numbers have no gap, or a delta names the version
\* it follows.
GapsShow == Contract = "contiguous" \/ (Contract = "monotonic" /\ NamesPrior)

FeedTyped ==
  /\ \E n \in Nat \ {0} : truth \in [1 .. n -> Books]
  /\ offset \in [1 .. MaxSyncs -> Nat]
  /\ serving \in 1 .. MaxSyncs /\ conn \in 0 .. serving /\ validity \in 0 .. MaxSyncs
  /\ state \in FeedStates /\ levels \in Sides /\ sequence \in Nat \union {Nil}

\* What is shown is what the builder holds, and the number and the message it
\* remembers are those of that version.
ShownFollows ==
  /\ shown # Nil <=> state = "VALID"
  /\ state = "EMPTY" <=> conn = 0
  /\ state = "VALID" =>
       /\ shown \in View /\ shown.version \in Versions /\ shown.conn = conn
       /\ shown.book = truth[shown.version] /\ levels = shown.book
       /\ sequence = Number(conn, shown.version)
       /\ \E kind : latest = Message(conn, shown.version, kind)

FeedInv == FeedTyped /\ ShownFollows

\* A delta makes of a book the one after it.
LEMMA MergedIsNext ==
  ASSUME NEW b \in Sides, NEW c \in Sides
  PROVE  Merged(b, Minus(c, b), Minus(b, c)) = c
<1>1. Merged(b, Minus(c, b), Minus(b, c))
        = [bids |-> (b.bids \union (c.bids \ b.bids)) \ (b.bids \ c.bids),
           asks |-> (b.asks \union (c.asks \ b.asks)) \ (b.asks \ c.asks)]
  BY DEF Merged, Minus
<1>2. /\ (b.bids \union (c.bids \ b.bids)) \ (b.bids \ c.bids) = c.bids
      /\ (b.asks \union (c.asks \ b.asks)) \ (b.asks \ c.asks) = c.asks
  OBVIOUS
<1>3. c = [bids |-> c.bids, asks |-> c.asks]
  BY DEF Sides
<1> QED
  BY <1>1, <1>2, <1>3

\* The versions are numbered from one.
LEMMA VersionsCounted ==
  ASSUME FeedTyped
  PROVE  /\ Now \in Nat \ {0} /\ Versions = 1 .. Now /\ truth \in [1 .. Now -> Books]
<1>1. PICK n \in Nat \ {0} : truth \in [1 .. n -> Books]
  BY DEF FeedTyped
<1>2. Versions = 1 .. n
  BY <1>1 DEF Versions
<1>3. Cardinality(1 .. n) = n
  <2>1. 1 \in Int /\ n \in Int
    OBVIOUS
  <2>2. Cardinality(1 .. n) = IF 1 > n THEN 0 ELSE n - 1 + 1
    BY <2>1, FS_Interval
  <2> QED
    BY <1>1, <2>2
<1> QED
  BY <1>1, <1>2, <1>3 DEF Now

\* The book a message leads to is the one of its version.
LEMMA RebuiltIsVersion ==
  ASSUME FeedInv, GapsShow, NEW v \in Versions, NEW kind \in {"snapshot", "delta"},
         conn # 0, OfConnection(conn, v, kind),
         kind = "delta" => /\ state = "VALID" /\ ~Repeated(conn, v, kind) /\ InOrder(conn, v, kind)
  PROVE  Rebuilt(kind, v) = truth[v] /\ truth[v] \in Books /\ Number(conn, v) \in Nat
<1>1. /\ Now \in Nat \ {0} /\ Versions = 1 .. Now /\ truth \in [1 .. Now -> Books] /\ v \in 1 .. Now
  BY VersionsCounted DEF FeedInv
<1>2. conn \in 1 .. MaxSyncs /\ offset[conn] \in Nat
  BY BookFeedAssumption DEF FeedInv, FeedTyped
<1>3. Number(conn, v) \in Nat
  BY <1>1, <1>2 DEF OfConnection, Number
<1>4. CASE kind = "snapshot"
  BY <1>1, <1>3, <1>4 DEF Rebuilt, Content
<1>5. CASE kind = "delta"
  <2>1. PICK s : s = shown.version
    OBVIOUS
  <2>2. s \in 1 .. Now /\ levels = truth[s] /\ sequence = Number(conn, s)
    BY <1>1, <1>5, <2>1 DEF FeedInv, ShownFollows
  <2>3. PICK o \in Nat : o = offset[conn]
    BY <1>2
  <2>4. sequence = s - o /\ sequence # Nil
    <3>1. s - o \in Int
      BY <2>2, <2>3
    <3> QED
      BY <2>2, <2>3, <3>1, BookFeedAssumption DEF Number
  <2>5. v - 1 = s
    <3>1. InOrder(conn, v, kind)
      BY <1>5
    <3>2. CASE Contract = "contiguous"
      <4>1. v - o = sequence + 1
        BY <1>5, <2>3, <2>4, <3>1, <3>2 DEF InOrder, Number
      <4> QED
        BY <1>1, <2>2, <2>4, <4>1
    <3>3. CASE Contract = "monotonic" /\ NamesPrior
      <4>1. (v - 1) - o = sequence
        BY <1>5, <2>3, <2>4, <3>1, <3>3 DEF InOrder, Number
      <4> QED
        BY <1>1, <2>2, <2>4, <4>1
    <3> QED
      BY <3>2, <3>3 DEF GapsShow
  <2>6. truth[v] \in Sides /\ truth[s] \in Sides
    BY <1>1, <2>2 DEF Books, Sides
  <2>7. Merged(truth[s], Minus(truth[v], truth[s]), Minus(truth[s], truth[v])) = truth[v]
    BY <2>6, MergedIsNext
  <2> QED
    BY <1>1, <1>3, <1>5, <2>2, <2>5, <2>7 DEF Rebuilt
<1> QED
  BY <1>4, <1>5

\* What applying a message does: nothing, the book is withdrawn, or it is shown.
LEMMA ApplyParts ==
  ASSUME FeedInv, GapsShow, NEW v \in Versions, NEW kind \in {"snapshot", "delta"},
         NEW receipt \in BOOLEAN, conn # 0, OfConnection(conn, v, kind),
         ApplyMessage(conn, v, kind, receipt)
  PROVE  \/ Ignored
         \/ Invalid("INVALID")
         \/ /\ state' = "VALID" /\ levels' = truth[v] /\ sequence' = Number(conn, v)
            /\ latest' = Message(conn, v, kind)
            /\ shown' = [book |-> truth[v], version |-> v, conn |-> conn]
            /\ UNCHANGED <<conn, validity>>
            /\ truth[v] \in Books /\ Number(conn, v) \in Nat
            /\ state \in {"SYNCING", "VALID"}
            /\ state = "SYNCING" => kind = "snapshot"
            /\ state = "VALID" => v >= shown.version
<1>1. CASE state \in {"INVALID", "STALE"} \/ (Repeated(conn, v, kind) /\ (receipt \/ kind = "delta"))
  BY <1>1 DEF ApplyMessage
<1>2. CASE /\ ~(state \in {"INVALID", "STALE"}
                  \/ (Repeated(conn, v, kind) /\ (receipt \/ kind = "delta")))
           /\ \/ kind = "delta" /\ state # "VALID"
              \/ ~Repeated(conn, v, kind) /\ ~InOrder(conn, v, kind)
              \/ ~Sound(Rebuilt(kind, v))
  BY <1>2 DEF ApplyMessage
<1>3. CASE /\ ~(state \in {"INVALID", "STALE"}
                  \/ (Repeated(conn, v, kind) /\ (receipt \/ kind = "delta")))
           /\ ~(\/ kind = "delta" /\ state # "VALID"
                \/ ~Repeated(conn, v, kind) /\ ~InOrder(conn, v, kind)
                \/ ~Sound(Rebuilt(kind, v)))
  <2>1. /\ levels' = Rebuilt(kind, v) /\ sequence' = Number(conn, v)
        /\ latest' = Message(conn, v, kind) /\ state' = "VALID"
        /\ shown' = [book |-> Rebuilt(kind, v), version |-> v, conn |-> conn]
        /\ UNCHANGED <<conn, validity>>
    BY <1>3 DEF ApplyMessage
  <2>2. kind = "delta" => state = "VALID" /\ ~Repeated(conn, v, kind) /\ InOrder(conn, v, kind)
    BY <1>3
  <2>3. Rebuilt(kind, v) = truth[v] /\ truth[v] \in Books /\ Number(conn, v) \in Nat
    BY <2>2, RebuiltIsVersion
  <2>4. state \in {"SYNCING", "VALID"}
    BY <1>3 DEF FeedInv, FeedTyped, ShownFollows, FeedStates
  <2>5. ASSUME state = "VALID" PROVE v >= shown.version
    <3>1. PICK s : s = shown.version
      OBVIOUS
    <3>2. s \in 1 .. Now /\ v \in 1 .. Now /\ Now \in Nat
      BY <2>5, <3>1, VersionsCounted DEF FeedInv, ShownFollows
    <3>3. CASE Repeated(conn, v, kind)
      <4>1. PICK k : latest = Message(conn, s, k)
        BY <2>5, <3>1 DEF FeedInv, ShownFollows
      <4>2. v = s
        BY <3>3, <4>1 DEF Repeated, Message
      <4> QED
        BY <3>1, <3>2, <4>2
    <3>4. CASE ~Repeated(conn, v, kind)
      <4>1. PICK o \in Nat : o = offset[conn]
        BY BookFeedAssumption DEF FeedInv, FeedTyped
      <4>2. sequence = s - o /\ s - o \in Int
        BY <2>5, <3>1, <3>2, <4>1 DEF FeedInv, ShownFollows, Number
      <4>3. v - o > sequence
        BY <1>3, <3>4, <4>1, <4>2, BookFeedAssumption DEF InOrder, Number, GapsShow
      <4> QED
        BY <3>1, <3>2, <4>2, <4>3
    <3> QED
      BY <3>3, <3>4
  <2> QED
    BY <2>1, <2>2, <2>3, <2>4, <2>5
<1> QED
  BY <1>1, <1>2, <1>3

LEMMA FeedInvInit == ASSUME BookFeedInit PROVE FeedInv
<1>1. PICK b \in Books : truth = [i \in 1 .. 1 |-> b]
  BY DEF BookFeedInit
<1>2. \E n \in Nat \ {0} : truth \in [1 .. n -> Books]
  BY <1>1
<1>3. NoBook \in Sides
  BY DEF NoBook, Sides
<1> QED
  BY <1>2, <1>3, BookFeedAssumption DEF BookFeedInit, FeedInv, FeedTyped, ShownFollows, FeedStates

\* What is withdrawn is not shown.
LEMMA InvalidKeeps ==
  ASSUME FeedInv, conn # 0, NEW how \in {"INVALID", "STALE"}, Invalid(how),
         UNCHANGED <<truth, offset, serving>>
  PROVE  FeedInv'
  BY DEF FeedInv, FeedTyped, ShownFollows, Invalid, FeedStates

LEMMA IgnoredKeeps ==
  ASSUME FeedInv, Ignored, UNCHANGED <<truth, offset, serving>>
  PROVE  FeedInv'
  BY DEF FeedInv, FeedTyped, ShownFollows, Ignored, View, Number, Message, Versions

LEMMA ReceiveKeeps == ASSUME FeedInv, GapsShow, Receive PROVE FeedInv'
<1>1. PICK c \in 1 .. serving, v \in Versions, kind \in {"snapshot", "delta"}, receipt \in BOOLEAN :
        /\ OfConnection(c, v, kind)
        /\ \/ conn = c /\ ApplyMessage(c, v, kind, receipt)
           \/ conn # 0 /\ conn # c /\ Ignored
        /\ UNCHANGED <<truth, offset, serving>>
  BY DEF Receive
<1>2. CASE Ignored
  BY <1>1, <1>2, IgnoredKeeps
<1>3. CASE conn = c /\ ApplyMessage(c, v, kind, receipt) /\ ~Ignored
  <2>1. conn # 0
    BY <1>3 DEF FeedInv, FeedTyped
  <2>2. CASE Invalid("INVALID")
    BY <1>1, <2>1, <2>2, InvalidKeeps
  <2>3. CASE ~Invalid("INVALID")
    <3>1. /\ state' = "VALID" /\ levels' = truth[v] /\ sequence' = Number(conn, v)
          /\ latest' = Message(conn, v, kind)
          /\ shown' = [book |-> truth[v], version |-> v, conn |-> conn]
          /\ UNCHANGED <<conn, validity>>
          /\ truth[v] \in Books /\ Number(conn, v) \in Nat
      BY <1>1, <1>3, <2>1, <2>3, ApplyParts
    <3>2. v \in Nat /\ conn \in Nat /\ truth[v] \in Sides
      <4>1. v \in 1 .. Now /\ Now \in Nat
        BY VersionsCounted DEF FeedInv
      <4> QED
        BY <3>1, <4>1 DEF FeedInv, FeedTyped, Books, Sides
    <3>3. shown' \in View /\ shown' # Nil
      BY <3>1, <3>2, BookFeedAssumption DEF View
    <3>4. Versions' = Versions /\ Number(conn, v)' = Number(conn, v)
          /\ Message(conn, v, kind)' = Message(conn, v, kind)
      BY <1>1, <3>1 DEF Versions, Number, Message
    <3>5. FeedTyped'
      BY <1>1, <3>1, <3>2 DEF FeedInv, FeedTyped, FeedStates
    <3>6. shown'.version = v /\ shown'.conn = conn /\ shown'.book = truth[v]
      BY <3>1
    <3>7. ShownFollows'
      BY <1>1, <2>1, <3>1, <3>3, <3>4, <3>6 DEF ShownFollows, Number, Message
    <3> QED
      BY <3>5, <3>7 DEF FeedInv
  <2> QED
    BY <2>2, <2>3
<1> QED
  BY <1>1, <1>2, <1>3

LEMMA ResyncKeeps == ASSUME FeedInv, Resync PROVE FeedInv'
<1>1. PICK c \in 1 .. serving : c >= conn /\ BeginSync(c)
  BY DEF Resync
<1>2. /\ conn' = c /\ sequence' = (IF c = conn THEN sequence ELSE Nil)
      /\ levels' = NoBook /\ validity' = validity + 1
      /\ state' = "SYNCING" /\ shown' = Nil
      /\ UNCHANGED <<truth, offset, serving>> /\ validity < MaxSyncs
  BY <1>1 DEF BeginSync, Resync
<1>3. NoBook \in Sides
  BY DEF NoBook, Sides
<1>4. validity' \in 0 .. MaxSyncs /\ conn' \in 0 .. serving /\ conn' # 0
  BY <1>1, <1>2, BookFeedAssumption DEF FeedInv, FeedTyped
<1> QED
  BY <1>2, <1>3, <1>4 DEF FeedInv, FeedTyped, ShownFollows, FeedStates

LEMMA VenueConnectsKeeps == ASSUME FeedInv, VenueConnects PROVE FeedInv'
<1>1. /\ serving < MaxSyncs /\ serving' = serving + 1
      /\ offset' = [offset EXCEPT ![serving + 1] = IF Restarts THEN Now - 1 ELSE 0]
      /\ UNCHANGED <<truth, state, levels, shown, conn, sequence, latest, validity>>
  BY DEF VenueConnects
<1>2. Now \in Nat \ {0}
  BY VersionsCounted DEF FeedInv
<1>3. offset' \in [1 .. MaxSyncs -> Nat] /\ serving' \in 1 .. MaxSyncs /\ conn' \in 0 .. serving'
  BY <1>1, <1>2, BookFeedAssumption DEF FeedInv, FeedTyped
<1>4. conn \in 1 .. serving => offset'[conn] = offset[conn]
  BY <1>1, BookFeedAssumption DEF FeedInv, FeedTyped
<1>5. FeedTyped'
  BY <1>1, <1>3 DEF FeedInv, FeedTyped
<1>6. state = "VALID" => conn \in 1 .. serving
  BY DEF FeedInv, FeedTyped, ShownFollows
<1>7. ShownFollows'
  BY <1>1, <1>4, <1>6 DEF FeedInv, ShownFollows, Versions, Number, Message
<1> QED
  BY <1>5, <1>7 DEF FeedInv

LEMMA VenueMovesKeeps == ASSUME FeedInv, VenueMoves PROVE FeedInv'
<1>1. PICK b \in Books : truth' = [i \in 1 .. Now + 1 |-> IF i = Now + 1 THEN b ELSE truth[i]]
  BY DEF VenueMoves
<1>2. UNCHANGED <<offset, state, levels, shown, conn, sequence, latest, validity, serving>>
  BY DEF VenueMoves
<1>3. Now \in Nat \ {0} /\ Versions = 1 .. Now /\ truth \in [1 .. Now -> Books]
  BY VersionsCounted DEF FeedInv
<1>4. PICK n : n = Now
  OBVIOUS
<1>5. n + 1 \in Nat \ {0} /\ truth' \in [1 .. n + 1 -> Books]
      /\ \A i \in 1 .. n : truth'[i] = truth[i]
  BY <1>1, <1>3, <1>4
<1>6. FeedTyped'
  BY <1>2, <1>5 DEF FeedInv, FeedTyped
<1>7. \A i \in Versions : i \in Versions' /\ truth'[i] = truth[i]
  BY <1>3, <1>4, <1>5 DEF Versions
<1>8. ShownFollows'
  BY <1>2, <1>7 DEF FeedInv, ShownFollows, Number, Message
<1> QED
  BY <1>6, <1>8 DEF FeedInv

LEMMA FeedInvStep ==
  ASSUME FeedInv, GapsShow, [BookFeedNext]_bookFeedVars
  PROVE  FeedInv'
<1>1. CASE Receive
  BY <1>1, ReceiveKeeps
<1>2. CASE Discontinuity
  BY <1>2, InvalidKeeps DEF Discontinuity
<1>3. CASE GoesStale
  <2>1. conn # 0
    BY <1>3 DEF GoesStale, FeedInv, ShownFollows
  <2> QED
    BY <1>3, <2>1, InvalidKeeps DEF GoesStale
<1>4. CASE Resync
  BY <1>4, ResyncKeeps
<1>5. CASE VenueConnects
  BY <1>5, VenueConnectsKeeps
<1>6. CASE VenueMoves
  BY <1>6, VenueMovesKeeps
<1>7. CASE UNCHANGED bookFeedVars
  <2>1. Ignored /\ UNCHANGED <<truth, offset, serving>>
    BY <1>7 DEF bookFeedVars, Ignored
  <2> QED
    BY <2>1, IgnoredKeeps
<1> QED
  BY <1>1, <1>2, <1>3, <1>4, <1>5, <1>6, <1>7 DEF BookFeedNext

\* A step that shows a book shows it in the order of its connection, and after
\* it was withdrawn only what a snapshot says.
LEMMA FeedStepsSound ==
  ASSUME FeedInv, GapsShow, [BookFeedNext]_bookFeedVars
  PROVE  [NeverOlder /\ BackBySnapshot]_bookFeedVars
<1>1. CASE Receive
  <2>1. PICK c \in 1 .. serving, v \in Versions, kind \in {"snapshot", "delta"}, receipt \in BOOLEAN :
          /\ OfConnection(c, v, kind)
          /\ \/ conn = c /\ ApplyMessage(c, v, kind, receipt)
             \/ conn # 0 /\ conn # c /\ Ignored
          /\ UNCHANGED <<truth, offset, serving>>
    BY <1>1 DEF Receive
  <2>2. v \in Nat /\ (state = "VALID" => shown.version \in Nat)
    BY VersionsCounted DEF FeedInv, ShownFollows
  <2>3. CASE Ignored
    BY <2>2, <2>3 DEF Ignored, NeverOlder, BackBySnapshot, FeedInv, ShownFollows
  <2>4. CASE conn = c /\ ApplyMessage(c, v, kind, receipt) /\ ~Ignored
    <3>1. conn # 0
      BY <2>4 DEF FeedInv, FeedTyped
    <3>2. CASE Invalid("INVALID")
      BY <3>2 DEF Invalid, NeverOlder, BackBySnapshot
    <3>3. CASE ~Invalid("INVALID")
      <4>1. /\ shown' = [book |-> truth[v], version |-> v, conn |-> conn]
            /\ state \in {"SYNCING", "VALID"}
            /\ state = "VALID" => v >= shown.version
        BY <2>1, <2>4, <3>1, <3>3, ApplyParts
      <4>2. shown'.version = v /\ shown'.book = truth[v] /\ truth' = truth
        BY <2>1, <4>1
      <4>3. NeverOlder
        BY <4>1, <4>2 DEF NeverOlder, FeedInv, ShownFollows
      <4>4. BackBySnapshot
        BY <4>1, <4>2 DEF BackBySnapshot, FeedInv, ShownFollows
      <4> QED
        BY <4>3, <4>4
    <3> QED
      BY <3>2, <3>3
  <2> QED
    BY <2>1, <2>3, <2>4
<1>2. CASE Discontinuity \/ GoesStale \/ Resync
  BY <1>2 DEF Discontinuity, GoesStale, Resync, Invalid, BeginSync, NeverOlder, BackBySnapshot
<1>3. CASE VenueConnects \/ VenueMoves
  <2>1. shown' = shown
    BY <1>3 DEF VenueConnects, VenueMoves
  <2>2. state = "VALID" => shown.version \in Nat
    BY VersionsCounted DEF FeedInv, ShownFollows
  <2> QED
    BY <2>1, <2>2 DEF NeverOlder, BackBySnapshot, FeedInv, ShownFollows
<1> QED
  BY <1>1, <1>2, <1>3 DEF BookFeedNext

LEMMA FeedInvSound == ASSUME FeedInv PROVE BookFeedTypeOK /\ ShownIsVenueBook
<1>1. truth \in [1 .. Now -> Books]
  BY VersionsCounted DEF FeedInv
<1>2. shown # Nil => shown.book \in Books
  BY DEF FeedInv, ShownFollows, View
<1>3. conn \in 0 .. MaxSyncs
  BY BookFeedAssumption DEF FeedInv, FeedTyped
<1>4. BookFeedTypeOK
  BY <1>1, <1>2, <1>3 DEF BookFeedTypeOK, FeedInv, FeedTyped, FeedStates, Sides
<1>5. ShownIsVenueBook
  BY DEF ShownIsVenueBook, FeedInv, ShownFollows
<1> QED
  BY <1>4, <1>5

\* Whatever is lost, doubled, reordered or late across reconnects, the book shown
\* is one the venue had, it never goes back within a connection, and comes back
\* from a snapshot only, where a lost delta shows in the numbers or in the version
\* it names (BookBuilder.apply).
THEOREM MarketDataAlwaysSound == ASSUME GapsShow PROVE BookFeedSpec => MarketDataSound
<1>1. BookFeedInit => FeedInv
  BY FeedInvInit
<1>2. FeedInv /\ [BookFeedNext]_bookFeedVars => FeedInv'
  BY FeedInvStep
<1>3. FeedInv => BookFeedTypeOK /\ ShownIsVenueBook
  BY FeedInvSound
<1>4. FeedInv /\ [BookFeedNext]_bookFeedVars => [NeverOlder /\ BackBySnapshot]_bookFeedVars
  BY FeedStepsSound
<1> QED
  BY <1>1, <1>2, <1>3, <1>4, PTL DEF BookFeedSpec, MarketDataSound
=============================================================================

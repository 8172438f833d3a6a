---------------------------- MODULE Trading_proofs ----------------------------
(***************************************************************************)
(* What is proved of the components around the order desk, for every value *)
(* of their constants: the requests and writes of the venue session, the   *)
(* command inbox of the API, the flatten workflow, the recovery cursor and *)
(* what a convergence covers, the portfolio ledger and the live runner.    *)
(* Each is proved of its own specification.                                *)
(***************************************************************************)
EXTENDS VenueSession, CommandInbox, Recovery, Emergency, Ledger, LiveRunner, SequenceTheorems,
        FiniteSetTheorems, WellFoundedInduction, TLAPS

-----------------------------------------------------------------------------
(* The venue session: a socket carries one request, and a write leaves     *)
(* only in the session it was prepared in, on a profile of that session.   *)
(* The first holds since whoever takes a socket off the transport either   *)
(* writes on it or closes it; the second since a session is connected only *)
(* between reads.                                                          *)

SessionTyped ==
  /\ seconds \in 0 .. MaxSeconds
  /\ opened \in 0 .. MaxSocket /\ socket \in 0 .. opened
  /\ closed \subseteq 1 .. opened /\ written \in [Task -> SUBSET (1 .. opened)]
  /\ task \in [Task -> TaskState]
  /\ epoch \in 0 .. MaxEpoch /\ ready \in BOOLEAN /\ profile \in Unread .. MaxEpoch

\* A read answers in the session it began in.
ReadsInSession == task["get"].pc # "idle" => task["get"].epoch = epoch

\* The profile is of this session, or was read before the first.
ProfileOfSession == profile = Unread \/ profile = epoch \/ (profile = 0 /\ epoch = 1)

SessionInv == SessionTyped /\ SocketCarriesOne /\ ReadsInSession /\ ProfileOfSession
-----------------------------------------------------------------------------
\* Nothing is open at first.
LEMMA SessionInitInv == SessionInit => SessionInv
<1> SUFFICES ASSUME SessionInit
             PROVE  SessionInv
  OBVIOUS
<1>1. IdleTask \in TaskState
  BY SessionAssumption DEF IdleTask, TaskState
<1>2. SessionTyped
  <2>1. task \in [Task -> TaskState] /\ written \in [Task -> SUBSET (1 .. opened)]
    BY <1>1 DEF SessionInit
  <2>2. seconds = 0 /\ opened = 0 /\ socket = 0 /\ closed = {} /\ epoch = 0 /\ ready = FALSE
        /\ profile = Unread
    BY DEF SessionInit, NoSocket
  <2>3. /\ seconds \in 0 .. MaxSeconds /\ opened \in 0 .. MaxSocket /\ socket \in 0 .. opened
        /\ closed \subseteq 1 .. opened /\ epoch \in 0 .. MaxEpoch
    BY <2>2, SessionAssumption
  <2>4. ready \in BOOLEAN /\ profile \in Unread .. MaxEpoch
    BY <2>2, SessionAssumption, -1 \in -1 .. MaxEpoch DEF Unread
  <2> QED
    BY <2>1, <2>3, <2>4 DEF SessionTyped
<1>3. SocketCarriesOne
  BY DEF SessionInit, SocketCarriesOne, Task, NoSocket
<1>4. ReadsInSession /\ ProfileOfSession
  BY DEF SessionInit, ReadsInSession, ProfileOfSession, IdleTask, Task
<1> QED
  BY <1>2, <1>3, <1>4 DEF SessionInv

\* The private session and the clock touch no socket.
LEMMA SessionSteps ==
  ASSUME SessionInv, Drop \/ Quarantine \/ ConnectPrivate \/ Second
  PROVE  SessionInv'
<1>1. ASSUME Drop
      PROVE  SessionInv'
  BY <1>1 DEF Drop, transport, SessionInv, SessionTyped, SocketCarriesOne, ReadsInSession,
    ProfileOfSession
<1>4. ASSUME Second
      PROVE  SessionInv'
  <2>1. seconds' \in 0 .. MaxSeconds
    BY SessionAssumption, <1>4 DEF Second, SessionInv, SessionTyped
  <2> QED
    BY <1>4, <2>1 DEF Second, transport, SessionInv, SessionTyped, SocketCarriesOne, ReadsInSession,
      ProfileOfSession
<1>2. ASSUME Quarantine
      PROVE  SessionInv'
  <2>1. profile' \in Unread .. MaxEpoch
    BY <1>2, SessionAssumption DEF Quarantine, Unread
  <2> QED
    BY <1>2, <2>1 DEF Quarantine, transport, SessionInv, SessionTyped, SocketCarriesOne,
      ReadsInSession, ProfileOfSession
<1>3. ASSUME ConnectPrivate
      PROVE  SessionInv'
  BY <1>3, SessionAssumption DEF ConnectPrivate, ReconnectedProfile, transport, SessionInv,
    SessionTyped, SocketCarriesOne, ReadsInSession, ProfileOfSession, Unread
<1> QED
  BY <1>1, <1>2, <1>3, <1>4

\* A task that starts is in the session of its start.
LEMMA TaskStarts ==
  ASSUME NEW e \in 0 .. MaxEpoch
  PROVE  [IdleTask EXCEPT !.pc = "limit", !.epoch = e] \in TaskState
<1> DEFINE Epochs == 0 .. MaxEpoch  Times == 0 .. MaxSeconds  Attempts == 1 .. 3
<1>1. e \in Epochs /\ 0 \in Epochs /\ 0 \in Times /\ 1 \in Attempts
  BY SessionAssumption
<1> HIDE DEF Epochs, Times, Attempts
<1>2. [IdleTask EXCEPT !.pc = "limit", !.epoch = e]
        \in [pc : {"idle", "limit", "opening", "prepared", "waiting"},
            epoch : Epochs, created : Times, attempt : Attempts]
  BY <1>1 DEF IdleTask
<1> QED
  BY <1>2 DEF TaskState, Epochs, Times, Attempts

\* A request begins, and takes a turn of the limiter.
LEMMA RequestSteps ==
  ASSUME SessionInv, NEW t \in Task,
         StartPost \/ StartGet \/ Acquire(t) \/ OpenFails(t) \/ PostAnswered \/ GetAnswered
  PROVE  SessionInv'
<1> USE SessionAssumption DEF SessionInv, SessionTyped, SocketCarriesOne, ReadsInSession, ProfileOfSession, transport,
      Task, TaskState, NoSocket, Unread
<1>1. ASSUME StartPost \/ StartGet
      PROVE  SessionInv'
  <2>1. [IdleTask EXCEPT !.pc = "limit", !.epoch = epoch] \in TaskState
    BY TaskStarts
  <2>2. PICK u \in Task : task' = [task EXCEPT ![u] = [IdleTask EXCEPT !.pc = "limit", !.epoch = epoch]]
    BY <1>1 DEF StartPost, StartGet
  <2>3. task' \in [Task -> TaskState]
    BY <2>1, <2>2
  <2>4. ReadsInSession'
    <3>1. epoch' = epoch /\ [IdleTask EXCEPT !.pc = "limit", !.epoch = epoch].epoch = epoch
      BY <1>1 DEF StartPost, StartGet, IdleTask
    <3>2. task'["get"] = task["get"]
          \/ task'["get"] = [IdleTask EXCEPT !.pc = "limit", !.epoch = epoch]
      BY <2>2
    <3> QED
      BY <3>1, <3>2
  <2>5. UNCHANGED <<seconds, socket, opened, closed, written, epoch, ready, profile>>
    BY <1>1 DEF StartPost, StartGet
  <2> QED
    BY <2>3, <2>4, <2>5
<1>2. ASSUME Acquire(t)
      PROVE  SessionInv'
  <2>1. task' \in [Task -> TaskState]
    <3> DEFINE prepared == [task EXCEPT ![t].pc = "opening"]
    <3>1. prepared \in [Task -> TaskState] /\ Goto(t, "idle") \in [Task -> TaskState]
      BY DEF Goto
    <3>2. [prepared EXCEPT ![t].created = seconds] \in [Task -> TaskState]
      BY <3>1
    <3>3. task' \in {Goto(t, "idle"), [prepared EXCEPT ![t].created = seconds]}
      BY <1>2 DEF Acquire
    <3> QED
      BY <3>1, <3>2, <3>3
  <2>2. ReadsInSession'
    <3>1. /\ task'["get"].epoch = task["get"].epoch
          /\ task'["get"].pc # "idle" => task["get"].pc # "idle"
      <4>1. CASE t = "get"
        <5>1. task["get"].pc = "limit"
          BY <1>2, <4>1 DEF Acquire
        <5>2. CASE socket = NoSocket
          <6> DEFINE prepared == [task EXCEPT !["get"].pc = "opening"]
          <6>1. prepared["get"].epoch = task["get"].epoch
            OBVIOUS
          <6>2. task' = [prepared EXCEPT !["get"].created = seconds]
            BY <1>2, <4>1, <5>2 DEF Acquire
          <6>3. prepared \in [Task -> TaskState]
            OBVIOUS
          <6> HIDE DEF prepared
          <6>4. task'["get"].epoch = prepared["get"].epoch
            BY <6>2, <6>3
          <6> QED
            BY <5>1, <6>1, <6>4
        <5>3. CASE socket # NoSocket
          <6>1. task' = [task EXCEPT !["get"].pc = "idle"]
            BY <1>2, <4>1, <5>3 DEF Acquire, Goto
          <6>2. task'["get"].epoch = task["get"].epoch
            BY <6>1
          <6> QED
            BY <5>1, <6>2
        <5> QED
          BY <5>2, <5>3
      <4>2. CASE t = "post"
        <5>1. task'["get"] = task["get"]
          BY <1>2, <4>2 DEF Acquire, Goto
        <5> QED
          BY <5>1
      <4> QED
        BY <4>1, <4>2
    <3>2. epoch' = epoch
      BY <1>2 DEF Acquire
    <3> QED
      BY <3>1, <3>2
  <2>3. /\ socket' \in {socket, 0} /\ closed' \in {closed, closed \cup {socket}}
        /\ socket' = socket => closed' = closed
        /\ socket # 0 /\ closed' # closed => socket' = 0
        /\ socket = 0 => closed' = closed
        /\ UNCHANGED <<seconds, opened, written, epoch, ready, profile>>
    BY <1>2 DEF Acquire
  <2> QED
    BY <2>1, <2>2, <2>3
<1>3. ASSUME OpenFails(t)
      PROVE  SessionInv'
  BY <1>3 DEF OpenFails, Goto
<1>4. ASSUME PostAnswered
      PROVE  SessionInv'
  BY <1>4 DEF PostAnswered, Goto
<1>5. ASSUME GetAnswered
      PROVE  SessionInv'
  BY <1>5 DEF GetAnswered, Goto
<1> QED
  BY <1>1, <1>2, <1>3, <1>4, <1>5

\* A socket is opened, written on or discarded.
LEMMA SocketSteps ==
  ASSUME SessionInv, PostOpened \/ GetOpened \/ HandoffPost \/ DiscardPost
  PROVE  SessionInv'
<1> USE SessionAssumption DEF SessionInv, SessionTyped, SocketCarriesOne, ReadsInSession, ProfileOfSession, transport,
      Task, TaskState, NoSocket, Unread
<1>1. ASSUME PostOpened
      PROVE  SessionInv'
  BY <1>1 DEF PostOpened, FreshSocket, Goto
<1>2. ASSUME GetOpened
      PROVE  SessionInv'
  BY <1>2 DEF GetOpened, FreshSocket, Write, Goto
<1>3. ASSUME HandoffPost
      PROVE  SessionInv'
  BY <1>3 DEF HandoffPost, Write, Goto
<1>4. ASSUME DiscardPost
      PROVE  SessionInv'
  BY <1>4 DEF DiscardPost, Goto
<1> QED
  BY <1>1, <1>2, <1>3, <1>4

\* Every step preserves the invariant.
LEMMA SessionInvAlways == SessionSpec => []SessionInv
<1>1. SessionInv /\ [SessionNext]_sessionVars => SessionInv'
  <2>1. SessionInv /\ UNCHANGED sessionVars => SessionInv'
    BY DEF sessionVars, transport, SessionInv, SessionTyped, SocketCarriesOne, ReadsInSession, ProfileOfSession
  <2> QED
    BY <2>1, SessionSteps, RequestSteps, SocketSteps DEF SessionNext, Task
<1> QED
  BY <1>1, SessionInitInv, PTL DEF SessionSpec

\* A write leaves only in the session it was prepared in, on a profile of
\* that session (BitgetUTAAdapter.handoff, RestClient.handoff).
THEOREM AlwaysWrittenInItsSession == SessionSpec => WrittenInItsSession
<1>1. SessionInv /\ [SessionNext]_sessionVars
        => [written'["post"] # written["post"] =>
              /\ ready /\ task["post"].epoch = epoch
              /\ profile = epoch \/ (profile = 0 /\ epoch = 1)]_sessionVars
  <2> SUFFICES ASSUME SessionInv, SessionNext, written'["post"] # written["post"]
               PROVE  /\ ready /\ task["post"].epoch = epoch
                      /\ profile = epoch \/ (profile = 0 /\ epoch = 1)
    OBVIOUS
  <2>1. HandoffPost
    <3>1. ~GetOpened
      BY DEF GetOpened, Write, SessionInv, SessionTyped, Task
    <3> QED
      BY <3>1 DEF SessionNext, Drop, Quarantine, ConnectPrivate, Second, StartPost, StartGet, Acquire,
        OpenFails, PostOpened, DiscardPost, PostAnswered, GetAnswered, transport
  <2>2. HandoffAllowed
    BY <2>1 DEF HandoffPost
  <2> QED
    BY <2>2 DEF HandoffAllowed, Authorized, SessionInv, ProfileOfSession
<1> QED
  BY <1>1, SessionInvAlways, PTL DEF SessionSpec, WrittenInItsSession
-----------------------------------------------------------------------------
(* The rate limiter: its deque is the end of the grants, and the grants    *)
(* before the deque are out of the window, so that a grant is given only   *)
(* when the one Limit places before it is.                                 *)

\* A set of naturals has a least element.
LEMMA LeastNumber ==
  ASSUME NEW T \in SUBSET Nat, T # {}
  PROVE  \E x \in T : \A y \in T : x <= y
<1> DEFINE Below == OpToRel(<, Nat)
<1>1. IsWellFoundedOn(Below, Nat)
  BY NatLessThanWellFounded, Zenon
<1>2. \A x, y \in Nat : <<y, x>> \in Below <=> y < x
  BY DEF OpToRel
<1> HIDE DEF Below
<1>3. \E x \in T : \A y \in T : ~(<<y, x>> \in Below)
  BY <1>1, WFMin
<1>4. PICK x \in T : \A y \in T : ~(<<y, x>> \in Below)
  BY <1>3
<1>5. ASSUME NEW y \in T
      PROVE  x <= y
  <2>1. ~(y < x)
    BY <1>2, <1>4
  <2> QED
    BY <2>1
<1> QED
  BY <1>5

QueueIsTheEnd ==
  /\ grants \in Seq(0 .. MaxSeconds) /\ queue \in Seq(0 .. MaxSeconds)
  /\ Len(queue) <= Limit /\ Len(queue) <= Len(grants)
  /\ \A i \in 1 .. Len(queue) : queue[i] = grants[Len(grants) - Len(queue) + i]

GrantsInThePast == \A i \in 1 .. Len(grants) : grants[i] <= seconds

OthersOutOfWindow == \A i \in 1 .. Len(grants) - Len(queue) : seconds - grants[i] >= Window

LimiterInv ==
  seconds \in 0 .. MaxSeconds /\ QueueIsTheEnd /\ GrantsInThePast /\ OthersOutOfWindow /\ RateKept

\* What popleft drops is out of the window (RateLimiter.acquire).
LEMMA DroppedIsOld ==
  ASSUME LimiterInv
  PROVE  /\ Dropped \in 0 .. Len(queue)
         /\ \A i \in 1 .. Dropped : seconds - queue[i] >= Window
<1> DEFINE T == {n \in 0 .. Len(queue) : n = Len(queue) \/ seconds - queue[n + 1] < Window}
<1>1. Len(queue) \in Nat /\ \A i \in 1 .. Len(queue) : queue[i] \in 0 .. MaxSeconds
  <2>1. queue \in Seq(0 .. MaxSeconds)
    BY DEF LimiterInv, QueueIsTheEnd
  <2> QED
    BY <2>1, ElementOfSeq, LenProperties
<1>2. T \in SUBSET Nat /\ Len(queue) \in T
  BY <1>1
<1>3. PICK n \in T : \A m \in T : n <= m
  <2> HIDE DEF T
  <2> QED
    BY <1>2, LeastNumber
<1>4. n \in 0 .. Len(queue) /\ (n < Len(queue) => seconds - queue[n + 1] < Window)
  BY <1>1
<1>5. ASSUME NEW i \in 1 .. n
      PROVE  seconds - queue[i] >= Window
  <2>1. i - 1 \in 0 .. Len(queue) /\ i - 1 < n /\ i \in 1 .. Len(queue)
    BY <1>1, <1>4
  <2>2. i - 1 \notin T
    <3> HIDE DEF T
    <3>1. n \in Int /\ i - 1 \in Int
      BY <1>4
    <3> QED
      BY <1>3, <2>1, <3>1
  <2>3. ~(seconds - queue[i] < Window)
    BY <2>1, <2>2, (i - 1) + 1 = i
  <2>4. seconds \in Int /\ queue[i] \in Int /\ Window \in Int
    BY <1>1, <2>1, SessionAssumption DEF LimiterInv
  <2> QED
    BY <2>3, <2>4
<1> HIDE DEF T
<1> QED
  BY <1>4, <1>5 DEF Dropped

\* A grant leaves the deque the end of the grants, in every window within
\* the limit.
LEMMA GrantKeepsRate ==
  ASSUME LimiterInv, NEW t \in Task, Acquire(t)
  PROVE  LimiterInv'
<1> DEFINE d == Dropped  q == Len(queue)  g == Len(grants)  r == q - d
<1>1. d \in 0 .. q /\ \A i \in 1 .. d : seconds - queue[i] >= Window
  BY DroppedIsOld
<1>2. /\ seconds \in 0 .. MaxSeconds /\ seconds' = seconds
      /\ q \in Nat /\ g \in Nat /\ q <= g /\ q <= Limit
      /\ Limit \in Nat \ {0} /\ Window \in Nat
      /\ queue \in Seq(0 .. MaxSeconds) /\ grants \in Seq(0 .. MaxSeconds)
      /\ \A i \in 1 .. q : queue[i] = grants[g - q + i]
      /\ \A i \in 1 .. g : grants[i] \in 0 .. MaxSeconds /\ grants[i] <= seconds
      /\ \A i \in 1 .. g - q : seconds - grants[i] >= Window
  <2>1. /\ seconds \in 0 .. MaxSeconds /\ seconds' = seconds
        /\ Limit \in Nat \ {0} /\ Window \in Nat
        /\ queue \in Seq(0 .. MaxSeconds) /\ grants \in Seq(0 .. MaxSeconds)
    BY SessionAssumption DEF LimiterInv, QueueIsTheEnd, Acquire
  <2>2. /\ q \in Nat /\ g \in Nat /\ q <= g /\ q <= Limit
        /\ \A i \in 1 .. q : queue[i] = grants[g - q + i]
    BY <2>1 DEF LimiterInv, QueueIsTheEnd
  <2>3. \A i \in 1 .. g : grants[i] \in 0 .. MaxSeconds /\ grants[i] <= seconds
    <3>1. \A i \in 1 .. g : grants[i] <= seconds
      BY DEF LimiterInv, GrantsInThePast
    <3>2. \A i \in 1 .. g : grants[i] \in 0 .. MaxSeconds
      BY <2>1, ElementOfSeq
    <3> QED
      BY <3>1, <3>2
  <2>4. \A i \in 1 .. g - q : seconds - grants[i] >= Window
    BY DEF LimiterInv, OthersOutOfWindow
  <2> QED
    BY <2>1, <2>2, <2>3, <2>4
<1>3. /\ queue' = Append(SubSeq(queue, d + 1, q), seconds)
      /\ grants' = Append(grants, seconds)
      /\ Len(SubSeq(queue, d + 1, q)) < Limit
  BY DEF Acquire, Recent
<1> HIDE DEF d, q, g
<1>4. /\ SubSeq(queue, d + 1, q) \in Seq(0 .. MaxSeconds)
      /\ Len(SubSeq(queue, d + 1, q)) = r
      /\ \A i \in 1 .. r : SubSeq(queue, d + 1, q)[i] = queue[d + i]
  <2>1. d + 1 \in 1 .. q + 1
    BY <1>1, <1>2
  <2>2. \A i \in 1 .. r : d + i = d + 1 + i - 1
    BY <1>1, <1>2
  <2>3. q = Len(queue)
    BY DEF q
  <2>4. \A i \in d + 1 .. q : queue[i] \in 0 .. MaxSeconds
    BY <1>1, <1>2, <2>3
  <2>5. /\ d + 1 \in Int /\ q \in Int
        /\ (IF d + 1 <= q THEN q - (d + 1) + 1 ELSE 0) = r
        /\ 1 .. q - (d + 1) + 1 = 1 .. r
    BY <1>1, <1>2
  <2> HIDE DEF r
  <2>6. /\ SubSeq(queue, d + 1, q) \in Seq(0 .. MaxSeconds)
        /\ Len(SubSeq(queue, d + 1, q)) = IF d + 1 <= q THEN q - (d + 1) + 1 ELSE 0
        /\ \A i \in 1 .. q - (d + 1) + 1 : SubSeq(queue, d + 1, q)[i] = queue[d + 1 + i - 1]
    BY <2>4, <2>5, SubSeqProperties
  <2> QED
    BY <2>2, <2>5, <2>6
<1>5. /\ queue' \in Seq(0 .. MaxSeconds) /\ Len(queue') = r + 1
      /\ grants' \in Seq(0 .. MaxSeconds) /\ Len(grants') = g + 1
      /\ \A i \in 1 .. r : queue'[i] = queue[d + i]
      /\ queue'[r + 1] = seconds
      /\ \A i \in 1 .. g : grants'[i] = grants[i]
      /\ grants'[g + 1] = seconds
  <2>1. r \in Nat
    BY <1>1, <1>2
  <2>2. g = Len(grants)
    BY DEF g
  <2>3. /\ queue' \in Seq(0 .. MaxSeconds) /\ Len(queue') = r + 1
        /\ \A i \in 1 .. r : queue'[i] = SubSeq(queue, d + 1, q)[i]
        /\ queue'[r + 1] = seconds
    BY <1>2, <1>3, <1>4, <2>1, AppendProperties
  <2>4. /\ grants' \in Seq(0 .. MaxSeconds) /\ Len(grants') = g + 1
        /\ \A i \in 1 .. g : grants'[i] = grants[i]
        /\ grants'[g + 1] = seconds
    BY <1>2, <1>3, <2>2, AppendProperties
  <2> QED
    BY <1>4, <2>3, <2>4
<1>6. r < Limit /\ r \in Nat
  BY <1>1, <1>2, <1>3, <1>4
<1>7. \A i \in 1 .. g - r : seconds - grants[i] >= Window
  <2> SUFFICES ASSUME NEW i \in 1 .. g - r
               PROVE  seconds - grants[i] >= Window
    OBVIOUS
  <2>1. CASE i <= g - q
    BY <1>1, <1>2, <2>1
  <2>2. CASE i > g - q
    <3>1. i - (g - q) \in 1 .. d /\ i - (g - q) \in 1 .. q /\ g - q + (i - (g - q)) = i
      BY <1>1, <1>2, <2>2
    <3>2. queue[i - (g - q)] = grants[i]
      BY <1>2, <3>1
    <3> QED
      BY <1>1, <3>1, <3>2
  <2> QED
    BY <1>1, <1>2, <2>1, <2>2
<1>8. QueueIsTheEnd'
  <2>1. \A i \in 1 .. r + 1 : queue'[i] = grants'[(g + 1) - (r + 1) + i]
    <3> SUFFICES ASSUME NEW i \in 1 .. r + 1
                 PROVE  queue'[i] = grants'[(g + 1) - (r + 1) + i]
      OBVIOUS
    <3>1. CASE i = r + 1
      <4>1. (g + 1) - (r + 1) + i = g + 1
        BY <1>1, <1>2, <3>1
      <4> QED
        BY <1>5, <3>1, <4>1
    <3>2. CASE i \in 1 .. r
      <4>1. /\ d + i \in 1 .. q /\ g - q + (d + i) = (g + 1) - (r + 1) + i
            /\ (g + 1) - (r + 1) + i \in 1 .. g
        BY <1>1, <1>2, <3>2
      <4>2. queue[d + i] = grants[(g + 1) - (r + 1) + i]
        BY <1>2, <4>1
      <4> QED
        BY <1>5, <3>2, <4>1, <4>2
    <3> QED
      BY <1>6, <3>1, <3>2
  <2>2. r + 1 <= Limit /\ r + 1 <= g + 1
    BY <1>1, <1>2, <1>6
  <2>3. /\ Len(queue') = r + 1 /\ Len(grants') = g + 1
        /\ queue' \in Seq(0 .. MaxSeconds) /\ grants' \in Seq(0 .. MaxSeconds)
    BY <1>5
  <2> QED
    BY <2>1, <2>2, <2>3 DEF QueueIsTheEnd
<1>9. GrantsInThePast'
  <2>1. seconds' = seconds /\ Len(grants') = g + 1
    BY <1>2, <1>5
  <2>2. ASSUME NEW i \in 1 .. g + 1
        PROVE  grants'[i] <= seconds
    <3>1. CASE i \in 1 .. g
      BY <1>2, <1>5, <3>1
    <3>2. CASE i = g + 1
      BY <1>2, <1>5, <3>2
    <3> QED
      BY <1>2, <3>1, <3>2
  <2> QED
    BY <2>1, <2>2 DEF GrantsInThePast
<1>10. OthersOutOfWindow'
  <2> SUFFICES ASSUME NEW i \in 1 .. (g + 1) - (r + 1)
               PROVE  seconds - grants'[i] >= Window
    BY <1>2, <1>5 DEF OthersOutOfWindow
  <2>1. i \in 1 .. g - r /\ i \in 1 .. g
    BY <1>1, <1>2, <1>6
  <2> QED
    BY <1>5, <1>7, <2>1
<1>11. RateKept'
  <2> SUFFICES ASSUME NEW i \in 1 .. g + 1, i + Limit \in 1 .. g + 1
               PROVE  grants'[i + Limit] - grants'[i] >= Window
    BY <1>5 DEF RateKept
  <2>1. i \in 1 .. g
    BY <1>2
  <2>2. CASE i + Limit = g + 1
    <3>1. i \in 1 .. g - r
      BY <1>1, <1>2, <1>6, <2>1, <2>2
    <3> QED
      BY <1>5, <1>7, <2>1, <2>2, <3>1
  <2>3. CASE i + Limit \in 1 .. g
    <3>1. grants[i + Limit] - grants[i] >= Window
      <4>1. DOMAIN grants = 1 .. g
        BY <1>2 DEF g
      <4>2. RateKept
        BY DEF LimiterInv
      <4> QED
        BY <2>1, <2>3, <4>1, <4>2 DEF RateKept
    <3> QED
      BY <1>5, <2>1, <2>3, <3>1
  <2> QED
    BY <1>2, <2>2, <2>3
<1> QED
  BY <1>2, <1>8, <1>9, <1>10, <1>11 DEF LimiterInv

\* Every step preserves the invariant of the limiter.
LEMMA LimiterInvAlways == SessionSpec => []LimiterInv
<1>1. SessionInit => LimiterInv
  <2>1. <<>> \in Seq(0 .. MaxSeconds) /\ Len(<<>>) = 0
    OBVIOUS
  <2> QED
    BY <2>1, SessionAssumption DEF SessionInit, LimiterInv, QueueIsTheEnd, GrantsInThePast,
      OthersOutOfWindow, RateKept
<1>2. LimiterInv /\ UNCHANGED <<seconds, queue, grants>> => LimiterInv'
  BY DEF LimiterInv, QueueIsTheEnd, GrantsInThePast, OthersOutOfWindow, RateKept
<1>3. LimiterInv /\ Second => LimiterInv'
  <2> SUFFICES ASSUME LimiterInv, Second
               PROVE  LimiterInv'
    OBVIOUS
  <2>7. grants \in Seq(0 .. MaxSeconds) /\ queue \in Seq(0 .. MaxSeconds)
    BY DEF LimiterInv, QueueIsTheEnd
  <2>8. /\ seconds' = seconds + 1 /\ seconds \in 0 .. MaxSeconds /\ seconds < MaxSeconds
        /\ queue' = queue /\ grants' = grants /\ MaxSeconds \in Nat /\ Window \in Nat
    BY SessionAssumption DEF Second, LimiterInv
  <2>9. \A i \in 1 .. Len(grants) : grants[i] \in 0 .. MaxSeconds
    BY <2>7, ElementOfSeq
  <2>1. /\ seconds' = seconds + 1 /\ seconds \in 0 .. MaxSeconds /\ seconds < MaxSeconds
        /\ queue' = queue /\ grants' = grants /\ MaxSeconds \in Nat /\ Window \in Nat
        /\ \A i \in 1 .. Len(grants) : grants[i] \in 0 .. MaxSeconds
        /\ Len(grants) \in Nat /\ Len(queue) \in Nat
    BY <2>7, <2>8, <2>9
  <2>2. QueueIsTheEnd' /\ RateKept'
    BY <2>1 DEF LimiterInv, QueueIsTheEnd, RateKept
  <2>6. \A i \in 1 .. Len(grants) : grants[i] <= seconds
    BY DEF LimiterInv, GrantsInThePast
  <2>3. GrantsInThePast'
    BY <2>1, <2>6 DEF GrantsInThePast
  <2>5. OthersOutOfWindow'
    <3>1. \A i \in 1 .. Len(grants) - Len(queue) : i \in 1 .. Len(grants)
      BY <2>1
    <3>2. \A i \in 1 .. Len(grants) - Len(queue) : seconds - grants[i] >= Window
      BY DEF LimiterInv, OthersOutOfWindow
    <3>3. \A i \in 1 .. Len(grants) - Len(queue) : seconds + 1 - grants[i] >= Window
      BY <2>1, <3>1, <3>2
    <3> QED
      BY <2>1, <3>3 DEF OthersOutOfWindow
  <2>4. seconds' \in 0 .. MaxSeconds
    BY <2>1
  <2> QED
    BY <2>2, <2>3, <2>4, <2>5 DEF LimiterInv
<1>4. LimiterInv /\ [SessionNext]_sessionVars => LimiterInv'
  <2> SUFFICES ASSUME LimiterInv, [SessionNext]_sessionVars
               PROVE  LimiterInv'
    OBVIOUS
  <2>1. \/ Second \/ (\E t \in Task : Acquire(t)) \/ UNCHANGED <<seconds, queue, grants>>
    BY DEF SessionNext, sessionVars, Drop, Quarantine, ConnectPrivate, StartPost, StartGet, OpenFails,
      PostOpened, GetOpened, HandoffPost, DiscardPost, PostAnswered, GetAnswered
  <2> QED
    BY <1>2, <1>3, <2>1, GrantKeepsRate
<1> QED
  BY <1>1, <1>4, PTL DEF SessionSpec

\* Requests that overlap share neither a socket nor a place in the window of
\* the limiter (StreamHTTPTransport, RateLimiter.acquire).
THEOREM RequestsAlwaysApart == SessionSpec => []RequestsApart
<1>1. SessionInv /\ LimiterInv => RequestsApart
  BY DEF SessionInv, SessionTyped, LimiterInv, QueueIsTheEnd, RequestsApart, SessionTypeOK
<1> QED
  BY <1>1, SessionInvAlways, LimiterInvAlways, PTL

-----------------------------------------------------------------------------
(* The flatten workflow: what remains of it is counted from the fills it   *)
(* was told of, which are fills that happened, and it was told of none     *)
(* before it began.                                                        *)

Flattening == [status : Status, start : Nat, remaining : Nat]

FlattenTyped ==
  /\ latch \in [Latches -> BOOLEAN]
  /\ flat \in Flattening /\ flat.remaining <= flat.start
  /\ position \in Nat /\ working \in 0 .. EntryLots /\ equity \in Nat
  /\ exited \in Nat /\ told \in Nat /\ told <= exited

BegunOnce == IF flat = NoFlatten THEN exited = 0 ELSE flat.status # "NONE"

CountedFromTold == flat.remaining >= flat.start - told /\ (flat.status = "SUCCEEDED" => told >= flat.start)

FlattenInv == FlattenTyped /\ BegunOnce /\ CountedFromTold

\* The workflow begins from the lots that are held.
LEMMA FlattenBegins ==
  ASSUME FlattenInv, NEW trusted \in BOOLEAN, Flatten(trusted)
  PROVE  FlattenInv'
<1> USE DEF FlattenInv, FlattenTyped, BegunOnce, CountedFromTold
<1>1. flat = NoFlatten /\ exited = 0 /\ told = 0 /\ position \in Nat
  BY DEF Flatten
<1>2. PICK s \in {"FLATTEN_BLOCKED", "SUCCEEDED", "RUNNING"} :
        /\ flat' = [status |-> s, start |-> position, remaining |-> position]
        /\ s = "SUCCEEDED" => position = 0
  <2>1. CASE ~trusted
    BY <2>1 DEF Flatten
  <2>2. CASE trusted /\ position = 0
    BY <2>2 DEF Flatten
  <2>3. CASE trusted /\ position # 0
    BY <2>3 DEF Flatten
  <2> QED
    BY <2>1, <2>2, <2>3
<1>3. flat' \in Flattening /\ flat'.remaining = position /\ flat'.start = position /\ flat'.status = s
  BY <1>1, <1>2 DEF Flattening, Status, Completed
<1>4. UNCHANGED <<position, working, exited, told, equity>> /\ latch' \in [Latches -> BOOLEAN]
  BY DEF Flatten, book, money
<1>5. flat' # NoFlatten
  BY <1>2 DEF NoFlatten
<1> QED
  BY <1>1, <1>2, <1>3, <1>4, <1>5

\* A report of fills takes off no more than what it reports.
LEMMA FlattenIsTold ==
  ASSUME FlattenInv, TellFills
  PROVE  FlattenInv'
<1> USE DEF FlattenInv, FlattenTyped, BegunOnce, CountedFromTold
<1>1. PICK n \in 1 .. (exited - told) : told' = told + n /\ flat' = UpdateFlatten(n)
  BY DEF TellFills
<1> DEFINE rest == AtLeast(0, flat.remaining - n)
<1>2. n \in Nat /\ told' \in Nat /\ told' <= exited /\ exited \in Nat
  BY <1>1
<1>3. /\ flat.remaining \in Nat /\ flat.start \in Nat
      /\ rest \in Nat /\ rest >= flat.remaining - n /\ rest <= flat.remaining
  BY <1>2 DEF AtLeast, Flattening
<1>4. /\ flat'.remaining = rest /\ flat'.start = flat.start
      /\ flat'.status = IF rest = 0 THEN "SUCCEEDED" ELSE IF rest < LeastLots THEN "PARTIAL" ELSE flat.status
      /\ flat' \in Flattening
  <2>1. flat' = [flat EXCEPT !.remaining = rest,
                             !.status = IF rest = 0 THEN "SUCCEEDED"
                                          ELSE IF rest < LeastLots THEN "PARTIAL" ELSE @]
    BY <1>1 DEF UpdateFlatten
  <2> HIDE DEF rest
  <2> QED
    BY <2>1, <1>3 DEF Flattening, Status, Completed
<1> HIDE DEF rest
<1>5. flat # NoFlatten /\ UNCHANGED <<latch, position, working, exited, equity>>
  BY DEF TellFills, book, money
<1>6. flat'.status # "NONE" /\ flat' # NoFlatten
  <2>1. flat'.status # "NONE"
    BY <1>4, <1>5
  <2> QED
    BY <2>1 DEF NoFlatten
<1>7. CountedFromTold'
  BY <1>1, <1>2, <1>3, <1>4
<1> QED
  BY <1>1, <1>2, <1>3, <1>4, <1>5, <1>6, <1>7

\* Every step preserves the invariant.
LEMMA FlattenInvAlways == EmergencySpec => []FlattenInv
<1> USE EmergencyAssumption DEF FlattenInv, FlattenTyped, BegunOnce, CountedFromTold
<1>1. EmergencyInit => FlattenInv
  BY DEF EmergencyInit, NoFlatten, Flattening, Status
<1>2. ASSUME FlattenInv, [EmergencyNext]_emergencyVars
      PROVE  FlattenInv'
  <2>1. ASSUME TimeoutFlatten
        PROVE  FlattenInv'
    <3>1. flat' \in Flattening /\ flat'.status = "EXPIRED" /\ flat'.start = flat.start
          /\ flat'.remaining = flat.remaining
      BY <1>2, <2>1 DEF TimeoutFlatten, Flattening, Status, Completed
    <3>2. flat' # NoFlatten
      BY <3>1 DEF NoFlatten
    <3> QED
      BY <1>2, <2>1, <3>1, <3>2 DEF TimeoutFlatten, book, money
  <2>2. ASSUME ExitFills
        PROVE  FlattenInv'
    BY <1>2, <2>2 DEF ExitFills, money
  <2>3. ASSUME EntryFills
        PROVE  FlattenInv'
    BY <1>2, <2>3 DEF EntryFills, money
  <2>4. ASSUME MarkMoves \/ NewSession
        PROVE  FlattenInv'
    <3>1. equity' \in Nat /\ UNCHANGED <<latch, flat, position, working, exited, told>>
      BY <1>2, <2>4 DEF MarkMoves, NewSession, book
    <3> QED
      BY <1>2, <3>1
  <2>5. ASSUME DecideEntry
        PROVE  FlattenInv'
    BY <1>2, <2>5 DEF DecideEntry, book, money
  <2>6. ASSUME NEW l \in Latches, NEW active \in BOOLEAN, ChangeLatch(l, active)
        PROVE  FlattenInv'
    <3>1. latch' \in [Latches -> BOOLEAN] /\ UNCHANGED <<flat, position, working, exited, told, equity>>
      BY <1>2, <2>6 DEF ChangeLatch, book, money
    <3> QED
      BY <1>2, <3>1
  <2>7. ASSUME UNCHANGED emergencyVars
        PROVE  FlattenInv'
    BY <1>2, <2>7 DEF emergencyVars, book, money
  <2> QED
    BY <1>2, <2>1, <2>2, <2>3, <2>4, <2>5, <2>6, <2>7, FlattenBegins, FlattenIsTold DEF EmergencyNext
<1> QED
  BY <1>1, <1>2, PTL DEF EmergencySpec

\* A flatten that says it succeeded is one whose exits filled every lot it
\* started with, and it never says fewer lots remain than do
\* (FlattenWorkflow.update, timeout).
THEOREM FlattenAlwaysTold == EmergencySpec => []FlattenTold
<1>1. FlattenInv => FlattenTold
  BY DEF FlattenInv, FlattenTyped, CountedFromTold, Flattening, FlattenTold, EmergencyTypeOK,
    NoFalseFlat, ResidualVisible
<1> QED
  BY <1>1, FlattenInvAlways, PTL
-----------------------------------------------------------------------------
(* The command inbox: a token is in one place at most, the table of        *)
(* previews or the one request it confirmed, until it is used up.          *)

Holds(t, k) == thread[t].at = "apply" /\ thread[t].req.token = k

InboxTyped ==
  /\ flags \in Flags
  /\ records \in [CommandIds -> Bodies \union {NoCommand}]
  /\ rows \in [CommandIds -> Bodies \union {NoCommand}]
  /\ previews \in [Tokens -> Bodies \union {NoCommand}]
  /\ issued \subseteq Tokens /\ answered \subseteq CommandIds
  /\ thread \in [Threads -> {IdleThread} \union Serving]
  /\ applied \in [CommandIds -> [Bodies -> 0 .. MaxEffects]]
  /\ confirmed \in [Tokens -> 0 .. MaxEffects]
  /\ apiCrashes \in 0 .. MaxApiCrashes

\* A token in the table, or not drawn yet, was neither used nor is it held.
Unused(k) == confirmed[k] = 0 /\ \A t \in Threads : ~Holds(t, k)

TokenInOnePlace ==
  \A k \in Tokens :
    /\ confirmed[k] <= 1
    /\ k \notin issued \/ previews[k] # NoCommand => Unused(k)
    /\ k \notin issued => previews[k] = NoCommand
    /\ \A t \in Threads : Holds(t, k) => confirmed[k] = 0 /\ \A u \in Threads : Holds(u, k) => u = t

InboxInv == InboxTyped /\ TokenInOnePlace

\* What a command does to the flags leaves flags.
LEMMA AfterIsFlags ==
  ASSUME NEW f \in Flags, NEW c \in Commands
  PROVE  After(f, c) \in Flags
<1>1. f.run \subseteq Strategies /\ f.halted \in BOOLEAN /\ c.strategy \in Strategies
  BY DEF Flags, Commands
<1>2. /\ Halt(f) \in Flags /\ PauseAll(f) \in Flags /\ ResumeAll(f) \in Flags
      /\ ResetLatch(f) \in Flags /\ Pause(f, c.strategy) \in Flags /\ Resume(f, c.strategy) \in Flags
  BY <1>1 DEF Halt, PauseAll, ResumeAll, ResetLatch, Pause, Resume, Flags
<1>3. c.kind \in {"KILL", "PAUSE_ALL", "RESUME_ALL", "RESET_LATCH", "PAUSE", "RESUME"}
  BY DEF Commands, Kinds
<1> QED
  BY <1>2, <1>3 DEF After

\* What a thread serves.
LEMMA ThreadServes ==
  ASSUME InboxInv, NEW t \in Threads, thread[t] # IdleThread
  PROVE  /\ thread[t] \in Serving /\ thread[t].req \in Requests
         /\ thread[t].req.id \in CommandIds /\ thread[t].req.body \in Bodies
         /\ thread[t].req.token \in Tokens \union {NoCommand}
  BY DEF InboxInv, InboxTyped, Serving, Requests

\* A request is checked: it takes its token out of the table, and is served
\* only if it was there.
LEMMA CheckKeepsTokens ==
  ASSUME InboxInv, NEW t \in Threads, Check(t)
  PROVE  InboxInv'
<1>1. PICK req \in Requests :
        /\ thread[t] = IdleThread
        /\ IF OnRecord(req)
             THEN /\ answered' = IF records[req.id] = req.body THEN answered \union {req.id} ELSE answered
                  /\ UNCHANGED <<previews, thread>>
             ELSE /\ previews' = Consumed(req.token)
                  /\ thread' = IF Confirms(req) THEN [thread EXCEPT ![t] = [at |-> "apply", req |-> req]]
                               ELSE thread
                  /\ UNCHANGED answered
        /\ UNCHANGED <<flags, records, rows, issued, applied, confirmed, apiCrashes>>
  BY DEF Check
<1>2. req.id \in CommandIds /\ req.body \in Bodies /\ req.token \in Tokens \union {NoCommand}
  BY DEF Requests
<1>3. CASE OnRecord(req)
  <2>1. answered' \subseteq CommandIds /\ UNCHANGED <<previews, thread>>
    BY <1>1, <1>2, <1>3 DEF InboxInv, InboxTyped
  <2> QED
    BY <1>1, <2>1 DEF InboxInv, InboxTyped, TokenInOnePlace, Unused, Holds
<1>4. CASE ~OnRecord(req)
  <2>1. /\ previews' \in [Tokens -> Bodies \union {NoCommand}]
        /\ \A k \in Tokens : previews'[k] = IF k = req.token THEN NoCommand ELSE previews[k]
    BY <1>1, <1>2, <1>4, InboxAssumption DEF Consumed, InboxInv, InboxTyped
  <2>2. CASE ~Confirms(req)
    <3>1. thread' = thread /\ answered' = answered
      BY <1>1, <1>4, <2>2
    <3> QED
      BY <1>1, <2>1, <3>1 DEF InboxInv, InboxTyped, TokenInOnePlace, Unused, Holds
  <2>3. CASE Confirms(req)
    <3>1. /\ thread' = [thread EXCEPT ![t] = [at |-> "apply", req |-> req]]
          /\ [at |-> "apply", req |-> req] \in Serving /\ answered' = answered
      BY <1>1, <1>4, <2>3 DEF Serving
    <3>2. thread' \in [Threads -> {IdleThread} \union Serving]
      BY <3>1 DEF InboxInv, InboxTyped
    <3>3. thread'[t] = [at |-> "apply", req |-> req] /\ \A u \in Threads \ {t} : thread'[u] = thread[u]
      BY <3>1 DEF InboxInv, InboxTyped
    <3>4. InboxTyped'
      BY <1>1, <2>1, <3>1, <3>2 DEF InboxInv, InboxTyped
    <3>5. \A k \in Tokens, u \in Threads :
            Holds(u, k)' <=> (IF u = t THEN k = req.token ELSE Holds(u, k))
      BY <3>3 DEF Holds
    <3>6. \A k \in Tokens : k = req.token => previews[k] # NoCommand
      BY <1>2, <2>3, InboxAssumption DEF Confirms
    <3>7. TokenInOnePlace'
      <4> SUFFICES ASSUME NEW k \in Tokens
                   PROVE  /\ confirmed[k] <= 1
                          /\ k \notin issued \/ previews'[k] # NoCommand =>
                               confirmed[k] = 0 /\ \A u \in Threads : ~Holds(u, k)'
                          /\ k \notin issued => previews'[k] = NoCommand
                          /\ \A u \in Threads : Holds(u, k)' =>
                               confirmed[k] = 0 /\ \A v \in Threads : Holds(v, k)' => v = u
        BY <1>1 DEF TokenInOnePlace, Unused
      <4>1. CASE k = req.token
        <5>1. k \in issued /\ Unused(k) /\ previews'[k] = NoCommand /\ confirmed[k] <= 1
          BY <2>1, <3>6, <4>1 DEF InboxInv, TokenInOnePlace
        <5> QED
          BY <3>5, <4>1, <5>1 DEF Unused
      <4>2. CASE k # req.token
        <5>1. previews'[k] = previews[k] /\ \A u \in Threads : Holds(u, k)' => Holds(u, k)
          BY <2>1, <3>5, <4>2
        <5> QED
          BY <5>1 DEF InboxInv, TokenInOnePlace, Unused
      <4> QED
        BY <4>1, <4>2
    <3> QED
      BY <3>4, <3>7 DEF InboxInv
  <2> QED
    BY <2>2, <2>3
<1> QED
  BY <1>3, <1>4

\* A request takes effect and uses its token up.
LEMMA ApplyUsesToken ==
  ASSUME InboxInv, NEW t \in Threads, Apply(t)
  PROVE  InboxInv'
<1> DEFINE req == thread[t].req
<1>1. /\ thread[t].at = "apply" /\ thread[t] \in Serving
      /\ req.id \in CommandIds /\ req.body \in Bodies /\ req.token \in Tokens \union {NoCommand}
  <2>1. thread[t].at = "apply"
    BY DEF Apply
  <2> QED
    BY <2>1, ThreadServes DEF IdleThread
<1>2. /\ applied[req.id][req.body] < MaxEffects
      /\ flags' = After(flags, req.body)
      /\ applied' = [applied EXCEPT ![req.id][req.body] = @ + 1]
      /\ confirmed' = IF req.token = NoCommand THEN confirmed ELSE [confirmed EXCEPT ![req.token] = @ + 1]
      /\ thread' = [thread EXCEPT ![t].at = "record"]
      /\ UNCHANGED <<records, rows, previews, issued, answered, apiCrashes>>
  BY DEF Apply
<1>3. /\ applied \in [CommandIds -> [Bodies -> 0 .. MaxEffects]] /\ confirmed \in [Tokens -> 0 .. MaxEffects]
      /\ thread \in [Threads -> {IdleThread} \union Serving] /\ flags \in Flags /\ MaxEffects \in Nat
  BY InboxAssumption DEF InboxInv, InboxTyped
<1> HIDE DEF req
<1>4. flags' \in Flags
  BY <1>1, <1>2, <1>3, AfterIsFlags, InboxAssumption
<1>5. applied' \in [CommandIds -> [Bodies -> 0 .. MaxEffects]] /\ MaxEffects > 0
  <2>1. applied[req.id][req.body] + 1 \in 0 .. MaxEffects /\ MaxEffects > 0
    BY <1>1, <1>2, <1>3
  <2>2. [applied[req.id] EXCEPT ![req.body] = applied[req.id][req.body] + 1] \in [Bodies -> 0 .. MaxEffects]
    BY <1>1, <1>3, <2>1
  <2> QED
    BY <1>1, <1>2, <1>3, <2>1, <2>2
<1>6. /\ thread' \in [Threads -> {IdleThread} \union Serving]
      /\ thread'[t].at = "record" /\ \A u \in Threads \ {t} : thread'[u] = thread[u]
  <2>1. [thread[t] EXCEPT !.at = "record"] \in Serving /\ [thread[t] EXCEPT !.at = "record"].at = "record"
    BY <1>1 DEF Serving
  <2> QED
    BY <1>2, <1>3, <2>1
<1>7. \A k \in Tokens, u \in Threads : Holds(u, k)' <=> u # t /\ Holds(u, k)
  BY <1>6 DEF Holds
<1>8. \A k \in Tokens : confirmed'[k] = IF k = req.token THEN confirmed[k] + 1 ELSE confirmed[k]
  BY <1>1, <1>2, <1>3, InboxAssumption
<1>9. \A k \in Tokens : k = req.token => Holds(t, k)
  BY <1>1 DEF Holds, req
<1>10. TokenInOnePlace'
  <2> SUFFICES ASSUME NEW k \in Tokens
               PROVE  /\ confirmed'[k] <= 1
                      /\ k \notin issued \/ previews[k] # NoCommand =>
                           confirmed'[k] = 0 /\ \A u \in Threads : ~Holds(u, k)'
                      /\ k \notin issued => previews[k] = NoCommand
                      /\ \A u \in Threads : Holds(u, k)' =>
                           confirmed'[k] = 0 /\ \A v \in Threads : Holds(v, k)' => v = u
    BY <1>2 DEF TokenInOnePlace, Unused
  <2>1. CASE k = req.token
    <3>1. confirmed[k] = 0 /\ k \in issued /\ previews[k] = NoCommand
          /\ \A u \in Threads : Holds(u, k) => u = t
      BY <1>9, <2>1 DEF InboxInv, TokenInOnePlace, Unused
    <3> QED
      BY <1>7, <1>8, <2>1, <3>1
  <2>2. CASE k # req.token
    <3>1. confirmed'[k] = confirmed[k] /\ \A u \in Threads : Holds(u, k)' => Holds(u, k)
      BY <1>7, <1>8, <2>2
    <3> QED
      BY <3>1 DEF InboxInv, TokenInOnePlace, Unused
  <2> QED
    BY <2>1, <2>2
<1>11. confirmed' \in [Tokens -> 0 .. MaxEffects]
  <2>1. \A k \in Tokens : confirmed'[k] <= 1
    BY <1>10 DEF TokenInOnePlace
  <2>2. confirmed' \in [Tokens -> Nat]
    BY <1>1, <1>2, <1>3
  <2>3. \A k \in Tokens : confirmed'[k] \in 0 .. MaxEffects
    BY <1>3, <1>5, <2>1, <2>2
  <2> QED
    BY <2>2, <2>3
<1> QED
  BY <1>2, <1>4, <1>5, <1>6, <1>10, <1>11 DEF InboxInv, InboxTyped

\* A step that gives no request the step "apply" moves no token.
LEMMA NoTokenMoves ==
  ASSUME InboxInv, InboxTyped', UNCHANGED <<previews, issued, confirmed>>,
         \A t \in Threads : thread'[t].at = "apply" => thread'[t] = thread[t]
  PROVE  InboxInv'
  BY DEF InboxInv, TokenInOnePlace, Unused, Holds

\* Its record and its row are written.
LEMMA WritesMoveNoToken ==
  ASSUME InboxInv, NEW t \in Threads, Record(t) \/ Insert(t)
  PROVE  InboxInv'
<1> DEFINE req == thread[t].req
<1>1. /\ thread[t].at \in {"record", "insert"} /\ thread[t] \in Serving
      /\ req.id \in CommandIds /\ req.body \in Bodies
  <2>1. thread[t].at \in {"record", "insert"}
    BY DEF Record, Insert
  <2> QED
    BY <2>1, ThreadServes DEF IdleThread
<1>2. /\ records' \in [CommandIds -> Bodies \union {NoCommand}]
      /\ rows' \in [CommandIds -> Bodies \union {NoCommand}] /\ answered' \subseteq CommandIds
      /\ UNCHANGED <<flags, previews, issued, applied, confirmed, apiCrashes>>
  BY <1>1 DEF Record, Insert, InboxInv, InboxTyped
<1>3. [thread[t] EXCEPT !.at = "insert"] \in Serving /\ [thread[t] EXCEPT !.at = "insert"].at = "insert"
  BY <1>1 DEF Serving
<1>4. PICK s \in {[thread[t] EXCEPT !.at = "insert"], IdleThread} : thread' = [thread EXCEPT ![t] = s]
  BY DEF Record, Insert
<1>5. s \in {IdleThread} \union Serving /\ s.at # "apply"
  <2>1. IdleThread.at = "idle"
    BY DEF IdleThread
  <2> QED
    BY <1>3, <1>4, <2>1
<1>6. thread \in [Threads -> {IdleThread} \union Serving]
  BY DEF InboxInv, InboxTyped
<1>7. InboxTyped'
  BY <1>2, <1>4, <1>5, <1>6 DEF InboxInv, InboxTyped
<1>8. \A u \in Threads : thread'[u].at = "apply" => thread'[u] = thread[u]
  BY <1>4, <1>5, <1>6
<1> QED
  BY <1>2, <1>7, <1>8, NoTokenMoves

\* A token is drawn, runs out, or is forgotten with the process.
LEMMA TableMoves ==
  ASSUME InboxInv, CreatePreview \/ Expire \/ ApiCrash \/ Trading
  PROVE  InboxInv'
<1> USE DEF InboxInv, InboxTyped, TokenInOnePlace, Unused, Holds
<1>1. ASSUME CreatePreview
      PROVE  InboxInv'
  <2>1. PICK k \in Tokens \ issued, b \in Bodies :
          previews' = [previews EXCEPT ![k] = b] /\ issued' = issued \union {k}
    BY <1>1 DEF CreatePreview
  <2>2. UNCHANGED <<flags, records, rows, thread, answered, applied, confirmed, apiCrashes>>
    BY <1>1 DEF CreatePreview
  <2> QED
    BY <2>1, <2>2
<1>2. ASSUME Expire
      PROVE  InboxInv'
  <2>1. PICK k \in Tokens : previews' = [previews EXCEPT ![k] = NoCommand]
    BY <1>2 DEF Expire
  <2>2. UNCHANGED <<flags, records, rows, issued, thread, answered, applied, confirmed, apiCrashes>>
    BY <1>2 DEF Expire
  <2> QED
    BY <2>1, <2>2
<1>3. ASSUME ApiCrash
      PROVE  InboxInv'
  <2>1. /\ apiCrashes' \in 0 .. MaxApiCrashes /\ flags' \in Flags
        /\ records' = rows /\ UNCHANGED <<rows, issued, answered, applied, confirmed>>
    BY <1>3, InboxAssumption DEF ApiCrash, Fresh, Flags
  <2>2. /\ previews' = [k \in Tokens |-> NoCommand] /\ thread' = [t \in Threads |-> IdleThread]
        /\ \A t \in Threads : thread'[t].at = "idle"
    BY <1>3 DEF ApiCrash, IdleThread
  <2> QED
    BY <2>1, <2>2
<1>4. ASSUME Trading
      PROVE  InboxInv'
  <2>1. flags' \in Flags
    <3>1. flags.run \subseteq Strategies /\ flags.halted \in BOOLEAN
      BY DEF Flags
    <3>2. \A s \in Strategies, running \in BOOLEAN : Toggle(flags, s, running) \in Flags
      BY <3>1 DEF Toggle, Flags
    <3>3. PauseAll(flags) \in Flags /\ ResumeAll(flags) \in Flags /\ Halt(flags) \in Flags
      BY <3>1 DEF PauseAll, ResumeAll, Halt, Flags
    <3> QED
      BY <1>4, <3>2, <3>3 DEF Trading
  <2>2. UNCHANGED <<records, rows, previews, issued, thread, answered, applied, confirmed, apiCrashes>>
    BY <1>4 DEF Trading
  <2> QED
    BY <2>1, <2>2
<1> QED
  BY <1>1, <1>2, <1>3, <1>4

\* Every step preserves the invariant.
LEMMA InboxInvAlways == InboxSpec => []InboxInv
<1>1. InboxInit => InboxInv
  BY InboxAssumption DEF InboxInit, InboxInv, InboxTyped, TokenInOnePlace, Unused, Holds, Fresh, Flags, IdleThread
<1>2. ASSUME InboxInv, [InboxNext]_inboxVars
      PROVE  InboxInv'
  <2>1. ASSUME UNCHANGED inboxVars
        PROVE  InboxInv'
    BY <1>2, <2>1 DEF inboxVars, InboxInv, InboxTyped, TokenInOnePlace, Unused, Holds
  <2> QED
    BY <1>2, <2>1, CheckKeepsTokens, ApplyUsesToken, WritesMoveNoToken, TableMoves DEF InboxNext
<1> QED
  BY <1>1, <1>2, PTL DEF InboxSpec

\* However many threads serve requests together, a token confirms at most one
\* command and the database keeps one body for an id (CommandInbox.submit).
THEOREM ThreadsAlwaysAgree == InboxSpec => ThreadsAgree
<1>1. InboxInv => InboxTypeOK /\ TokenSingleUse
  BY DEF InboxInv, InboxTyped, TokenInOnePlace, InboxTypeOK, TokenSingleUse
<1>2. InboxInv /\ [InboxNext]_inboxVars
        => [\A i \in CommandIds : rows[i] # NoCommand => rows'[i] = rows[i]]_inboxVars
  <2> SUFFICES ASSUME InboxInv, InboxNext, NEW i \in CommandIds, rows[i] # NoCommand
               PROVE  rows'[i] = rows[i]
    OBVIOUS
  <2>1. rows \in [CommandIds -> Bodies \union {NoCommand}]
    BY DEF InboxInv, InboxTyped
  <2>2. rows' = rows \/ \E t \in Threads : Insert(t)
    BY DEF InboxNext, CreatePreview, Expire, Trading, ApiCrash, Check, Apply, Record
  <2> QED
    BY <2>1, <2>2 DEF Insert, Taken
<1> QED
  BY <1>1, <1>2, InboxInvAlways, PTL DEF InboxSpec, ThreadsAgree, OneBodyPerId
\* One thread writes the record and the row of a request before it looks at
\* the next: between requests they agree, and what was answered has its row.
WrittenTogether ==
  /\ \A t \in Threads :
       /\ thread[t].at \in {"idle", "apply", "record"} => records = rows
       /\ thread[t].at \in {"apply", "record"} => rows[thread[t].req.id] = NoCommand
       /\ thread[t].at = "insert" =>
            /\ rows[thread[t].req.id] = NoCommand
            /\ records = [rows EXCEPT ![thread[t].req.id] = thread[t].req.body]
  /\ \A i \in answered : rows[i] # NoCommand

\* A request of the only thread.
LEMMA OneThreadWrites ==
  ASSUME \A t, u \in Threads : t = u, InboxInv, WrittenTogether, NEW t \in Threads,
         Check(t) \/ Apply(t) \/ Record(t) \/ Insert(t)
  PROVE  WrittenTogether'
<1>1. Threads = {t}
  OBVIOUS
<1>2. /\ thread \in [Threads -> {IdleThread} \union Serving] /\ IdleThread.at = "idle"
      /\ rows \in [CommandIds -> Bodies \union {NoCommand}]
      /\ records \in [CommandIds -> Bodies \union {NoCommand}]
  BY DEF InboxInv, InboxTyped, IdleThread
<1>3. ASSUME Check(t)
      PROVE  WrittenTogether'
  <2>1. PICK req \in Requests :
          /\ thread[t] = IdleThread
          /\ IF OnRecord(req)
               THEN /\ answered' = IF records[req.id] = req.body THEN answered \union {req.id} ELSE answered
                    /\ thread' = thread
               ELSE /\ thread' = IF Confirms(req) THEN [thread EXCEPT ![t] = [at |-> "apply", req |-> req]]
                                 ELSE thread
                    /\ UNCHANGED answered
    BY <1>3 DEF Check
  <2>2. UNCHANGED <<records, rows>> /\ records = rows /\ \A i \in answered : rows[i] # NoCommand
    BY <1>2, <1>3, <2>1 DEF Check, WrittenTogether
  <2>3. CASE OnRecord(req)
    <3>1. thread' = thread /\ \A i \in answered' : rows[i] # NoCommand
      BY <2>1, <2>2, <2>3 DEF OnRecord
    <3> QED
      BY <2>2, <3>1 DEF WrittenTogether
  <2>4. CASE ~OnRecord(req)
    <3>1. answered' = answered /\ rows[req.id] = NoCommand
      BY <2>1, <2>2, <2>4 DEF OnRecord
    <3>2. thread'[t] = thread[t] \/ (thread'[t].at = "apply" /\ thread'[t].req = req)
      BY <1>2, <2>1, <2>4
    <3> QED
      BY <1>1, <1>2, <2>1, <2>2, <3>1, <3>2 DEF WrittenTogether
  <2> QED
    BY <2>3, <2>4
<1>4. ASSUME Apply(t) \/ Record(t) \/ Insert(t)
      PROVE  WrittenTogether'
  <2>1. /\ thread[t].at \in {"apply", "record", "insert"} /\ thread[t] \in Serving
        /\ thread[t].req.id \in CommandIds /\ thread[t].req.body \in Bodies
    <3>1. thread[t].at \in {"apply", "record", "insert"}
      BY <1>4 DEF Apply, Record, Insert
    <3> QED
      BY <1>2, <3>1, ThreadServes
  <2>2. \A step \in {"record", "insert"} :
          thread' = [thread EXCEPT ![t].at = step] => thread'[t].at = step /\ thread'[t].req = thread[t].req
    BY <1>2, <2>1 DEF Serving
  <2>3. CASE Apply(t)
    <3>1. UNCHANGED <<records, rows, answered>> /\ thread' = [thread EXCEPT ![t].at = "record"]
          /\ thread[t].at = "apply"
      BY <2>3 DEF Apply
    <3> QED
      BY <1>1, <2>2, <3>1 DEF WrittenTogether
  <2>4. CASE Record(t)
    <3>1. /\ UNCHANGED <<rows, answered>> /\ thread' = [thread EXCEPT ![t].at = "insert"]
          /\ thread[t].at = "record" /\ records' = [records EXCEPT ![thread[t].req.id] = thread[t].req.body]
      BY <2>4 DEF Record
    <3> QED
      BY <1>1, <2>2, <3>1 DEF WrittenTogether
  <2>5. CASE Insert(t)
    <3>1. rows[thread[t].req.id] = NoCommand
          /\ records = [rows EXCEPT ![thread[t].req.id] = thread[t].req.body]
      BY <2>5 DEF Insert, WrittenTogether
    <3>2. /\ rows' = [rows EXCEPT ![thread[t].req.id] = thread[t].req.body]
          /\ answered' = answered \union {thread[t].req.id}
          /\ thread' = [thread EXCEPT ![t] = IdleThread] /\ records' = records
      BY <2>5, <3>1 DEF Insert, Taken
    <3>3. thread'[t].at = "idle" /\ records' = rows'
      BY <1>2, <3>1, <3>2
    <3>4. \A i \in answered' : rows'[i] # NoCommand
      <4>1. answered \subseteq CommandIds /\ \A i \in answered : rows[i] # NoCommand
        BY DEF WrittenTogether, InboxInv, InboxTyped
      <4> QED
        BY <1>2, <2>1, <3>2, <4>1, InboxAssumption
    <3> QED
      BY <1>1, <3>3, <3>4 DEF WrittenTogether
  <2> QED
    BY <1>4, <2>3, <2>4, <2>5
<1> QED
  BY <1>3, <1>4

\* Where one thread serves the requests, a retry of an id that was answered has
\* no effect, before or after a restart (CommandInbox.submit, _load_from_db).
THEOREM AnsweredAlwaysDone ==
  ASSUME \A t, u \in Threads : t = u
  PROVE  InboxSpec => AnsweredIsDone
<1>1. InboxInit => WrittenTogether
  BY DEF InboxInit, WrittenTogether, IdleThread
<1>2. InboxInv /\ WrittenTogether /\ [InboxNext]_inboxVars => WrittenTogether'
  <2> SUFFICES ASSUME InboxInv, WrittenTogether, [InboxNext]_inboxVars
               PROVE  WrittenTogether'
    OBVIOUS
  <2>1. CASE ApiCrash
    <3>1. records' = rows /\ UNCHANGED <<rows, answered>> /\ \A t \in Threads : thread'[t].at = "idle"
      BY <2>1 DEF ApiCrash, IdleThread
    <3> QED
      BY <3>1 DEF WrittenTogether
  <2>2. CASE UNCHANGED <<records, rows, thread, answered>>
    BY <2>2 DEF WrittenTogether
  <2>3. CASE \E t \in Threads : Check(t) \/ Apply(t) \/ Record(t) \/ Insert(t)
    BY <2>3, OneThreadWrites
  <2> QED
    BY <2>1, <2>2, <2>3 DEF InboxNext, inboxVars, CreatePreview, Expire, Trading
<1>3. InboxInv /\ WrittenTogether /\ [InboxNext]_inboxVars
        => [\A i \in answered : applied'[i] = applied[i]]_inboxVars
  <2> SUFFICES ASSUME InboxInv, WrittenTogether, InboxNext, NEW i \in answered
               PROVE  applied'[i] = applied[i]
    OBVIOUS
  <2>1. applied' = applied \/ \E t \in Threads : Apply(t)
    BY DEF InboxNext, CreatePreview, Expire, Trading, ApiCrash, Check, Record, Insert
  <2>2. ASSUME NEW t \in Threads, Apply(t)
        PROVE  applied'[i] = applied[i]
    <3>1. thread[t].req.id # i
      BY <2>2 DEF Apply, WrittenTogether
    <3>2. applied \in [CommandIds -> [Bodies -> 0 .. MaxEffects]] /\ i \in CommandIds
      BY DEF InboxInv, InboxTyped
    <3>3. applied' = [applied EXCEPT ![thread[t].req.id][thread[t].req.body] = @ + 1]
      BY <2>2 DEF Apply
    <3> QED
      BY <3>1, <3>2, <3>3
  <2> QED
    BY <2>1, <2>2
<1> QED
  BY <1>1, <1>2, <1>3, InboxInvAlways, PTL DEF InboxSpec, AnsweredIsDone
-----------------------------------------------------------------------------
(* The recovery cursor.  The venue's clock never goes back and is at most  *)
(* Skew behind the local one, so what the window of a run does not hold    *)
(* was stamped after its start less Overlap; what it holds is booked       *)
(* before the cursor moves to that start.                                  *)

Orderings == {"UNKNOWN", "OPEN"} \cup TERMINAL
Streams == [ready : BOOLEAN, wire : Seq(Frame), buffer : Seq(Frame)]
Records == [status : {"NONE", "RECONCILING", "BLOCKED", "CONVERGED"},
            cursor : {NoTime} \cup 0 .. MaxClock]
WindowFields == {"open", "seen", "facts", "cash", "lots", "end", "before"}
RunFields == {"opening", "since", "began", "previous", "stableAt"}

\* A fill is reported only after it happened.
Fed(q) == \A i \in 1 .. Len(q) : q[i].kind = "fill" => q[i].o \in Happened

ClocksSound == clock \in 0 .. MaxClock /\ ahead \in -Skew .. Skew /\ ahead <= clock

VenueTyped ==
  /\ vtime \in [Fact -> {NoTime} \cup 0 .. MaxClock + Skew]
  /\ vlife \in [Orders -> {"OPEN"} \cup TERMINAL]

StreamSound ==
  /\ stream \in Streams /\ Len(stream.buffer) <= Capacity
  /\ Fed(stream.wire) /\ Fed(stream.buffer)

LedgerSound ==
  orders \in [KnownOrders -> Orderings] /\ booked \subseteq Happened /\ rec \in Records

WindowSound ==
  /\ DOMAIN w = WindowFields /\ DOMAIN run = RunFields
  /\ w.seen \in [Orders -> Orderings] /\ w.facts \subseteq Happened /\ w.end \in 0 .. MaxClock

\* What is stamped from now on is not behind t less Overlap.
Passed(t) == t - Skew <= clock - ahead

\* What was stamped long before the window ended.
Older == {x \in Happened : vtime[x] < w.end - Overlap}

CursorSound ==
  ~Opening =>
    /\ NothingBehindCursor
    /\ rec.cursor # NoTime => Passed(rec.cursor)
    /\ pc # "idle" =>
         /\ run.opening = FALSE
         /\ run.since = 0 \/ (rec.cursor # NoTime /\ run.since = Since(rec.cursor))
    /\ pc \in {"orders", "history", "assets", "positions", "judge", "record"} => Passed(w.end)
    /\ pc \in {"assets", "positions", "judge"} =>
         \A x \in Older : vtime[x] >= run.since => x \in w.facts
    /\ pc = "record" => Older \subseteq booked

RecoveryInv ==
  ClocksSound /\ VenueTyped /\ StreamSound /\ LedgerSound /\ WindowSound /\ CursorSound

\* Where a window starts.
LEMMA SinceIs ==
  ASSUME NEW t \in Nat
  PROVE  Since(t) \in Nat /\ (t >= Overlap => Since(t) = t - Overlap) /\ (t < Overlap => Since(t) = 0)
  BY RecoveryAssumption DEF Since

\* Something happens at the venue and is stamped with its clock.
LEMMA VenueStamps ==
  ASSUME RecoveryInv, NEW x \in Fact, vtime' = [vtime EXCEPT ![x] = clock - ahead],
         UNCHANGED <<clock, ahead, orders, booked, rec, pc, run, w>>
  PROVE  /\ ClocksSound' /\ LedgerSound' /\ WindowSound' /\ CursorSound'
         /\ vtime' \in [Fact -> {NoTime} \cup 0 .. MaxClock + Skew]
         /\ Happened' = Happened \cup {x}
<1> DEFINE now == clock - ahead
<1>1. /\ now \in 0 .. MaxClock + Skew /\ now \in Nat /\ now # NoTime
      /\ Skew \in Nat /\ Overlap \in Nat /\ Skew <= Overlap /\ MaxClock \in Nat
  BY RecoveryAssumption DEF RecoveryInv, ClocksSound, NoTime
<1>2. /\ vtime \in [Fact -> {NoTime} \cup 0 .. MaxClock + Skew]
      /\ vtime' \in [Fact -> {NoTime} \cup 0 .. MaxClock + Skew]
      /\ vtime'[x] = now /\ \A y \in Fact \ {x} : vtime'[y] = vtime[y]
  BY <1>1 DEF RecoveryInv, VenueTyped
<1>3. Happened' = Happened \cup {x}
  BY <1>1, <1>2 DEF Happened
<1>4. ClocksSound' /\ LedgerSound' /\ WindowSound'
  BY <1>3 DEF RecoveryInv, ClocksSound, LedgerSound, WindowSound
<1>5. CursorSound'
  <2> SUFFICES ASSUME ~Opening
               PROVE  CursorSound'
    BY DEF CursorSound
  <2>1. CursorSound /\ rec.cursor \in {NoTime} \cup 0 .. MaxClock /\ w.end \in 0 .. MaxClock
    BY DEF RecoveryInv, LedgerSound, WindowSound, Records
  <2>2. NothingBehindCursor'
    <3> SUFFICES ASSUME rec.cursor # NoTime, NEW y \in Happened' \ booked
                 PROVE  vtime'[y] >= Since(rec.cursor)
      BY DEF NothingBehindCursor, Since
    <3>1. rec.cursor \in Nat /\ rec.cursor - Skew <= now
      BY <2>1, RecoveryAssumption DEF CursorSound, Passed
    <3>2. CASE y = x
      BY <1>1, <1>2, <3>1, <3>2, SinceIs
    <3>3. CASE y # x
      <4>1. y \in Happened \ booked /\ vtime'[y] = vtime[y]
        BY <1>2, <1>3, <3>3 DEF Happened
      <4> QED
        BY <2>1, <4>1 DEF CursorSound, NothingBehindCursor
    <3> QED
      BY <3>2, <3>3
  <2>3. Passed(w.end) => \A y \in Older' : y # x /\ y \in Older /\ vtime'[y] = vtime[y]
    <3> SUFFICES ASSUME Passed(w.end), NEW y \in Happened', vtime'[y] < w.end - Overlap
                 PROVE  y # x /\ y \in Happened /\ vtime[y] < w.end - Overlap /\ vtime'[y] = vtime[y]
      BY DEF Older
    <3>1. w.end - Overlap <= now /\ w.end \in Int
      BY <1>1, <2>1 DEF Passed
    <3>2. y # x
      BY <1>1, <1>2, <3>1
    <3> QED
      BY <1>2, <1>3, <3>2 DEF Happened
  <2> QED
    BY <2>1, <2>2, <2>3 DEF CursorSound, Passed, Since
<1> QED
  BY <1>2, <1>3, <1>4, <1>5

\* Nothing else moves the venue.
LEMMA VenueStepsSound ==
  ASSUME RecoveryInv,
         \/ \E o \in Orders : VenueFill(o) \/ VenueCancel(o)
         \/ \E x \in Rows : VenueTransfer(x)
  PROVE  RecoveryInv'
<1>1. /\ stream \in Streams /\ Len(stream.buffer) <= Capacity /\ Fed(stream.wire) /\ Fed(stream.buffer)
      /\ vlife \in [Orders -> {"OPEN"} \cup TERMINAL]
  BY DEF RecoveryInv, StreamSound, VenueTyped
<1>2. ASSUME NEW frames \in Seq(Frame), Sent(frames), Happened \subseteq Happened',
             \A i \in 1 .. Len(frames) : frames[i].kind = "fill" => frames[i].o \in Happened'
      PROVE  StreamSound'
  <2>1. Fed(stream.wire)' \/ stream' # stream
    BY <1>1, <1>2 DEF Fed
  <2>2. Fed(stream.buffer)' \/ stream'.buffer # stream.buffer
    BY <1>1, <1>2 DEF Fed
  <2>3. CASE ~stream.ready
    <3>1. stream' = stream
      BY <1>2, <2>3 DEF Sent
    <3> QED
      BY <1>1, <2>1, <2>2, <3>1 DEF StreamSound
  <2>4. CASE stream.ready
    <3>1. stream' = [stream EXCEPT !.wire = @ \o frames]
      BY <1>2, <2>4 DEF Sent
    <3>2. stream' \in Streams /\ stream'.buffer = stream.buffer /\ stream'.wire = stream.wire \o frames
      <4>1. stream.wire \o frames \in Seq(Frame)
        BY <1>1, <1>2 DEF Streams
      <4> QED
        BY <1>1, <3>1, <4>1 DEF Streams
    <3>3. Fed(stream.wire)'
      <4>1. stream.wire \in Seq(Frame)
        BY <1>1 DEF Streams
      <4> SUFFICES ASSUME NEW i \in 1 .. Len(stream.wire \o frames),
                          (stream.wire \o frames)[i].kind = "fill"
                   PROVE  (stream.wire \o frames)[i].o \in Happened'
        BY <3>2 DEF Fed
      <4>2. CASE i \in 1 .. Len(stream.wire)
        BY <1>1, <1>2, <4>1, <4>2 DEF Fed
      <4>3. CASE i \notin 1 .. Len(stream.wire)
        <5>1. i - Len(stream.wire) \in 1 .. Len(frames)
              /\ (stream.wire \o frames)[i] = frames[i - Len(stream.wire)]
          BY <1>2, <4>1, <4>3
        <5> QED
          BY <1>2, <5>1
      <4> QED
        BY <4>2, <4>3
    <3> QED
      BY <1>1, <2>2, <3>2, <3>3 DEF StreamSound
  <2> QED
    BY <2>3, <2>4
<1>3. ASSUME NEW o \in Orders, VenueFill(o)
      PROVE  RecoveryInv'
  <2> DEFINE order == [kind |-> "order", o |-> o, life |-> "FILLED"]
             fill  == [kind |-> "fill", o |-> o]
  <2>1. vtime' = [vtime EXCEPT ![o] = clock - ahead] /\ o \in Fact
        /\ UNCHANGED <<clock, ahead, orders, booked, rec, pc, run, w>>
    BY <1>3 DEF VenueFill, Fact, time, ledger
  <2>2. /\ ClocksSound' /\ LedgerSound' /\ WindowSound' /\ CursorSound'
        /\ vtime' \in [Fact -> {NoTime} \cup 0 .. MaxClock + Skew] /\ Happened' = Happened \cup {o}
    BY <2>1, VenueStamps
  <2>3. vlife' \in [Orders -> {"OPEN"} \cup TERMINAL]
    BY <1>1, <1>3 DEF VenueFill, TERMINAL
  <2>4. StreamSound'
    <3>1. <<order, fill>> \in Seq(Frame)
      <4>1. order \in Frame /\ fill \in Frame
        BY DEF Frame, TERMINAL
      <4> HIDE DEF order, fill
      <4> QED
        BY <4>1
    <3>2. Sent(<<order, fill>>)
      BY <1>3 DEF VenueFill
    <3>3. \A i \in 1 .. Len(<<order, fill>>) : <<order, fill>>[i].kind = "fill" => <<order, fill>>[i].o \in Happened'
      <4>1. order.o = o /\ fill.o = o
        OBVIOUS
      <4> HIDE DEF order, fill
      <4>2. \A i \in 1 .. 2 : <<order, fill>>[i].o = o
        BY <4>1
      <4> QED
        BY <2>2, <4>2
    <3> HIDE DEF order, fill
    <3> QED
      BY <1>2, <2>2, <3>1, <3>2, <3>3
  <2> QED
    BY <2>2, <2>3, <2>4 DEF RecoveryInv, VenueTyped
<1>4. ASSUME NEW o \in Orders, VenueCancel(o)
      PROVE  RecoveryInv'
  <2> DEFINE order == [kind |-> "order", o |-> o, life |-> "CANCELED"]
  <2>1. UNCHANGED <<clock, ahead, vtime, orders, booked, rec, pc, run, w>> /\ Happened' = Happened
    BY <1>4 DEF VenueCancel, time, ledger, Happened
  <2>2. vlife' \in [Orders -> {"OPEN"} \cup TERMINAL]
    BY <1>1, <1>4 DEF VenueCancel, TERMINAL
  <2>3. StreamSound'
    <3>1. order \in Frame /\ order.kind = "order"
      BY DEF Frame, TERMINAL
    <3>2. Sent(<<order>>)
      BY <1>4 DEF VenueCancel
    <3> HIDE DEF order
    <3>3. <<order>> \in Seq(Frame) /\ \A i \in 1 .. Len(<<order>>) : <<order>>[i].kind # "fill"
      BY <3>1
    <3> QED
      BY <1>2, <2>1, <3>2, <3>3
  <2>4. ClocksSound' /\ LedgerSound' /\ WindowSound' /\ CursorSound'
    BY <2>1 DEF RecoveryInv, ClocksSound, LedgerSound, WindowSound, CursorSound, NothingBehindCursor, Since,
      Passed, Older
  <2> QED
    BY <2>1, <2>2, <2>3, <2>4 DEF RecoveryInv, VenueTyped
<1>5. ASSUME NEW x \in Rows, VenueTransfer(x)
      PROVE  RecoveryInv'
  <2>1. vtime' = [vtime EXCEPT ![x] = clock - ahead] /\ x \in Fact /\ UNCHANGED <<vlife, stream>>
        /\ UNCHANGED <<clock, ahead, orders, booked, rec, pc, run, w>>
    BY <1>5 DEF VenueTransfer, Fact, time, ledger
  <2>2. /\ ClocksSound' /\ LedgerSound' /\ WindowSound' /\ CursorSound'
        /\ vtime' \in [Fact -> {NoTime} \cup 0 .. MaxClock + Skew] /\ Happened' = Happened \cup {x}
    BY <2>1, VenueStamps
  <2>3. StreamSound'
    BY <1>1, <2>1, <2>2 DEF StreamSound, Fed
  <2> QED
    BY <1>1, <2>1, <2>2, <2>3 DEF RecoveryInv, VenueTyped
<1> QED
  BY <1>3, <1>4, <1>5


\* What a step that leaves the venue alone keeps.
LEMMA VenueKept ==
  ASSUME RecoveryInv, UNCHANGED venue
  PROVE  /\ Happened' = Happened /\ VenueTyped'
         /\ (clock' = clock /\ ahead' = ahead => ClocksSound')
         /\ (stream' = stream => StreamSound')
         /\ (UNCHANGED <<orders, booked, rec>> => LedgerSound')
         /\ (UNCHANGED <<run, w>> => WindowSound')
<1>1. UNCHANGED <<vlife, vtime>> /\ Happened' = Happened
  BY DEF venue, Happened
<1>2. VenueTyped'
  BY <1>1 DEF RecoveryInv, VenueTyped
<1>3. clock' = clock /\ ahead' = ahead => ClocksSound'
  BY DEF RecoveryInv, ClocksSound
<1>4. stream' = stream => StreamSound'
  BY <1>1 DEF RecoveryInv, StreamSound, Fed
<1>5. UNCHANGED <<orders, booked, rec>> => LedgerSound'
  BY <1>1 DEF RecoveryInv, LedgerSound
<1>6. UNCHANGED <<run, w>> => WindowSound'
  BY <1>1 DEF RecoveryInv, WindowSound
<1> QED
  BY <1>1, <1>2, <1>3, <1>4, <1>5, <1>6

\* A run that ends without convergence leaves the cursor where it was.
LEMMA BlockSound ==
  ASSUME RecoveryInv, Block, UNCHANGED <<venue, clock, ahead, orders, booked>>
  PROVE  LedgerSound' /\ WindowSound' /\ CursorSound'
<1>1. Happened' = Happened /\ vtime' = vtime /\ MaxClock \in Nat
  BY VenueKept, RecoveryAssumption DEF venue
<1>2. rec' = [rec EXCEPT !.status = "BLOCKED"] /\ pc' = "idle" /\ run' = NoRun /\ w' = NoWindow
  BY DEF Block
<1>3. rec \in Records /\ rec' \in Records /\ rec'.cursor = rec.cursor
  BY <1>2 DEF RecoveryInv, LedgerSound, Records
<1>4. LedgerSound'
  BY <1>1, <1>3 DEF RecoveryInv, LedgerSound
<1>5. WindowSound'
  BY <1>1, <1>2 DEF WindowSound, WindowFields, RunFields, NoRun, NoWindow, Orderings, TERMINAL
<1>6. CursorSound'
  BY <1>1, <1>2, <1>3 DEF RecoveryInv, CursorSound, NothingBehindCursor, Since, Passed
<1> QED
  BY <1>4, <1>5, <1>6

\* Time passes, the stream carries, loses and breaks frames, a run connects.
LEMMA StreamStepsSound ==
  ASSUME RecoveryInv, Tick \/ Pump \/ Disconnect \/ BadFrame \/ Connect
  PROVE  RecoveryInv'
<1>1. /\ stream \in Streams /\ Len(stream.buffer) <= Capacity /\ Fed(stream.wire) /\ Fed(stream.buffer)
      /\ stream.wire \in Seq(Frame) /\ stream.buffer \in Seq(Frame) /\ stream.ready \in BOOLEAN
      /\ Capacity \in Nat
  BY RecoveryAssumption DEF RecoveryInv, StreamSound, Streams
<1>2. ASSUME Tick
      PROVE  RecoveryInv'
  <2>1. UNCHANGED <<ahead, vtime, venue, stream, orders, booked, rec, pc, run, w>> /\ clock' = clock + 1
    BY <1>2 DEF Tick, ledger, venue
  <2>2. ClocksSound' /\ clock \in Int /\ ahead \in Int
    BY <1>2, <2>1, RecoveryAssumption DEF Tick, RecoveryInv, ClocksSound
  <2>3. Happened' = Happened /\ VenueTyped' /\ StreamSound' /\ LedgerSound' /\ WindowSound'
    BY <2>1, VenueKept
  <2>4. rec.cursor \in Int /\ w.end \in Int /\ Skew \in Int
    BY RecoveryAssumption DEF RecoveryInv, LedgerSound, Records, WindowSound, NoTime
  <2>5. (Passed(rec.cursor) => Passed(rec.cursor)') /\ (Passed(w.end) => Passed(w.end)')
    BY <2>1, <2>2, <2>4 DEF Passed
  <2>6. CursorSound'
    BY <2>1, <2>3, <2>5 DEF RecoveryInv, CursorSound, NothingBehindCursor, Since, Older
  <2> QED
    BY <2>2, <2>3, <2>6 DEF RecoveryInv
<1>3. ASSUME UNCHANGED <<time, venue, ledger, rec, run, w>>,
             pc' = pc \/ (pc = "connect" /\ pc' = "open"), StreamSound'
      PROVE  RecoveryInv'
  <2>1. UNCHANGED <<clock, ahead, vtime, orders, booked, rec, run, w>>
    BY <1>3 DEF time, venue, ledger
  <2>2. Happened' = Happened /\ VenueTyped' /\ ClocksSound' /\ LedgerSound' /\ WindowSound'
    BY <1>3, <2>1, VenueKept
  <2>3. CursorSound'
    BY <1>3, <2>1, <2>2 DEF RecoveryInv, CursorSound, NothingBehindCursor, Since, Older, Passed
  <2> QED
    BY <1>3, <2>2, <2>3 DEF RecoveryInv
<1>4. ASSUME UNCHANGED venue, stream' = Invalidated(stream)
      PROVE  StreamSound'
  <2>1. stream' = [stream EXCEPT !.ready = FALSE, !.wire = <<>>] /\ Happened' = Happened
    BY <1>4, VenueKept DEF Invalidated
  <2>2. <<>> \in Seq(Frame)
    OBVIOUS
  <2>3. stream' \in Streams /\ stream'.wire = <<>> /\ stream'.buffer = stream.buffer
    BY <1>1, <2>1, <2>2 DEF Streams
  <2> QED
    BY <1>1, <2>1, <2>3 DEF StreamSound, Fed
<1>5. ASSUME UNCHANGED venue, NEW f \in Frame, NEW wire \in Seq(Frame), Fed(wire),
             f.kind = "fill" => f.o \in Happened, Len(stream.buffer) < Capacity,
             stream' = [stream EXCEPT !.wire = wire, !.buffer = Append(@, f)]
      PROVE  StreamSound'
  <2>1. Append(stream.buffer, f) \in Seq(Frame) /\ Happened' = Happened
    BY <1>1, <1>5, VenueKept
  <2>2. stream' \in Streams /\ stream'.wire = wire /\ stream'.buffer = Append(stream.buffer, f)
    BY <1>1, <1>5, <2>1 DEF Streams
  <2>3. Fed(stream.buffer)' /\ Len(Append(stream.buffer, f)) <= Capacity
    BY <1>1, <1>5, <2>1, <2>2 DEF Fed
  <2> QED
    BY <1>5, <2>1, <2>2, <2>3 DEF StreamSound, Fed
<1>6. CASE Pump
  <2>1. UNCHANGED venue /\ pc' = pc /\ stream.wire # <<>>
    BY <1>6 DEF Pump
  <2>2. CASE Len(stream.buffer) >= Capacity
    BY <1>3, <1>4, <1>6, <2>1, <2>2 DEF Pump
  <2>3. CASE Len(stream.buffer) < Capacity
    <3>1. stream' = [stream EXCEPT !.wire = Tail(stream.wire), !.buffer = Append(@, Head(stream.wire))]
      BY <1>1, <1>6, <2>3 DEF Pump
    <3>2. Tail(stream.wire) \in Seq(Frame) /\ Head(stream.wire) = stream.wire[1] /\ 1 \in 1 .. Len(stream.wire)
      BY <1>1, <2>1
    <3>3. Fed(Tail(stream.wire)) /\ Head(stream.wire) \in Frame
      <4>1. \A i \in 1 .. Len(Tail(stream.wire)) :
              i + 1 \in 1 .. Len(stream.wire) /\ Tail(stream.wire)[i] = stream.wire[i + 1]
        BY <1>1, <2>1
      <4> QED
        BY <1>1, <3>2, <4>1, ElementOfSeq DEF Fed
    <3>4. Head(stream.wire).kind = "fill" => Head(stream.wire).o \in Happened
      BY <1>1, <3>2 DEF Fed
    <3>5. StreamSound'
      BY <1>5, <2>1, <2>3, <3>1, <3>2, <3>3, <3>4
    <3> QED
      BY <1>3, <1>6, <2>1, <3>5 DEF Pump
  <2> QED
    BY <1>1, <2>2, <2>3
<1>7. CASE Disconnect
  BY <1>3, <1>4, <1>7 DEF Disconnect
<1>8. CASE BadFrame
  <2> DEFINE bad == [kind |-> "bad"]
  <2>1. bad \in Frame /\ bad.kind # "fill"
    BY DEF Frame
  <2>2. stream' = [stream EXCEPT !.buffer = Append(@, bad)] /\ UNCHANGED venue /\ Len(stream.buffer) < Capacity
    BY <1>8 DEF BadFrame
  <2> HIDE DEF bad
  <2>3. stream' = [stream EXCEPT !.wire = stream.wire, !.buffer = Append(@, bad)]
    BY <1>1, <2>2 DEF Streams
  <2>4. StreamSound'
    BY <1>1, <1>5, <2>1, <2>2, <2>3
  <2> QED
    BY <1>3, <1>8, <2>4 DEF BadFrame
<1>9. CASE Connect
  <2>1. stream' = (IF stream.ready THEN stream ELSE [stream EXCEPT !.ready = TRUE]) /\ UNCHANGED venue
    BY <1>9 DEF Connect
  <2>2. stream' \in Streams /\ stream'.wire = stream.wire /\ stream'.buffer = stream.buffer
    BY <1>1, <2>1 DEF Streams
  <2>3. StreamSound'
    BY <1>1, <2>1, <2>2, VenueKept DEF StreamSound, Fed
  <2> QED
    BY <1>3, <1>9, <2>3 DEF Connect
<1> QED
  BY <1>2, <1>6, <1>7, <1>8, <1>9

\* A recovery starts, at the cursor less Overlap where there is one, or fails.
LEMMA BeginSound ==
  ASSUME RecoveryInv, (\E startAt \in {NoTime, 0} : Begin(startAt)) \/ InputFails
  PROVE  RecoveryInv'
<1>1. CASE InputFails
  <2>1. Block /\ UNCHANGED <<venue, stream, clock, ahead, orders, booked>>
    BY <1>1 DEF InputFails, time, ledger
  <2> QED
    BY <2>1, VenueKept, BlockSound DEF RecoveryInv
<1>2. ASSUME NEW startAt \in {NoTime, 0}, Begin(startAt)
      PROVE  RecoveryInv'
  <2> DEFINE first   == Opening /\ base = <<>> /\ booked = {} /\ KnownOrders = {}
             from    == IF rec.cursor # NoTime THEN rec.cursor ELSE startAt
  <2>1. UNCHANGED <<venue, vtime, stream, clock, ahead, orders, booked>>
    BY <1>2 DEF Begin, time, ledger, venue
  <2>2. Happened' = Happened /\ VenueTyped' /\ ClocksSound' /\ StreamSound'
    BY <2>1, VenueKept
  <2>3. CASE from = NoTime /\ ~first
    <3>1. Block
      BY <1>2, <2>3 DEF Begin
    <3> QED
      BY <2>1, <2>2, <3>1, BlockSound DEF RecoveryInv
  <2>4. CASE ~(from = NoTime /\ ~first)
    <3>1. /\ rec' = [rec EXCEPT !.status = "RECONCILING"] /\ pc' = "connect" /\ w' = NoWindow
          /\ run' = [NoRun EXCEPT !.opening = first, !.began = clock,
                       !.since = IF first THEN clock ELSE Since(from)]
      BY <1>2, <2>4 DEF Begin
    <3>2. rec \in Records /\ rec' \in Records /\ rec'.cursor = rec.cursor /\ MaxClock \in Nat
      BY <3>1, RecoveryAssumption DEF RecoveryInv, LedgerSound, Records
    <3>3. LedgerSound'
      BY <2>1, <2>2, <3>2 DEF RecoveryInv, LedgerSound
    <3>4. WindowSound'
      BY <2>2, <3>1, <3>2 DEF WindowSound, WindowFields, RunFields, NoRun, NoWindow, Orderings, TERMINAL
    <3>5. ~Opening => run'.opening = FALSE /\ run'.since = Since(from) /\ from # NoTime
      BY <2>4, <3>1 DEF NoRun
    <3>6. Since(0) = 0
      BY SinceIs, RecoveryAssumption
    <3>7. CursorSound'
      BY <2>1, <2>2, <3>1, <3>2, <3>5, <3>6 DEF RecoveryInv, CursorSound, NothingBehindCursor, Since, Passed
    <3> QED
      BY <2>2, <3>3, <3>4, <3>7 DEF RecoveryInv
  <2> QED
    BY <2>3, <2>4
<1> QED
  BY <1>1, <1>2

\* The window is read: it ends when it was asked for, and its history holds
\* what is stamped in it.
LEMMA ReadsSound ==
  ASSUME RecoveryInv, FetchOpen \/ FetchOrders \/ FetchHistory \/ FetchAssets \/ FetchPositions
  PROVE  RecoveryInv'
<1>1. UNCHANGED <<venue, vtime, vlife, stream, clock, ahead, orders, booked>>
  BY DEF FetchOpen, FetchOrders, FetchHistory, FetchAssets, FetchPositions, time, ledger, venue
<1>2. Happened' = Happened /\ VenueTyped' /\ ClocksSound' /\ StreamSound'
  BY <1>1, VenueKept
<1>3. /\ DOMAIN w = WindowFields /\ DOMAIN run = RunFields /\ w.seen \in [Orders -> Orderings]
      /\ w.facts \subseteq Happened /\ w.end \in 0 .. MaxClock /\ MaxClock \in Nat /\ w.end \in Int
      /\ Skew \in Nat /\ Overlap \in Nat /\ Skew <= Overlap
      /\ vtime \in [Fact -> {NoTime} \cup 0 .. MaxClock + Skew]
  BY RecoveryAssumption DEF RecoveryInv, WindowSound, VenueTyped
<1>4. ASSUME UNCHANGED <<rec, run>>, WindowSound', pc # "idle",
             w'.end = w.end, pc' \in {"history", "assets", "positions", "judge"},
             pc \in {"orders", "history", "assets", "positions", "judge", "record"},
             pc' \in {"assets", "positions", "judge"} /\ ~Opening =>
               \A x \in Older : vtime[x] >= run.since => x \in w'.facts
      PROVE  RecoveryInv'
  <2>1. LedgerSound'
    BY <1>1, <1>4, VenueKept
  <2>2. CursorSound'
    BY <1>1, <1>2, <1>4 DEF RecoveryInv, CursorSound, NothingBehindCursor, Since, Passed, Older
  <2> QED
    BY <1>2, <1>4, <2>1, <2>2 DEF RecoveryInv
<1>5. CASE FetchOpen
  <2>1. CASE ~stream.ready
    <3>1. Block
      BY <1>5, <2>1 DEF FetchOpen
    <3> QED
      BY <1>1, <1>2, <3>1, BlockSound DEF RecoveryInv
  <2>2. CASE stream.ready
    <3>1. /\ w' = [NoWindow EXCEPT !.open = {o \in Orders : vlife[o] = "OPEN"}, !.end = clock, !.before = Happened]
          /\ pc = "open" /\ pc' = "orders" /\ UNCHANGED <<rec, run>>
      BY <1>5, <2>2 DEF FetchOpen
    <3>2. /\ DOMAIN w' = WindowFields /\ w'.seen = [o \in Orders |-> "UNKNOWN"] /\ w'.facts = {}
          /\ w'.end = clock
      BY <3>1 DEF NoWindow, WindowFields
    <3>3. WindowSound'
      BY <1>1, <1>2, <1>3, <3>1, <3>2 DEF WindowSound, Orderings, RecoveryInv, ClocksSound
    <3>4. Passed(w.end)'
      BY <1>1, <3>2, RecoveryAssumption DEF Passed, RecoveryInv, ClocksSound
    <3>5. LedgerSound'
      BY <1>1, <3>1, VenueKept
    <3>6. CursorSound'
      BY <1>1, <1>2, <3>1, <3>4 DEF RecoveryInv, CursorSound, NothingBehindCursor, Since, Passed
    <3> QED
      BY <1>2, <3>3, <3>5, <3>6 DEF RecoveryInv
  <2> QED
    BY <2>1, <2>2
<1>6. CASE FetchOrders
  <2> DEFINE seen == [o \in Orders |-> IF o \in KnownOrders THEN vlife[o] ELSE "UNKNOWN"]
  <2>1. w' = [w EXCEPT !.seen = seen] /\ pc = "orders" /\ pc' = "history" /\ UNCHANGED <<rec, run>>
    BY <1>6 DEF FetchOrders
  <2>2. seen \in [Orders -> Orderings]
    BY DEF RecoveryInv, VenueTyped, Orderings
  <2> HIDE DEF seen
  <2>3. /\ DOMAIN w' = WindowFields /\ w'.seen = seen /\ w'.facts = w.facts /\ w'.end = w.end
    BY <1>3, <2>1 DEF WindowFields
  <2>4. WindowSound'
    BY <1>1, <1>2, <1>3, <2>1, <2>2, <2>3 DEF WindowSound
  <2> QED
    BY <1>4, <2>1, <2>3, <2>4
<1>7. CASE FetchHistory
  <2>1. w' = [w EXCEPT !.facts = {x \in Happened : InWindow(x)}]
        /\ pc = "history" /\ pc' = "assets" /\ UNCHANGED <<rec, run>>
    BY <1>7 DEF FetchHistory
  <2>2. /\ DOMAIN w' = WindowFields /\ w'.seen = w.seen /\ w'.end = w.end
        /\ w'.facts = {x \in Happened : InWindow(x)}
    BY <1>3, <2>1 DEF WindowFields
  <2>3. WindowSound'
    BY <1>1, <1>2, <1>3, <2>1, <2>2 DEF WindowSound
  <2>4. ASSUME ~Opening, NEW x \in Older, vtime[x] >= run.since
        PROVE  x \in w'.facts
    <3>1. x \in Happened /\ vtime[x] < w.end - Overlap /\ vtime[x] \in Nat
      BY <1>3, <2>4 DEF Older, Happened
    <3>2. run.since \in Nat
      <4>1. run.since = 0 \/ (rec.cursor # NoTime /\ run.since = Since(rec.cursor))
        BY <2>1, <2>4 DEF RecoveryInv, CursorSound
      <4>2. rec.cursor \in {NoTime} \cup 0 .. MaxClock
        BY DEF RecoveryInv, LedgerSound, Records
      <4> QED
        BY <1>3, <4>1, <4>2, SinceIs
    <3> QED
      BY <1>3, <2>2, <2>4, <3>1, <3>2 DEF InWindow
  <2> QED
    BY <1>4, <2>1, <2>2, <2>3, <2>4
<1>8. ASSUME pc \in {"assets", "positions"}, pc' \in {"positions", "judge"}, UNCHANGED <<rec, run>>,
             \E c : w' = [w EXCEPT !.cash = c] \/ w' = [w EXCEPT !.lots = c]
      PROVE  RecoveryInv'
  <2>1. DOMAIN w' = WindowFields /\ w'.seen = w.seen /\ w'.end = w.end /\ w'.facts = w.facts
    BY <1>3, <1>8 DEF WindowFields
  <2>2. WindowSound'
    BY <1>1, <1>2, <1>3, <1>8, <2>1 DEF WindowSound
  <2>3. ~Opening => \A x \in Older : vtime[x] >= run.since => x \in w'.facts
    BY <1>8, <2>1 DEF RecoveryInv, CursorSound
  <2> QED
    BY <1>4, <1>8, <2>1, <2>2, <2>3
<1>9. CASE FetchAssets
  BY <1>8, <1>9 DEF FetchAssets
<1>10. CASE FetchPositions
  BY <1>8, <1>10 DEF FetchPositions
<1> QED
  BY <1>5, <1>6, <1>7, <1>9, <1>10

\* Window and buffer are booked together and only they; the run stays.
LEMMA JudgeSound ==
  ASSUME RecoveryInv, Judge
  PROVE  RecoveryInv'
<1> DEFINE facts == booked \cup w.facts \cup StreamFills
<1>1. /\ UNCHANGED <<venue, vtime, clock, ahead, rec, w>> /\ pc = "judge" /\ pc' \in {"record", "sleep"}
      /\ booked' = facts /\ orders' = [o \in KnownOrders |-> Told(o, facts)]
      /\ stream' = IF Gap THEN [Invalidated(stream) EXCEPT !.buffer = <<>>] ELSE [stream EXCEPT !.buffer = <<>>]
  BY DEF Judge, time, venue
<1>2. Happened' = Happened /\ VenueTyped' /\ ClocksSound'
  BY <1>1, VenueKept
<1>3. /\ stream \in Streams /\ Fed(stream.wire) /\ Fed(stream.buffer) /\ stream.buffer \in Seq(Frame)
      /\ w.seen \in [Orders -> Orderings] /\ w.facts \subseteq Happened /\ w.end \in Int
      /\ orders \in [KnownOrders -> Orderings] /\ booked \subseteq Happened
      /\ KnownOrders \subseteq Orders /\ Capacity \in Nat /\ MaxClock \in Nat
      /\ DOMAIN w = WindowFields /\ DOMAIN run = RunFields
  BY RecoveryAssumption DEF RecoveryInv, StreamSound, Streams, WindowSound, LedgerSound
<1>4. StreamFills \subseteq Happened
  BY <1>3 DEF StreamFills, Buffered, Fed
<1>5. ASSUME NEW o \in KnownOrders
      PROVE  Told(o, facts) \in Orderings
  BY <1>3 DEF Told, Orderings, TERMINAL
<1>6. LedgerSound'
  <2>1. orders' \in [KnownOrders -> Orderings]
    BY <1>1, <1>5
  <2>2. rec' \in Records
    BY <1>1 DEF RecoveryInv, LedgerSound
  <2> QED
    BY <1>1, <1>2, <1>3, <1>4, <2>1, <2>2 DEF LedgerSound
<1>7. StreamSound'
  <2>1. <<>> \in Seq(Frame) /\ Len(<<>>) = 0
    OBVIOUS
  <2>2. stream' \in Streams /\ stream'.buffer = <<>> /\ stream'.wire \in {<<>>, stream.wire}
    BY <1>1, <1>3, <2>1 DEF Streams, Invalidated
  <2>3. stream'.wire = <<>> \/ stream'.wire = stream.wire
    BY <2>2
  <2> QED
    BY <1>2, <1>3, <2>1, <2>2, <2>3 DEF StreamSound, Fed
<1>8. DOMAIN run' = RunFields /\ run'.opening = run.opening /\ run'.since = run.since
  <2> DEFINE p == IF Issues(facts, orders') = {} THEN Fingerprint ELSE <<>>
  <2>1. run' = run \/ run' = [run EXCEPT !.previous = p, !.stableAt = clock]
    BY <1>1 DEF Judge
  <2> HIDE DEF p
  <2> QED
    BY <1>3, <2>1 DEF RunFields
<1>9. WindowSound'
  BY <1>1, <1>2, <1>3, <1>8 DEF RecoveryInv, WindowSound
<1>10. CursorSound'
  <2> SUFFICES ASSUME ~Opening
               PROVE  CursorSound'
    BY DEF CursorSound
  <2>1. /\ NothingBehindCursor /\ Passed(w.end) /\ (rec.cursor # NoTime => Passed(rec.cursor))
        /\ run.opening = FALSE /\ (run.since = 0 \/ (rec.cursor # NoTime /\ run.since = Since(rec.cursor)))
        /\ \A x \in Older : vtime[x] >= run.since => x \in w.facts
    BY <1>1 DEF RecoveryInv, CursorSound
  <2>2. Older \subseteq facts
    <3> SUFFICES ASSUME NEW x \in Older, x \notin booked
                 PROVE  x \in w.facts
      OBVIOUS
    <3>1. x \in Happened \ booked /\ vtime[x] \in Nat
      BY RecoveryAssumption DEF RecoveryInv, VenueTyped, Older, Happened
    <3>2. vtime[x] >= run.since
      BY <2>1, <3>1 DEF NothingBehindCursor
    <3> QED
      BY <2>1, <3>2
  <2>3. NothingBehindCursor'
    BY <1>1, <1>2, <2>1 DEF NothingBehindCursor, Since
  <2>4. Older' = Older /\ (Passed(w.end) => Passed(w.end)') /\ (Passed(rec.cursor) => Passed(rec.cursor)')
    BY <1>1, <1>2 DEF Older, Passed
  <2> QED
    BY <1>1, <1>8, <2>1, <2>2, <2>3, <2>4 DEF CursorSound, Since
<1> QED
  BY <1>2, <1>6, <1>7, <1>9, <1>10 DEF RecoveryInv

\* A convergence moves the cursor to the end of a window whose start less
\* Overlap is booked; a run sleeps on or gives up.
LEMMA EndsSound ==
  ASSUME RecoveryInv, Converge \/ Wake
  PROVE  RecoveryInv'
<1>1. UNCHANGED <<venue, vtime, stream, clock, ahead, orders, booked>>
  BY DEF Converge, Wake, time, ledger, venue
<1>2. Happened' = Happened /\ VenueTyped' /\ ClocksSound' /\ StreamSound' /\ MaxClock \in Nat
  BY <1>1, VenueKept, RecoveryAssumption
<1>3. ASSUME Block
      PROVE  RecoveryInv'
  BY <1>1, <1>2, <1>3, BlockSound DEF RecoveryInv
<1>4. CASE Wake
  <2>1. ASSUME pc' = "open", UNCHANGED <<rec, run, w>>
        PROVE  RecoveryInv'
    <3>1. LedgerSound' /\ WindowSound'
      BY <1>1, <2>1, VenueKept
    <3>2. CursorSound'
      BY <1>1, <1>2, <1>4, <2>1 DEF Wake, RecoveryInv, CursorSound, NothingBehindCursor, Since, Passed
    <3> QED
      BY <1>2, <3>1, <3>2 DEF RecoveryInv
  <2> QED
    BY <1>3, <1>4, <2>1 DEF Wake
<1>5. CASE Converge
  <2>1. CASE ~Accepts("CONVERGED", Through)
    BY <1>3, <1>5, <2>1 DEF Converge
  <2>2. CASE Accepts("CONVERGED", Through)
    <3>1. /\ rec' = [status |-> "CONVERGED", cursor |-> w.end] /\ pc = "record"
          /\ pc' = "idle" /\ run' = NoRun /\ w' = NoWindow
      BY <1>5, <2>2 DEF Converge, Through
    <3>2. w.end \in 0 .. MaxClock /\ w.end \in Nat
      BY <1>2 DEF RecoveryInv, WindowSound
    <3>3. LedgerSound'
      BY <1>1, <1>2, <3>1, <3>2 DEF RecoveryInv, LedgerSound, Records
    <3>4. WindowSound'
      BY <1>2, <3>1 DEF WindowSound, WindowFields, RunFields, NoRun, NoWindow, Orderings, TERMINAL
    <3>5. ~Opening => NothingBehindCursor'
      <4> SUFFICES ASSUME ~Opening, NEW x \in Happened, x \notin booked
                   PROVE  vtime[x] >= Since(w.end)
        BY <1>1, <1>2, <3>1 DEF NothingBehindCursor, Since
      <4>1. x \notin Older
        BY <3>1 DEF RecoveryInv, CursorSound
      <4>2. vtime[x] \in Nat /\ Overlap \in Nat
        BY RecoveryAssumption DEF RecoveryInv, VenueTyped, Happened
      <4> QED
        BY <3>2, <4>1, <4>2, SinceIs DEF Older
    <3>6. ~Opening => Passed(rec.cursor)'
      BY <1>1, <3>1 DEF RecoveryInv, CursorSound, Passed
    <3> QED
      BY <1>2, <3>1, <3>3, <3>4, <3>5, <3>6 DEF RecoveryInv, CursorSound
  <2> QED
    BY <2>1, <2>2
<1> QED
  BY <1>4, <1>5

\* A process that dies loses its run, its stream and what it had buffered; a
\* clock that is set right leaves the venue's where it was.
LEMMA CrashesSound ==
  ASSUME RecoveryInv, (\E back \in 0 .. Skew : Crash(back)) \/ CrashCommitting
  PROVE  RecoveryInv'
<1>1. PICK back \in 0 .. Skew : Restarted(back)
  BY RecoveryAssumption DEF Crash, CrashCommitting
<1>2. /\ ahead >= back /\ clock' = clock - back /\ ahead' = ahead - back
      /\ pc' = "idle" /\ run' = NoRun /\ w' = NoWindow
      /\ stream' = [ready |-> FALSE, wire |-> <<>>, buffer |-> <<>>] /\ UNCHANGED <<venue, vtime, rec>>
  BY <1>1 DEF Restarted, venue
<1>3. Skew \in Nat /\ MaxClock \in Nat /\ Capacity \in Nat /\ KnownOrders \subseteq Orders
  BY RecoveryAssumption
<1>4. Happened' = Happened /\ VenueTyped'
  BY <1>2, VenueKept
<1>5. ClocksSound' /\ clock' - ahead' = clock - ahead
  BY <1>2, <1>3 DEF RecoveryInv, ClocksSound
<1>6. StreamSound'
  <2>1. <<>> \in Seq(Frame) /\ Len(<<>>) = 0
    OBVIOUS
  <2> QED
    BY <1>2, <1>3, <2>1 DEF StreamSound, Streams, Fed
<1>7. WindowSound'
  BY <1>2, <1>3, <1>4 DEF WindowSound, WindowFields, RunFields, NoRun, NoWindow, Orderings, TERMINAL
<1>8. LedgerSound' /\ booked \subseteq booked'
  <2>1. CASE UNCHANGED <<orders, booked>>
    BY <1>2, <2>1, VenueKept
  <2>2. CASE CrashCommitting
    <3>1. PICK fills \in SUBSET (w.facts \cap Orders) :
            /\ booked' = booked \cup fills
            /\ orders' = [o \in KnownOrders |->
                 IF o \in booked' THEN "FILLED" ELSE IF orders[o] \in TERMINAL THEN orders[o] ELSE w.seen[o]]
      BY <2>2 DEF CrashCommitting
    <3>2. w.seen \in [Orders -> Orderings] /\ w.facts \subseteq Happened /\ booked \subseteq Happened /\ rec \in Records
      BY DEF RecoveryInv, WindowSound, LedgerSound
    <3>3. \A o \in KnownOrders : w.seen[o] \in Orderings
      BY <1>3, <3>2
    <3>4. orders' \in [KnownOrders -> Orderings]
      BY <3>1, <3>3 DEF Orderings, TERMINAL
    <3> QED
      BY <1>2, <1>4, <3>1, <3>2, <3>4 DEF LedgerSound
  <2> QED
    BY <2>1, <2>2 DEF Crash
<1>9. CursorSound'
  <2>1. ~Opening /\ rec.cursor # NoTime => Passed(rec.cursor)'
    <3>1. clock \in Int /\ ahead \in Int
      BY DEF RecoveryInv, ClocksSound
    <3> QED
      BY <1>2, <1>5, <3>1 DEF RecoveryInv, CursorSound, Passed
  <2> QED
    BY <1>2, <1>4, <1>8, <2>1 DEF RecoveryInv, CursorSound, NothingBehindCursor, Since
<1> QED
  BY <1>4, <1>5, <1>6, <1>7, <1>8, <1>9 DEF RecoveryInv

\* The invariant holds from the start and every step keeps it.
LEMMA RecoveryInvHolds == RecoverySpec => []RecoveryInv
<1>1. RecoveryInit => RecoveryInv
  <2> SUFFICES ASSUME RecoveryInit
               PROVE  RecoveryInv
    OBVIOUS
  <2>1. Skew \in Nat /\ MaxClock \in Nat /\ Capacity \in Nat /\ Skew <= MaxClock /\ KnownOrders \subseteq Orders
    BY RecoveryAssumption
  <2>2. ClocksSound
    BY <2>1 DEF RecoveryInit, ClocksSound
  <2>3. VenueTyped /\ Happened = {}
    BY <2>1 DEF RecoveryInit, VenueTyped, Happened
  <2>4. StreamSound
    <3>1. <<>> \in Seq(Frame) /\ Len(<<>>) = 0
      OBVIOUS
    <3> QED
      BY <2>1, <3>1 DEF RecoveryInit, StreamSound, Streams, Fed
  <2>5. LedgerSound
    BY <2>3 DEF RecoveryInit, LedgerSound, Records, Orderings
  <2>6. WindowSound
    BY <2>1 DEF RecoveryInit, WindowSound, WindowFields, RunFields, NoRun, NoWindow, Orderings
  <2>7. CursorSound
    BY DEF RecoveryInit, CursorSound, NothingBehindCursor
  <2> QED
    BY <2>2, <2>3, <2>4, <2>5, <2>6, <2>7 DEF RecoveryInv
<1>2. RecoveryInv /\ [RecoveryNext]_recoveryVars => RecoveryInv'
  <2> SUFFICES ASSUME RecoveryInv, [RecoveryNext]_recoveryVars
               PROVE  RecoveryInv'
    OBVIOUS
  <2>1. CASE RecoveryNext
    BY <2>1, VenueStepsSound, StreamStepsSound, BeginSound, ReadsSound, JudgeSound, EndsSound, CrashesSound
      DEF RecoveryNext
  <2>2. CASE UNCHANGED recoveryVars
    <3>1. UNCHANGED <<venue, vtime, stream, clock, ahead, orders, booked, rec, pc, run, w>>
      BY <2>2 DEF recoveryVars, time, venue, ledger
    <3>2. Happened' = Happened /\ VenueTyped' /\ ClocksSound' /\ StreamSound' /\ LedgerSound' /\ WindowSound'
      BY <3>1, VenueKept
    <3>3. CursorSound'
      BY <3>1, <3>2 DEF RecoveryInv, CursorSound, NothingBehindCursor, Since, Passed, Older
    <3> QED
      BY <3>2, <3>3 DEF RecoveryInv
  <2> QED
    BY <2>1, <2>2
<1> QED
  BY <1>1, <1>2, PTL DEF RecoverySpec

\* Only a convergence moves the cursor, and only forward.
LEMMA CursorSteps ==
  ASSUME RecoveryInv, [RecoveryNext]_recoveryVars, rec'.cursor # rec.cursor
  PROVE  rec'.status = "CONVERGED" /\ (rec.cursor = NoTime \/ rec'.cursor > rec.cursor)
<1>1. rec \in Records /\ w.end \in Int /\ MaxClock \in Nat
  BY RecoveryAssumption DEF RecoveryInv, LedgerSound, WindowSound
<1>2. ~Block /\ rec' # [rec EXCEPT !.status = "RECONCILING"] /\ rec' # rec
  BY <1>1 DEF Block, Records
<1>3. Converge
  BY <1>2 DEF RecoveryNext, recoveryVars, VenueFill, VenueCancel, VenueTransfer, Tick, Pump, Disconnect, BadFrame,
    Begin, Connect, InputFails, FetchOpen, FetchOrders, FetchHistory, FetchAssets, FetchPositions, Judge, Wake,
    Crash, CrashCommitting, Restarted
<1>4. Accepts("CONVERGED", w.end) /\ rec' = [status |-> "CONVERGED", cursor |-> w.end]
  BY <1>2, <1>3 DEF Converge, Through
<1> QED
  BY <1>1, <1>4 DEF Accepts, Records, NoTime

\* What the ledger still misses lies after the start of the next window, in
\* every state, and the durable cursor only moves forward.
THEOREM CursorAlwaysHolds == RecoverySpec => CursorHolds
<1>1. RecoveryInv => RecoveryTypeOK /\ (Opening \/ NothingBehindCursor)
  BY DEF RecoveryInv, RecoveryTypeOK, ClocksSound, VenueTyped, StreamSound, Streams, LedgerSound, Records,
    CursorSound, Orderings
<1>2. RecoveryInv /\ [RecoveryNext]_recoveryVars =>
        [rec'.cursor # rec.cursor =>
           rec'.status = "CONVERGED" /\ (rec.cursor = NoTime \/ rec'.cursor > rec.cursor)]_recoveryVars
  BY CursorSteps
<1>3. RecoveryInv => RecoveryTypeOK /\ NothingBehindCursor
  BY <1>1 DEF NothingBehindCursor
<1> QED
  BY <1>2, <1>3, RecoveryInvHolds, PTL DEF RecoverySpec, CursorHolds, CursorOnlyForward

-----------------------------------------------------------------------------
(* What a recovery converges on.  An execution stamps an order that has    *)
(* ended, so an order that ended before the window is seen as filled and   *)
(* has to be booked.  An opening baseline is accepted after two windows    *)
(* without an open order: between their reads no order can be executed,    *)
(* and rows, which can only come, would show in the wallet.                *)

\* The windows being read, those where the orders and where the history were.
Reading == {"orders", "history", "assets", "positions", "judge"}
Seen == {"history", "assets", "positions", "judge"}
Filled == {"assets", "positions", "judge"}

\* The venue's clock has passed its stamps, and an executed order has ended.
StampsSound ==
  /\ \A x \in Happened : vtime[x] <= clock - ahead
  /\ \A o \in Orders \cap Happened : vlife[o] = "FILLED"

NoneOpen == \A o \in Orders : vlife[o] # "OPEN"
SameOrders(a, b) == a \cap Orders = b \cap Orders

\* What a window must hold of what happened before it was asked for.
WindowCovers ==
  /\ w.before \subseteq Happened
  /\ pc \in Reading /\ ahead >= 0 => \A x \in w.before : vtime[x] <= w.end
  /\ pc \in Seen => \A o \in w.before \cap KnownOrders : w.seen[o] = "FILLED"
  /\ pc \in Filled /\ ahead >= 0 => \A x \in w.before : vtime[x] >= run.since => x \in w.facts
  /\ pc = "record" /\ ~run.opening =>
       /\ w.before \cap KnownOrders \subseteq booked
       /\ ahead >= 0 => \A x \in w.before : vtime[x] >= run.since => x \in booked

\* What two windows without an open order say of the account.
WindowsAgree ==
  /\ pc \notin {"idle", "record"} /\ run.opening => base = <<>>
  /\ pc # "idle" /\ run.previous # <<>> /\ run.previous[3] = {} =>
       /\ NoneOpen
       /\ \E t \in SUBSET Happened :
            /\ SameOrders(t, Happened) /\ run.previous[1] = FirstWallet + Cash(t)
            /\ pc \in Reading => t \subseteq w.before
  /\ pc \in Reading /\ w.open = {} => NoneOpen /\ SameOrders(w.before, Happened)
  /\ pc \in {"positions", "judge"} /\ w.open = {} =>
       \E a \in SUBSET Happened :
         /\ w.before \subseteq a /\ SameOrders(a, Happened) /\ w.cash = FirstWallet + Cash(a)
  /\ pc = "judge" /\ w.open = {} => w.lots = Lots(w.before)
  /\ pc = "record" /\ run.opening =>
       base = <<FirstWallet + Cash(w.before)>> /\ Lots(w.before) = 0

CoverInv == StampsSound /\ WindowCovers /\ WindowsAgree

\* Rows only add to the wallet: one that is the same before and after was the
\* same in between.
LEMMA CashBetween ==
  ASSUME NEW a \in SUBSET Fact, NEW b \in SUBSET a, NEW t \in SUBSET b,
         SameOrders(t, a), SameOrders(b, a),
         FirstWallet + Cash(t) = FirstWallet + Cash(a)
  PROVE  Cash(b) = Cash(a)
<1>1. IsFiniteSet(a \cap Rows) /\ IsFiniteSet(t \cap Rows) /\ IsFiniteSet(a \cap Orders)
  BY RecoveryAssumption, FS_Subset DEF Fact
<1>2. PICK x \in Nat : x = Cardinality(a \cap Rows)
  BY <1>1, FS_CardinalityType
<1>3. PICK y \in Nat : y = Cardinality(t \cap Rows)
  BY <1>1, FS_CardinalityType
<1>4. PICK z \in Nat : z = Cardinality(a \cap Orders)
  BY <1>1, FS_CardinalityType
<1>5. PICK p \in Int : p = Fee * z
  BY RecoveryAssumption
<1>6. Cash(a) = x - p /\ Cash(t) = y - p
  BY <1>2, <1>3, <1>4, <1>5 DEF Cash, SameOrders
<1>7. x = y
  BY <1>6, RecoveryAssumption
<1>8. t \cap Rows = a \cap Rows
  BY <1>1, <1>2, <1>3, <1>7, FS_Subset
<1>9. b \cap Rows = a \cap Rows
  BY <1>8
<1> QED
  BY <1>9 DEF Cash, SameOrders

\* What happened stays as it was stamped, the venue's clock goes on, and where
\* no order is open none is executed.
LEMMA VenueGoesOn ==
  ASSUME RecoveryInv, StampsSound, RecoveryNext
  PROVE  /\ StampsSound'
         /\ \A x \in Happened : x \in Happened' /\ vtime'[x] = vtime[x]
         /\ NoneOpen => NoneOpen' /\ SameOrders(Happened, Happened')
<1>1. /\ vtime \in [Fact -> {NoTime} \cup 0 .. MaxClock + Skew] /\ vlife \in [Orders -> {"OPEN"} \cup TERMINAL]
      /\ clock \in Int /\ ahead \in Int /\ Skew \in Nat /\ MaxClock \in Nat /\ Orders \cap Rows = {}
      /\ Happened \subseteq Fact /\ \A x \in Happened : vtime[x] \in Int
  BY RecoveryAssumption DEF RecoveryInv, VenueTyped, ClocksSound, Happened
<1>2. ASSUME NEW x \in Fact, x \notin Happened, vtime' = [vtime EXCEPT ![x] = clock - ahead],
             UNCHANGED <<clock, ahead, orders, booked, rec, pc, run, w>>,
             \A o \in Orders \ {x} : vlife'[o] = vlife[o], x \in Orders => vlife'[x] = "FILLED" /\ ~NoneOpen
      PROVE  /\ StampsSound'
             /\ \A y \in Happened : y \in Happened' /\ vtime'[y] = vtime[y]
             /\ NoneOpen => NoneOpen' /\ SameOrders(Happened, Happened')
  <2>1. Happened' = Happened \cup {x}
    BY <1>2, VenueStamps
  <2>2. vtime'[x] = clock - ahead /\ \A y \in Happened : vtime'[y] = vtime[y]
    BY <1>1, <1>2
  <2>3. StampsSound'
    BY <1>1, <1>2, <2>1, <2>2 DEF StampsSound
  <2>4. NoneOpen => NoneOpen' /\ SameOrders(Happened, Happened')
    BY <1>1, <1>2, <2>1 DEF NoneOpen, SameOrders, Fact
  <2> QED
    BY <2>1, <2>2, <2>3, <2>4
<1>3. ASSUME vtime' = vtime, \A o \in Orders : vlife[o] # "OPEN" => vlife'[o] = vlife[o],
             \A n \in Int : n <= clock - ahead => n <= clock' - ahead'
      PROVE  /\ StampsSound'
             /\ \A y \in Happened : y \in Happened' /\ vtime'[y] = vtime[y]
             /\ NoneOpen => NoneOpen' /\ SameOrders(Happened, Happened')
  <2>1. Happened' = Happened
    BY <1>3 DEF Happened
  <2>2. ASSUME NEW x \in Happened
        PROVE  vtime'[x] <= clock' - ahead'
    <3>1. vtime[x] \in Int /\ vtime[x] <= clock - ahead
      BY <1>1 DEF StampsSound
    <3> QED
      BY <1>3, <3>1
  <2>3. ASSUME NEW o \in Orders \cap Happened
        PROVE  vlife'[o] = "FILLED"
    BY <1>3 DEF StampsSound
  <2>4. StampsSound'
    BY <2>1, <2>2, <2>3 DEF StampsSound
  <2> QED
    BY <1>3, <2>1, <2>4 DEF NoneOpen, SameOrders
<1>4. ASSUME NEW o \in Orders, VenueFill(o)
      PROVE  o \notin Happened /\ o \in Fact
  BY <1>4 DEF VenueFill, StampsSound, Fact
<1>5. CASE \E o \in Orders : VenueFill(o)
  <2>1. PICK o \in Orders : VenueFill(o)
    BY <1>5
  <2>2. /\ vlife[o] = "OPEN" /\ vlife' = [vlife EXCEPT ![o] = "FILLED"]
        /\ vtime' = [vtime EXCEPT ![o] = clock - ahead]
        /\ UNCHANGED <<clock, ahead, orders, booked, rec, pc, run, w>>
    BY <2>1 DEF VenueFill, time, ledger
  <2>3. vlife'[o] = "FILLED" /\ (\A u \in Orders \ {o} : vlife'[u] = vlife[u]) /\ ~NoneOpen
    BY <1>1, <2>2 DEF NoneOpen
  <2> QED
    BY <1>2, <1>4, <2>1, <2>2, <2>3
<1>6. CASE \E o \in Orders : VenueCancel(o)
  <2>1. PICK o \in Orders : VenueCancel(o)
    BY <1>6
  <2>2. /\ vlife[o] = "OPEN" /\ vlife' = [vlife EXCEPT ![o] = "CANCELED"]
        /\ UNCHANGED <<vtime, clock, ahead>>
    BY <2>1 DEF VenueCancel, time
  <2>3. \A u \in Orders : vlife[u] # "OPEN" => vlife'[u] = vlife[u]
    BY <1>1, <2>2
  <2> QED
    BY <1>1, <1>3, <2>2, <2>3
<1>7. CASE \E x \in Rows : VenueTransfer(x)
  <2>1. PICK x \in Rows : VenueTransfer(x)
    BY <1>7
  <2>2. /\ vtime[x] = NoTime /\ vtime' = [vtime EXCEPT ![x] = clock - ahead]
        /\ UNCHANGED <<vlife, clock, ahead, orders, booked, rec, pc, run, w>>
    BY <2>1 DEF VenueTransfer, time, ledger
  <2>3. x \in Fact /\ x \notin Happened /\ x \notin Orders
    BY <1>1, <2>2 DEF Fact, Happened
  <2> QED
    BY <1>2, <2>2, <2>3
<1>8. CASE Tick
  BY <1>1, <1>3, <1>8 DEF Tick, venue
<1>9. CASE (\E back \in 0 .. Skew : Crash(back)) \/ CrashCommitting
  <2>1. PICK back \in 0 .. Skew : Restarted(back)
    BY <1>1, <1>9 DEF Crash, CrashCommitting
  <2>2. clock' = clock - back /\ ahead' = ahead - back /\ UNCHANGED <<vlife, vtime>>
    BY <2>1 DEF Restarted, venue
  <2> QED
    BY <1>1, <1>3, <2>2
<1>10. CASE UNCHANGED <<vlife, vtime, clock, ahead>>
  BY <1>1, <1>3, <1>10
<1>11. \/ \E o \in Orders : VenueFill(o)
       \/ \E o \in Orders : VenueCancel(o)
       \/ \E x \in Rows : VenueTransfer(x)
       \/ Tick \/ ((\E back \in 0 .. Skew : Crash(back)) \/ CrashCommitting)
       \/ UNCHANGED <<vlife, vtime, clock, ahead>>
  BY DEF RecoveryNext, Pump, Disconnect, BadFrame, Begin, Connect, InputFails, FetchOpen, FetchOrders, FetchHistory,
    FetchAssets, FetchPositions, Judge, Converge, Wake, time, venue
<1> QED
  BY <1>5, <1>6, <1>7, <1>8, <1>9, <1>10, <1>11

\* The venue and the stream go on under a run.
LEMMA RunWaits ==
  ASSUME RecoveryInv, CoverInv, RecoveryNext, UNCHANGED <<pc, run, w, base, booked, ahead>>
  PROVE  CoverInv'
<1>1. /\ StampsSound' /\ \A x \in Happened : x \in Happened' /\ vtime'[x] = vtime[x]
      /\ NoneOpen => NoneOpen' /\ SameOrders(Happened, Happened')
  BY VenueGoesOn DEF CoverInv
<1>2. WindowCovers'
  <2>1. \A x \in w.before : x \in Happened' /\ vtime'[x] = vtime[x]
    BY <1>1 DEF CoverInv, WindowCovers
  <2> QED
    BY <1>1, <2>1 DEF CoverInv, WindowCovers, Reading, Seen, Filled
<1>3. WindowsAgree'
  <2>1. pc' = pc /\ run' = run /\ w' = w /\ base' = base
    OBVIOUS
  <2>2. \A t : SameOrders(t, Happened) /\ NoneOpen => SameOrders(t, Happened')
    BY <1>1 DEF SameOrders
  <2>3. SUBSET Happened \subseteq SUBSET Happened'
    BY <1>1
  <2>4. Lots(w.before)' = Lots(w.before) /\ Cash(w.before)' = Cash(w.before)
    BY <2>1 DEF Lots, Cash
  <2>5. ASSUME pc # "idle", run.previous # <<>>, run.previous[3] = {}
        PROVE  /\ NoneOpen'
               /\ \E t \in SUBSET Happened' :
                    /\ SameOrders(t, Happened') /\ run.previous[1] = FirstWallet + Cash(t)
                    /\ pc \in Reading => t \subseteq w.before
    BY <1>1, <2>2, <2>3, <2>5 DEF CoverInv, WindowsAgree
  <2>6. ASSUME pc \in {"positions", "judge"}, w.open = {}
        PROVE  \E a \in SUBSET Happened' :
                 /\ w.before \subseteq a /\ SameOrders(a, Happened') /\ w.cash = FirstWallet + Cash(a)
    BY <1>1, <2>2, <2>3, <2>6 DEF CoverInv, WindowsAgree, Reading
  <2>7. pc \in Reading /\ w.open = {} => NoneOpen' /\ SameOrders(w.before, Happened')
    BY <1>1, <2>2 DEF CoverInv, WindowsAgree
  <2> QED
    BY <2>1, <2>4, <2>5, <2>6, <2>7 DEF CoverInv, WindowsAgree
<1> QED
  BY <1>1, <1>2, <1>3 DEF CoverInv

\* A run begins, ends, or goes to its next window.
LEMMA RunTurns ==
  ASSUME RecoveryInv, CoverInv, RecoveryNext,
         \/ pc' = "idle" /\ w' = NoWindow
         \/ pc' = "connect" /\ w' = NoWindow /\ run'.previous = <<>> /\ (run'.opening => base' = <<>>)
         \/ pc \in {"connect", "sleep"} /\ pc' = "open" /\ UNCHANGED <<run, w, base>>
  PROVE  CoverInv'
<1>1. /\ StampsSound' /\ \A x \in Happened : x \in Happened' /\ vtime'[x] = vtime[x]
      /\ NoneOpen => NoneOpen' /\ SameOrders(Happened, Happened')
  BY VenueGoesOn DEF CoverInv
<1>2. WindowCovers'
  BY <1>1 DEF CoverInv, WindowCovers, Reading, Seen, Filled, NoWindow
<1>3. WindowsAgree'
  <2>1. CASE pc' = "idle"
    BY <2>1 DEF WindowsAgree, Reading
  <2>2. CASE pc' = "connect" /\ run'.previous = <<>> /\ (run'.opening => base' = <<>>)
    BY <2>2 DEF WindowsAgree, Reading
  <2>3. CASE pc \in {"connect", "sleep"} /\ pc' = "open" /\ UNCHANGED <<run, w, base>>
    BY <1>1, <2>3 DEF CoverInv, WindowsAgree, Reading, SameOrders
  <2> QED
    BY <2>1, <2>2, <2>3
<1> QED
  BY <1>1, <1>2, <1>3 DEF CoverInv

\* The window is asked for: what happened before is what is there, and it is
\* not stamped after the end unless the local clock lags.
LEMMA WindowAsked ==
  ASSUME RecoveryInv, CoverInv, RecoveryNext, FetchOpen, stream.ready
  PROVE  CoverInv'
<1>1. /\ w' = [NoWindow EXCEPT !.open = {o \in Orders : vlife[o] = "OPEN"}, !.end = clock, !.before = Happened]
      /\ pc = "open" /\ pc' = "orders" /\ UNCHANGED <<run, base, vtime, vlife, clock, ahead>>
  BY DEF FetchOpen, time, venue, ledger
<1>2. w'.open = {o \in Orders : vlife[o] = "OPEN"} /\ w'.end = clock /\ w'.before = Happened
  BY <1>1 DEF NoWindow
<1>3. Happened' = Happened /\ StampsSound'
  BY <1>1, VenueGoesOn DEF CoverInv, Happened
<1>4. clock \in Int /\ ahead \in Int /\ \A x \in Happened : vtime[x] \in Int
  BY RecoveryAssumption DEF RecoveryInv, ClocksSound, VenueTyped, Happened
<1>5. WindowCovers'
  BY <1>1, <1>2, <1>3, <1>4 DEF CoverInv, StampsSound, WindowCovers, Reading, Seen, Filled
<1>6. WindowsAgree'
  <2>1. w'.open = {} => NoneOpen'
    BY <1>1, <1>2 DEF NoneOpen
  <2>2. NoneOpen => NoneOpen'
    BY <1>1 DEF NoneOpen
  <2> QED
    BY <1>1, <1>2, <1>3, <2>1, <2>2 DEF CoverInv, WindowsAgree, Reading, SameOrders
<1> QED
  BY <1>3, <1>5, <1>6 DEF CoverInv

\* The window is read, endpoint by endpoint.
LEMMA WindowRead ==
  ASSUME RecoveryInv, CoverInv, RecoveryNext, FetchOrders \/ FetchHistory \/ FetchAssets \/ FetchPositions
  PROVE  CoverInv'
<1>1. UNCHANGED <<run, base, booked, vtime, vlife, clock, ahead>>
  BY DEF FetchOrders, FetchHistory, FetchAssets, FetchPositions, time, venue, ledger
<1>2. /\ Happened' = Happened /\ StampsSound' /\ (NoneOpen => NoneOpen') /\ DOMAIN w = WindowFields
      /\ KnownOrders \subseteq Orders /\ w.end \in Int
  BY <1>1, VenueGoesOn, RecoveryAssumption DEF CoverInv, Happened, RecoveryInv, WindowSound
<1>3. \A x \in Happened : vtime[x] \in Int
  BY RecoveryAssumption DEF RecoveryInv, VenueTyped, Happened
<1>4. ASSUME pc \in Reading, pc' \in Reading, w'.before = w.before, w'.open = w.open, w'.end = w.end,
             pc' \in Seen => \A o \in w.before \cap KnownOrders : w'.seen[o] = "FILLED",
             pc' \in Filled /\ ahead >= 0 => \A x \in w.before : vtime[x] >= run.since => x \in w'.facts,
             pc' \in {"positions", "judge"} => w'.cash = w.cash \/ w'.cash = FirstWallet + Cash(Happened),
             pc' \in {"positions", "judge"} /\ w'.cash = w.cash => pc = "positions" \/ w'.cash = FirstWallet + Cash(Happened),
             pc' = "judge" => w'.lots = Lots(Happened)
      PROVE  CoverInv'
  <2>1. WindowCovers'
    BY <1>1, <1>2, <1>4 DEF CoverInv, WindowCovers, Reading, Seen, Filled
  <2>2. WindowsAgree'
    <3>1. /\ pc' \notin {"idle", "record"} /\ run'.opening => base' = <<>>
          /\ pc' \in Reading /\ w'.open = {} => NoneOpen' /\ SameOrders(w'.before, Happened')
          /\ pc' # "record"
      BY <1>1, <1>2, <1>4 DEF CoverInv, WindowsAgree, Reading
    <3>2. pc' # "idle" /\ run'.previous # <<>> /\ run'.previous[3] = {} =>
            /\ NoneOpen'
            /\ \E t \in SUBSET Happened' :
                 /\ SameOrders(t, Happened') /\ run'.previous[1] = FirstWallet + Cash(t)
                 /\ pc' \in Reading => t \subseteq w'.before
      BY <1>1, <1>2, <1>4 DEF CoverInv, WindowsAgree, Reading
    <3>3. pc' \in {"positions", "judge"} /\ w'.open = {} =>
            \E a \in SUBSET Happened' :
              /\ w'.before \subseteq a /\ SameOrders(a, Happened') /\ w'.cash = FirstWallet + Cash(a)
      <4>1. CASE w'.cash = FirstWallet + Cash(Happened)
        BY <1>2, <1>4, <4>1 DEF CoverInv, WindowCovers, SameOrders
      <4>2. CASE w'.cash = w.cash /\ pc = "positions"
        BY <1>2, <1>4, <4>2 DEF CoverInv, WindowsAgree
      <4> QED
        BY <1>4, <4>1, <4>2
    <3>4. pc' = "judge" /\ w'.open = {} => w'.lots = Lots(w'.before)
      <4>1. w.open = {} => SameOrders(w.before, Happened)
        BY <1>4 DEF CoverInv, WindowsAgree
      <4> QED
        BY <1>4, <4>1 DEF Lots, SameOrders
    <3> QED
      BY <3>1, <3>2, <3>3, <3>4 DEF WindowsAgree
  <2> QED
    BY <1>2, <2>1, <2>2 DEF CoverInv
<1>5. CASE FetchOrders
  <2> DEFINE seen == [o \in Orders |-> IF o \in KnownOrders THEN vlife[o] ELSE "UNKNOWN"]
  <2>1. w' = [w EXCEPT !.seen = seen] /\ pc = "orders" /\ pc' = "history"
    BY <1>5 DEF FetchOrders
  <2>2. \A o \in w.before \cap KnownOrders : seen[o] = "FILLED"
    BY <1>2, <2>1 DEF CoverInv, StampsSound, WindowCovers
  <2> HIDE DEF seen
  <2>3. w'.seen = seen /\ w'.before = w.before /\ w'.open = w.open /\ w'.end = w.end
    BY <1>2, <2>1 DEF WindowFields
  <2> QED
    BY <1>4, <2>1, <2>2, <2>3 DEF Reading, Seen, Filled
<1>6. CASE FetchHistory
  <2>1. w' = [w EXCEPT !.facts = {x \in Happened : InWindow(x)}] /\ pc = "history" /\ pc' = "assets"
    BY <1>6 DEF FetchHistory
  <2>2. /\ w'.facts = {x \in Happened : InWindow(x)} /\ w'.before = w.before /\ w'.open = w.open
        /\ w'.end = w.end /\ w'.seen = w.seen
    BY <1>2, <2>1 DEF WindowFields
  <2>3. ASSUME ahead >= 0, NEW x \in w.before, vtime[x] >= run.since
        PROVE  x \in w'.facts
    <3>1. x \in Happened /\ vtime[x] <= w.end
      BY <2>1, <2>3 DEF CoverInv, WindowCovers, Reading
    <3> QED
      BY <1>3, <2>2, <2>3, <3>1 DEF InWindow
  <2>4. \A o \in w.before \cap KnownOrders : w'.seen[o] = "FILLED"
    BY <2>1, <2>2 DEF CoverInv, WindowCovers, Seen
  <2> QED
    BY <1>4, <2>1, <2>2, <2>3, <2>4 DEF Reading, Seen, Filled
<1>7. CASE FetchAssets
  <2>1. w' = [w EXCEPT !.cash = FirstWallet + Cash(Happened)] /\ pc = "assets" /\ pc' = "positions"
    BY <1>7 DEF FetchAssets
  <2>2. /\ w'.cash = FirstWallet + Cash(Happened) /\ w'.before = w.before /\ w'.open = w.open
        /\ w'.end = w.end /\ w'.seen = w.seen /\ w'.facts = w.facts
    BY <1>2, <2>1 DEF WindowFields
  <2>3. /\ \A o \in w.before \cap KnownOrders : w'.seen[o] = "FILLED"
        /\ ahead >= 0 => \A x \in w.before : vtime[x] >= run.since => x \in w'.facts
    BY <2>1, <2>2 DEF CoverInv, WindowCovers, Seen, Filled
  <2> QED
    BY <1>4, <2>1, <2>2, <2>3 DEF Reading
<1>8. CASE FetchPositions
  <2>1. w' = [w EXCEPT !.lots = Lots(Happened)] /\ pc = "positions" /\ pc' = "judge"
    BY <1>8 DEF FetchPositions
  <2>2. /\ w'.lots = Lots(Happened) /\ w'.before = w.before /\ w'.open = w.open
        /\ w'.end = w.end /\ w'.seen = w.seen /\ w'.facts = w.facts /\ w'.cash = w.cash
    BY <1>2, <2>1 DEF WindowFields
  <2>3. /\ \A o \in w.before \cap KnownOrders : w'.seen[o] = "FILLED"
        /\ ahead >= 0 => \A x \in w.before : vtime[x] >= run.since => x \in w'.facts
    BY <2>1, <2>2 DEF CoverInv, WindowCovers, Seen, Filled
  <2> QED
    BY <1>4, <2>1, <2>2, <2>3 DEF Reading
<1> QED
  BY <1>5, <1>6, <1>7, <1>8

\* Two equal windows without an issue: what was filled is booked, and the
\* opening wallet is that of what had happened before the second.
LEMMA JudgeCovers ==
  ASSUME RecoveryInv, CoverInv, RecoveryNext, Judge
  PROVE  CoverInv'
<1> DEFINE facts == booked \cup w.facts \cup StreamFills
           lives == [o \in KnownOrders |-> Told(o, facts)]
<1>1. /\ UNCHANGED <<w, vtime, vlife, clock, ahead>> /\ pc = "judge" /\ booked' = facts
      /\ \/ /\ Issues(facts, lives) = {} /\ Stable /\ pc' = "record" /\ run' = run
            /\ base' = IF run.opening THEN Append(base, w.cash) ELSE base
         \/ /\ run' = [run EXCEPT !.previous = IF Issues(facts, lives) = {} THEN Fingerprint ELSE <<>>,
                                  !.stableAt = clock]
            /\ pc' = "sleep" /\ base' = base
  BY DEF Judge, time, venue
<1>2. /\ Happened' = Happened /\ StampsSound' /\ (NoneOpen => NoneOpen') /\ DOMAIN run = RunFields
      /\ KnownOrders \subseteq Orders
  BY <1>1, VenueGoesOn, RecoveryAssumption DEF CoverInv, Happened, RecoveryInv, WindowSound
<1>3. ASSUME NEW o \in w.before \cap KnownOrders, Issues(facts, lives) = {}
      PROVE  o \in facts
  <2>1. w.seen[o] = "FILLED"
    BY <1>1 DEF CoverInv, WindowCovers, Seen
  <2>2. lives[o] = "FILLED"
    BY <2>1 DEF Told, Reports
  <2>3. OrderIssues(facts, lives) = {}
    BY <1>3 DEF Issues
  <2> HIDE DEF facts, lives
  <2> QED
    BY <2>2, <2>3 DEF OrderIssues
<1>4. ahead >= 0 => \A x \in w.before : vtime[x] >= run.since => x \in facts
  BY <1>1 DEF CoverInv, WindowCovers, Filled
<1>5. CASE pc' = "sleep"
  <2>1. /\ run' = [run EXCEPT !.previous = IF Issues(facts, lives) = {} THEN Fingerprint ELSE <<>>,
                              !.stableAt = clock]
        /\ base' = base
    BY <1>1, <1>5
  <2>2. PICK p : p = (IF Issues(facts, lives) = {} THEN Fingerprint ELSE <<>>)
    OBVIOUS
  <2>3. run'.previous = p /\ run'.opening = run.opening
    BY <1>2, <2>1, <2>2 DEF RunFields
  <2>4. WindowCovers'
    BY <1>1, <1>2, <1>5 DEF CoverInv, WindowCovers, Reading, Seen, Filled
  <2>5. p # <<>> => p[1] = w.cash /\ p[3] = w.open
    BY <2>2 DEF Fingerprint
  <2>6. w.open = {} => /\ NoneOpen
                       /\ \E a \in SUBSET Happened : SameOrders(a, Happened) /\ w.cash = FirstWallet + Cash(a)
    BY <1>1 DEF CoverInv, WindowsAgree, Reading
  <2>7. WindowsAgree'
    BY <1>1, <1>2, <1>5, <2>1, <2>3, <2>5, <2>6 DEF CoverInv, WindowsAgree, Reading
  <2> QED
    BY <1>2, <2>4, <2>7 DEF CoverInv
<1>6. CASE pc' = "record"
  <2>1. /\ Issues(facts, lives) = {} /\ Stable /\ run' = run
        /\ base' = IF run.opening THEN Append(base, w.cash) ELSE base
    BY <1>1, <1>6
  <2>2. WindowCovers'
    BY <1>1, <1>2, <1>3, <1>4, <1>6, <2>1 DEF CoverInv, WindowCovers, Reading, Seen, Filled
  <2>3. ASSUME run.opening
        PROVE  base' = <<FirstWallet + Cash(w.before)>> /\ Lots(w.before) = 0
    <3>1. OpeningIssues(facts) = {}
      BY <2>1, <2>3 DEF Issues
    <3>2. w.lots = 0 /\ w.open = {}
      BY <3>1 DEF OpeningIssues
    <3>3. run.previous = Fingerprint
      BY <2>1 DEF Stable
    <3>4. run.previous # <<>> /\ run.previous[3] = {} /\ run.previous[1] = w.cash
      BY <3>2, <3>3 DEF Fingerprint
    <3>5. PICK t \in SUBSET Happened :
            SameOrders(t, Happened) /\ run.previous[1] = FirstWallet + Cash(t) /\ t \subseteq w.before
      BY <1>1, <3>4 DEF CoverInv, WindowsAgree, Reading
    <3>6. PICK a \in SUBSET Happened :
            w.before \subseteq a /\ SameOrders(a, Happened) /\ w.cash = FirstWallet + Cash(a)
      BY <1>1, <3>2 DEF CoverInv, WindowsAgree
    <3>7. SameOrders(w.before, Happened) /\ w.lots = Lots(w.before)
      BY <1>1, <3>2 DEF CoverInv, WindowsAgree, Reading
    <3>8. a \in SUBSET Fact /\ w.before \in SUBSET a /\ t \in SUBSET w.before /\ SameOrders(t, a) /\ SameOrders(w.before, a)
      BY <3>5, <3>6, <3>7 DEF Happened, SameOrders
    <3>9. Cash(w.before) = Cash(a)
      BY <3>4, <3>5, <3>6, <3>8, CashBetween
    <3>10. base = <<>>
      BY <1>1, <2>3 DEF CoverInv, WindowsAgree
    <3> QED
      BY <2>1, <2>3, <3>2, <3>6, <3>7, <3>9, <3>10
  <2>4. pc' # "idle" /\ run'.previous # <<>> /\ run'.previous[3] = {} =>
          NoneOpen' /\ \E t \in SUBSET Happened' : SameOrders(t, Happened') /\ run'.previous[1] = FirstWallet + Cash(t)
    BY <1>1, <1>2, <2>1 DEF CoverInv, WindowsAgree
  <2>5. Lots(w.before)' = Lots(w.before) /\ Cash(w.before)' = Cash(w.before)
    BY <1>1 DEF Lots, Cash
  <2>6. WindowsAgree'
    BY <1>1, <1>2, <1>6, <2>1, <2>3, <2>4, <2>5 DEF WindowsAgree, Reading
  <2> QED
    BY <1>2, <2>2, <2>6 DEF CoverInv
<1> QED
  BY <1>1, <1>5, <1>6

\* The invariant holds from the start and every step keeps it.
LEMMA CoverInvHolds == RecoverySpec => []CoverInv
<1>1. RecoveryInit => CoverInv
  <2> SUFFICES ASSUME RecoveryInit
               PROVE  CoverInv
    OBVIOUS
  <2>1. Happened = {} /\ pc = "idle" /\ w.before = {}
    BY DEF RecoveryInit, Happened, NoWindow
  <2> QED
    BY <2>1 DEF CoverInv, StampsSound, WindowCovers, WindowsAgree, Reading, Seen, Filled
<1>2. RecoveryInv /\ CoverInv /\ [RecoveryNext]_recoveryVars => CoverInv'
  <2> SUFFICES ASSUME RecoveryInv, CoverInv, [RecoveryNext]_recoveryVars
               PROVE  CoverInv'
    OBVIOUS
  <2>1. CASE UNCHANGED recoveryVars
    <3>1. UNCHANGED <<clock, ahead, vlife, vtime, base, booked, pc, run, w>>
      BY <2>1 DEF recoveryVars, time, venue, ledger
    <3>2. Happened' = Happened /\ (NoneOpen => NoneOpen') /\ StampsSound'
      BY <3>1 DEF Happened, NoneOpen, CoverInv, StampsSound
    <3>3. WindowCovers'
      BY <3>1, <3>2 DEF CoverInv, WindowCovers
    <3>4. WindowsAgree'
      BY <3>1, <3>2 DEF CoverInv, WindowsAgree, Lots, Cash
    <3> QED
      BY <3>2, <3>3, <3>4 DEF CoverInv
  <2>2. CASE RecoveryNext
    <3>1. CASE \/ \E o \in Orders : VenueFill(o) \/ VenueCancel(o)
               \/ \E x \in Rows : VenueTransfer(x)
               \/ Tick \/ Pump \/ Disconnect \/ BadFrame
      <4>1. UNCHANGED <<pc, run, w, base, booked, ahead>>
        BY <3>1 DEF VenueFill, VenueCancel, VenueTransfer, Tick, Pump, Disconnect, BadFrame, time, ledger
      <4> QED
        BY <2>2, <4>1, RunWaits
    <3>2. CASE \E startAt \in {NoTime, 0} : Begin(startAt)
      <4>1. \/ pc' = "idle" /\ w' = NoWindow
            \/ pc' = "connect" /\ w' = NoWindow /\ run'.previous = <<>> /\ (run'.opening => base' = <<>>)
        BY <3>2 DEF Begin, Block, NoRun, ledger
      <4> QED
        BY <2>2, <4>1, RunTurns
    <3>3. CASE \/ Connect \/ InputFails \/ Converge \/ Wake \/ (FetchOpen /\ ~stream.ready)
               \/ (\E back \in 0 .. Skew : Crash(back)) \/ CrashCommitting
      <4>1. \/ pc' = "idle" /\ w' = NoWindow
            \/ pc \in {"connect", "sleep"} /\ pc' = "open" /\ UNCHANGED <<run, w, base>>
        BY <3>3 DEF Connect, InputFails, Converge, Wake, FetchOpen, Crash, CrashCommitting, Restarted, Block, ledger
      <4> QED
        BY <2>2, <4>1, RunTurns
    <3> QED
      BY <2>2, <3>1, <3>2, <3>3, WindowAsked, WindowRead, JudgeCovers DEF RecoveryNext
  <2> QED
    BY <2>1, <2>2
<1> QED
  BY <1>1, <1>2, RecoveryInvHolds, PTL DEF RecoverySpec

\* A recovery converges on what the venue had: the executions of this writer are
\* booked, whatever was lost or moved while it read, and an opening wallet is one
\* the account had at one moment (Reconciler.run).
THEOREM RecoveriesAlwaysCover == RecoverySpec => RecoveriesCover
<1>1. CoverInv => [ConvergenceCovers /\ OpeningAgrees]_recoveryVars
  BY DEF CoverInv, WindowCovers, WindowsAgree, ConvergenceCovers, OpeningAgrees
<1> QED
  BY <1>1, CoverInvHolds, PTL DEF RecoverySpec, RecoveriesCover

-----------------------------------------------------------------------------
(* The ledger: every pair of postings leaves the sum of the accounts at    *)
(* zero, so what a complete snapshot shows adds up at any rate; a fill     *)
(* takes as much profit as its average entry leaves out of the books; and  *)
(* the names a fact is known by all lead to one transaction, to which a    *)
(* repetition can only add names.                                          *)

\* A division without remainder.
LEMMA WholeQuotient ==
  ASSUME NEW x \in Nat, NEW n \in Nat \ {0}, x % n = 0
  PROVE  x \div n \in Nat /\ n * (x \div n) = x
  OBVIOUS

\* The average entry of what a fill leaves and the profit it takes keep the
\* books: profit less what is held at its average is what was there less the
\* cash of the fill.
LEMMA AverageKeepsBooks ==
  ASSUME NEW p \in [lots : Int, average : Nat], (p.lots = 0) = (p.average = 0),
         NEW l \in Int, l # 0, NEW r \in Nat \ {0},
         Adds(p.lots, l) => Spent(p, l, r) % Abs(p.lots + l) = 0
  PROVE  /\ Average(p, l, r) \in Nat /\ Realized(p, l, r) \in Int
         /\ (p.lots + l = 0) = (Average(p, l, r) = 0)
         /\ Realized(p, l, r) - (p.lots + l) * Average(p, l, r) = -(p.lots * p.average) - l * r
<1>1. PICK q \in Int, a \in Nat : p.lots = q /\ p.average = a
  OBVIOUS
<1>2. PICK v, g : v = Average(p, l, r) /\ g = Realized(p, l, r)
  OBVIOUS
<1> SUFFICES /\ v \in Nat /\ g \in Int /\ (q + l = 0) = (v = 0)
             /\ g - (q + l) * v = -(q * a) - l * r
  BY <1>1, <1>2
<1>3. CASE q = 0
  <2>1. g = 0 /\ v = r
    BY <1>1, <1>2, <1>3 DEF Average, Realized, Adds, Reverses
  <2> QED
    BY <1>3, <2>1
<1>4. CASE q # 0 /\ q + l = 0
  <2>1. ~Adds(q, l) /\ Abs(q) = Abs(l)
    BY <1>4 DEF Adds, Abs
  <2>2. v = 0 /\ g = Abs(q) * (r - a) * (IF q > 0 THEN 1 ELSE -1)
    BY <1>1, <1>2, <1>4, <2>1 DEF Average, Realized, Smaller, Adds, Reverses
  <2>3. g = q * (r - a)
    BY <1>4, <2>2 DEF Abs
  <2>4. q * (r - a) = -(q * a) - l * r
    <3>1. l = -q
      BY <1>4
    <3> QED
      BY <3>1
  <2> QED
    BY <1>4, <2>2, <2>3, <2>4
<1>5. CASE q # 0 /\ q + l # 0 /\ Adds(q, l)
  <2>1. (q > 0) = (l > 0)
    BY <1>5 DEF Adds
  <2>2. PICK n \in Nat \ {0} : n = Abs(q + l)
    BY <1>5 DEF Abs
  <2>3. PICK x \in Nat : x = Abs(q) * a + Abs(l) * r
    BY DEF Abs
  <2>4. g = 0 /\ v = x \div n /\ x % n = 0
    BY <1>1, <1>2, <1>5, <2>2, <2>3 DEF Average, Realized, Spent, Adds, Reverses
  <2>5. v \in Nat /\ n * v = x
    BY <2>4, WholeQuotient
  <2>6. v # 0
    <3>1. x # 0
      BY <1>5, <2>3 DEF Abs
    <3> QED
      BY <2>5, <3>1
  <2>7. (q + l) * v = q * a + l * r
    <3>1. CASE q > 0
      <4>1. n = q + l /\ x = q * a + l * r
        BY <1>5, <2>1, <2>2, <2>3, <3>1 DEF Abs
      <4> QED
        BY <2>5, <4>1
    <3>2. CASE q < 0
      <4>1. n = -(q + l) /\ x = (-q) * a + (-l) * r
        BY <1>5, <2>1, <2>2, <2>3, <3>2 DEF Abs
      <4>2. (-(q + l)) * v = -((q + l) * v)
        BY <2>5
      <4>3. (-q) * a + (-l) * r = -(q * a + l * r)
        OBVIOUS
      <4> QED
        BY <2>5, <4>1, <4>2, <4>3
    <3> QED
      BY <1>5, <3>1, <3>2
  <2>8. (q + l) * v \in Int /\ q * a \in Int /\ l * r \in Int
    BY <2>5
  <2> QED
    BY <1>5, <2>4, <2>5, <2>6, <2>7, <2>8
<1>6. CASE q # 0 /\ q + l # 0 /\ ~Adds(q, l)
  <2>1. (q > 0) # (l > 0)
    BY <1>6 DEF Adds
  <2>2. g = Smaller(Abs(q), Abs(l)) * (r - a) * (IF q > 0 THEN 1 ELSE -1)
    BY <1>1, <1>2, <1>6 DEF Realized
  <2>3. CASE (q + l > 0) # (q > 0)
    <3>1. v = r
      BY <1>1, <1>2, <1>6, <2>3 DEF Average, Adds, Reverses
    <3>2. Smaller(Abs(q), Abs(l)) = Abs(q)
      BY <1>6, <2>1, <2>3 DEF Smaller, Abs
    <3>3. g = q * (r - a)
      BY <1>6, <2>2, <3>2 DEF Abs
    <3>4. q * (r - a) - (q + l) * r = -(q * a) - l * r
      OBVIOUS
    <3> QED
      BY <1>6, <3>1, <3>3, <3>4
  <2>4. CASE (q + l > 0) = (q > 0)
    <3>1. v = a
      BY <1>1, <1>2, <1>6, <2>4 DEF Average, Adds, Reverses
    <3>2. Smaller(Abs(q), Abs(l)) = Abs(l)
      BY <1>6, <2>1, <2>4 DEF Smaller, Abs
    <3>3. g = (-l) * (r - a)
      BY <1>6, <2>1, <2>2, <3>2 DEF Abs
    <3>4. (-l) * (r - a) - (q + l) * a = -(q * a) - l * r
      OBVIOUS
    <3>5. a # 0
      BY <1>1, <1>6
    <3> QED
      BY <1>6, <3>1, <3>3, <3>4, <3>5
  <2> QED
    BY <2>3, <2>4
<1> QED
  BY <1>3, <1>4, <1>5, <1>6

-----------------------------------------------------------------------------
SumOf(b, s) ==
  b["cash"][s] + b["realized"][s] + b["fees"][s] + b["funding"][s] + b["external"][s] + b["adjustments"][s]
MoneyInv ==
  /\ balances \in [Accounts -> [Assets -> Int]] /\ adjusted \in [Assets -> Int]
  /\ \A s \in Assets : SumOf(balances, s) = 0

\* The fills in order.
FillsInv ==
  /\ transactions \in Seq(Facts)
  /\ exposure \in [lots : Int, average : Nat] /\ (exposure.lots = 0) = (exposure.average = 0)
  /\ balances["realized"]["USDT"] \in Int
  /\ exposure.lots = FillLots
  /\ -balances["realized"]["USDT"] - exposure.lots * exposure.average = FillCash

\* All names of a fact that was heard are names of one transaction.
NamesInv ==
  /\ \A k \in DOMAIN identities : identities[k].tx \in DOMAIN transactions
  /\ \A f \in heard :
       /\ Names(f) \subseteq DOMAIN identities
       /\ \A j \in Names(f) : \A k \in Names(f) : identities[j].tx = identities[k].tx
  /\ \A i \in DOMAIN transactions : \A k \in Names(transactions[i]) :
       k \in DOMAIN identities /\ identities[k].tx = i

IsNewest(seen, latest) == IF seen = Missing THEN latest = -1 ELSE seen.at = latest
NewestInv ==
  /\ available \in 0 .. MaxNow
  /\ mark \in Observations(Prices) /\ rate \in Observations(Rates)
  /\ newest \in [mark : Int, rate : Int]
  /\ IsNewest(mark, newest.mark) /\ IsNewest(rate, newest.rate)

TakenInv ==
  /\ \A i \in DOMAIN reservations : reservations[i] \in OrderStates /\ reservations[i].id = i
  /\ taken \subseteq OrderStates
  /\ NewestReservation

LedgerInv == MoneyInv /\ FillsInv /\ NamesInv /\ NewestInv /\ TakenInv
-----------------------------------------------------------------------------
\* A pair of postings leaves the sum of the accounts as it is.
LEMMA PairBalances ==
  ASSUME NEW b \in [Accounts -> [Assets -> Int]], NEW asset \in Assets, NEW amount \in Int,
         NEW account \in Accounts \ {"cash"}
  PROVE  /\ Pair(b, asset, amount, account) \in [Accounts -> [Assets -> Int]]
         /\ \A s \in Assets : SumOf(Pair(b, asset, amount, account), s) = SumOf(b, s)
         /\ Pair(b, asset, amount, account)["realized"]["USDT"]
              = b["realized"]["USDT"] - (IF account = "realized" /\ asset = "USDT" THEN amount ELSE 0)
<1>1. PICK c : c = [b EXCEPT !["cash"][asset] = @ + amount]
  OBVIOUS
<1>2. PICK d : d = [c EXCEPT ![account][asset] = @ - amount]
  OBVIOUS
<1>3. Pair(b, asset, amount, account) = d
  BY <1>1, <1>2 DEF Pair
<1>4. /\ c \in [Accounts -> [Assets -> Int]]
      /\ \A a \in Accounts : \A s \in Assets :
           c[a][s] = IF a = "cash" /\ s = asset THEN b[a][s] + amount ELSE b[a][s]
  BY <1>1 DEF Accounts
<1>5. /\ d \in [Accounts -> [Assets -> Int]]
      /\ \A a \in Accounts : \A s \in Assets :
           d[a][s] = IF a = account /\ s = asset THEN c[a][s] - amount ELSE c[a][s]
  BY <1>2, <1>4 DEF Accounts
<1>6. ASSUME NEW s \in Assets PROVE SumOf(d, s) = SumOf(b, s)
  <2>1. \A a \in Accounts : b[a][s] \in Int
    OBVIOUS
  <2>2. /\ d["cash"][s] = b["cash"][s] + (IF s = asset THEN amount ELSE 0)
        /\ \A a \in Accounts \ {"cash"} :
             d[a][s] = b[a][s] - (IF a = account /\ s = asset THEN amount ELSE 0)
    BY <1>4, <1>5, <2>1 DEF Accounts
  <2>3. CASE s = asset
    BY <2>1, <2>2, <2>3 DEF SumOf, Accounts
  <2>4. CASE s # asset
    BY <2>1, <2>2, <2>4 DEF SumOf, Accounts
  <2> QED
    BY <2>3, <2>4
<1>7. d["realized"]["USDT"]
        = b["realized"]["USDT"] - (IF account = "realized" /\ asset = "USDT" THEN amount ELSE 0)
  BY <1>4, <1>5 DEF Accounts, Assets
<1> QED
  BY <1>3, <1>5, <1>6, <1>7

\* What a fact posts: profit is taken by fills only.
LEMMA PostingsBalance ==
  ASSUME MoneyInv, NEW f \in Facts,
         f.kind = "execution" => Realized(exposure, SignedLots(f), f.price) \in Int
  PROVE  /\ Posted(f) \in [Accounts -> [Assets -> Int]]
         /\ \A s \in Assets : SumOf(Posted(f), s) = 0
         /\ Posted(f)["realized"]["USDT"]
              = balances["realized"]["USDT"]
                - (IF f.kind = "execution" THEN Realized(exposure, SignedLots(f), f.price) ELSE 0)
<1>1. f.kind \in FactKinds /\ f.asset \in Assets /\ f.amount \in Int
  BY LedgerAssumption
<1>2. Counter(f) \in Accounts \ {"cash", "realized"}
  BY <1>1 DEF Counter, FactKinds, Accounts
<1>3. PICK c \in Int : c = IF Counter(f) = "fees" THEN -f.amount ELSE f.amount
  BY <1>1
<1>4. PICK own : own = Pair(balances, f.asset, c, Counter(f))
  OBVIOUS
<1>5. /\ own \in [Accounts -> [Assets -> Int]] /\ \A s \in Assets : SumOf(own, s) = 0
      /\ own["realized"]["USDT"] = balances["realized"]["USDT"] - 0
  BY <1>1, <1>2, <1>4, PairBalances DEF MoneyInv
<1>6. balances["realized"]["USDT"] \in Int
  BY DEF MoneyInv, Accounts, Assets
<1>7. CASE f.kind # "execution"
  BY <1>3, <1>4, <1>5, <1>6, <1>7 DEF Posted
<1>8. CASE f.kind = "execution"
  <2>1. PICK g \in Int : g = Realized(exposure, SignedLots(f), f.price)
    BY <1>8
  <2>2. Posted(f) = Pair(own, "USDT", g, "realized")
    BY <1>3, <1>4, <1>8, <2>1 DEF Posted
  <2>3. "USDT" \in Assets /\ "realized" \in Accounts \ {"cash"}
    BY DEF Assets, Accounts
  <2>4. /\ Pair(own, "USDT", g, "realized") \in [Accounts -> [Assets -> Int]]
        /\ \A s \in Assets : SumOf(Pair(own, "USDT", g, "realized"), s) = SumOf(own, s)
        /\ Pair(own, "USDT", g, "realized")["realized"]["USDT"] = own["realized"]["USDT"] - g
    BY <1>5, <2>3, PairBalances
  <2> QED
    BY <1>5, <1>6, <1>8, <2>1, <2>2, <2>4
<1> QED
  BY <1>7, <1>8

\* What is booked of one more transaction.
LEMMA OneMoreBooked ==
  ASSUME transactions \in Seq(Facts), NEW f \in Facts, transactions' = Append(transactions, f)
  PROVE  /\ transactions' \in Seq(Facts) /\ Len(transactions') = Len(transactions) + 1
         /\ DOMAIN transactions = 1 .. Len(transactions) /\ Len(transactions) \in Nat
         /\ DOMAIN transactions' = DOMAIN transactions \cup {Len(transactions) + 1}
         /\ \A i \in DOMAIN transactions : transactions'[i] = transactions[i]
         /\ transactions'[Len(transactions) + 1] = f
         /\ FillLots \in Int /\ FillCash \in Int
         /\ FillLots' = FillLots + (IF f.kind = "execution" THEN SignedLots(f) ELSE 0)
         /\ FillCash' = FillCash + (IF f.kind = "execution" THEN -SignedLots(f) * f.price ELSE 0)
<1>1. PICK n \in Nat : n = Len(transactions) /\ DOMAIN transactions = 1 .. n
  BY LenProperties
<1>2. /\ transactions' \in Seq(Facts) /\ Len(transactions') = n + 1 /\ DOMAIN transactions' = 1 .. n + 1
      /\ \A i \in 1 .. n : transactions'[i] = transactions[i]
      /\ transactions'[n + 1] = f
  BY <1>1, AppendProperties
<1>3. 1 .. n + 1 = (1 .. n) \cup {n + 1} /\ n + 1 \in Nat /\ n + 1 # 0
  OBVIOUS
<1>4. PICK g, h, a, b :
        g = LotsBooked /\ h = LotsBooked' /\ a = CashBooked /\ b = CashBooked'
  OBVIOUS
<1>5. ASSUME NEW t \in Facts
      PROVE  t.kind = "execution" => SignedLots(t) \in Int /\ -SignedLots(t) * t.price \in Int
  <2>1. t.kind = "execution" => t.side \in {1, -1} /\ t.lots \in Nat /\ t.price \in Nat
    BY LedgerAssumption
  <2> QED
    BY <2>1 DEF SignedLots
<1>6. \A i \in 1 .. n : g[i] \in Int /\ a[i] \in Int
  <2>1. ASSUME NEW i \in 1 .. n PROVE transactions[i] \in Facts
    BY <1>1, ElementOfSeq
  <2> QED
    BY <1>1, <1>4, <1>5, <2>1 DEF LotsBooked, CashBooked
<1>7. \A i \in 1 .. n : g[i] = h[i] /\ a[i] = b[i]
  BY <1>1, <1>2, <1>3, <1>4 DEF LotsBooked, CashBooked
<1>8. /\ h[n + 1] = IF f.kind = "execution" THEN SignedLots(f) ELSE 0
      /\ b[n + 1] = IF f.kind = "execution" THEN -SignedLots(f) * f.price ELSE 0
  BY <1>2, <1>3, <1>4 DEF LotsBooked, CashBooked
<1>9. SumTo(g, n) \in Int /\ SumTo(a, n) \in Int
  BY <1>6, SumToInt
<1>10. SumTo(g, n) = SumTo(h, n) /\ SumTo(a, n) = SumTo(b, n)
  BY <1>7, SumToSame
<1>11. SumTo(h, n + 1) = SumTo(h, n) + h[n + 1] /\ SumTo(b, n + 1) = SumTo(b, n) + b[n + 1]
  <2>1. n + 1 - 1 = n
    OBVIOUS
  <2> QED
    BY <1>3, <2>1, SumToParts
<1>12. FillLots = SumTo(g, n) /\ FillCash = SumTo(a, n)
  BY <1>1, <1>4 DEF FillLots, FillCash
<1>13. FillLots' = SumTo(h, n + 1) /\ FillCash' = SumTo(b, n + 1)
  BY <1>2, <1>4 DEF FillLots, FillCash
<1> QED
  BY <1>1, <1>2, <1>3, <1>8, <1>9, <1>10, <1>11, <1>12, <1>13

\* A fact that is new is booked once, and the books are kept.
LEMMA BookingKeepsMoney ==
  ASSUME MoneyInv, FillsInv, NEW f \in Facts, FactBooked(f)
  PROVE  MoneyInv' /\ FillsInv'
<1>1. /\ f.kind \in FactKinds /\ f.asset \in Assets /\ f.amount \in Int
      /\ f.kind = "execution" => SignedLots(f) \in Int /\ SignedLots(f) # 0 /\ f.price \in Nat \ {0}
  BY LedgerAssumption DEF SignedLots
<1>2. /\ transactions' = Append(transactions, f) /\ balances' = Posted(f)
      /\ FillLots \in Int /\ FillCash \in Int /\ transactions' \in Seq(Facts)
      /\ FillLots' = FillLots + (IF f.kind = "execution" THEN SignedLots(f) ELSE 0)
      /\ FillCash' = FillCash + (IF f.kind = "execution" THEN -SignedLots(f) * f.price ELSE 0)
  BY OneMoreBooked DEF FactBooked, FillsInv
<1>3. adjusted' \in [Assets -> Int]
  BY <1>1 DEF FactBooked, MoneyInv
<1>4. CASE f.kind # "execution"
  <2>1. /\ Posted(f) \in [Accounts -> [Assets -> Int]]
        /\ \A s \in Assets : SumOf(Posted(f), s) = 0
        /\ Posted(f)["realized"]["USDT"] = balances["realized"]["USDT"] - 0
    BY <1>4, PostingsBalance
  <2>2. exposure' = exposure
    BY <1>4 DEF FactBooked
  <2>3. balances'["realized"]["USDT"] = balances["realized"]["USDT"] /\ FillLots' = FillLots /\ FillCash' = FillCash
    BY <1>2, <1>4, <2>1 DEF FillsInv
  <2> QED
    BY <1>2, <1>3, <2>1, <2>2, <2>3 DEF MoneyInv, FillsInv
<1>5. CASE f.kind = "execution"
  <2>1. PICK l \in Int, r \in Nat \ {0} : l = SignedLots(f) /\ r = f.price /\ l # 0
    BY <1>1, <1>5
  <2>2. PICK v, g : v = Average(exposure, l, r) /\ g = Realized(exposure, l, r)
    OBVIOUS
  <2>3. Adds(exposure.lots, l) => Spent(exposure, l, r) % Abs(exposure.lots + l) = 0
    BY <1>5, <2>1 DEF FactBooked, Exact
  <2>4. /\ v \in Nat /\ g \in Int /\ (exposure.lots + l = 0) = (v = 0)
        /\ g - (exposure.lots + l) * v = -(exposure.lots * exposure.average) - l * r
    BY <2>1, <2>2, <2>3, AverageKeepsBooks DEF FillsInv
  <2>5. /\ Posted(f) \in [Accounts -> [Assets -> Int]]
        /\ \A s \in Assets : SumOf(Posted(f), s) = 0
        /\ Posted(f)["realized"]["USDT"] = balances["realized"]["USDT"] - g
    BY <1>5, <2>1, <2>2, <2>4, PostingsBalance
  <2>6. exposure' = [lots |-> exposure.lots + l, average |-> v]
    BY <1>5, <2>1, <2>2 DEF FactBooked
  <2>7. PICK q \in Int, a \in Nat, z \in Int, c \in Int :
          /\ q = exposure.lots /\ a = exposure.average /\ z = balances["realized"]["USDT"]
          /\ c = FillCash /\ -z - q * a = c
    BY <1>2 DEF FillsInv
  <2>8. exposure' \in [lots : Int, average : Nat] /\ exposure'.lots = q + l /\ exposure'.average = v
    BY <2>4, <2>6, <2>7
  <2>9. FillLots' = q + l /\ FillCash' = c - l * r
    <3>1. PICK y \in Int : y = l * r
      OBVIOUS
    <3>2. FillLots' = FillLots + l /\ FillCash' = FillCash + (-l * r)
      BY <1>2, <1>5, <2>1
    <3> QED
      BY <2>7, <3>1, <3>2 DEF FillsInv
  <2>10. balances'["realized"]["USDT"] = z - g
    BY <1>2, <2>5, <2>7
  <2>11. -(z - g) - (q + l) * v = c - l * r
    <3>1. PICK u, x, y \in Int : u = (q + l) * v /\ x = q * a /\ y = l * r
      BY <2>4
    <3>2. g - u = -x - y
      BY <2>4, <2>7, <3>1
    <3>3. -z - x = c
      BY <2>7, <3>1
    <3>4. -(z - g) - u = c - y
      <4>1. g \in Int /\ z \in Int /\ c \in Int /\ u \in Int /\ x \in Int /\ y \in Int
        BY <2>4, <2>7, <3>1
      <4> QED
        BY <3>2, <3>3, <4>1
    <3> QED
      BY <3>1, <3>4
  <2>12. (exposure'.lots = 0) = (exposure'.average = 0)
    BY <2>4, <2>7, <2>8
  <2>13. MoneyInv'
    BY <1>2, <1>3, <2>5 DEF MoneyInv
  <2>14. FillsInv'
    <3>1. -balances'["realized"]["USDT"] - exposure'.lots * exposure'.average = FillCash'
      BY <2>8, <2>9, <2>10, <2>11
    <3>2. balances'["realized"]["USDT"] \in Int
      BY <2>4, <2>7, <2>10
    <3> QED
      BY <1>2, <2>8, <2>9, <2>12, <3>1, <3>2 DEF FillsInv
  <2> QED
    BY <2>13, <2>14
<1> QED
  BY <1>4, <1>5

\* The names of what is booked, or known already, are names of one transaction.
LEMMA NamesKept ==
  ASSUME FillsInv, NamesInv, NEW f \in Facts, FactKnown(f) \/ FactBooked(f)
  PROVE  NamesInv'
<1>1. PICK tx :
        /\ identities' = Named(f, tx) /\ heard' = heard \cup {f}
        /\ \A k \in Known(f) : identities[k].tx = tx
        /\ \/ FactKnown(f) /\ tx \in DOMAIN transactions /\ transactions' = transactions
           \/ FactBooked(f) /\ tx = Len(transactions) + 1 /\ Known(f) = {}
  <2>1. CASE FactKnown(f)
    <3>1. PICK k \in Known(f) : identities' = Named(f, identities[k].tx)
      BY <2>1 DEF FactKnown
    <3>2. \A j \in Known(f) : identities[j].tx = identities[k].tx
      BY <2>1, <3>1 DEF FactKnown, SameFact
    <3>3. identities[k].tx \in DOMAIN transactions
      BY <3>1 DEF Known, NamesInv
    <3> QED
      BY <2>1, <3>1, <3>2, <3>3 DEF FactKnown
  <2>2. CASE FactBooked(f)
    BY <2>2 DEF FactBooked
  <2> QED
    BY <2>1, <2>2
<1>2. /\ DOMAIN identities' = Names(f) \cup DOMAIN identities
      /\ \A k \in Names(f) : identities'[k].tx = tx
      /\ \A k \in DOMAIN identities : identities'[k].tx = identities[k].tx
  <2>1. /\ DOMAIN identities' = Names(f) \cup DOMAIN identities
        /\ \A k \in Names(f) \cup DOMAIN identities :
             identities'[k] = IF k \in Names(f) THEN [print |-> Signature(f), tx |-> tx] ELSE identities[k]
    BY <1>1 DEF Named
  <2>2. ASSUME NEW k \in DOMAIN identities PROVE identities'[k].tx = identities[k].tx
    <3>1. CASE k \in Names(f)
      BY <1>1, <2>1, <3>1 DEF Known
    <3>2. CASE k \notin Names(f)
      BY <2>1, <3>2
    <3> QED
      BY <3>1, <3>2
  <2> QED
    BY <2>1, <2>2
<1>3. /\ DOMAIN transactions \in SUBSET DOMAIN transactions' /\ tx \in DOMAIN transactions'
      /\ \A i \in DOMAIN transactions : transactions'[i] = transactions[i]
      /\ \A i \in DOMAIN transactions' \ DOMAIN transactions : i = tx /\ transactions'[i] = f
  <2>1. CASE FactKnown(f) /\ tx \in DOMAIN transactions /\ transactions' = transactions
    BY <2>1
  <2>2. CASE FactBooked(f) /\ tx = Len(transactions) + 1 /\ Known(f) = {}
    <3>1. transactions' = Append(transactions, f)
      BY <2>2 DEF FactBooked
    <3>2. /\ DOMAIN transactions' = DOMAIN transactions \cup {tx}
          /\ \A i \in DOMAIN transactions : transactions'[i] = transactions[i]
          /\ transactions'[tx] = f
      BY <2>2, <3>1, OneMoreBooked DEF FillsInv
    <3> QED
      BY <3>2
  <2> QED
    BY <1>1, <2>1, <2>2
<1>4. \A k \in DOMAIN identities' : identities'[k].tx \in DOMAIN transactions'
  BY <1>2, <1>3 DEF NamesInv
<1>5. ASSUME NEW h \in heard'
      PROVE  /\ Names(h) \subseteq DOMAIN identities'
             /\ \A j \in Names(h) : \A k \in Names(h) : identities'[j].tx = identities'[k].tx
  <2>1. CASE h = f
    BY <1>2, <2>1
  <2>2. CASE h \in heard
    BY <1>2, <2>2 DEF NamesInv
  <2> QED
    BY <1>1, <2>1, <2>2
<1>6. ASSUME NEW i \in DOMAIN transactions', NEW k \in Names(transactions'[i])
      PROVE  k \in DOMAIN identities' /\ identities'[k].tx = i
  <2>1. CASE i \in DOMAIN transactions
    BY <1>2, <1>3, <1>6, <2>1 DEF NamesInv
  <2>2. CASE i \notin DOMAIN transactions
    BY <1>2, <1>3, <1>6, <2>2
  <2> QED
    BY <2>1, <2>2
<1> QED
  BY <1>4, <1>5, <1>6 DEF NamesInv

\* A mark or rate is the newest that was heard.
LEMMA NewestKept ==
  ASSUME NewestInv, MarkObserved \/ ConversionRateObserved \/ TimerFired
  PROVE  NewestInv'
<1>1. ASSUME NEW V \in {Prices, Rates}, NEW seen \in Observations(V), NEW latest \in Int,
             IsNewest(seen, latest), NEW v \in V, NEW at \in 0 .. available
      PROVE  /\ Newer(seen, v, at) \in Observations(V)
             /\ IsNewest(Newer(seen, v, at), Larger(latest, at)) /\ Larger(latest, at) \in Int
  <2>1. at \in 0 .. MaxNow
    BY LedgerAssumption DEF NewestInv
  <2>2. CASE NotOlder(seen, at)
    <3>1. Newer(seen, v, at) = [value |-> v, at |-> at] /\ Larger(latest, at) = at
      BY <1>1, <2>1, <2>2 DEF Newer, NotOlder, IsNewest, Larger
    <3>2. [value |-> v, at |-> at] # Missing
      <4>1. [value |-> v, at |-> at] \in [value : Prices \union Rates, at : 0 .. MaxNow]
        BY <2>1
      <4> QED
        BY <4>1, LedgerAssumption
    <3> QED
      BY <2>1, <3>1, <3>2 DEF Observations, IsNewest
  <2>3. CASE ~NotOlder(seen, at)
    <3>1. Newer(seen, v, at) = seen /\ Larger(latest, at) = latest
      BY <1>1, <2>1, <2>3 DEF Newer, NotOlder, IsNewest, Larger
    <3> QED
      BY <1>1, <3>1
  <2> QED
    BY <2>2, <2>3
<1>2. CASE MarkObserved
  <2>1. PICK p \in Prices, at \in 0 .. available :
          /\ mark' = Newer(mark, p, at) /\ newest' = [newest EXCEPT !.mark = Larger(@, at)]
          /\ UNCHANGED <<available, rate>>
    BY <1>2 DEF MarkObserved
  <2>2. /\ newest'.mark = Larger(newest.mark, at) /\ newest'.rate = newest.rate
        /\ Larger(newest.mark, at) \in Int => newest' \in [mark : Int, rate : Int]
    BY <2>1 DEF NewestInv
  <2>3. /\ Newer(mark, p, at) \in Observations(Prices)
        /\ IsNewest(Newer(mark, p, at), Larger(newest.mark, at)) /\ Larger(newest.mark, at) \in Int
    BY <1>1 DEF NewestInv
  <2> QED
    BY <2>1, <2>2, <2>3 DEF NewestInv
<1>3. CASE ConversionRateObserved
  <2>1. PICK p \in Rates, at \in 0 .. available :
          /\ rate' = Newer(rate, p, at) /\ newest' = [newest EXCEPT !.rate = Larger(@, at)]
          /\ UNCHANGED <<available, mark>>
    BY <1>3 DEF ConversionRateObserved
  <2>2. /\ newest'.rate = Larger(newest.rate, at) /\ newest'.mark = newest.mark
        /\ Larger(newest.rate, at) \in Int => newest' \in [mark : Int, rate : Int]
    BY <2>1 DEF NewestInv
  <2>3. /\ Newer(rate, p, at) \in Observations(Rates)
        /\ IsNewest(Newer(rate, p, at), Larger(newest.rate, at)) /\ Larger(newest.rate, at) \in Int
    BY <1>1 DEF NewestInv
  <2> QED
    BY <2>1, <2>2, <2>3 DEF NewestInv
<1>4. CASE TimerFired
  <2>1. available' \in 0 .. MaxNow
    BY <1>4, LedgerAssumption DEF TimerFired, NewestInv
  <2> QED
    BY <1>4, <2>1 DEF TimerFired, NewestInv
<1> QED
  BY <1>2, <1>3, <1>4

\* A reservation is the newest revision that was taken, also of a batch: it
\* holds one of each order.
LEMMA TakenKept ==
  ASSUME TakenInv, NEW b \in Batches, ReservationBatchChanged(b)
  PROVE  TakenInv'
<1>1. /\ b \subseteq OrderStates /\ \A r \in b : \A q \in b : r.id = q.id => r = q
      /\ \A r \in OrderStates : r.revision \in Nat
  BY LedgerAssumption
<1>2. /\ reservations' = Revised(b) /\ taken' = taken \cup b
      /\ DOMAIN reservations' = {r.id : r \in b} \cup DOMAIN reservations
  BY DEF ReservationBatchChanged, Revised
<1>3. ASSUME NEW r \in b PROVE reservations'[r.id] = r
  <2>1. \E q \in b : q.id = r.id
    OBVIOUS
  <2>2. PICK q : q = CHOOSE x \in b : x.id = r.id
    OBVIOUS
  <2>3. q \in b /\ q.id = r.id
    BY <2>1, <2>2
  <2>4. reservations'[r.id] = q
    BY <1>2, <2>1, <2>2 DEF Revised
  <2> QED
    BY <1>1, <2>3, <2>4
<1>4. ASSUME NEW i \in DOMAIN reservations, ~\E r \in b : r.id = i
      PROVE  reservations'[i] = reservations[i]
  BY <1>2, <1>4 DEF Revised
<1>5. ASSUME NEW i \in DOMAIN reservations'
      PROVE  reservations'[i] \in OrderStates /\ reservations'[i].id = i
  <2>1. CASE \E r \in b : r.id = i
    BY <1>1, <1>3, <2>1
  <2>2. CASE ~\E r \in b : r.id = i
    BY <1>2, <1>4, <1>5, <2>2 DEF TakenInv
  <2> QED
    BY <2>1, <2>2
<1>6. ASSUME NEW r \in taken'
      PROVE  r.id \in DOMAIN reservations' /\ r.revision <= reservations'[r.id].revision
  <2>1. CASE r \in b
    <3>1. r.revision \in Nat
      BY <1>1, <2>1
    <3> QED
      BY <1>2, <1>3, <2>1, <3>1
  <2>2. CASE r \in taken /\ \E q \in b : q.id = r.id
    <3>1. PICK q \in b : q.id = r.id
      BY <2>2
    <3>2. r.id \in DOMAIN reservations /\ r.revision <= reservations[r.id].revision
      BY <2>2 DEF TakenInv, NewestReservation
    <3>3. reservations[r.id] \in OrderStates /\ r \in OrderStates
      BY <2>2, <3>2 DEF TakenInv
    <3>4. reservations[r.id] = q \/ reservations[r.id].revision < q.revision
      BY <3>1, <3>2 DEF ReservationBatchChanged, Follows
    <3>5. /\ reservations[r.id].revision \in Nat /\ q.revision \in Nat /\ r.revision \in Nat
      BY <1>1, <3>1, <3>3
    <3>6. reservations'[r.id] = q
      BY <1>3, <3>1
    <3>7. r.revision <= q.revision
      BY <3>2, <3>4, <3>5
    <3> QED
      BY <1>2, <3>2, <3>6, <3>7
  <2>3. CASE r \in taken /\ ~\E q \in b : q.id = r.id
    BY <1>2, <1>4, <2>3 DEF TakenInv, NewestReservation
  <2> QED
    BY <1>2, <2>1, <2>2, <2>3
<1> QED
  BY <1>1, <1>2, <1>5, <1>6 DEF TakenInv, NewestReservation

-----------------------------------------------------------------------------
LEMMA LedgerInitInv == LedgerInit => LedgerInv
<1> SUFFICES ASSUME LedgerInit
             PROVE  LedgerInv
  OBVIOUS
<1>1. MoneyInv
  <2>1. balances \in [Accounts -> [Assets -> Int]] /\ adjusted \in [Assets -> Int]
    BY DEF LedgerInit, NoMoney
  <2>2. \A s \in Assets : \A a \in Accounts : balances[a][s] = 0
    BY DEF LedgerInit, NoMoney
  <2> QED
    BY <2>1, <2>2 DEF MoneyInv, SumOf, Accounts
<1>2. FillsInv
  <2>1. transactions \in Seq(Facts) /\ Len(transactions) = 0
    BY EmptySeq DEF LedgerInit
  <2>2. FillLots = 0 /\ FillCash = 0
    BY <2>1, SumToParts DEF FillLots, FillCash
  <2>3. /\ exposure \in [lots : Int, average : Nat] /\ exposure.lots = 0 /\ exposure.average = 0
    BY DEF LedgerInit, Flat
  <2>4. balances["realized"]["USDT"] = 0
    BY DEF LedgerInit, NoMoney, Accounts, Assets
  <2> QED
    BY <2>1, <2>2, <2>3, <2>4 DEF FillsInv
<1>3. NamesInv
  <2>1. DOMAIN identities = {} /\ heard = {} /\ DOMAIN transactions = {}
    BY DEF LedgerInit
  <2> QED
    BY <2>1 DEF NamesInv
<1>4. NewestInv
  BY LedgerAssumption DEF LedgerInit, NewestInv, Observations, IsNewest
<1>5. TakenInv
  BY DEF LedgerInit, TakenInv, NewestReservation
<1> QED
  BY <1>1, <1>2, <1>3, <1>4, <1>5 DEF LedgerInv

LEMMA LedgerStep == LedgerInv /\ [LedgerNext]_ledgerVars => LedgerInv'
<1> SUFFICES ASSUME LedgerInv, [LedgerNext]_ledgerVars
             PROVE  LedgerInv'
  OBVIOUS
<1> USE DEF LedgerInv
<1>1. ASSUME UNCHANGED <<balances, exposure, transactions, adjusted>>
      PROVE  MoneyInv' /\ FillsInv'
  BY <1>1 DEF MoneyInv, SumOf, FillsInv, FillLots, FillCash, LotsBooked, CashBooked
<1>2. ASSUME UNCHANGED <<identities, transactions, heard>>
      PROVE  NamesInv'
  BY <1>2 DEF NamesInv
<1>3. ASSUME UNCHANGED <<available, mark, rate, newest>>
      PROVE  NewestInv'
  BY <1>3 DEF NewestInv
<1>4. ASSUME UNCHANGED <<reservations, taken>>
      PROVE  TakenInv'
  BY <1>4 DEF TakenInv, NewestReservation
<1>5. CASE UNCHANGED ledgerVars
  BY <1>1, <1>2, <1>3, <1>4, <1>5 DEF ledgerVars
<1>6. ASSUME NEW f \in Facts, FactKnown(f)
      PROVE  LedgerInv'
  BY <1>1, <1>3, <1>4, <1>6, NamesKept DEF FactKnown
<1>7. ASSUME NEW f \in Facts, FactBooked(f)
      PROVE  LedgerInv'
  <2>1. NewestInv' /\ TakenInv'
    BY <1>3, <1>4, <1>7 DEF FactBooked
  <2> QED
    BY <1>7, <2>1, NamesKept, BookingKeepsMoney
<1>8. ASSUME NEW b \in Batches, ReservationBatchChanged(b)
      PROVE  LedgerInv'
  BY <1>1, <1>2, <1>3, <1>8, TakenKept DEF ReservationBatchChanged, booking
<1>9. CASE MarkObserved \/ ConversionRateObserved \/ TimerFired
  <2>1. UNCHANGED booking /\ UNCHANGED <<reservations, taken, heard>>
    BY <1>9 DEF MarkObserved, ConversionRateObserved, TimerFired
  <2> QED
    BY <1>1, <1>2, <1>4, <1>9, <2>1, NewestKept DEF booking
<1> QED
  BY <1>5, <1>6, <1>7, <1>8, <1>9 DEF LedgerNext

\* What was observed.
LEMMA ObservedValue ==
  ASSUME NEW V \in {Prices, Rates}, NEW seen \in Observations(V), seen # Missing
  PROVE  seen.value \in Int /\ seen.at \in Int
<1>1. seen \in [value : V, at : 0 .. MaxNow]
  BY DEF Observations
<1>2. V \in SUBSET Int /\ MaxNow \in Nat
  <2>1. Prices \in SUBSET Nat /\ Rates \in SUBSET Nat /\ MaxNow \in Nat
    BY LedgerAssumption
  <2> QED
    BY <2>1
<1>3. seen.value \in V /\ seen.at \in 0 .. MaxNow
  BY <1>1
<1>4. seen.value \in Int
  <2>1. \A x \in V : x \in Int
    BY <1>2
  <2> QED
    BY <1>3, <2>1
<1>5. seen.at \in Int
  BY <1>2, <1>3
<1> QED
  BY <1>4, <1>5

\* What a complete snapshot shows adds up: an asset that could not be converted
\* has no part in it.
LEMMA SnapshotAddsUp ==
  ASSUME MoneyInv, NewestInv, Complete,
         exposure \in [lots : Int, average : Nat]
  PROVE  EquityExplained
<1>1. \A a \in Accounts : /\ balances[a]["USDT"] \in Int /\ balances[a]["BGB"] \in Int
                          /\ balances[a] \in [Assets -> Int]
  BY DEF MoneyInv, Assets
<1>2. PICK v \in Int :
        \A a \in Accounts :
          /\ Converted(balances[a]) = balances[a]["USDT"] + balances[a]["BGB"] * v
          /\ Converted(Negated(balances[a])) = -balances[a]["USDT"] - balances[a]["BGB"] * v
  <2>1. CASE rate # Missing
    <3>1. rate.value \in Int
      BY <2>1, ObservedValue DEF NewestInv
    <3>2. ASSUME NEW a \in Accounts
          PROVE  /\ Converted(balances[a]) = balances[a]["USDT"] + balances[a]["BGB"] * rate.value
                 /\ Converted(Negated(balances[a])) = -balances[a]["USDT"] - balances[a]["BGB"] * rate.value
      <4>1. PICK x \in Int, y \in Int, z \in Int :
              x = balances[a]["USDT"] /\ y = balances[a]["BGB"] /\ z = rate.value
        BY <1>1, <3>1
      <4>2. Negated(balances[a])["USDT"] = -x /\ Negated(balances[a])["BGB"] = -y
        BY <4>1 DEF Negated, Assets
      <4>3. Converted(balances[a]) = IF y = 0 THEN x ELSE x + y * z
        BY <4>1 DEF Converted
      <4>4. Converted(Negated(balances[a])) = IF -y = 0 THEN -x ELSE -x + (-y) * z
        BY <4>1, <4>2 DEF Converted
      <4>5. (-y) * z = -(y * z) /\ y * z \in Int /\ (y = 0 => y * z = 0)
        OBVIOUS
      <4> QED
        BY <4>1, <4>3, <4>4, <4>5
    <3> QED
      BY <3>1, <3>2
  <2>2. CASE rate = Missing
    <3>1. \A a \in Shown : balances[a]["BGB"] = 0
      BY <2>2 DEF Complete, Convertible, WithinAge
    <3>2. SumOf(balances, "BGB") = 0
      BY DEF MoneyInv, Assets
    <3>3. balances["adjustments"]["BGB"] = 0
      <4>1. /\ balances["cash"]["BGB"] = 0 /\ balances["realized"]["BGB"] = 0 /\ balances["fees"]["BGB"] = 0
            /\ balances["funding"]["BGB"] = 0 /\ balances["external"]["BGB"] = 0
        BY <3>1 DEF Shown
      <4>2. balances["adjustments"]["BGB"] \in Int
        BY <1>1 DEF Accounts
      <4> QED
        BY <3>2, <4>1, <4>2 DEF SumOf
    <3>4. \A a \in Accounts : balances[a]["BGB"] = 0
      BY <3>1, <3>3 DEF Accounts, Shown
    <3>5. ASSUME NEW a \in Accounts
          PROVE  /\ Converted(balances[a]) = balances[a]["USDT"] + balances[a]["BGB"] * 0
                 /\ Converted(Negated(balances[a])) = -balances[a]["USDT"] - balances[a]["BGB"] * 0
      <4>1. Negated(balances[a])["USDT"] = -balances[a]["USDT"] /\ Negated(balances[a])["BGB"] = 0
        BY <1>1, <3>4 DEF Negated, Assets
      <4>2. PICK x \in Int : x = balances[a]["USDT"] /\ balances[a]["BGB"] = 0
        BY <1>1, <3>4
      <4>3. Converted(balances[a]) = x /\ Converted(Negated(balances[a])) = -x
        BY <4>1, <4>2 DEF Converted
      <4> QED
        BY <4>2, <4>3
    <3> QED
      BY <3>5
  <2> QED
    BY <2>1, <2>2
<1>3. PICK t : t = Converted(adjusted)
  OBVIOUS
<1>4. t \in Int
  <2>1. adjusted["USDT"] \in Int /\ adjusted["BGB"] \in Int
    BY DEF MoneyInv, Assets
  <2>2. adjusted["BGB"] # 0 => rate.value \in Int
    BY ObservedValue DEF Complete, Convertible, WithinAge, NewestInv
  <2> QED
    BY <1>3, <2>1, <2>2 DEF Converted
<1>5. Unrealized \in Int
  <2>1. exposure.lots # 0 => mark.value \in Int
    BY ObservedValue DEF Complete, Marked, WithinAge, NewestInv
  <2> QED
    BY <2>1 DEF Unrealized
<1>6. PICK u \in [Accounts -> Int] : \A a \in Accounts : u[a] = Converted(balances[a])
  <2>1. \A a \in Accounts : Converted(balances[a]) \in Int
    <3>1. \A x, y, z \in Int : x + y * z \in Int
      OBVIOUS
    <3> QED
      BY <1>1, <1>2, <3>1
  <2>2. [a \in Accounts |-> Converted(balances[a])] \in [Accounts -> Int]
    BY <2>1
  <2> QED
    BY <2>2
<1>7. ASSUME NEW a \in Accounts PROVE Converted(Negated(balances[a])) = -u[a]
  <2>1. PICK x \in Int, y \in Int : x = balances[a]["USDT"] /\ y = balances[a]["BGB"]
    BY <1>1
  <2>2. y * v \in Int
    BY <2>1
  <2> QED
    BY <1>2, <1>6, <2>1, <2>2
<1>8. u["cash"] + u["realized"] + u["fees"] + u["funding"] + u["external"] + u["adjustments"] = 0
  <2>1. PICK x \in [Accounts -> Int], y \in [Accounts -> Int] :
          \A a \in Accounts : x[a] = balances[a]["USDT"] /\ y[a] = balances[a]["BGB"]
    <3>1. /\ [a \in Accounts |-> balances[a]["USDT"]] \in [Accounts -> Int]
          /\ [a \in Accounts |-> balances[a]["BGB"]] \in [Accounts -> Int]
      BY <1>1
    <3> QED
      BY <3>1
  <2>2. /\ x["cash"] + x["realized"] + x["fees"] + x["funding"] + x["external"] + x["adjustments"] = 0
        /\ y["cash"] + y["realized"] + y["fees"] + y["funding"] + y["external"] + y["adjustments"] = 0
    BY <2>1 DEF MoneyInv, SumOf, Assets, Accounts
  <2>3. \A a \in Accounts : u[a] = x[a] + y[a] * v
    BY <1>2, <1>6, <2>1
  <2>4. \A b, c, d, e, f, g \in Int :
          b + c + d + e + f + g = 0 => b * v + c * v + d * v + e * v + f * v + g * v = 0
    <3> TAKE b, c, d, e, f, g \in Int
    <3>1. b * v + c * v + d * v + e * v + f * v + g * v = (b + c + d + e + f + g) * v
      OBVIOUS
    <3> QED
      BY <3>1
  <2>5. PICK z \in [Accounts -> Int] : \A a \in Accounts : z[a] = y[a] * v
    <3>1. [a \in Accounts |-> y[a] * v] \in [Accounts -> Int]
      OBVIOUS
    <3> QED
      BY <3>1
  <2>6. z["cash"] + z["realized"] + z["fees"] + z["funding"] + z["external"] + z["adjustments"] = 0
    <3>1. PICK b, c, d, e, f, g \in Int :
            /\ b = y["cash"] /\ c = y["realized"] /\ d = y["fees"] /\ e = y["funding"]
            /\ f = y["external"] /\ g = y["adjustments"]
      BY DEF Accounts
    <3>2. b * v + c * v + d * v + e * v + f * v + g * v = 0
      BY <2>2, <2>4, <3>1
    <3>3. /\ z["cash"] = b * v /\ z["realized"] = c * v /\ z["fees"] = d * v
          /\ z["funding"] = e * v /\ z["external"] = f * v /\ z["adjustments"] = g * v
      BY <2>5, <3>1 DEF Accounts
    <3> QED
      BY <3>2, <3>3
  <2>7. \A a \in Accounts : u[a] = x[a] + z[a]
    BY <2>3, <2>5
  <2> QED
    BY <2>2, <2>6, <2>7 DEF Accounts
<1>9. \A a \in Accounts : u[a] \in Int
  BY <1>6
<1>10. Equity = u["cash"] + Unrealized
  BY <1>6 DEF Equity, Wallet, Accounts
<1>11. External = -u["external"] /\ FundingReceived = -u["funding"]
  BY <1>7 DEF External, FundingReceived, Accounts
<1>12. NetPnl = -u["realized"] + Unrealized - u["fees"] + (-u["funding"]) + t
  BY <1>3, <1>6, <1>7, <1>11 DEF NetPnl, Accounts
<1>13. Converted(Negated(balances["adjustments"])) = -u["adjustments"]
  BY <1>7 DEF Accounts
<1>14. u["cash"] + Unrealized
         = -u["external"] + (-u["realized"] + Unrealized - u["fees"] + (-u["funding"]) + t)
           + (-u["adjustments"]) - t
  BY <1>4, <1>5, <1>8, <1>9 DEF Accounts
<1> QED
  BY <1>3, <1>10, <1>11, <1>12, <1>13, <1>14 DEF EquityExplained

\* A complete snapshot is of the newest mark and rate.
LEMMA SnapshotUpToDate ==
  ASSUME NewestInv PROVE EquityFresh
<1>1. ASSUME NEW V \in {Prices, Rates}, NEW seen \in Observations(V), NEW latest, IsNewest(seen, latest),
             WithinAge(seen)
      PROVE  UpToDate(seen, latest)
  BY <1>1 DEF WithinAge, IsNewest, UpToDate
<1>2. Complete /\ exposure.lots # 0 => UpToDate(mark, newest.mark)
  BY <1>1 DEF Complete, Marked, NewestInv
<1>3. ASSUME Complete, NEW a \in Shown, balances[a]["BGB"] # 0
      PROVE  UpToDate(rate, newest.rate)
  <2>1. WithinAge(rate)
    BY <1>3 DEF Complete, Convertible
  <2> QED
    BY <1>1, <2>1 DEF NewestInv
<1> QED
  BY <1>2, <1>3 DEF EquityFresh

\* Whatever financial facts, marks, rates and reservations arrive, in whatever
\* order and as often as they like: position and profit are those of the fills,
\* a fact is booked once under whichever of its names, what a snapshot shows
\* adds up and is not old, and a reservation is the newest revision.
THEOREM LedgerAlwaysExplained == LedgerSpec => []LedgerExplained
<1>1. ASSUME LedgerInv
      PROVE  LedgerExplained
  <2> USE <1>1 DEF LedgerInv
  <2>1. LedgerTypeOK
    BY DEF LedgerTypeOK, MoneyInv, FillsInv, NamesInv, NewestInv, TakenInv
  <2>2. BooksOfTheFills
    <3>1. ASSUME NEW p \in Prices
          PROVE  -balances["realized"]["USDT"] + exposure.lots * (p - exposure.average) = FillCash + FillLots * p
      <4>1. p \in Int
        BY LedgerAssumption
      <4>2. PICK q \in Int, a \in Int, z \in Int :
              q = exposure.lots /\ a = exposure.average /\ z = balances["realized"]["USDT"]
        BY DEF FillsInv
      <4>3. -z - q * a = FillCash /\ FillLots = q
        BY <4>2 DEF FillsInv
      <4>4. -z + q * (p - a) = -z - q * a + q * p
        BY <4>1
      <4> QED
        BY <4>2, <4>3, <4>4
    <3> QED
      BY <3>1 DEF BooksOfTheFills, FillsInv
  <2>3. BookedOnce
    <3>1. ASSUME NEW i \in DOMAIN transactions, NEW j \in DOMAIN transactions, NEW f \in heard,
                 NEW g \in heard, SharedNames(f, transactions[i]), SharedNames(f, g),
                 SharedNames(g, transactions[j])
          PROVE  i = j
      <4>1. PICK k : k \in Names(f) /\ k \in Names(transactions[i])
        BY <3>1 DEF SharedNames
      <4>2. PICK l : l \in Names(f) /\ l \in Names(g)
        BY <3>1 DEF SharedNames
      <4>3. PICK m : m \in Names(g) /\ m \in Names(transactions[j])
        BY <3>1 DEF SharedNames
      <4>4. identities[k].tx = i /\ identities[m].tx = j
        BY <4>1, <4>3 DEF NamesInv
      <4>5. identities[k].tx = identities[l].tx /\ identities[l].tx = identities[m].tx
        BY <4>1, <4>2, <4>3 DEF NamesInv
      <4> QED
        BY <4>4, <4>5
    <3> QED
      BY <3>1 DEF BookedOnce
  <2>4. EquityExplained
    <3>1. CASE Complete
      BY <3>1, SnapshotAddsUp DEF FillsInv
    <3>2. CASE ~Complete
      BY <3>2 DEF EquityExplained
    <3> QED
      BY <3>1, <3>2
  <2>5. EquityFresh
    BY SnapshotUpToDate
  <2> QED
    BY <2>1, <2>2, <2>3, <2>4, <2>5 DEF LedgerExplained, TakenInv
<1> QED
  BY <1>1, LedgerInitInv, LedgerStep, PTL DEF LedgerSpec
-----------------------------------------------------------------------------
(* The live runner: what its positions cost is what its fills add up to,   *)
(* since whoever closes a position closes it on its other side.  A step    *)
(* leaves the books of the runner as they are, enters, leaves, flattens,   *)
(* begins anew or takes up what was saved.                                 *)

Kept == positions' = positions /\ realized' = realized /\ cash' = cash /\ disk' = disk
Entered(o, side, price) ==
  /\ ~tripped /\ positions[o] = Absent
  /\ price <= Larger(0, 3 * AccountEquity - Summed(Margins(positions)))
  /\ positions' = [positions EXCEPT ![o] = [side |-> side, entry |-> price, upnl |-> 0]]
  /\ realized' = realized /\ cash' = cash - SignOf(side) * price
  /\ Save
Left(o, side, price) ==
  /\ positions[o] # Absent
  /\ positions' = [positions EXCEPT ![o] = Absent]
  /\ realized' = realized + Gross(positions[o], price) /\ cash' = cash - SignOf(side) * price
  /\ Save
Flattened ==
  /\ positions' = Nothing /\ disk' = disk
  /\ realized' = realized + Summed(FlattenResults) /\ cash' = cash + Summed(FlattenCash)
-----------------------------------------------------------------------------
\* Sums over the owners are sums along the roster.
LEMMA SummedInt ==
  ASSUME NEW f, \A o \in Owners : f[o] \in Int
  PROVE  Summed(f) \in Int
<1>1. Len(Roster) \in Nat
  BY LiveRunnerAssumption
<1>2. PICK r : r = [k \in 1 .. Len(Roster) |-> f[Roster[k]]]
  OBVIOUS
<1>3. \A k \in 1 .. Len(Roster) : r[k] \in Int
  BY <1>2 DEF Owners
<1>4. SumTo(r, Len(Roster)) \in Int
  BY <1>1, <1>3, SumToInt
<1> QED
  BY <1>2, <1>4 DEF Summed

LEMMA SummedAdds ==
  ASSUME NEW h, NEW f, NEW g,
         \A o \in Owners : f[o] \in Int /\ g[o] \in Int /\ h[o] = f[o] + g[o]
  PROVE  Summed(h) = Summed(f) + Summed(g)
<1>1. Len(Roster) \in Nat
  BY LiveRunnerAssumption
<1>2. PICK q, r, s : /\ q = [k \in 1 .. Len(Roster) |-> h[Roster[k]]]
                     /\ r = [k \in 1 .. Len(Roster) |-> f[Roster[k]]]
                     /\ s = [k \in 1 .. Len(Roster) |-> g[Roster[k]]]
  OBVIOUS
<1>3. \A k \in 1 .. Len(Roster) : r[k] \in Int /\ s[k] \in Int /\ q[k] = r[k] + s[k]
  BY <1>2 DEF Owners
<1>4. SumTo(q, Len(Roster)) = SumTo(r, Len(Roster)) + SumTo(s, Len(Roster))
  BY <1>1, <1>3, SumToAdds
<1> QED
  BY <1>2, <1>4 DEF Summed

LEMMA SummedOnly ==
  ASSUME NEW f, NEW o \in Owners, f[o] \in Int, \A p \in Owners \ {o} : f[p] = 0
  PROVE  Summed(f) = f[o]
<1>1. Len(Roster) \in Nat
  BY LiveRunnerAssumption
<1>2. PICK k \in 1 .. Len(Roster) : Roster[k] = o
  BY DEF Owners
<1>3. PICK r : r = [j \in 1 .. Len(Roster) |-> f[Roster[j]]]
  OBVIOUS
<1>4. r[k] \in Int /\ r[k] = f[o]
  BY <1>2, <1>3
<1>5. \A j \in (1 .. Len(Roster)) \ {k} : r[j] = 0
  <2>1. \A j \in (1 .. Len(Roster)) \ {k} : Roster[j] # o /\ Roster[j] \in Owners
    BY <1>2, LiveRunnerAssumption DEF Owners
  <2> QED
    BY <1>3, <2>1
<1>6. SumTo(r, Len(Roster)) = r[k]
  BY <1>1, <1>4, <1>5, SumToOnly
<1> QED
  BY <1>3, <1>4, <1>6 DEF Summed

\* Where two differ at one owner, so do their sums.
LEMMA SummedBut ==
  ASSUME NEW h, NEW f, NEW o \in Owners, h[o] \in Int,
         \A p \in Owners : f[p] \in Int, \A p \in Owners \ {o} : h[p] = f[p]
  PROVE  Summed(h) = Summed(f) - f[o] + h[o]
<1>1. PICK d : d = [p \in Owners |-> IF p = o THEN h[o] - f[o] ELSE 0]
  OBVIOUS
<1>2. d[o] = h[o] - f[o] /\ d[o] \in Int /\ \A p \in Owners \ {o} : d[p] = 0
  BY <1>1
<1>3. Summed(d) = d[o]
  BY <1>2, SummedOnly
<1>4. \A p \in Owners : f[p] \in Int /\ d[p] \in Int /\ h[p] = f[p] + d[p]
  <2>1. \A p \in Owners \ {o} : f[p] \in Int /\ d[p] \in Int /\ h[p] = f[p] + d[p]
    BY <1>2
  <2>2. f[o] \in Int /\ h[o] = f[o] + d[o]
    BY <1>2
  <2> QED
    BY <1>2, <2>1, <2>2
<1>5. Summed(h) = Summed(f) + Summed(d)
  BY <1>4, SummedAdds
<1>6. Summed(f) \in Int
  BY SummedInt
<1> QED
  BY <1>2, <1>3, <1>5, <1>6

\* Nothing sums to nothing.
LEMMA SummedNothing ==
  ASSUME NEW f, \A o \in Owners : f[o] = 0
  PROVE  Summed(f) = 0
<1>1. PICK n \in Int : n = Summed(f)
  BY SummedInt
<1>2. n = n + n
  BY <1>1, SummedAdds
<1>3. \A m \in Int : m = m + m => m = 0
  OBVIOUS
<1> QED
  BY <1>1, <1>2, <1>3
-----------------------------------------------------------------------------
\* What is held, costs and earns are numbers.
LEMMA HeldNumbers ==
  ASSUME NEW ps \in Held, NEW o \in Owners
  PROVE  /\ Margins(ps)[o] \in Nat /\ EntryCosts(ps)[o] \in Int /\ Profits(ps)[o] \in Int
         /\ ps[o] # Absent => /\ ps[o] \in Position /\ Margins(ps)[o] = ps[o].entry
                              /\ EntryCosts(ps)[o] = SignOf(ps[o].side) * ps[o].entry
                              /\ Profits(ps)[o] = ps[o].upnl
         /\ ps[o] = Absent => Margins(ps)[o] = 0 /\ EntryCosts(ps)[o] = 0 /\ Profits(ps)[o] = 0
<1>1. ps[o] \in Position \union {Absent}
  BY DEF Held
<1>2. CASE ps[o] = Absent
  BY <1>2 DEF Margins, EntryCosts, Profits
<1>3. CASE ps[o] # Absent
  <2>1. PICK p \in Position : p = ps[o]
    BY <1>1, <1>3
  <2>2. p.side \in Sides /\ p.entry \in Nat /\ p.upnl \in Int
    BY DEF Position
  <2>3. SignOf(p.side) \in {1, -1}
    BY DEF SignOf
  <2>4. SignOf(p.side) * p.entry \in Int
    BY <2>2, <2>3
  <2> QED
    BY <1>3, <2>1, <2>2, <2>4 DEF Margins, EntryCosts, Profits
<1> QED
  BY <1>2, <1>3

LEMMA HeldSums ==
  ASSUME NEW ps \in Held
  PROVE  Summed(Margins(ps)) \in Int /\ Summed(EntryCosts(ps)) \in Int /\ Summed(Profits(ps)) \in Int
<1>1. \A o \in Owners : Margins(ps)[o] \in Int /\ EntryCosts(ps)[o] \in Int /\ Profits(ps)[o] \in Int
  BY HeldNumbers
<1> QED
  BY <1>1, SummedInt

LEMMA EquityInt == ASSUME RunnerTypeOK PROVE AccountEquity \in Int
<1>1. Summed(Profits(positions)) \in Int
  BY HeldSums DEF RunnerTypeOK
<1> QED
  BY <1>1, LiveRunnerAssumption DEF RunnerTypeOK, AccountEquity

\* An order fills at a price there is.
LEMMA FillPriceReal ==
  ASSUME RunnerTypeOK, NEW side, Fillable(side)
  PROVE  FillPrice(side) \in Nat \ {0}
<1>1. \A b \in FeedBooks \union {EmptyBook} :
        /\ b.bid # Absent => b.bid \in Nat \ {0}
        /\ b.ask # Absent => b.ask \in Nat \ {0}
  <2>1. \A p \in Bids : p \in Nat \ {0} /\ p + 2 \in Nat \ {0}
    BY LiveRunnerAssumption
  <2> QED
    BY <2>1, LiveRunnerAssumption DEF FeedBooks, EmptyBook
<1>2. mid # Absent => mid \in Nat \ {0}
  BY LiveRunnerAssumption DEF RunnerTypeOK, MidPrices
<1>3. PICK p \in Nat \ {0} : p = IF side = "BUY" THEN lastBook.bid ELSE lastBook.ask
  BY <1>1 DEF RunnerTypeOK, Fillable
<1>4. Clamped(p) \in Nat \ {0}
  BY <1>2 DEF Clamped
<1> QED
  BY <1>3, <1>4 DEF FillPrice

-----------------------------------------------------------------------------
\* Save writes what fits the type.
LEMMA SavesWhole ==
  ASSUME positions' \in Held, realized' \in Int, cash' \in Int, Save
  PROVE  /\ disk' \in Saved \union {Absent}
         /\ disk'.positions = positions' /\ disk'.realized = realized' /\ disk'.cash = cash'
<1>1. PICK ps \in Held, r \in Int, c \in Int : ps = positions' /\ r = realized' /\ c = cash'
  OBVIOUS
<1>2. disk' = [positions |-> ps, realized |-> r, cash |-> c]
  BY <1>1 DEF Save
<1>3. disk' \in Saved
  BY <1>2 DEF Saved
<1> QED
  BY <1>1, <1>2, <1>3

\* Executing an entry enters, or changes no books.
LEMMA EntersOrKeeps ==
  ASSUME RunnerTypeOK, NEW o \in Owners, NEW side \in Sides, ExecuteEnter(o, side)
  PROVE  /\ Kept \/ \E price \in Nat \ {0} : Entered(o, side, price)
         /\ peak' \in Int /\ tripped' \in BOOLEAN /\ cooling' \subseteq Owners /\ trades' \in Nat
<1>1. CASE ~Fillable(side)
  BY <1>1 DEF ExecuteEnter, Kept, RunnerTypeOK
<1>2. CASE Fillable(side)
  <2>1. PICK price \in Nat \ {0} : price = FillPrice(side)
    BY <1>2, FillPriceReal
  <2>2. /\ peak' = Larger(peak, AccountEquity) /\ tripped' = (tripped \/ BelowLimit)
        /\ IF Refused(o, price)
           THEN UNCHANGED <<positions, realized, cash, cooling, disk, trades>>
           ELSE /\ trades < MaxTrades /\ trades' = trades + 1
                /\ cooling' = cooling \union {o}
                /\ positions' = [positions EXCEPT ![o] = [side |-> side, entry |-> price, upnl |-> 0]]
                /\ cash' = cash - SignOf(side) * price
                /\ UNCHANGED realized
                /\ Save
    BY <1>2, <2>1 DEF ExecuteEnter
  <2>3. peak' \in Int
    BY <2>2, EquityInt DEF RunnerTypeOK, Larger
  <2>4. tripped' \in BOOLEAN
    BY <2>2 DEF RunnerTypeOK, BelowLimit
  <2>5. CASE Refused(o, price)
    BY <2>2, <2>3, <2>4, <2>5 DEF Kept, RunnerTypeOK
  <2>6. CASE ~Refused(o, price)
    <3>1. cooling' \subseteq Owners /\ trades' \in Nat
      BY <2>2, <2>6 DEF RunnerTypeOK
    <3>2. Entered(o, side, price)
      BY <2>2, <2>6 DEF Entered, Refused, Affordable
    <3> QED
      BY <2>3, <2>4, <3>1, <3>2
  <2> QED
    BY <2>5, <2>6
<1> QED
  BY <1>1, <1>2

\* Executing an exit leaves, or changes no books.
LEMMA LeavesOrKeeps ==
  ASSUME RunnerTypeOK, NEW o \in Owners, NEW side \in Sides, ExecuteExit(o, side)
  PROVE  /\ Kept \/ \E price \in Nat \ {0} : Left(o, side, price)
         /\ trades' \in Nat
<1>1. CASE ~Fillable(side) \/ positions[o] = Absent
  BY <1>1 DEF ExecuteExit, Kept, RunnerTypeOK
<1>2. CASE Fillable(side) /\ positions[o] # Absent
  <2>1. PICK price \in Nat \ {0} : price = FillPrice(side)
    BY <1>2, FillPriceReal
  <2>2. Left(o, side, price) /\ trades' = trades + 1
    BY <1>2, <2>1 DEF ExecuteExit, Left
  <2> QED
    BY <2>2 DEF RunnerTypeOK
<1> QED
  BY <1>1, <1>2

\* What flattening earns, and its cash: the difference is what was held.
LEMMA FlattenNumbers ==
  ASSUME RunnerTypeOK, NEW o \in Owners
  PROVE  /\ FlattenResults[o] \in Int /\ FlattenCash[o] \in Int
         /\ FlattenCash[o] = FlattenResults[o] + EntryCosts(positions)[o]
<1>1. CASE positions[o] = Absent
  BY <1>1 DEF FlattenResults, FlattenCash, EntryCosts
<1>2. CASE positions[o] # Absent
  <2>1. PICK p \in Position : p = positions[o]
    BY <1>2, HeldNumbers DEF RunnerTypeOK
  <2>2. PICK e \in Nat, u \in Int, s \in {1, -1} : e = p.entry /\ u = p.upnl /\ s = SignOf(p.side)
    BY DEF Position, SignOf
  <2>3. \A b \in FeedBooks \union {EmptyBook} :
          /\ b.bid # Absent => b.bid \in Int
          /\ b.ask # Absent => b.ask \in Int
    <3>1. \A q \in Bids : q \in Nat \ {0} /\ q + 2 \in Nat \ {0}
      BY LiveRunnerAssumption
    <3> QED
      BY <3>1, LiveRunnerAssumption DEF FeedBooks, EmptyBook
  <2>4. s * u \in Int
    BY <2>2
  <2>5. PICK x \in Int : x = FlattenPrice(p)
    BY <2>2, <2>3, <2>4 DEF FlattenPrice, RunnerTypeOK
  <2>6. /\ FlattenResults[o] = s * (x - e) - TakerFee /\ FlattenCash[o] = s * x - TakerFee
        /\ EntryCosts(positions)[o] = s * e
    BY <1>2, <2>1, <2>2, <2>5 DEF FlattenResults, FlattenCash, EntryCosts, Gross
  <2>7. CASE s = 1
    BY <2>6, <2>7, LiveRunnerAssumption
  <2>8. CASE s = -1
    BY <2>6, <2>8, LiveRunnerAssumption
  <2> QED
    BY <2>7, <2>8
<1> QED
  BY <1>1, <1>2

LEMMA FlattenSums ==
  ASSUME RunnerTypeOK
  PROVE  /\ Summed(FlattenResults) \in Int /\ Summed(FlattenCash) \in Int
         /\ Summed(FlattenCash) = Summed(FlattenResults) + Summed(EntryCosts(positions))
<1>1. \A o \in Owners : /\ FlattenResults[o] \in Int /\ FlattenCash[o] \in Int
                        /\ EntryCosts(positions)[o] \in Int
                        /\ FlattenCash[o] = FlattenResults[o] + EntryCosts(positions)[o]
  BY FlattenNumbers, HeldNumbers DEF RunnerTypeOK
<1>2. Summed(FlattenCash) = Summed(FlattenResults) + Summed(EntryCosts(positions))
  BY <1>1, SummedAdds
<1> QED
  BY <1>1, <1>2, SummedInt
-----------------------------------------------------------------------------
LEMMA UnifiedOwns == Unified \in Owners /\ \A side : Opposite(side) \in Sides
<1>1. Strategies # {} /\ Strategies \subseteq Owners
  BY LiveRunnerAssumption
<1> QED
  BY <1>1 DEF Unified, Opposite, Sides

LEMMA NothingHeld == Nothing \in Held /\ \A o \in Owners : Nothing[o] = Absent
  BY DEF Nothing, Held

\* An entry or an exit leaves what fits the type.
LEMMA MovesTyped ==
  ASSUME RunnerTypeOK, NEW o \in Owners, NEW side \in Sides, NEW price \in Nat \ {0},
         Entered(o, side, price) \/ Left(o, side, price)
  PROVE  /\ positions' \in Held /\ realized' \in Int /\ cash' \in Int /\ Save
         /\ disk' \in Saved \union {Absent}
<1>1. SignOf(side) \in {1, -1}
  BY DEF SignOf
<1>2. SignOf(side) * price \in Int
  BY <1>1
<1>3. cash' \in Int /\ Save
  BY <1>2 DEF Entered, Left, RunnerTypeOK
<1>4. positions' \in Held /\ realized' \in Int
  <2>1. CASE Entered(o, side, price)
    <3>1. [side |-> side, entry |-> price, upnl |-> 0] \in Position
      BY DEF Position
    <3> QED
      BY <2>1, <3>1 DEF Entered, RunnerTypeOK, Held
  <2>2. CASE Left(o, side, price)
    <3>1. positions' \in Held
      BY <2>2 DEF Left, RunnerTypeOK, Held
    <3>2. PICK p \in Position : p = positions[o]
      BY <2>2, HeldNumbers DEF Left, RunnerTypeOK
    <3>3. p.entry \in Nat /\ SignOf(p.side) \in {1, -1}
      BY DEF Position, SignOf
    <3>4. Gross(p, price) \in Int
      BY <3>3 DEF Gross
    <3> QED
      BY <2>2, <3>1, <3>2, <3>4 DEF Left, RunnerTypeOK
  <2> QED
    BY <2>1, <2>2
<1> QED
  BY <1>3, <1>4, SavesWhole

\* A mark changes what positions earn and nothing else of them.
LEMMA MarksKeep ==
  ASSUME RunnerTypeOK, ProcessBookUpdate
  PROVE  /\ positions' \in Held /\ mid' \in MidPrices \union {Absent} /\ lastBook' \in FeedBooks
         /\ \A o \in Owners : /\ (positions'[o] = Absent) = (positions[o] = Absent)
                              /\ positions[o] # Absent => /\ positions'[o].side = positions[o].side
                                                          /\ positions'[o].entry = positions[o].entry
<1>1. PICK b \in FeedBooks :
        /\ lastBook' = b
        /\ mid' = IF b.bid = Absent \/ b.ask = Absent THEN mid ELSE (b.bid + b.ask) \div 2
        /\ positions' = IF mid' = Absent THEN positions ELSE MarkUpdated(positions, mid')
  BY DEF ProcessBookUpdate
<1>2. mid' \in MidPrices \union {Absent}
  <2>1. CASE b.bid = Absent \/ b.ask = Absent
    BY <1>1, <2>1 DEF RunnerTypeOK
  <2>2. CASE ~(b.bid = Absent \/ b.ask = Absent)
    <3>1. PICK p \in Bids : b = [bid |-> p, ask |-> p + 2]
      BY <2>2 DEF FeedBooks
    <3>2. p \in Nat
      BY LiveRunnerAssumption
    <3>3. PICK n \in Nat : n = p
      BY <3>2
    <3>4. (n + (n + 2)) \div 2 = n + 1
      OBVIOUS
    <3> QED
      BY <1>1, <2>2, <3>1, <3>3, <3>4 DEF MidPrices
  <2> QED
    BY <2>1, <2>2
<1>3. CASE mid' = Absent
  BY <1>1, <1>2, <1>3 DEF RunnerTypeOK
<1>4. CASE mid' # Absent
  <2>1. PICK m \in Int : m = mid'
    BY <1>2, <1>4, LiveRunnerAssumption DEF MidPrices
  <2>2. positions' = MarkUpdated(positions, m)
    BY <1>1, <1>4, <2>1
  <2>3. ASSUME NEW o \in Owners
        PROVE  /\ positions'[o] \in Position \union {Absent}
               /\ (positions'[o] = Absent) = (positions[o] = Absent)
               /\ positions[o] # Absent => /\ positions'[o].side = positions[o].side
                                           /\ positions'[o].entry = positions[o].entry
    <3>1. CASE positions[o] = Absent
      BY <2>2, <3>1 DEF MarkUpdated
    <3>2. CASE positions[o] # Absent
      <4>1. PICK p \in Position : p = positions[o]
        BY <3>2, HeldNumbers DEF RunnerTypeOK
      <4>2. p.entry \in Nat /\ p.side \in Sides /\ SignOf(p.side) \in {1, -1}
        BY DEF Position, SignOf
      <4>3. PICK u \in Int : u = SignOf(p.side) * (m - p.entry)
        BY <4>2
      <4>4. positions'[o] = [p EXCEPT !.upnl = u]
        BY <2>2, <3>2, <4>1, <4>3 DEF MarkUpdated
      <4>5. [p EXCEPT !.upnl = u] \in Position /\ [p EXCEPT !.upnl = u].side = p.side
            /\ [p EXCEPT !.upnl = u].entry = p.entry
        BY DEF Position
      <4>6. positions'[o] # Absent
        BY <4>4, <4>5, LiveRunnerAssumption
      <4> QED
        BY <3>2, <4>1, <4>4, <4>5, <4>6
    <3> QED
      BY <3>1, <3>2
  <2>4. positions' = [o \in Owners |-> positions'[o]]
    BY <2>2 DEF MarkUpdated
  <2>5. positions' \in Held
    BY <2>3, <2>4 DEF Held
  <2> QED
    BY <1>1, <1>2, <2>3, <2>5
<1> QED
  BY <1>3, <1>4
-----------------------------------------------------------------------------
LEMMA RunnerInitTyped == RunnerInit => RunnerTypeOK
<1> SUFFICES ASSUME RunnerInit PROVE RunnerTypeOK
  OBVIOUS
<1>1. runnerFlags \in Flags /\ peak \in Int
  BY LiveRunnerAssumption DEF RunnerInit, Fresh, Flags
<1>2. lastBook \in {EmptyBook} /\ mid \in {Absent} /\ disk \in {Absent} /\ positions \in Held
  BY NothingHeld DEF RunnerInit
<1>3. engine = "NONE" /\ feed = "idle" /\ realized = 0 /\ cash = 0 /\ cooling = {}
      /\ trades = 0 /\ restarts = 0
  BY DEF RunnerInit
<1>4. tripped \in BOOLEAN
  BY DEF RunnerInit
<1> QED
  BY <1>1, <1>2, <1>3, <1>4 DEF RunnerTypeOK

\* What the operator does to the flags leaves flags.
LEMMA FlagsTyped ==
  ASSUME RunnerTypeOK, ChangeFlags \/ EmergencyStop
  PROVE  runnerFlags' \in Flags
<1>1. runnerFlags \in Flags /\ Unified \in Strategies
  BY LiveRunnerAssumption DEF RunnerTypeOK, Unified
<1>2. /\ Halt(runnerFlags) \in Flags /\ PauseAll(runnerFlags) \in Flags
      /\ ResumeAll(runnerFlags) \in Flags /\ ResetLatch(runnerFlags) \in Flags
      /\ \A b \in BOOLEAN : Toggle(runnerFlags, Unified, b) \in Flags
  BY <1>1 DEF Halt, PauseAll, ResumeAll, ResetLatch, Toggle, Flags
<1> QED
  BY <1>2 DEF ChangeFlags, EmergencyStop

\* A process that begins anew has what the file gives it.
LEMMA StartedTyped ==
  ASSUME RunnerTypeOK, NEW file \in Saved \union {Absent}, StartedWith(file), disk' \in {file, disk}
  PROVE  RunnerTypeOK'
<1>1. runnerFlags' \in Flags /\ peak' \in Int
  BY LiveRunnerAssumption DEF StartedWith, Fresh, Flags
<1>2. positions' \in Held /\ realized' \in Int /\ cash' \in Int
  BY NothingHeld DEF StartedWith, Saved
<1>3. restarts' \in Nat /\ trades' \in Nat
  BY DEF StartedWith, RunnerTypeOK
<1> QED
  BY <1>1, <1>2, <1>3 DEF StartedWith, RunnerTypeOK

\* Flattening leaves nothing.
LEMMA FlatteningTyped ==
  ASSUME RunnerTypeOK, FlattenAll, disk' = disk
  PROVE  /\ Flattened
         /\ positions' \in Held /\ realized' \in Int /\ cash' \in Int /\ trades' \in Nat
         /\ engine' \in Sides \union {"NONE"}
<1>1. Flattened
  BY DEF FlattenAll, Flattened
<1>2. realized' \in Int /\ cash' \in Int
  BY FlattenSums DEF FlattenAll, RunnerTypeOK
<1> QED
  BY <1>1, <1>2, NothingHeld DEF FlattenAll, RunnerTypeOK

\* The type of the runner's state is kept by every step.
LEMMA RunnerStepTyped ==
  ASSUME RunnerTypeOK, [RunnerNext]_runnerVars
  PROVE  RunnerTypeOK'
<1>1. CASE ProcessBookUpdate
  <2>1. feed' \in {"idle", "eval"}
    BY <1>1 DEF ProcessBookUpdate
  <2>2. UNCHANGED <<runnerFlags, engine, realized, cash, peak, tripped, cooling, disk, trades, restarts>>
    BY <1>1 DEF ProcessBookUpdate
  <2> QED
    BY <1>1, <2>1, <2>2, MarksKeep DEF RunnerTypeOK
<1>2. CASE OnEvent
  <2>1. UNCHANGED <<runnerFlags, lastBook, mid, restarts>> /\ feed' = "idle"
    BY <1>2 DEF OnEvent
  <2>2. CASE UNCHANGED <<engine, positions, realized, cash, peak, tripped, cooling, disk, trades>>
    BY <2>1, <2>2 DEF RunnerTypeOK
  <2>3. ASSUME NEW side \in Sides, engine' = side, ExecuteEnter(Unified, side)
        PROVE  RunnerTypeOK'
    <3>1. /\ Kept \/ \E price \in Nat \ {0} : Entered(Unified, side, price)
          /\ peak' \in Int /\ tripped' \in BOOLEAN /\ cooling' \subseteq Owners /\ trades' \in Nat
      BY <2>3, UnifiedOwns, EntersOrKeeps
    <3>2. positions' \in Held /\ realized' \in Int /\ cash' \in Int /\ disk' \in Saved \union {Absent}
      BY <3>1, UnifiedOwns, MovesTyped DEF Kept, RunnerTypeOK
    <3> QED
      BY <2>1, <2>3, <3>1, <3>2 DEF RunnerTypeOK
  <2>4. CASE engine' = "NONE" /\ ExecuteExit(Unified, Opposite(engine)) /\ UNCHANGED <<peak, tripped, cooling>>
    <3>1. /\ Kept \/ \E price \in Nat \ {0} : Left(Unified, Opposite(engine), price)
          /\ trades' \in Nat
      BY <2>4, UnifiedOwns, LeavesOrKeeps
    <3>2. positions' \in Held /\ realized' \in Int /\ cash' \in Int /\ disk' \in Saved \union {Absent}
      BY <3>1, UnifiedOwns, MovesTyped DEF Kept, RunnerTypeOK
    <3> QED
      BY <2>1, <2>4, <3>1, <3>2 DEF RunnerTypeOK
  <2> QED
    BY <1>2, <2>2, <2>3, <2>4 DEF OnEvent
<1>3. CASE ManualTrigger
  <2>1. PICK o \in Diagnosed, side \in Sides :
          /\ IF positions[o] = Absent
             THEN ExecuteEnter(o, side) /\ UNCHANGED engine
             ELSE /\ ExecuteExit(o, Opposite(positions[o].side))
                  /\ engine' = IF o = Unified /\ positions'[o] = Absent THEN "NONE" ELSE engine
                  /\ UNCHANGED <<peak, tripped, cooling>>
          /\ UNCHANGED <<runnerFlags, lastBook, mid, feed, restarts>>
    BY <1>3 DEF ManualTrigger
  <2>2. o \in Owners
    BY LiveRunnerAssumption
  <2>3. CASE positions[o] = Absent
    <3>1. ExecuteEnter(o, side) /\ UNCHANGED engine
      BY <2>1, <2>3
    <3>2. /\ Kept \/ \E price \in Nat \ {0} : Entered(o, side, price)
          /\ peak' \in Int /\ tripped' \in BOOLEAN /\ cooling' \subseteq Owners /\ trades' \in Nat
      BY <2>2, <3>1, EntersOrKeeps
    <3>3. positions' \in Held /\ realized' \in Int /\ cash' \in Int /\ disk' \in Saved \union {Absent}
      BY <2>2, <3>2, MovesTyped DEF Kept, RunnerTypeOK
    <3> QED
      BY <2>1, <3>1, <3>2, <3>3 DEF RunnerTypeOK
  <2>4. CASE positions[o] # Absent
    <3>1. ExecuteExit(o, Opposite(positions[o].side)) /\ UNCHANGED <<peak, tripped, cooling>>
          /\ engine' \in {engine, "NONE"}
      BY <2>1, <2>4
    <3>2. /\ Kept \/ \E price \in Nat \ {0} : Left(o, Opposite(positions[o].side), price)
          /\ trades' \in Nat
      BY <2>2, <3>1, UnifiedOwns, LeavesOrKeeps
    <3>3. positions' \in Held /\ realized' \in Int /\ cash' \in Int /\ disk' \in Saved \union {Absent}
      BY <2>2, <3>2, UnifiedOwns, MovesTyped DEF Kept, RunnerTypeOK
    <3> QED
      BY <2>1, <3>1, <3>2, <3>3 DEF RunnerTypeOK
  <2> QED
    BY <2>3, <2>4
<1>4. CASE FlattenPosition
  <2>1. FlattenAll /\ UNCHANGED <<runnerFlags, lastBook, mid, feed, peak, tripped, cooling, disk, restarts>>
    BY <1>4 DEF FlattenPosition
  <2> QED
    BY <2>1, FlatteningTyped DEF RunnerTypeOK
<1>5. CASE EmergencyStop
  <2>1. FlattenAll /\ UNCHANGED <<lastBook, mid, feed, peak, tripped, cooling, disk, restarts>>
    BY <1>5 DEF EmergencyStop
  <2> QED
    BY <1>5, <2>1, FlagsTyped, FlatteningTyped DEF RunnerTypeOK
<1>6. CASE ChangeFlags
  <2>1. tripped' \in BOOLEAN
    BY <1>6 DEF ChangeFlags, RunnerTypeOK
  <2>2. UNCHANGED <<lastBook, mid, positions, engine, feed, realized, cash, peak, cooling, disk, trades, restarts>>
    BY <1>6 DEF ChangeFlags
  <2> QED
    BY <1>6, <2>1, <2>2, FlagsTyped DEF RunnerTypeOK
<1>7. CASE ArmLive
  <2>1. peak' \in Int
    BY <1>7, LiveRunnerAssumption DEF ArmLive
  <2>2. tripped' \in BOOLEAN
    BY <1>7 DEF ArmLive
  <2>3. UNCHANGED <<runnerFlags, lastBook, mid, positions, engine, feed, realized, cash, cooling, disk, trades, restarts>>
    BY <1>7 DEF ArmLive
  <2> QED
    BY <2>1, <2>2, <2>3 DEF RunnerTypeOK
<1>8. CASE ResetCapital
  <2>1. positions' \in Held /\ realized' \in Int /\ cash' \in Int /\ peak' \in Int /\ Save
    BY <1>8, LiveRunnerAssumption, NothingHeld DEF ResetCapital
  <2>2. disk' \in Saved \union {Absent}
    BY <2>1, SavesWhole
  <2> QED
    BY <1>8, <2>1, <2>2 DEF ResetCapital, RunnerTypeOK
<1>9. CASE CooldownOver
  BY <1>9 DEF CooldownOver, RunnerTypeOK
<1>10. CASE Restart
  BY <1>10, StartedTyped DEF Restart, RunnerTypeOK
<1>11. CASE CrashWhileSaving
  BY <1>11, StartedTyped DEF CrashWhileSaving
<1>12. CASE UNCHANGED runnerVars
  BY <1>12 DEF runnerVars, RunnerTypeOK
<1> QED
  BY <1>1, <1>2, <1>3, <1>4, <1>5, <1>6, <1>7, <1>8, <1>9, <1>10, <1>11, <1>12 DEF RunnerNext
-----------------------------------------------------------------------------
\* A step moves the books of the runner in one of these ways.
BooksMove ==
  \/ Kept
  \/ \E o \in Owners, side \in Sides, price \in Nat \ {0} : Entered(o, side, price)
  \/ \E o \in Owners, side \in Sides, price \in Nat \ {0} :
       /\ Left(o, side, price)
       /\ ExitsManaged => side = Opposite(positions[o].side)
  \/ Flattened
  \/ disk' = disk /\ realized' = realized /\ cash' = cash /\ ProcessBookUpdate
  \/ ResetCapital
  \/ Restart
  \/ CrashWhileSaving

LEMMA StepMovesBooks ==
  ASSUME RunnerTypeOK, [RunnerNext]_runnerVars
  PROVE  BooksMove
<1>1. CASE ProcessBookUpdate
  BY <1>1 DEF ProcessBookUpdate, BooksMove
<1>2. CASE OnEvent
  <2>1. CASE UNCHANGED <<engine, positions, realized, cash, peak, tripped, cooling, disk, trades>>
    BY <2>1 DEF BooksMove, Kept
  <2>2. ASSUME NEW side \in Sides, ExecuteEnter(Unified, side)
        PROVE  BooksMove
    BY <2>2, UnifiedOwns, EntersOrKeeps DEF BooksMove
  <2>3. CASE engine # "NONE" /\ ExecuteExit(Unified, Opposite(engine))
    <3>1. Kept \/ \E price \in Nat \ {0} : Left(Unified, Opposite(engine), price)
      BY <2>3, UnifiedOwns, LeavesOrKeeps
    <3>2. positions[Unified] # Absent => (ExitsManaged => engine = positions[Unified].side)
      BY DEF ExitsManaged
    <3> QED
      BY <3>1, <3>2, UnifiedOwns DEF BooksMove, Left
  <2> QED
    BY <1>2, <2>1, <2>2, <2>3 DEF OnEvent
<1>3. CASE ManualTrigger
  <2>1. PICK o \in Owners, side \in Sides :
          IF positions[o] = Absent THEN ExecuteEnter(o, side)
                                   ELSE ExecuteExit(o, Opposite(positions[o].side))
    BY <1>3, LiveRunnerAssumption DEF ManualTrigger
  <2>2. CASE positions[o] = Absent
    BY <2>1, <2>2, EntersOrKeeps DEF BooksMove
  <2>3. CASE positions[o] # Absent
    <3>1. Kept \/ \E price \in Nat \ {0} : Left(o, Opposite(positions[o].side), price)
      BY <2>1, <2>3, UnifiedOwns, LeavesOrKeeps
    <3> QED
      BY <3>1, UnifiedOwns DEF BooksMove
  <2> QED
    BY <2>2, <2>3
<1>4. CASE FlattenPosition
  BY <1>4, FlatteningTyped DEF FlattenPosition, BooksMove
<1>5. CASE EmergencyStop
  BY <1>5, FlatteningTyped DEF EmergencyStop, BooksMove
<1>6. CASE ChangeFlags
  BY <1>6 DEF ChangeFlags, BooksMove, Kept
<1>7. CASE ArmLive
  BY <1>7 DEF ArmLive, BooksMove, Kept
<1>8. CASE ResetCapital
  BY <1>8 DEF BooksMove
<1>9. CASE CooldownOver
  BY <1>9 DEF CooldownOver, BooksMove, Kept
<1>10. CASE Restart \/ CrashWhileSaving
  BY <1>10 DEF BooksMove
<1>11. CASE UNCHANGED runnerVars
  BY <1>11 DEF runnerVars, BooksMove, Kept
<1> QED
  BY <1>1, <1>2, <1>3, <1>4, <1>5, <1>6, <1>7, <1>8, <1>9, <1>10, <1>11 DEF RunnerNext

\* Only an entry opens a position, of its owner.
LEMMA OnlyEntriesOpen ==
  ASSUME RunnerTypeOK, [RunnerNext]_runnerVars, NEW p \in Owners, Opens(p)
  PROVE  \E side \in Sides, price \in Nat \ {0} : Entered(p, side, price)
<1>1. positions[p] = Absent /\ positions'[p] # Absent /\ restarts' = restarts /\ restarts \in Nat
      /\ positions \in Held
  BY DEF Opens, RunnerTypeOK
<1>2. CASE Kept
  BY <1>1, <1>2 DEF Kept
<1>3. ASSUME NEW o \in Owners, NEW side \in Sides, NEW price \in Nat \ {0}, Entered(o, side, price)
      PROVE  \E s \in Sides, x \in Nat \ {0} : Entered(p, s, x)
  <2>1. o = p
    BY <1>1, <1>3 DEF Entered, Held
  <2> QED
    BY <1>3, <2>1
<1>4. ASSUME NEW o \in Owners, NEW side, NEW price, Left(o, side, price)
      PROVE  FALSE
  BY <1>1, <1>4 DEF Left, Held
<1>5. ~Flattened /\ ~ResetCapital
  BY <1>1, NothingHeld DEF Flattened, ResetCapital
<1>6. ~ProcessBookUpdate
  BY <1>1, MarksKeep
<1>7. ~Restart /\ ~CrashWhileSaving
  BY <1>1 DEF Restart, CrashWhileSaving, StartedWith
<1> QED
  BY <1>2, <1>3, <1>4, <1>5, <1>6, <1>7, StepMovesBooks DEF BooksMove

LEMMA BreakerStep ==
  ASSUME RunnerTypeOK, [RunnerNext]_runnerVars
  PROVE  BreakerHolds
  BY OnlyEntriesOpen DEF BreakerHolds, Entered

\* An entry adds its price to the margins.
LEMMA MarginStep ==
  ASSUME RunnerTypeOK, [RunnerNext]_runnerVars
  PROVE  MarginCovered
<1> SUFFICES ASSUME NEW o \in Owners, Opens(o)
             PROVE  3 * AccountEquity >= Summed(Margins(positions'))
  BY DEF MarginCovered
<1>1. PICK side \in Sides, price \in Nat \ {0} : Entered(o, side, price)
  BY OnlyEntriesOpen
<1>2. positions \in Held /\ positions' \in Held /\ positions[o] = Absent
  BY <1>1, MovesTyped DEF RunnerTypeOK, Entered
<1>3. PICK f, h : f = Margins(positions) /\ h = Margins(positions')
  OBVIOUS
<1>4. \A p \in Owners : f[p] \in Int
  BY <1>2, <1>3, HeldNumbers
<1>5. f[o] = 0
  BY <1>2, <1>3, HeldNumbers
<1>6. h[o] = price
  <2>1. positions'[o] = [side |-> side, entry |-> price, upnl |-> 0]
    BY <1>1, <1>2 DEF Entered, Held
  <2>2. positions'[o] # Absent
    BY <1>1 DEF Opens
  <2> QED
    BY <1>3, <2>1, <2>2 DEF Margins
<1>7. \A p \in Owners \ {o} : h[p] = f[p]
  BY <1>1, <1>2, <1>3 DEF Entered, Held, Margins
<1>8. Summed(h) = Summed(f) - f[o] + h[o]
  BY <1>4, <1>6, <1>7, SummedBut
<1>9. PICK e \in Int, s \in Int : e = AccountEquity /\ s = Summed(f)
  BY <1>2, <1>3, EquityInt, HeldSums
<1>10. price <= Larger(0, 3 * e - s)
  BY <1>1, <1>3, <1>9 DEF Entered
<1>11. 3 * e >= s + price
  BY <1>10 DEF Larger
<1>12. Summed(h) = s + price
  BY <1>5, <1>6, <1>8, <1>9
<1> QED
  BY <1>3, <1>9, <1>11, <1>12
-----------------------------------------------------------------------------
\* An entry costs what it pays, and an exit on the other side of the position
\* earns what it gets over what the position cost.
LEMMA EnteredExplains ==
  ASSUME RunnerTypeOK, FillsExplain(positions, realized, cash),
         NEW o \in Owners, NEW side \in Sides, NEW price \in Nat \ {0}, Entered(o, side, price)
  PROVE  FillsExplain(positions', realized', cash')
<1>1. positions \in Held /\ positions' \in Held /\ positions[o] = Absent
  BY MovesTyped DEF RunnerTypeOK, Entered
<1>2. PICK f, h : f = EntryCosts(positions) /\ h = EntryCosts(positions')
  OBVIOUS
<1>3. PICK d \in Int : d = SignOf(side) * price
  BY DEF SignOf
<1>4. \A p \in Owners : f[p] \in Int /\ h[p] \in Int
  BY <1>1, <1>2, HeldNumbers
<1>5. f[o] = 0
  BY <1>1, <1>2, HeldNumbers
<1>6. h[o] = d
  <2>1. positions'[o] = [side |-> side, entry |-> price, upnl |-> 0]
    BY <1>1 DEF Entered, Held
  <2>2. positions'[o] \in Position
    BY <2>1 DEF Position
  <2>3. positions'[o] # Absent
    BY <2>2, LiveRunnerAssumption
  <2> QED
    BY <1>2, <1>3, <2>1, <2>3 DEF EntryCosts
<1>7. \A p \in Owners \ {o} : h[p] = f[p]
  BY <1>1, <1>2 DEF Entered, Held, EntryCosts
<1>8. Summed(h) = Summed(f) - f[o] + h[o]
  BY <1>4, <1>7, SummedBut
<1>9. PICK s \in Int, c \in Int : s = Summed(f) /\ c = cash
  BY <1>1, <1>2, HeldSums DEF RunnerTypeOK
<1>10. realized = c + s
  BY <1>2, <1>9 DEF FillsExplain
<1>11. realized' = realized /\ cash' = c - d
  BY <1>3, <1>9 DEF Entered
<1>12. Summed(h) = s + d
  BY <1>5, <1>6, <1>8, <1>9
<1>13. realized' = cash' + Summed(h)
  BY <1>10, <1>11, <1>12
<1> QED
  BY <1>2, <1>13 DEF FillsExplain

LEMMA LeftExplains ==
  ASSUME RunnerTypeOK, FillsExplain(positions, realized, cash),
         NEW o \in Owners, NEW price \in Nat \ {0}, positions[o] # Absent,
         Left(o, Opposite(positions[o].side), price)
  PROVE  FillsExplain(positions', realized', cash')
<1>1. positions \in Held /\ positions' \in Held
  BY MovesTyped, UnifiedOwns DEF RunnerTypeOK
<1>2. PICK f, h : f = EntryCosts(positions) /\ h = EntryCosts(positions')
  OBVIOUS
<1>3. PICK q \in Position : q = positions[o]
  BY <1>1, HeldNumbers
<1>4. PICK e \in Nat, g \in {1, -1} : e = q.entry /\ g = SignOf(q.side)
  BY DEF Position, SignOf
<1>5. SignOf(Opposite(q.side)) = -g
  BY <1>4 DEF SignOf, Opposite, Position, Sides
<1>6. \A p \in Owners : f[p] \in Int /\ h[p] \in Int
  BY <1>1, <1>2, HeldNumbers
<1>7. f[o] = g * e
  BY <1>1, <1>2, <1>3, <1>4, HeldNumbers
<1>8. positions'[o] = Absent
  BY <1>1 DEF Left, Held
<1>9. h[o] = 0
  BY <1>1, <1>2, <1>8, HeldNumbers
<1>10. \A p \in Owners \ {o} : h[p] = f[p]
  BY <1>1, <1>2 DEF Left, Held, EntryCosts
<1>11. Summed(h) = Summed(f) - f[o] + h[o]
  BY <1>6, <1>10, SummedBut
<1>12. PICK s \in Int, c \in Int : s = Summed(f) /\ c = cash
  BY <1>1, <1>2, HeldSums DEF RunnerTypeOK
<1>13. realized = c + s
  BY <1>2, <1>12 DEF FillsExplain
<1>14. realized' = realized + g * (price - e) /\ cash' = c - (-g) * price
  BY <1>3, <1>4, <1>5, <1>12 DEF Left, Gross
<1>15. Summed(h) = s - g * e
  BY <1>6, <1>7, <1>9, <1>11, <1>12
<1>16. realized' = cash' + Summed(h)
  <2>1. CASE g = 1
    BY <1>13, <1>14, <1>15, <2>1
  <2>2. CASE g = -1
    BY <1>13, <1>14, <1>15, <2>2
  <2> QED
    BY <2>1, <2>2
<1> QED
  BY <1>2, <1>16 DEF FillsExplain

\* Flattening earns, before and after its fees, what it gets over what was held.
LEMMA FlattenedExplains ==
  ASSUME RunnerTypeOK, FillsExplain(positions, realized, cash), Flattened
  PROVE  FillsExplain(positions', realized', cash')
<1>1. PICK s \in Int, r \in Int, x \in Int, c \in Int, z \in Int :
        /\ s = Summed(EntryCosts(positions)) /\ r = Summed(FlattenResults) /\ x = Summed(FlattenCash)
        /\ c = cash /\ z = realized
  BY FlattenSums, HeldSums DEF RunnerTypeOK
<1>2. x = r + s /\ z = c + s /\ realized' = z + r /\ cash' = c + x
  BY <1>1, FlattenSums DEF FillsExplain, Flattened
<1>3. \A o \in Owners : EntryCosts(Nothing)[o] = 0
  BY NothingHeld DEF EntryCosts
<1>4. Summed(EntryCosts(Nothing)) = 0
  BY <1>3, SummedNothing
<1>5. realized' = cash' + 0
  BY <1>2
<1> QED
  BY <1>4, <1>5 DEF FillsExplain, Flattened

\* A new account has no fills.
LEMMA NothingExplains == FillsExplain(Nothing, 0, 0)
<1>1. \A o \in Owners : EntryCosts(Nothing)[o] = 0
  BY NothingHeld DEF EntryCosts
<1>2. Summed(EntryCosts(Nothing)) = 0
  BY <1>1, SummedNothing
<1> QED
  BY <1>2 DEF FillsExplain

\* A mark costs nothing.
LEMMA MarksExplain ==
  ASSUME RunnerTypeOK, FillsExplain(positions, realized, cash), ProcessBookUpdate,
         realized' = realized, cash' = cash
  PROVE  FillsExplain(positions', realized', cash')
<1>1. PICK f, h : f = EntryCosts(positions) /\ h = EntryCosts(positions')
  OBVIOUS
<1>2. ASSUME NEW o \in Owners PROVE h[o] = f[o]
  BY <1>1, MarksKeep DEF EntryCosts
<1>3. Summed(h) = Summed(f)
  <2>1. [k \in 1 .. Len(Roster) |-> h[Roster[k]]] = [k \in 1 .. Len(Roster) |-> f[Roster[k]]]
    BY <1>2 DEF Owners
  <2> QED
    BY <2>1 DEF Summed
<1> QED
  BY <1>1, <1>3 DEF FillsExplain

\* What a step saved is as well explained as what it left.
LEMMA SavedExplains ==
  ASSUME RunnerTypeOK', FillsExplainPnl, FillsExplain(positions', realized', cash'),
         disk' = disk \/ disk' = Absent \/ Save
  PROVE  FillsExplainPnl'
<1>1. disk' # Absent => FillsExplain(disk'.positions, disk'.realized, disk'.cash)
  <2>1. CASE disk' = disk
    BY <2>1 DEF FillsExplainPnl
  <2>2. CASE Save
    <3>1. disk'.positions = positions' /\ disk'.realized = realized' /\ disk'.cash = cash'
      BY <2>2, SavesWhole DEF RunnerTypeOK
    <3> QED
      BY <3>1
  <2> QED
    BY <2>1, <2>2
<1> QED
  BY <1>1 DEF FillsExplainPnl

LEMMA ExplainedStep ==
  ASSUME RunnerTypeOK, [RunnerNext]_runnerVars
  PROVE  StaysExplained
<1> SUFFICES ASSUME FillsExplainPnl, ExitsManaged
             PROVE  FillsExplainPnl'
  BY DEF StaysExplained
<1>1. RunnerTypeOK' /\ FillsExplain(positions, realized, cash)
  BY RunnerStepTyped DEF FillsExplainPnl
<1>2. CASE Kept
  BY <1>1, <1>2, SavedExplains DEF Kept
<1>3. ASSUME NEW o \in Owners, NEW side \in Sides, NEW price \in Nat \ {0}, Entered(o, side, price)
      PROVE  FillsExplainPnl'
  BY <1>1, <1>3, EnteredExplains, SavedExplains DEF Entered
<1>4. ASSUME NEW o \in Owners, NEW side \in Sides, NEW price \in Nat \ {0},
             Left(o, side, price), side = Opposite(positions[o].side)
      PROVE  FillsExplainPnl'
  <2>1. FillsExplain(positions', realized', cash')
    BY <1>1, <1>4, LeftExplains DEF Left
  <2> QED
    BY <1>1, <1>4, <2>1, SavedExplains DEF Left
<1>5. CASE Flattened
  BY <1>1, <1>5, FlattenedExplains, SavedExplains DEF Flattened
<1>6. CASE disk' = disk /\ realized' = realized /\ cash' = cash /\ ProcessBookUpdate
  BY <1>1, <1>6, MarksExplain, SavedExplains
<1>7. CASE ResetCapital
  BY <1>1, <1>7, NothingExplains, SavedExplains DEF ResetCapital
<1>8. ASSUME NEW file, StartedWith(file), file # Absent => file = disk,
             disk' \in {disk, Absent}
      PROVE  FillsExplainPnl'
  <2>1. FillsExplain(positions', realized', cash')
    <3>1. CASE file = Absent
      BY <1>8, <3>1, NothingExplains DEF StartedWith
    <3>2. CASE file # Absent
      BY <1>8, <3>2 DEF StartedWith, FillsExplainPnl
    <3> QED
      BY <3>1, <3>2
  <2> QED
    BY <1>1, <1>8, <2>1, SavedExplains
<1>9. CASE Restart
  BY <1>8, <1>9 DEF Restart
<1>10. CASE CrashWhileSaving
  BY <1>8, <1>10 DEF CrashWhileSaving
<1> QED
  BY <1>2, <1>3, <1>4, <1>5, <1>6, <1>7, <1>9, <1>10, StepMovesBooks DEF BooksMove

\* With a whole book the engine and the runner open and close together.
LEMMA ManagedStep ==
  ASSUME RunnerTypeOK, [RunnerNext]_runnerVars
  PROVE  StaysManaged
<1> SUFFICES ASSUME ExitsManaged, restarts' = restarts, BookWhole,
                    Opens(Unified) => engine' # engine, positions'[Unified] # Absent
             PROVE  engine' = positions'[Unified].side
  BY DEF StaysManaged, ExitsManaged
<1> USE UnifiedOwns
<1>0. positions \in Held /\ restarts \in Nat
  BY DEF RunnerTypeOK
<1>1. CASE ProcessBookUpdate
  BY <1>1, MarksKeep DEF ProcessBookUpdate, ExitsManaged
<1>2. CASE OnEvent
  <2>1. CASE UNCHANGED <<engine, positions, realized, cash, peak, tripped, cooling, disk, trades>>
    BY <2>1 DEF ExitsManaged
  <2>2. ASSUME NEW side \in Sides, engine = "NONE", engine' = side, ExecuteEnter(Unified, side)
        PROVE  engine' = positions'[Unified].side
    <3>1. positions[Unified] = Absent
      <4>1. "NONE" \notin Sides
        BY DEF Sides
      <4>2. positions[Unified] # Absent => positions[Unified].side \in Sides
        BY <1>0, HeldNumbers DEF Position
      <4> QED
        BY <2>2, <4>1, <4>2 DEF ExitsManaged
    <3>2. PICK price \in Nat \ {0} : Entered(Unified, side, price)
      BY <2>2, <3>1, EntersOrKeeps DEF Kept
    <3>3. positions'[Unified] = [side |-> side, entry |-> price, upnl |-> 0]
      BY <1>0, <3>2 DEF Entered, Held
    <3> QED
      BY <2>2, <3>3
  <2>3. CASE mid # Absent /\ engine # "NONE" /\ engine' = "NONE" /\ ExecuteExit(Unified, Opposite(engine))
    <3>1. Fillable(Opposite(engine))
      BY <2>3 DEF Fillable, BookWhole
    <3>2. positions'[Unified] = Absent
      BY <1>0, <2>3, <3>1 DEF ExecuteExit, Held
    <3> QED
      BY <3>2
  <2> QED
    BY <1>2, <2>1, <2>2, <2>3 DEF OnEvent
<1>3. CASE ManualTrigger
  <2>1. PICK o \in Owners, side \in Sides :
          IF positions[o] = Absent
          THEN ExecuteEnter(o, side) /\ UNCHANGED engine
          ELSE /\ ExecuteExit(o, Opposite(positions[o].side))
               /\ engine' = IF o = Unified /\ positions'[o] = Absent THEN "NONE" ELSE engine
    BY <1>3, LiveRunnerAssumption DEF ManualTrigger
  <2>2. positions[Unified] # Absent
    <3>1. CASE positions[o] = Absent
      <4>1. engine' = engine /\ (Kept \/ \E price \in Nat \ {0} : Entered(o, side, price))
        BY <2>1, <3>1, EntersOrKeeps
      <4> QED
        BY <4>1 DEF Opens
    <3>2. CASE positions[o] # Absent
      <4>1. Kept \/ \E price \in Nat \ {0} : Left(o, Opposite(positions[o].side), price)
        BY <2>1, <3>2, LeavesOrKeeps
      <4> QED
        BY <1>0, <4>1 DEF Kept, Left, Held
    <3> QED
      BY <3>1, <3>2
  <2>3. positions'[Unified] = positions[Unified]
    <3>1. CASE positions[o] = Absent
      BY <1>0, <2>1, <2>2, <3>1, EntersOrKeeps DEF Kept, Entered, Held
    <3>2. CASE positions[o] # Absent
      <4>1. Kept \/ \E price \in Nat \ {0} : Left(o, Opposite(positions[o].side), price)
        BY <2>1, <3>2, LeavesOrKeeps
      <4> QED
        BY <1>0, <4>1 DEF Kept, Left, Held
    <3> QED
      BY <3>1, <3>2
  <2>4. engine' = engine
    BY <2>1, <2>2, <2>3
  <2> QED
    BY <2>2, <2>3, <2>4 DEF ExitsManaged
<1>4. CASE FlattenPosition \/ EmergencyStop
  BY <1>4, NothingHeld DEF FlattenPosition, EmergencyStop, FlattenAll
<1>5. CASE ChangeFlags
  BY <1>5 DEF ChangeFlags, ExitsManaged
<1>6. CASE ArmLive
  BY <1>6 DEF ArmLive, ExitsManaged
<1>7. CASE ResetCapital
  BY <1>7, NothingHeld DEF ResetCapital
<1>8. CASE CooldownOver
  BY <1>8 DEF CooldownOver, ExitsManaged
<1>9. CASE Restart \/ CrashWhileSaving
  BY <1>0, <1>9 DEF Restart, CrashWhileSaving, StartedWith
<1>10. CASE UNCHANGED runnerVars
  BY <1>10 DEF runnerVars, ExitsManaged
<1> QED
  BY <1>1, <1>2, <1>3, <1>4, <1>5, <1>6, <1>7, <1>8, <1>9, <1>10 DEF RunnerNext

\* No step of the live runner opens a position past the circuit breaker or past
\* the margin; while the book is whole and the process lives, what the engine
\* opened it manages; and as long as it does, the fills explain the realized
\* result, in memory and in runner_state.json (live_runner.py).
THEOREM RunnerAlwaysExplained == RunnerSpec => RunnerExplained
<1>1. RunnerInit => RunnerTypeOK
  BY RunnerInitTyped
<1>2. RunnerTypeOK /\ [RunnerNext]_runnerVars => RunnerTypeOK'
  BY RunnerStepTyped
<1>3. RunnerTypeOK /\ [RunnerNext]_runnerVars =>
        [BreakerHolds /\ MarginCovered /\ StaysManaged /\ StaysExplained]_runnerVars
  BY BreakerStep, MarginStep, ManagedStep, ExplainedStep
<1> QED
  BY <1>1, <1>2, <1>3, PTL DEF RunnerSpec, RunnerExplained

\* With books that have both sides, a process that lives and diagnostics of
\* other strategies only, the copies never part.
WholeInv == RunnerTypeOK /\ ExitsManaged /\ FillsExplainPnl /\ restarts = 0 /\ BookWhole

\* On such books the engine manages every position the runner holds for it,
\* and the fills explain the realized result, at all times (live_runner.py).
THEOREM WholeBooksStayExplained ==
  ASSUME OneSided = {}, MaxRestarts = 0, Unified \notin Diagnosed
  PROVE  RunnerSpec => [](ExitsManaged /\ FillsExplainPnl)
<1>1. RunnerInit => WholeInv
  <2> SUFFICES ASSUME RunnerInit PROVE WholeInv
    OBVIOUS
  <2>1. RunnerTypeOK /\ positions = Nothing /\ realized = 0 /\ cash = 0 /\ disk = Absent /\ restarts = 0
        /\ mid = Absent
    BY RunnerInitTyped DEF RunnerInit
  <2>2. ExitsManaged /\ BookWhole
    BY <2>1, UnifiedOwns, NothingHeld DEF ExitsManaged, BookWhole
  <2>3. FillsExplainPnl
    BY <2>1, NothingExplains DEF FillsExplainPnl
  <2> QED
    BY <2>1, <2>2, <2>3 DEF WholeInv
<1>2. WholeInv /\ [RunnerNext]_runnerVars => WholeInv'
  <2> SUFFICES ASSUME WholeInv, [RunnerNext]_runnerVars PROVE WholeInv'
    OBVIOUS
  <2>1. RunnerTypeOK /\ ExitsManaged /\ FillsExplainPnl /\ restarts = 0 /\ BookWhole
    BY DEF WholeInv
  <2>2. RunnerTypeOK' /\ FillsExplainPnl'
    BY <2>1, RunnerStepTyped, ExplainedStep DEF StaysExplained
  <2>3. ~Restart /\ ~CrashWhileSaving
    BY <2>1 DEF Restart, CrashWhileSaving, StartedWith
  <2>4. restarts' = 0
    BY <2>1, <2>3 DEF RunnerNext, ProcessBookUpdate, OnEvent, ManualTrigger, FlattenPosition,
         EmergencyStop, ChangeFlags, ArmLive, ResetCapital, CooldownOver, runnerVars
  <2>5. BookWhole'
    <3>1. CASE ProcessBookUpdate
      <4>1. PICK p \in Bids : lastBook' = [bid |-> p, ask |-> p + 2]
        BY <3>1 DEF ProcessBookUpdate, FeedBooks
      <4>2. p \in Int /\ p + 2 \in Int
        BY LiveRunnerAssumption
      <4> QED
        BY <4>1, <4>2, LiveRunnerAssumption DEF BookWhole
    <3>2. CASE UNCHANGED <<lastBook, mid>>
      BY <2>1, <3>2 DEF BookWhole
    <3> QED
      BY <2>3, <3>1, <3>2 DEF RunnerNext, OnEvent, ManualTrigger, FlattenPosition,
         EmergencyStop, ChangeFlags, ArmLive, ResetCapital, CooldownOver, runnerVars
  <2>6. Opens(Unified) => engine' # engine
    <3> SUFFICES ASSUME Opens(Unified) PROVE engine' # engine
      OBVIOUS
    <3>1. PICK side \in Sides, price \in Nat \ {0} : Entered(Unified, side, price)
      BY <2>1, UnifiedOwns, OnlyEntriesOpen
    <3>2. positions[Unified] = Absent /\ positions'[Unified] # Absent /\ positions \in Held
      BY <2>1 DEF Opens, RunnerTypeOK
    <3>3. CASE ProcessBookUpdate
      BY <2>1, <3>2, <3>3, UnifiedOwns, MarksKeep
    <3>4. CASE OnEvent
      <4>1. "NONE" \notin Sides
        BY DEF Sides
      <4> QED
        BY <3>2, <3>4, <4>1 DEF OnEvent, ExecuteExit
    <3>5. CASE ManualTrigger
      <4>1. PICK o \in Diagnosed, side1 \in Sides :
              IF positions[o] = Absent THEN ExecuteEnter(o, side1)
                                       ELSE ExecuteExit(o, Opposite(positions[o].side))
        BY <3>5 DEF ManualTrigger
      <4>2. o \in Owners /\ o # Unified
        BY LiveRunnerAssumption
      <4>3. CASE positions[o] = Absent
        BY <2>1, <3>2, <4>1, <4>2, <4>3, EntersOrKeeps, UnifiedOwns DEF Kept, Entered, Held
      <4>4. CASE positions[o] # Absent
        <5>1. Kept \/ \E x \in Nat \ {0} : Left(o, Opposite(positions[o].side), x)
          BY <2>1, <4>1, <4>2, <4>4, UnifiedOwns, LeavesOrKeeps
        <5> QED
          BY <3>2, <4>2, <5>1, UnifiedOwns DEF Kept, Left, Held
      <4> QED
        BY <4>3, <4>4
    <3>6. CASE FlattenPosition \/ EmergencyStop \/ ResetCapital
      BY <3>2, <3>6, UnifiedOwns, NothingHeld
         DEF FlattenPosition, EmergencyStop, FlattenAll, ResetCapital
    <3>7. CASE ChangeFlags \/ ArmLive \/ CooldownOver \/ UNCHANGED runnerVars
      BY <3>2, <3>7 DEF ChangeFlags, ArmLive, CooldownOver, runnerVars
    <3> QED
      BY <2>3, <3>3, <3>4, <3>5, <3>6, <3>7 DEF RunnerNext
  <2>7. ExitsManaged'
    BY <2>1, <2>4, <2>6, ManagedStep DEF StaysManaged
  <2> QED
    BY <2>2, <2>4, <2>5, <2>7 DEF WholeInv
<1>3. WholeInv => ExitsManaged /\ FillsExplainPnl
  BY DEF WholeInv
<1> QED
  BY <1>1, <1>2, <1>3, PTL DEF RunnerSpec

=============================================================================

---------------------------- MODULE VenueSession ----------------------------
(***************************************************************************)
(* Requests of the Bitget adapter on one event loop (venues/bitget_uta):   *)
(* the prepared write of the fenced router, "post", and the reads of the   *)
(* task that keeps the account profile, "get", share a rate limiter and a  *)
(* transport that holds one prepared socket.  Everything between two       *)
(* awaits is one step.  The private session may drop at any moment and is  *)
(* connected again by the task of the reads.                               *)
(*                                                                         *)
(* Bounds: MaxClock, MaxSocket and MaxEpoch.                               *)
(***************************************************************************)
EXTENDS Integers, Sequences, FiniteSets

CONSTANTS Limit, Window,    \* requests in a window of the rate limiter
          ReceiveWindow,    \* how old a prepared request may be when written
          MaxSeconds, MaxSocket, MaxEpoch

ASSUME SessionAssumption ==
  /\ {Limit, Window, ReceiveWindow} \subseteq Nat \ {0}
  /\ {MaxSeconds, MaxSocket, MaxEpoch} \subseteq Nat

Task == {"post", "get"}
TaskState == [pc : {"idle", "limit", "opening", "prepared", "waiting"},
              epoch : 0 .. MaxEpoch, created : 0 .. MaxSeconds, attempt : 1 .. 3]
NoSocket == 0
Unread == -1

VARIABLES
  seconds,
  queue,     \* the limiter's deque of grants
  grants,    \* every grant so far
  socket,    \* the transport's prepared socket, or None
  opened,    \* sockets opened so far
  closed,    \* sockets closed
  written,   \* written[t]: sockets task t put its bytes on
  task,      \* task[t]: step, epoch at the start, creation time, attempts
  epoch, ready,   \* the private session
  profile    \* the epoch in which the eligible profile was read, or Unread

transport == <<socket, opened, closed, written>>
sessionVars == <<seconds, queue, grants, transport, task, epoch, ready, profile>>

IdleTask == [pc |-> "idle", epoch |-> 0, created |-> 0, attempt |-> 1]

SessionInit ==
  /\ seconds = 0 /\ queue = <<>> /\ grants = <<>>
  /\ socket = NoSocket /\ opened = 0 /\ closed = {}
  /\ written = [t \in Task |-> {}]
  /\ task = [t \in Task |-> IdleTask]
  /\ epoch = 0 /\ ready = FALSE /\ profile = Unread

Goto(t, step) == [task EXCEPT ![t].pc = step]
----------------------------------------------------------------------------
(* The private session.                                                    *)

\* A disconnect, an overflow, a missed pong.
Drop ==
  /\ ready
  /\ ready' = FALSE
  /\ UNCHANGED <<seconds, queue, grants, transport, task, epoch, profile>>

\* A row that cannot be normalized also withdraws the profile.
Quarantine ==
  /\ ready
  /\ ready' = FALSE /\ profile' = Unread
  /\ UNCHANGED <<seconds, queue, grants, transport, task, epoch>>

ReconnectedProfile == IF epoch # 0 /\ ~ready THEN Unread ELSE profile

\* connect_private, called between two reads.
ConnectPrivate ==
  /\ task["get"].pc = "idle" /\ ~ready /\ epoch < MaxEpoch
  /\ profile' = ReconnectedProfile
  /\ epoch' = epoch + 1 /\ ready' = TRUE
  /\ UNCHANGED <<seconds, queue, grants, transport, task>>

Second ==
  /\ seconds < MaxSeconds
  /\ seconds' = seconds + 1
  /\ UNCHANGED <<queue, grants, transport, task, epoch, ready, profile>>
----------------------------------------------------------------------------
(* RestClient.prepare.                                                     *)

\* _request_body: a healthy session and an eligible profile.
Authorized == ready /\ profile # Unread

\* adapter.prepare; a refusal leaves nothing behind.
StartPost ==
  /\ task["post"].pc = "idle" /\ Authorized
  /\ task' = [task EXCEPT !["post"] = [IdleTask EXCEPT !.pc = "limit", !.epoch = epoch]]
  /\ UNCHANGED <<seconds, queue, grants, transport, epoch, ready, profile>>

StartGet ==
  /\ task["get"].pc = "idle"
  /\ task' = [task EXCEPT !["get"] = [IdleTask EXCEPT !.pc = "limit", !.epoch = epoch]]
  /\ UNCHANGED <<seconds, queue, grants, transport, epoch, ready, profile>>

\* The grants popleft takes: from the left, while the window has passed.
Dropped ==
  CHOOSE n \in 0 .. Len(queue) :
    /\ \A i \in 1 .. n : seconds - queue[i] >= Window
    /\ n < Len(queue) => seconds - queue[n + 1] < Window

Recent == SubSeq(queue, Dropped + 1, Len(queue))

\* RateLimiter.acquire, woken: a grant, or another sleep; then the check of
\* the transport, which refuses while a socket is prepared and, as the
\* caller cleans up, closes that one.
Acquire(t) ==
  /\ task[t].pc = "limit" /\ Len(Recent) < Limit
  /\ queue' = Append(Recent, seconds) /\ grants' = Append(grants, seconds)
  /\ IF socket = NoSocket
       THEN /\ task' = [task EXCEPT ![t].pc = "opening", ![t].created = seconds]
            /\ UNCHANGED transport
       ELSE /\ task' = Goto(t, "idle")
            /\ closed' = closed \cup {socket} /\ socket' = NoSocket
            /\ UNCHANGED <<opened, written>>
  /\ UNCHANGED <<seconds, epoch, ready, profile>>

\* The connection cannot be opened: discard_prepared.
OpenFails(t) ==
  /\ task[t].pc = "opening"
  /\ task' = Goto(t, "idle")
  /\ closed' = closed \cup ({socket} \ {NoSocket}) /\ socket' = NoSocket
  /\ UNCHANGED <<seconds, queue, grants, opened, written, epoch, ready, profile>>

\* A fresh socket takes the place of whatever was prepared meanwhile.
FreshSocket == opened + 1

\* The contract of the write is checked again after the await.
StillCurrent == epoch = task["post"].epoch /\ Authorized

PostOpened ==
  /\ task["post"].pc = "opening" /\ opened < MaxSocket
  /\ opened' = FreshSocket
  /\ IF StillCurrent
       THEN socket' = FreshSocket /\ task' = Goto("post", "prepared") /\ UNCHANGED closed
       ELSE socket' = NoSocket /\ task' = Goto("post", "idle")
            /\ closed' = closed \cup {FreshSocket}
  /\ UNCHANGED <<seconds, queue, grants, written, epoch, ready, profile>>

Expired(t) == seconds - task[t].created > ReceiveWindow
----------------------------------------------------------------------------
(* handoff: the bytes are written before it returns.                       *)

\* (faulty) the socket stays prepared.
WriteKeeping(t, s) == written' = [written EXCEPT ![t] = @ \cup {s}] /\ socket' = s

Write(t, s) == written' = [written EXCEPT ![t] = @ \cup {s}] /\ socket' = NoSocket

\* A read writes as soon as its socket is open.
GetOpened ==
  /\ task["get"].pc = "opening" /\ opened < MaxSocket
  /\ opened' = FreshSocket
  /\ IF Expired("get")
       THEN socket' = NoSocket /\ closed' = closed \cup {FreshSocket}
            /\ task' = Goto("get", "idle") /\ UNCHANGED written
       ELSE Write("get", FreshSocket) /\ task' = Goto("get", "waiting") /\ UNCHANGED closed
  /\ UNCHANGED <<seconds, queue, grants, epoch, ready, profile>>

\* (faulty) only the session is checked at the handoff.
HandoffReady == ready

HandoffAllowed == task["post"].epoch = epoch /\ ready /\ Authorized

\* adapter.handoff with the router's final fence before it: written, or
\* known unsent and the socket discarded.
HandoffPost ==
  /\ task["post"].pc = "prepared"
  /\ IF HandoffAllowed /\ ~Expired("post") /\ socket # NoSocket
       THEN Write("post", socket) /\ task' = Goto("post", "waiting") /\ UNCHANGED closed
       ELSE /\ closed' = closed \cup ({socket} \ {NoSocket}) /\ socket' = NoSocket
            /\ task' = Goto("post", "idle") /\ UNCHANGED written
  /\ UNCHANGED <<seconds, queue, grants, opened, epoch, ready, profile>>

\* The router discards what it will not send.
DiscardPost ==
  /\ task["post"].pc = "prepared"
  /\ closed' = closed \cup ({socket} \ {NoSocket}) /\ socket' = NoSocket
  /\ task' = Goto("post", "idle")
  /\ UNCHANGED <<seconds, queue, grants, opened, written, epoch, ready, profile>>

PostAnswered ==
  /\ task["post"].pc = "waiting"
  /\ task' = Goto("post", "idle")
  /\ UNCHANGED <<seconds, queue, grants, transport, epoch, ready, profile>>

RetryLeft(t) == task[t].attempt < 3

\* A read answered: the profile is stored; throttled or unknown: again.
GetAnswered ==
  /\ task["get"].pc = "waiting"
  /\ \/ task' = Goto("get", "idle") /\ profile' = task["get"].epoch
     \/ task' = Goto("get", "idle") /\ UNCHANGED profile
     \/ /\ RetryLeft("get")
        /\ task' = [task EXCEPT !["get"].pc = "limit", !["get"].attempt = @ + 1]
        /\ UNCHANGED profile
  /\ UNCHANGED <<seconds, queue, grants, transport, epoch, ready>>

SessionNext ==
  \/ Drop \/ Quarantine \/ ConnectPrivate \/ Second
  \/ StartPost \/ StartGet
  \/ \E t \in Task : Acquire(t) \/ OpenFails(t)
  \/ PostOpened \/ GetOpened \/ HandoffPost \/ DiscardPost
  \/ PostAnswered \/ GetAnswered

SessionSpec == SessionInit /\ [][SessionNext]_sessionVars
----------------------------------------------------------------------------
(* Properties.                                                             *)

SessionTypeOK ==
  /\ seconds \in 0 .. MaxSeconds
  /\ queue \in Seq(0 .. MaxSeconds) /\ grants \in Seq(0 .. MaxSeconds)
  /\ Len(queue) <= Limit
  /\ opened \in 0 .. MaxSocket /\ socket \in 0 .. opened
  /\ closed \subseteq 1 .. opened
  /\ written \in [Task -> SUBSET (1 .. opened)]
  /\ task \in [Task -> TaskState]
  /\ epoch \in 0 .. MaxEpoch /\ ready \in BOOLEAN /\ profile \in Unread .. MaxEpoch

\* A write reaches the wire only in the session it was prepared in, while
\* that session is up, and on a profile read in that session (or before
\* the first one, which nothing preceded): a drop, a
\* reconnect or a quarantined row between the prepare and the handoff leaves
\* it known unsent.
WrittenInItsSession ==
  [][written'["post"] # written["post"] =>
       /\ ready /\ task["post"].epoch = epoch
       /\ profile = epoch \/ (profile = 0 /\ epoch = 1)]_sessionVars

\* A socket carries one request, whichever of two overlapping requests ends
\* up with it, and never one that a failure already closed.
SocketCarriesOne ==
  /\ written["post"] \cap written["get"] = {}
  /\ closed \cap (written["post"] \cup written["get"]) = {}
  /\ socket \notin closed \cup written["post"] \cup written["get"]

\* The requests of both tasks together stay within the limit in every window.
RateKept ==
  \A i \in DOMAIN grants :
    i + Limit \in DOMAIN grants => grants[i + Limit] - grants[i] >= Window

\* Requests that overlap share neither a socket nor a place in the window.
RequestsApart == SessionTypeOK /\ SocketCarriesOne /\ RateKept
=============================================================================

------------------------------ MODULE BookFeed ------------------------------
(***************************************************************************)
(* One order book rebuilt from a stream (data/orderbook/).  The venue's    *)
(* book goes through numbered versions; a snapshot holds a version, a      *)
(* delta what changed since the one before.  Messages of a connection are  *)
(* lost, doubled and reordered, and those of an old connection may still   *)
(* arrive after the next was opened.  The builder shows a book or none.    *)
(***************************************************************************)
EXTENDS Integers, FiniteSets

CONSTANTS Ticks,      \* prices
          Contract,   \* "contiguous", "monotonic" or "snapshot"
          NamesPrior, \* whether deltas name the version they follow
          Restarts,   \* whether a connection numbers its versions anew
          LastVersion,       \* bound of the versions of the venue
          MaxSyncs,   \* bound of begun synchronizations
          Nil         \* no book, number or message

VARIABLES
  truth,     \* the venue's book at every version so far
  offset,    \* the version numbers of connection c start after offset[c]
  state,     \* the builder's state
  levels,    \* _bids and _asks
  shown,     \* view: the version, its connection and the book, or Nil
  conn,      \* _epoch
  sequence,  \* _sequence
  latest,    \* _fingerprint and _receipt: the message applied last
  validity,  \* _validity_epoch
  serving    \* the connection the venue serves
bookFeedVars == <<truth, offset, state, levels, shown, conn, sequence, latest, validity, serving>>

\* A book is the set of bid prices and of ask prices; sizes move with prices.
Books == {b \in [bids : SUBSET Ticks, asks : SUBSET Ticks] :
            b.bids # {} /\ b.asks # {} /\ \A x \in b.bids, y \in b.asks : x < y}
View == [book : Books, version : Nat, conn : Nat]

ASSUME BookFeedAssumption ==
  /\ Contract \in {"contiguous", "monotonic", "snapshot"} /\ NamesPrior \in BOOLEAN
  /\ MaxSyncs \in Nat \ {0} /\ Nil \notin Int \union View

Versions == DOMAIN truth
Now == Cardinality(Versions)

BookFeedTypeOK ==
  /\ truth \in [1 .. Now -> Books]
  /\ state \in {"EMPTY", "SYNCING", "VALID", "INVALID", "STALE"}
  /\ levels \in [bids : SUBSET Ticks, asks : SUBSET Ticks]
  /\ shown # Nil => shown.book \in Books
  /\ conn \in 0 .. MaxSyncs /\ serving \in 1 .. MaxSyncs /\ validity \in 0 .. MaxSyncs
  /\ sequence \in Nat \union {Nil}

NoBook == [bids |-> {}, asks |-> {}]
BookFeedInit ==
  /\ \E b \in Books : truth = [i \in 1 .. 1 |-> b]
  /\ offset = [c \in 1 .. MaxSyncs |-> 0] /\ serving = 1
  /\ state = "EMPTY" /\ levels = NoBook /\ shown = Nil
  /\ conn = 0 /\ sequence = Nil /\ latest = Nil /\ validity = 0

-----------------------------------------------------------------------------
Invalid(how) ==
  /\ state' = how /\ shown' = Nil
  /\ UNCHANGED <<levels, conn, sequence, latest, validity>>
Ignored == UNCHANGED <<state, shown, levels, conn, sequence, latest, validity>>

\* begin_sync: the number of the last version outlives the connection only
\* when the connection does.
BeginSync(c) ==
  /\ conn' = c /\ sequence' = IF c = conn THEN sequence ELSE Nil
  /\ latest' = Nil /\ levels' = NoBook /\ validity' = validity + 1
  /\ state' = "SYNCING" /\ shown' = Nil

\* A message of connection c about version v.
Number(c, v) == v - offset[c]
Message(c, v, kind) == [conn |-> c, version |-> v, kind |-> kind]
Content(v) == truth[v]
Minus(a, b) == [bids |-> a.bids \ b.bids, asks |-> a.asks \ b.asks]
OfConnection(c, v, kind) ==
  /\ Number(c, v) >= (IF kind = "delta" THEN 1 ELSE 0)
  /\ kind = "delta" => v > 1

\* The number must grow, gaps are not looked at.
InOrderWithGaps(c, v, kind) ==
  sequence = Nil \/ Number(c, v) > sequence
\* validate of the sequence contracts: no reason to refuse the message.
InOrder(c, v, kind) ==
  IF Contract = "snapshot" THEN kind = "snapshot"
  ELSE sequence # Nil =>
         /\ Number(c, v) > sequence
         /\ kind = "delta" => /\ Contract = "contiguous" => Number(c, v) = sequence + 1
                              /\ NamesPrior => Number(c, v - 1) = sequence
\* validate_book
Sound(b) == b \in Books
\* A delta sets the levels it names and deletes those it names empty.
Merged(b, added, deleted) ==
  [bids |-> (b.bids \union added.bids) \ deleted.bids, asks |-> (b.asks \union added.asks) \ deleted.asks]
Rebuilt(kind, v) ==
  IF kind = "snapshot" THEN Content(v)
  ELSE Merged(levels, Minus(truth[v], truth[v-1]), Minus(truth[v-1], truth[v]))

\* apply of a book message.  A delta seen last is a duplicate, and so is a
\* snapshot with the receipt seen last; with another receipt it is applied
\* again without a look at its number.
Repeated(c, v, kind) == latest = Message(c, v, kind)
ApplyMessage(c, v, kind, receipt) ==
  LET next == Rebuilt(kind, v) IN
  IF state \in {"INVALID", "STALE"} \/ (Repeated(c, v, kind) /\ (receipt \/ kind = "delta"))
  THEN Ignored
  ELSE IF \/ kind = "delta" /\ state # "VALID"
          \/ ~Repeated(c, v, kind) /\ ~InOrder(c, v, kind)
          \/ ~Sound(next)
  THEN Invalid("INVALID")
  ELSE /\ levels' = next /\ sequence' = Number(c, v) /\ latest' = Message(c, v, kind)
       /\ state' = "VALID"
       /\ shown' = [book |-> next, version |-> v, conn |-> c]
       /\ UNCHANGED <<conn, validity>>

Receive ==
  \E c \in 1 .. serving, v \in Versions, kind \in {"snapshot", "delta"}, receipt \in BOOLEAN :
    /\ OfConnection(c, v, kind)
    /\ \/ conn = c /\ ApplyMessage(c, v, kind, receipt)
       \/ conn # 0 /\ conn # c /\ Ignored
    /\ UNCHANGED <<truth, offset, serving>>

\* DataGap, ConnectionChanged, a malformed message or another instrument's.
Discontinuity == conn # 0 /\ Invalid("INVALID") /\ UNCHANGED <<truth, offset, serving>>
\* check_freshness after max_age_ns without a message.
GoesStale == shown # Nil /\ Invalid("STALE") /\ UNCHANGED <<truth, offset, serving>>

\* The adapter asks for a snapshot on the connection it has, or on a new one.
Resync ==
  /\ validity < MaxSyncs
  /\ \E c \in 1 .. serving : c >= conn /\ BeginSync(c)
  /\ UNCHANGED <<truth, offset, serving>>

VenueConnects ==
  /\ serving < MaxSyncs /\ serving' = serving + 1
  /\ offset' = [offset EXCEPT ![serving + 1] = IF Restarts THEN Now - 1 ELSE 0]
  /\ UNCHANGED <<truth, state, levels, shown, conn, sequence, latest, validity>>
VenueMoves ==
  /\ Now < LastVersion
  /\ \E b \in Books \ {truth[Now]} : truth' = [i \in 1 .. Now + 1 |-> IF i = Now + 1 THEN b ELSE truth[i]]
  /\ UNCHANGED <<offset, state, levels, shown, conn, sequence, latest, validity, serving>>

BookFeedNext == Receive \/ Discontinuity \/ GoesStale \/ Resync \/ VenueConnects \/ VenueMoves
BookFeedSpec == BookFeedInit /\ [][BookFeedNext]_bookFeedVars

-----------------------------------------------------------------------------
\* A book that is shown is the book the venue had at the version it names.
ShownIsVenueBook == shown # Nil => shown.book = truth[shown.version]

\* Within a connection the book shown never goes back to an older version.
NeverOlder ==
  shown # Nil /\ shown' # Nil /\ shown'.conn = shown.conn => shown'.version >= shown.version

\* A book that was withdrawn comes back only from a new synchronization.
BackBySnapshot ==
  shown = Nil /\ shown' # Nil => state = "SYNCING" /\ shown'.book = truth[shown'.version]

\* The book shown is one the venue had, never an older one of its connection,
\* and comes back from a snapshot only (BookBuilder.apply).
MarketDataSound ==
  /\ [](BookFeedTypeOK /\ ShownIsVenueBook)
  /\ [][NeverOlder /\ BackBySnapshot]_bookFeedVars
=============================================================================

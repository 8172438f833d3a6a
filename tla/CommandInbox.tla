---------------------------- MODULE CommandInbox ----------------------------
(***************************************************************************)
(* The durable command inbox of the API (api/commands.py).  Requests are   *)
(* served by threads: a request is checked against the records and its     *)
(* confirmation (Check), changes the flags (Apply), and is committed: the  *)
(* record in memory (Record) and the row of the database (Insert), which   *)
(* the API answers 202 for.  A crash keeps the rows and nothing else.      *)
(*                                                                         *)
(* A request carries a command id, a body and perhaps a confirmation       *)
(* token; a token is issued for one body's type and target.                *)
(***************************************************************************)
EXTENDS Controls, FiniteSets, Naturals

CONSTANTS Threads,        \* threads of the server's pool
          CommandIds,     \* command ids clients choose
          Bodies,         \* the commands they send, a subset of Commands
          Tokens,         \* confirmation tokens
          MaxApiCrashes,  \* how often the API process crashes
          MaxEffects,     \* bound of the counter of applied requests
          NoCommand       \* no record, row, body or token

ASSUME InboxAssumption ==
  /\ Bodies \subseteq Commands /\ NoCommand \notin Bodies /\ NoCommand \notin Tokens
  /\ {MaxApiCrashes, MaxEffects} \subseteq Nat

VARIABLES
  flags,      \* emergency_halted and strategy_states
  records,    \* command id -> body of CommandRecord, NoCommand without one
  rows,       \* the same in SQLite
  previews,   \* token -> the body it was issued for, NoCommand when not active
  issued,     \* tokens create_preview ever drew
  thread,     \* what each thread serves
  answered,   \* ids the API answered 202 for, in any life of the process
  applied,    \* <<id, body>> -> times its effect was applied
  confirmed,  \* token -> times it confirmed an applied request
  apiCrashes
inboxVars ==
  <<flags, records, rows, previews, issued, thread, answered, applied, confirmed, apiCrashes>>

IdleThread == [at |-> "idle"]
Requests == [id : CommandIds, body : Bodies, token : Tokens \union {NoCommand}]
Serving == [at : {"apply", "record", "insert"}, req : Requests]

InboxTypeOK ==
  /\ flags \in Flags
  /\ records \in [CommandIds -> Bodies \union {NoCommand}]
  /\ rows \in [CommandIds -> Bodies \union {NoCommand}]
  /\ previews \in [Tokens -> Bodies \union {NoCommand}]
  /\ issued \subseteq Tokens
  /\ thread \in [Threads -> {IdleThread} \union Serving]
  /\ answered \subseteq CommandIds
  /\ applied \in [CommandIds -> [Bodies -> 0 .. MaxEffects]]
  /\ confirmed \in [Tokens -> 0 .. MaxEffects]
  /\ apiCrashes \in 0 .. MaxApiCrashes

InboxInit ==
  /\ flags = Fresh
  /\ records = [i \in CommandIds |-> NoCommand] /\ rows = records
  /\ previews = [k \in Tokens |-> NoCommand] /\ issued = {}
  /\ thread = [t \in Threads |-> IdleThread]
  /\ answered = {}
  /\ applied = [i \in CommandIds |-> [b \in Bodies |-> 0]]
  /\ confirmed = [k \in Tokens |-> 0]
  /\ apiCrashes = 0

-----------------------------------------------------------------------------
\* create_preview: secrets.token_urlsafe never repeats a token.
CreatePreview ==
  \E k \in Tokens \ issued, b \in Bodies :
    /\ previews' = [previews EXCEPT ![k] = b]
    /\ issued' = issued \union {k}
    /\ UNCHANGED <<flags, records, rows, thread, answered, applied, confirmed, apiCrashes>>

\* Sixty seconds pass: the token stays in the table, and is refused when used.
\* Leaving it out of the table has the same answer.
Expire ==
  \E k \in Tokens :
    /\ previews[k] # NoCommand
    /\ previews' = [previews EXCEPT ![k] = NoCommand]
    /\ UNCHANGED <<flags, records, rows, issued, thread, answered, applied, confirmed, apiCrashes>>

\* (faulty) the token is looked up and left in the table.
ConsumedKept(k) == previews
\* active_previews.pop: consumed before the checks of what it was issued for.
Consumed(k) == IF k = NoCommand THEN previews ELSE [previews EXCEPT ![k] = NoCommand]
\* A command with a token needs the type and target the token was issued for.
Confirms(req) == req.token = NoCommand \/ previews[req.token] = req.body

\* (faulty) a known id is refused only with another body.
OnRecordOtherwise(req) == records[req.id] # NoCommand /\ records[req.id] # req.body
OnRecord(req) == records[req.id] # NoCommand

\* A duplicate, a conflict, and a refused confirmation end the request; an
\* identical duplicate is answered 202 with the status on record.
Check(t) ==
  \E req \in Requests :
    /\ thread[t] = IdleThread
    /\ IF OnRecord(req)
       THEN /\ answered' = IF records[req.id] = req.body THEN answered \union {req.id} ELSE answered
            /\ UNCHANGED <<previews, thread>>
       ELSE /\ previews' = Consumed(req.token)
            /\ thread' = IF Confirms(req)
                         THEN [thread EXCEPT ![t] = [at |-> "apply", req |-> req]]
                         ELSE thread
            /\ UNCHANGED answered
    /\ UNCHANGED <<flags, records, rows, issued, applied, confirmed, apiCrashes>>

\* Step 4 of submit: the transition of the latch and of the strategies.
Apply(t) ==
  LET req == thread[t].req IN
  /\ thread[t].at = "apply"
  /\ applied[req.id][req.body] < MaxEffects
  /\ flags' = After(flags, req.body)
  /\ applied' = [applied EXCEPT ![req.id][req.body] = @ + 1]
  /\ confirmed' = IF req.token = NoCommand THEN confirmed
                  ELSE [confirmed EXCEPT ![req.token] = @ + 1]
  /\ thread' = [thread EXCEPT ![t].at = "record"]
  /\ UNCHANGED <<records, rows, previews, issued, answered, apiCrashes>>

Record(t) ==
  LET req == thread[t].req IN
  /\ thread[t].at = "record"
  /\ records' = [records EXCEPT ![req.id] = req.body]
  /\ thread' = [thread EXCEPT ![t].at = "insert"]
  /\ UNCHANGED <<flags, rows, previews, issued, answered, applied, confirmed, apiCrashes>>

Taken(req) == rows[req.id] # NoCommand
\* The INSERT: a row of the same id fails it, and the request with it (500).
Insert(t) ==
  LET req == thread[t].req IN
  /\ thread[t].at = "insert"
  /\ IF Taken(req)
     THEN UNCHANGED <<rows, answered>>
     ELSE /\ rows' = [rows EXCEPT ![req.id] = req.body]
          /\ answered' = answered \union {req.id}
  /\ thread' = [thread EXCEPT ![t] = IdleThread]
  /\ UNCHANGED <<flags, records, previews, issued, applied, confirmed, apiCrashes>>

\* toggle_strategy, pause, resume and emergency-stop of the trading routes
\* change the flags beside the inbox, with no record.
Trading ==
  /\ \/ \E s \in Strategies, running \in BOOLEAN : flags' = Toggle(flags, s, running)
     \/ flags' = PauseAll(flags)
     \/ flags' = ResumeAll(flags)
     \/ flags' = Halt(flags)
  /\ UNCHANGED <<records, rows, previews, issued, thread, answered, applied, confirmed, apiCrashes>>

\* The API process dies and starts again on its database.
ApiCrash ==
  /\ apiCrashes < MaxApiCrashes
  /\ apiCrashes' = apiCrashes + 1
  /\ flags' = Fresh
  /\ records' = rows
  /\ previews' = [k \in Tokens |-> NoCommand]
  /\ thread' = [t \in Threads |-> IdleThread]
  /\ UNCHANGED <<rows, issued, answered, applied, confirmed>>

InboxNext ==
  \/ CreatePreview \/ Expire \/ Trading \/ ApiCrash
  \/ \E t \in Threads : Check(t) \/ Apply(t) \/ Record(t) \/ Insert(t)
InboxSpec == InboxInit /\ [][InboxNext]_inboxVars

-----------------------------------------------------------------------------
\* A confirmation token confirms at most one command, whatever threads present
\* it together: popping it from the table is one step.
TokenSingleUse == \A k \in Tokens : confirmed[k] <= 1

\* The database holds one body for an id for ever, whoever else presented the
\* same id at the same time.
OneBodyPerId ==
  [][\A i \in CommandIds : rows[i] # NoCommand => rows'[i] = rows[i]]_inboxVars

\* Threads that serve requests together agree on tokens and ids
\* (CommandInbox.submit).
ThreadsAgree == [](InboxTypeOK /\ TokenSingleUse) /\ OneBodyPerId

\* With one thread: after the 202 of an id, a retry of it has no effect any
\* more, before or after a restart of the API.
AnsweredIsDone ==
  [][\A i \in answered : applied'[i] = applied[i]]_inboxVars

=============================================================================

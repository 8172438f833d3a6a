------------------------------- MODULE Registry -------------------------------
(***************************************************************************)
(* research/registry.py: states and champions of models, and               *)
(* strategies/hybrid.py, which asks the registry for the model that gates  *)
(* an entry.  A model's id comes from its payload, so training that gives  *)
(* the same payload registers the same id again (Retrains).                *)
(***************************************************************************)
EXTENDS Integers, Sequences, FiniteSets, SequencesExt

CONSTANTS Models, Strategies,
          Envs,        \* environments commands name
          Synthetic,   \* models trained on synthetic or demo-only data
          Retrains,    \* TRUE: a registered model may be registered again
          MaxHistory,  \* bound on the champions remembered for one key
          NoModel

ModelState == {"TRAINING", "EVALUATED", "REJECTED", "SHADOW", "APPROVED", "ACTIVE", "RETIRED"}

ASSUME RegistryAssumption ==
  Synthetic \subseteq Models /\ MaxHistory \in Nat /\ NoModel \notin Models \union ModelState

VARIABLES states,      \* Registry.states
          champions,   \* of each strategy and environment
          history,     \* earlier champions of each
          active,      \* active_model_id, of the last promotion anywhere
          held,        \* strategies with an open position or unresolved order in LIVE
          gate         \* the last entry a hybrid strategy let a model decide

registryVars == <<states, champions, history, active, held, gate>>

Keys == Strategies \X Envs
NoGate == [key |-> NoModel, model |-> NoModel]

RegistryInit ==
  /\ states = [m \in Models |-> NoModel]
  /\ champions = [k \in Keys |-> NoModel] /\ history = [k \in Keys |-> <<>>]
  /\ active = NoModel /\ held = {} /\ gate = NoGate

Register(m, initial) ==
  /\ states[m] = NoModel \/ Retrains
  /\ states' = [states EXCEPT ![m] = initial]
  /\ gate' = NoGate /\ UNCHANGED <<champions, history, active, held>>

\* A transition refuses to bring a rejected model back into use, and to make
\* a model live unless its data is real, the strategy is flat and the
\* operator has confirmed.
Promotable(m, target) ==
  ~ (states[m] = "REJECTED" /\ target \in {"APPROVED", "ACTIVE", "SHADOW"})

LiveAllowed(m, key, confirmed) ==
  key[2] = "LIVE" => m \notin Synthetic /\ key[1] \notin held /\ confirmed

\* (faulty) the champion is remembered even when it promotes itself.
WithAny(key, m, h) == IF champions[key] # NoModel THEN [h EXCEPT ![key] = Append(@, champions[key])]
                      ELSE h

\* The champion that gives way is remembered.
WithPrevious(key, m, h) ==
  IF champions[key] \notin {NoModel, m} THEN [h EXCEPT ![key] = Append(@, champions[key])] ELSE h

Seated(key, m, s) ==
  [x \in Models |-> IF x = m THEN "ACTIVE" ELSE IF x = champions[key] THEN "RETIRED" ELSE s[x]]

\* The hash of payload or schema a command expects is absent or the right one;
\* with a wrong one nothing changes.
Transition(m, key, target, confirmed) ==
  /\ states[m] # NoModel
  /\ Promotable(m, target)
  /\ target = "ACTIVE" => LiveAllowed(m, key, confirmed) /\ Len(history[key]) < MaxHistory
  /\ gate' = NoGate
  /\ IF target = "ACTIVE"
       THEN /\ states' = Seated(key, m, states)
            /\ history' = WithPrevious(key, m, history)
            /\ champions' = [champions EXCEPT ![key] = m]
            /\ active' = m
       ELSE /\ states' = [states EXCEPT ![m] = target]
            /\ UNCHANGED <<history, champions, active>>
  /\ UNCHANGED held

Rollback(key) ==
  /\ history[key] # <<>>
  /\ LET prior == Last(history[key]) IN
     /\ states' = Seated(key, prior, states)
     /\ champions' = [champions EXCEPT ![key] = prior]
     /\ active' = prior
  /\ history' = [history EXCEPT ![key] = Front(@)]
  /\ gate' = NoGate /\ UNCHANGED <<held>>

GetActiveModel(key) ==
  IF key \in Keys /\ champions[key] # NoModel THEN champions[key] ELSE active

\* HybridStrategy.on_event asks without naming its strategy or environment,
\* and the defaults are a strategy of their own.
GateEntry(key) ==
  LET model == GetActiveModel(<<"default", "DEMO">>) IN
  /\ model # NoModel
  /\ gate' = [key |-> key, model |-> model]
  /\ UNCHANGED <<states, champions, history, active, held>>

Trade(s) ==
  /\ held' = IF s \in held THEN held \ {s} ELSE held \union {s}
  /\ gate' = NoGate
  /\ UNCHANGED <<states, champions, history, active>>

RegistryNext ==
  \/ \E m \in Models, initial \in {"EVALUATED", "TRAINING"} : Register(m, initial)
  \/ \E m \in Models, key \in Keys, target \in ModelState, confirmed \in BOOLEAN :
       Transition(m, key, target, confirmed)
  \/ \E key \in Keys : Rollback(key) \/ GateEntry(key)
  \/ \E s \in Strategies : Trade(s)

RegistrySpec == RegistryInit /\ [][RegistryNext]_registryVars
----------------------------------------------------------------------------
(* Properties.                                                             *)

RegistryTypeOK ==
  /\ states \in [Models -> ModelState \union {NoModel}]
  /\ champions \in [Keys -> Models \union {NoModel}]
  /\ \A k \in Keys : history[k] \in Seq(Models)
  /\ active \in Models \union {NoModel} /\ held \subseteq Strategies
  /\ active = NoModel <=> \A k \in Keys : champions[k] = NoModel

\* transition, rollback: a model in state ACTIVE is the champion of some
\* strategy and environment.
ActiveHasSeat == \A m \in Models : states[m] = "ACTIVE" => \E k \in Keys : champions[k] = m

\* rollback: whatever was promoted before, the model a rollback restores is
\* another one than the champion it takes the place of.
RollbackChanges ==
  \A k \in Keys : history[k] # <<>> =>
    /\ champions[k] # Last(history[k])
    /\ \A i \in 1 .. Len(history[k]) - 1 : history[k][i] # history[k][i + 1]

\* transition: no model trained on synthetic data is ever a live champion,
\* now or by any rollback to come.
NeverLiveSynthetic ==
  \A k \in Keys : k[2] = "LIVE" =>
    /\ champions[k] \notin Synthetic
    /\ \A i \in DOMAIN history[k] : history[k][i] \notin Synthetic

\* States, champions and what a rollback would restore agree (Registry).
ChampionsSound == RegistryTypeOK /\ ActiveHasSeat /\ RollbackChanges /\ NeverLiveSynthetic
=============================================================================

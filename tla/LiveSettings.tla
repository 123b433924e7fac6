---------------------------- MODULE LiveSettings ----------------------------
(***************************************************************************)
(* A settings screen: the routes that change settings.json and announce    *)
(* the change, the event stream that carries the announcement, and the     *)
(* store that shows it, edits optimistically and rolls back.               *)
(*   settings_manager.py   update_module_settings_async                    *)
(*   settings_routes.py    GET and PUT                                     *)
(*   entity-store.ts       the effects, runOptimistic, applyServerEvent    *)
(*   settings.store.ts     loadModule, updateModule, loadAll               *)
(***************************************************************************)
EXTENDS Settings, EventStream

CONSTANTS Unknown,   \* no row for the module
          Nothing    \* no event, no request

VARIABLES
  slot,    \* ws.entityChanged with its effect still to run
  row,     \* the store's entities
  edit,    \* the PUT the screen waits for, with the rows from before
  fetch,   \* the GET it waits for, answered by the server
  missed,  \* modules of which the browser was sent no news, being offline
  garbled  \* modules whose last news was dropped from the queue, overwritten
           \* in the slot or by a late answer, rolled back, or untrue

storeVars == <<slot, row, edit, fetch, missed, garbled>>
vars == <<settingsVars, streamVars, storeVars>>

Events  == [module : Modules, value : Values]
Rows    == [Modules -> Values \cup {Unknown}]
Edits   == [update : Updates, before : Rows, news : SUBSET Modules]
Answers == [module : Modules, value : Values, news : BOOLEAN]

ASSUME NothingIsNone == Nothing \notin Events \cup Edits \cup Answers

TypeOK ==
  /\ SettingsTypeOK /\ StreamTypeOK
  /\ slot \in Events \cup {Nothing}
  /\ row \in Rows
  /\ edit = Nothing \/ edit \in Edits
  /\ fetch = Nothing \/ fetch \in Answers
  /\ {missed, garbled} \subseteq SUBSET Modules

Init ==
  /\ SettingsInit /\ StreamInit
  /\ slot = Nothing
  /\ row = [m \in Modules |-> Unknown]
  /\ edit = Nothing /\ fetch = Nothing
  /\ missed = {} /\ garbled = {}

\* The modules with an event in a sequence.
About(events) == {events[i].module : i \in DOMAIN events}

-----------------------------------------------------------------------------
(* The server's side.                                                      *)

\* The event loop, back from the worker thread, reads the cache without the
\* lock and broadcasts.
Announce(u) ==
  LET m     == about[u]
      event == [module |-> m, value |-> memory[m]]
      kept  == Enqueued(event)
  IN  /\ Answer(u)
      /\ queue' = kept
      /\ missed' = IF Joined THEN missed \ {m} ELSE missed \cup {m}
      /\ garbled' = LET told    == IF memory[m] = file[m] THEN garbled \ {m} ELSE garbled \cup {m}
                        dropped == About(queue) \ About(kept)
                    IN  told \cup dropped
      /\ UNCHANGED <<socket, generation, held, retry, expired, link, wire,
                     slot, row, edit, fetch>>

-----------------------------------------------------------------------------
(* The store.                                                              *)

\* updateModule: the row changes at once, the PUT is on its way.
Edit(u) ==
  /\ edit = Nothing /\ phase[u] = "new"
  /\ edit' = [update |-> u, before |-> row, news |-> {}]
  /\ row' = [row EXCEPT ![about[u]] = u]
  /\ UNCHANGED <<settingsVars, streamVars, slot, fetch, missed, garbled>>

EditDone ==
  /\ edit # Nothing /\ phase[edit.update] = "answered"
  /\ edit' = Nothing
  /\ UNCHANGED <<settingsVars, streamVars, slot, row, fetch, missed, garbled>>

\* The PUT gets no good answer: all rows are what they were before, whatever
\* has come in since.
EditFails ==
  /\ edit # Nothing /\ edit' = Nothing
  /\ row' = edit.before
  /\ garbled' = garbled \cup edit.news
  /\ UNCHANGED <<settingsVars, streamVars, slot, fetch, missed>>

\* loadModule: the GET is answered ...
FetchServed(m) ==
  /\ fetch = Nothing
  /\ Refresh
  /\ fetch' = [module |-> m, value |-> memory'[m], news |-> FALSE]
  /\ UNCHANGED <<streamVars, slot, row, edit, missed, garbled>>

\* ... and the answer arrives, maybe after news of a later state.
FetchDone ==
  /\ fetch # Nothing /\ fetch' = Nothing
  /\ row' = [row EXCEPT ![fetch.module] = fetch.value]
  /\ edit' = IF edit = Nothing THEN edit
             ELSE [edit EXCEPT !.news = @ \cup {fetch.module}]
  /\ garbled' = IF fetch.news THEN garbled \cup {fetch.module} ELSE garbled
  /\ UNCHANGED <<settingsVars, streamVars, slot, missed>>

\* onmessage: an event goes into the one slot of entityChanged, over one whose
\* effect has not run.
Receive ==
  \E event \in Events :
    /\ Arrives(event)
    /\ slot' = event
    /\ garbled' = IF slot = Nothing THEN garbled
                  ELSE garbled \cup ({slot.module} \ (About(wire) \cup About(queue)))
    /\ UNCHANGED <<settingsVars, row, edit, fetch, missed>>

\* The store's effect: applyServerEvent upserts.
Apply ==
  /\ slot # Nothing /\ slot' = Nothing
  /\ row' = [row EXCEPT ![slot.module] = slot.value]
  /\ edit' = IF edit = Nothing THEN edit ELSE [edit EXCEPT !.news = @ \cup {slot.module}]
  /\ fetch' = IF fetch # Nothing /\ fetch.module = slot.module
              THEN [fetch EXCEPT !.news = TRUE] ELSE fetch
  /\ UNCHANGED <<settingsVars, streamVars, missed, garbled>>

\* What a lost connection takes with it is missed.
Stream ==
  /\ StreamStep \/ StreamTrouble
  /\ missed' = missed \cup ((About(queue) \cup About(wire)) \ (About(queue') \cup About(wire')))
  /\ UNCHANGED <<settingsVars, slot, row, edit, fetch, garbled>>

-----------------------------------------------------------------------------

Server == \E u \in Updates : (Update(u) /\ UNCHANGED <<streamVars, storeVars>>) \/ Announce(u)
Screen == (\E u \in Updates : Edit(u)) \/ EditDone \/ EditFails
          \/ (\E m \in Modules : FetchServed(m)) \/ FetchDone \/ Apply

\* Nobody else writes the file here: Settings looks into that.
Next == Server \/ Screen \/ Receive \/ Stream

Spec == Init /\ [][Next]_vars

-----------------------------------------------------------------------------
(* What must hold.                                                         *)

Quiet ==
  /\ \A u \in Updates : phase[u] \in {"new", "answered"}
  /\ edit = Nothing /\ fetch = Nothing /\ slot = Nothing
  /\ About(queue) \cup About(wire) = {}

Shown(m) == row[m] \in {Unknown, file[m]}

\* However saves, unlocked reads, broadcasts, answers and rollbacks interleave,
\* the screen ends up showing what the file holds, unless the last news of the
\* module was lost in one of the ways that missed and garbled name.
Converges == Quiet => \A m \in Modules \ (missed \cup garbled) : Shown(m)
=============================================================================

--------------------------- MODULE SettingsProofs ---------------------------
(***************************************************************************)
(* For any modules and any number of updates and foreign writes: no update *)
(* of settings.json is lost, and the cache answers what the file holds, as *)
(* long as nobody writes the file inside an update's critical section; the *)
(* screen around it changes nothing of that.  For any number of reconnects *)
(* the browser keeps exactly one way back to the server; for any sizes of  *)
(* queue and wire its screen converges to the file, and no queue, wire or  *)
(* stamp outgrows its bound.                                               *)
(***************************************************************************)
EXTENDS LiveSettings, FiniteSetTheorems, TLAPS

\* What the steps need of the variables' types; the stamps are not bounded.
Shape ==
  /\ file \in [Modules -> Values] /\ memory \in [Modules -> Values]
  /\ landed \in [Modules -> Values]
  /\ mtime \in Nat /\ stat \in Nat /\ loaded \in Nat \cup {NoStamp}
  /\ phase \in [Updates -> Phases] /\ about \in [Updates -> Modules]
  /\ foreign \in 0 .. MaxForeign /\ torn \in BOOLEAN

\* _io_lock.
OneInside == \A u, v \in Updates : phase[u] \in Locking /\ phase[v] \in Locking => u = v

\* No stamp is from the future.
Stamped == stat <= mtime /\ loaded <= mtime

\* An update that has merged, and still sees the file it read, has in memory
\* what the file holds with its own change.
MergedOnTop ==
  \A u \in Updates : phase[u] = "merged" /\ ~torn /\ stat = mtime =>
    memory = [file EXCEPT ![about[u]] = u]

\* An update that has replaced the file has in memory what the file holds, as
\* long as the file has not moved.
ReplacedWhole ==
  \A u \in Updates : phase[u] = "replaced" /\ ~torn /\ stat = mtime => memory = file

Inv ==
  /\ Shape /\ OneInside /\ Stamped /\ MergedOnTop /\ ReplacedWhole
  /\ NothingLost /\ CacheHonest

\* The manager that has just loaded the file is in order.
LEMMA InitInv == SettingsInit => Inv
<1> SUFFICES ASSUME SettingsInit PROVE Inv
  OBVIOUS
<1> USE DEF SettingsInit
<1>1. 0 \in Values /\ 0 \in 0 .. MaxForeign
  BY SettingsBounds DEF Values
<1>2. Shape
  BY <1>1 DEF Shape, Phases
<1>3. OneInside /\ MergedOnTop /\ ReplacedWhole
  BY DEF OneInside, MergedOnTop, ReplacedWhole, Locking
<1>4. Stamped /\ NothingLost /\ CacheHonest
  BY DEF Stamped, NothingLost, CacheHonest
<1> QED BY <1>2, <1>3, <1>4 DEF Inv

\* update_module_settings takes the lock, loads and merges.
LEMMA MergeInv == ASSUME Inv, NEW u \in Updates, Merge(u) PROVE Inv'
<1> USE DEF Inv, Merge, Updates, Values, Phases, Locking, NoStamp
<1>1. u \in Values /\ Locked'
  BY SettingsBounds DEF Shape, Locked
<1>2. Shape'
  BY <1>1 DEF Shape
<1>3. OneInside'
  BY DEF OneInside, Shape, Locked
<1>4. Stamped'
  BY DEF Stamped, Shape
<1>5. MergedOnTop' /\ ReplacedWhole'
  BY DEF MergedOnTop, ReplacedWhole, Shape, Locked
<1>6. NothingLost' /\ CacheHonest'
  BY <1>1 DEF NothingLost, CacheHonest
<1> QED BY <1>2, <1>3, <1>4, <1>5, <1>6

\* os.replace: what was merged becomes the file, unless the file moved, which
\* torn remembers.
LEMMA ReplaceInv == ASSUME Inv, NEW u \in Updates, Replace(u) PROVE Inv'
<1> USE DEF Inv, Replace, Updates, Values, Phases, Locking, NoStamp
<1>1. u \in Values /\ Locked'
  BY SettingsBounds DEF Shape, Locked
<1>2. Shape'
  BY <1>1 DEF Shape
<1>3. OneInside'
  BY DEF OneInside, Shape
<1>4. Stamped'
  BY DEF Stamped, Shape
<1>5. MergedOnTop' /\ ReplacedWhole'
  BY DEF MergedOnTop, ReplacedWhole, Shape, OneInside
<1>6. ~torn' => file' = landed'
  <2> SUFFICES ASSUME ~torn' PROVE file' = landed'
    OBVIOUS
  <2>1. ~torn /\ stat = mtime
    BY DEF Shape
  <2>2. memory = [file EXCEPT ![about[u]] = u] /\ file = landed
    BY <2>1 DEF MergedOnTop, NothingLost
  <2> QED BY <2>2
<1>7. NothingLost' /\ CacheHonest'
  BY <1>1, <1>6 DEF NothingLost, CacheHonest
<1> QED BY <1>2, <1>3, <1>4, <1>5, <1>7

\* The stat after the replace, and the end of the critical section.
LEMMA RememberInv == ASSUME Inv, NEW u \in Updates, Remember(u) PROVE Inv'
<1> USE DEF Inv, Remember, Updates, Phases, Locking, NoStamp
<1>1. Shape' /\ OneInside' /\ Stamped'
  BY DEF Shape, OneInside, Stamped
<1>2. MergedOnTop' /\ ReplacedWhole'
  BY DEF MergedOnTop, ReplacedWhole, Shape, OneInside
<1>3. ~torn' => memory' = file'
  BY DEF ReplacedWhole, Shape
<1>4. NothingLost' /\ CacheHonest'
  BY <1>3 DEF NothingLost, CacheHonest, Shape
<1> QED BY <1>1, <1>2, <1>4

\* A failed save leaves a cache that no file can match.
LEMMA SaveFailsInv == ASSUME Inv, NEW u \in Updates, SaveFails(u) PROVE Inv'
<1> USE DEF Inv, SaveFails, Updates, Phases, Locking, NoStamp
<1>1. Shape' /\ OneInside' /\ Stamped'
  BY DEF Shape, OneInside, Stamped
<1>2. MergedOnTop' /\ ReplacedWhole'
  BY DEF MergedOnTop, ReplacedWhole, Shape, OneInside
<1>3. NothingLost' /\ CacheHonest'
  BY DEF NothingLost, CacheHonest, Shape
<1> QED BY <1>1, <1>2, <1>3

\* get_module_settings, outside every critical section.
LEMMA RefreshInv == ASSUME Inv, Refresh PROVE Inv'
<1> USE DEF Inv, Refresh, Locking, NoStamp
<1>1. Shape' /\ OneInside' /\ Stamped'
  BY DEF Shape, OneInside, Stamped
<1>2. MergedOnTop' /\ ReplacedWhole'
  BY DEF MergedOnTop, ReplacedWhole, Locked
<1>3. NothingLost' /\ CacheHonest'
  BY DEF NothingLost, CacheHonest, Locked
<1> QED BY <1>1, <1>2, <1>3

\* Somebody else's write moves the stamp away from every one remembered.
LEMMA ForeignInv == ASSUME Inv, NEW m \in Modules, ForeignWrite(m) PROVE Inv'
<1> USE DEF Inv, ForeignWrite, NoStamp
<1>1. MaxUpdates + foreign + 1 \in Values /\ foreign + 1 \in 0 .. MaxForeign
  BY SettingsBounds DEF Shape, Values
<1>2. Shape'
  BY <1>1 DEF Shape
<1>3. OneInside' /\ Stamped'
  BY DEF Shape, OneInside, Stamped
<1>4. mtime' # stat' /\ mtime' # loaded'
  BY DEF Shape, Stamped
<1>5. MergedOnTop' /\ ReplacedWhole' /\ CacheHonest'
  BY <1>4 DEF MergedOnTop, ReplacedWhole, CacheHonest
<1>6. NothingLost'
  BY DEF NothingLost, Shape
<1> QED BY <1>2, <1>3, <1>5, <1>6

\* The announcement leaves the settings alone.
LEMMA AnswerInv == ASSUME Inv, NEW u \in Updates, Answer(u) PROVE Inv'
<1> USE DEF Inv, Answer, Updates, Phases, Locking, NoStamp
<1>1. Shape' /\ OneInside' /\ Stamped'
  BY DEF Shape, OneInside, Stamped
<1>2. MergedOnTop' /\ ReplacedWhole'
  BY DEF MergedOnTop, ReplacedWhole, Shape
<1>3. NothingLost' /\ CacheHonest'
  BY DEF NothingLost, CacheHonest, Locked, Shape
<1> QED BY <1>1, <1>2, <1>3

\* Every step keeps the invariant.
LEMMA NextInv == Inv /\ [SettingsNext]_settingsVars => Inv'
<1> SUFFICES ASSUME Inv, [SettingsNext]_settingsVars PROVE Inv'
  OBVIOUS
<1>1. ASSUME NEW u \in Updates, Update(u) PROVE Inv'
  BY <1>1, MergeInv, ReplaceInv, RememberInv, SaveFailsInv DEF Update
<1>2. CASE Refresh
  BY <1>2, RefreshInv
<1>3. ASSUME NEW m \in Modules, ForeignWrite(m) PROVE Inv'
  BY <1>3, ForeignInv
<1>4. ASSUME NEW u \in Updates, Answer(u) PROVE Inv'
  BY <1>4, AnswerInv
<1>5. CASE UNCHANGED settingsVars
  BY <1>5 DEF settingsVars, Inv, Shape, OneInside, Stamped, MergedOnTop, ReplacedWhole,
     NothingLost, CacheHonest, Locked
<1> QED BY <1>1, <1>2, <1>3, <1>4, <1>5 DEF SettingsNext

\* Threads that update different modules at once lose nothing of each other,
\* nor of a foreign write that came before they took the lock (the load in
\* update_module_settings).
THEOREM Lossless == SettingsSpec => []NothingLost
<1>1. Inv => NothingLost
  BY DEF Inv
<1> QED BY <1>1, InitInv, NextInv, PTL DEF SettingsSpec

\* A cache that a read trusts holds what the file holds, after failed saves
\* and foreign writes too (the mtime check and the reset in save).
THEOREM Honest == SettingsSpec => []CacheHonest
<1>1. Inv => CacheHonest
  BY DEF Inv
<1> QED BY <1>1, InitInv, NextInv, PTL DEF SettingsSpec
-----------------------------------------------------------------------------
(* The screen.                                                             *)

\* The routes, the stream and the store implement the settings: each of their
\* steps is one of the manager or leaves it alone.
THEOREM ScreenRunsSettings == Spec => SettingsSpec
<1>1. Init => SettingsInit
  BY DEF Init
<1>2. [Next]_vars => [SettingsNext]_settingsVars
  <2> SUFFICES ASSUME [Next]_vars PROVE [SettingsNext]_settingsVars
    OBVIOUS
  <2>1. ASSUME NEW u \in Updates, Update(u) PROVE SettingsNext
    BY <2>1 DEF SettingsNext
  <2>2. ASSUME NEW u \in Updates, Announce(u) PROVE SettingsNext
    BY <2>2 DEF Announce, SettingsNext
  <2>3. ASSUME NEW m \in Modules, FetchServed(m) PROVE SettingsNext
    BY <2>3 DEF FetchServed, SettingsNext
  <2>4. ASSUME Receive \/ Stream \/ EditDone \/ EditFails \/ FetchDone \/ Apply
        PROVE  UNCHANGED settingsVars
    BY <2>4 DEF Receive, Stream, EditDone, EditFails, FetchDone, Apply
  <2>5. ASSUME NEW u \in Updates, Edit(u) PROVE UNCHANGED settingsVars
    BY <2>5 DEF Edit
  <2> QED
    BY <2>1, <2>2, <2>3, <2>4, <2>5 DEF Next, Server, Screen, vars
<1> QED BY <1>1, <1>2, PTL DEF Spec, SettingsSpec

-----------------------------------------------------------------------------
(* The way back to the server.                                             *)

\* Sockets are made one after the other, and only the newest is alive, and held.
WayInv ==
  /\ socket \in [Sockets -> {"none", "connecting", "open", "refused", "closing", "closed"}]
  /\ generation \in Sockets
  /\ {held, retry, expired} \subseteq BOOLEAN
  /\ \A s \in Sockets : s > generation => socket[s] = "none"
  /\ OneWayBack

LEMMA WayInit == Init => WayInv
<1> SUFFICES ASSUME Init PROVE WayInv
  OBVIOUS
<1>1. 1 \in Sockets /\ \A s \in Sockets : s > 1 => s # 1
  BY StreamBounds DEF Sockets
<1>2. /\ socket = [s \in Sockets |-> IF s = 1 THEN "open" ELSE "none"]
      /\ generation = 1 /\ held = TRUE /\ retry = FALSE /\ expired = FALSE
  BY DEF Init, StreamInit
<1>3. OneWayBack
  BY <1>1, <1>2 DEF OneWayBack, Live, Ending
<1> QED BY <1>1, <1>2, <1>3 DEF WayInv

\* A new connection leaves the old socket to its end, and has a timer if it
\* could not be made.
LEMMA WayConnect == ASSUME WayInv, Connect PROVE WayInv'
<1> DEFINE rest ==
      [s \in Sockets |-> IF held /\ s = generation /\ Live(s) THEN "closing" ELSE socket[s]]
<1>1. /\ \A s \in Sockets : s \in Nat
      /\ generation + 1 \in Sockets /\ generation \in Nat
      /\ \A s \in Sockets : s > generation + 1 => s > generation
  BY StreamBounds DEF Connect, WayInv, Sockets
<1>2. ~ expired /\ expired' = expired /\ generation' = generation + 1
  BY DEF Connect
<1>3. /\ rest \in [Sockets -> {"none", "connecting", "open", "refused", "closing", "closed"}]
      /\ \A s \in Sockets : s > generation => rest[s] = "none"
      /\ \A s \in Sockets : rest[s] \notin {"connecting", "open"}
  BY <1>1 DEF WayInv, OneWayBack, Live
<1>4. CASE socket' = [rest EXCEPT ![generation + 1] = "connecting"] /\ held' = TRUE /\ retry' = FALSE
  <2> HIDE DEF rest
  <2>1. /\ socket' \in [Sockets -> {"none", "connecting", "open", "refused", "closing", "closed"}]
        /\ socket'[generation + 1] = "connecting"
        /\ \A s \in Sockets : s # generation + 1 => socket'[s] = rest[s]
    BY <1>1, <1>3, <1>4
  <2>2. \A s \in Sockets : s > generation' => socket'[s] = "none"
    BY <1>1, <1>2, <1>3, <2>1
  <2>3. OneWayBack'
    BY <1>1, <1>2, <1>3, <1>4, <2>1 DEF OneWayBack, Live, Ending
  <2> QED
    BY <1>1, <1>2, <1>4, <2>1, <2>2, <2>3 DEF WayInv
<1>5. CASE socket' = rest /\ held' = FALSE /\ Schedule
  <2> HIDE DEF rest
  <2>1. retry' = TRUE
    BY <1>2, <1>5 DEF Schedule
  <2>2. rest[generation + 1] = "none"
    BY <1>1, <1>3
  <2>3. OneWayBack'
    BY <1>1, <1>2, <1>3, <1>5, <2>1, <2>2 DEF OneWayBack, Live, Ending
  <2> QED
    BY <1>1, <1>2, <1>3, <1>5, <2>1, <2>3 DEF WayInv
<1> QED BY <1>4, <1>5 DEF Connect

\* The close of the newest socket arms the timer, unless the session is over;
\* that of an older one counts for nothing.
LEMMA WayClose == ASSUME WayInv, NEW s \in Sockets, OnClose(s) PROVE WayInv'
<1>1. /\ socket' = [socket EXCEPT ![s] = "closed"] /\ generation' = generation
      /\ Ending(s) /\ socket[s] # "none"
  BY DEF OnClose, Ending
<1>2. CASE s = generation /\ held' = FALSE /\ Schedule /\ UNCHANGED expired
  <2>1. retry' = ~ expired /\ retry' \in BOOLEAN
    BY <1>2 DEF Schedule, WayInv
  <2> QED
    BY <1>1, <1>2, <2>1 DEF WayInv, OneWayBack, Live, Ending
<1>3. CASE s = generation /\ held' = FALSE /\ expired' = TRUE /\ UNCHANGED retry
  BY <1>1, <1>3 DEF WayInv, OneWayBack, Live, Ending
<1>4. CASE s # generation /\ UNCHANGED <<held, retry, expired>>
  BY <1>1, <1>4 DEF WayInv, OneWayBack, Live, Ending
<1> QED BY <1>2, <1>3, <1>4 DEF OnClose

LEMMA WayStep == WayInv /\ [Next]_vars => WayInv'
<1> SUFFICES ASSUME WayInv, [Next]_vars PROVE WayInv'
  OBVIOUS
<1>1. CASE UNCHANGED <<socket, generation, held, retry, expired>>
  BY <1>1 DEF WayInv, OneWayBack, Live, Ending
<1>2. CASE Connect
  BY <1>2, WayConnect
<1>3. CASE Accept
  BY <1>3 DEF Accept, WayInv, OneWayBack, Live, Ending
<1>4. CASE Lose
  BY <1>4 DEF Lose, WayInv, OneWayBack, Live, Ending
<1>5. ASSUME NEW s \in Sockets, OnClose(s) PROVE WayInv'
  BY <1>5, WayClose
<1>6. CASE Stream
  <2>1. ASSUME Register \/ Send PROVE UNCHANGED <<socket, generation, held, retry, expired>>
    BY <2>1 DEF Register, Send
  <2> QED
    BY <1>1, <1>2, <1>3, <1>4, <1>5, <1>6, <2>1
    DEF Stream, StreamStep, StreamTrouble, RetryFires, ForceReconnect
<1>7. CASE Server \/ Screen \/ Receive
  <2>1. ASSUME NEW u \in Updates,
               (Update(u) /\ UNCHANGED <<streamVars, storeVars>>) \/ Announce(u) \/ Edit(u)
        PROVE  UNCHANGED <<socket, generation, held, retry, expired>>
    BY <2>1 DEF Announce, Edit, streamVars
  <2>2. ASSUME NEW m \in Modules, FetchServed(m)
        PROVE  UNCHANGED <<socket, generation, held, retry, expired>>
    BY <2>2 DEF FetchServed, streamVars
  <2>3. ASSUME EditDone \/ EditFails \/ FetchDone \/ Apply \/ Receive
        PROVE  UNCHANGED <<socket, generation, held, retry, expired>>
    BY <2>3 DEF EditDone, EditFails, FetchDone, Apply, Receive, Arrives, streamVars
  <2> QED
    BY <1>1, <1>7, <2>1, <2>2, <2>3 DEF Server, Screen
<1>8. CASE UNCHANGED vars
  BY <1>1, <1>8 DEF vars, streamVars
<1> QED BY <1>6, <1>7, <1>8 DEF Next

\* Whatever closes late, throws or is pressed, a browser whose session lasts has
\* one live socket, or one close to come that arms a retry, or the retry
\* (WebSocketService.connect and its handlers).
THEOREM OneWay == Spec => []OneWayBack
<1>1. WayInv => OneWayBack
  BY DEF WayInv
<1> QED BY <1>1, WayInit, WayStep, PTL DEF Spec

-----------------------------------------------------------------------------
(* What the screen shows.                                                  *)

\* The last event about a module in a sequence has a value.
LastIs(events, m, v) ==
  \E i \in 1 .. Len(events) :
    /\ events[i].module = m /\ events[i].value = v
    /\ \A j \in i + 1 .. Len(events) : events[j].module # m

StoreShape ==
  /\ queue \in Seq(Events) /\ wire \in Seq(Events)
  /\ slot = Nothing \/ slot \in Events
  /\ row \in Rows
  /\ edit = Nothing \/ edit \in Edits
  /\ fetch = Nothing \/ fetch \in Answers

\* Nobody but the updates writes the file.
Untorn == ~ torn /\ \A u \in Updates : phase[u] \in Locking => stat = mtime

\* An update of the module is still to be announced.
Owing(m) == \E u \in Updates : about[u] = m /\ phase[u] \in {"replaced", "saved"}

\* Row, rollback and answer under way are true, but for an edit not yet answered.
RowTrue(m) ==
  /\ edit = Nothing \/ about[edit.update] # m \/ phase[edit.update] = "answered" =>
       row[m] \in {Unknown, file[m]}
  /\ edit # Nothing /\ m \notin edit.news => edit.before[m] \in {Unknown, file[m]}
  /\ fetch # Nothing /\ fetch.module = m /\ ~ fetch.news => fetch.value = file[m]

\* The last news of the module is true, wherever it has got to.
NewsTrue(m) ==
  IF m \in About(queue) THEN LastIs(queue, m, file[m])
  ELSE IF m \in About(wire) THEN LastIs(wire, m, file[m])
  ELSE IF slot # Nothing /\ slot.module = m THEN slot.value = file[m]
  ELSE RowTrue(m)

ShowInv ==
  /\ StoreShape /\ Untorn
  /\ \A m \in Modules \ (missed \cup garbled) : Owing(m) \/ NewsTrue(m)

\* Sequences of events.

LEMMA AboutIs ==
  ASSUME NEW s \in Seq(Events), NEW m
  PROVE  m \in About(s) <=> \E i \in 1 .. Len(s) : s[i].module = m
  BY DEF About

LEMMA OnAppend ==
  ASSUME NEW s \in Seq(Events), NEW e \in Events, NEW m
  PROVE  /\ m \in About(Append(s, e)) <=> m \in About(s) \/ m = e.module
         /\ e.module = m => LastIs(Append(s, e), m, e.value)
         /\ \A v : e.module # m /\ LastIs(s, m, v) => LastIs(Append(s, e), m, v)
<1> DEFINE t == Append(s, e)
<1>1. /\ t \in Seq(Events) /\ Len(t) = Len(s) + 1 /\ t[Len(s) + 1] = e /\ Len(s) \in Nat
      /\ \A i \in 1 .. Len(s) : t[i] = s[i]
  OBVIOUS
<1> HIDE DEF t
<1>2. m \in About(t) <=> m \in About(s) \/ m = e.module
  BY <1>1, AboutIs
<1>3. e.module = m => LastIs(t, m, e.value)
  BY <1>1 DEF LastIs
<1>4. ASSUME NEW v, e.module # m, LastIs(s, m, v) PROVE LastIs(t, m, v)
  BY <1>1, <1>4 DEF LastIs
<1> QED BY <1>2, <1>3, <1>4 DEF t

LEMMA OnTail ==
  ASSUME NEW s \in Seq(Events), s # << >>, NEW m
  PROVE  /\ Head(s) \in Events /\ Tail(s) \in Seq(Events)
         /\ m \in About(s) <=> m = Head(s).module \/ m \in About(Tail(s))
         /\ \A v : m \in About(Tail(s)) /\ LastIs(s, m, v) => LastIs(Tail(s), m, v)
         /\ \A v : m \notin About(Tail(s)) /\ LastIs(s, m, v) => Head(s).value = v
<1> DEFINE t == Tail(s)
<1>1. /\ t \in Seq(Events) /\ Len(t) = Len(s) - 1 /\ Len(s) \in Nat \ {0}
      /\ Head(s) = s[1] /\ s[1] \in Events
      /\ \A i \in 1 .. Len(t) : t[i] = s[i + 1]
  OBVIOUS
<1> HIDE DEF t
<1>2. m \in About(s) <=> m = Head(s).module \/ m \in About(t)
  <2>1. \A i \in 2 .. Len(s) : i - 1 \in 1 .. Len(t) /\ t[i - 1] = s[i]
    BY <1>1
  <2>2. \A i \in 1 .. Len(t) : i + 1 \in 1 .. Len(s)
    BY <1>1
  <2>3. 1 \in 1 .. Len(s) /\ \A i \in 1 .. Len(s) : i = 1 \/ i \in 2 .. Len(s)
    BY <1>1
  <2>4. /\ m \in About(s) <=> \E i \in 1 .. Len(s) : s[i].module = m
        /\ m \in About(t) <=> \E i \in 1 .. Len(t) : t[i].module = m
    BY <1>1, AboutIs
  <2>5. ASSUME NEW i \in 1 .. Len(s), s[i].module = m
        PROVE  m = Head(s).module \/ m \in About(t)
    <3>1. CASE i = 1
      BY <1>1, <2>5, <3>1
    <3>2. CASE i \in 2 .. Len(s)
      BY <2>1, <2>4, <2>5, <3>2
    <3> QED BY <2>3, <3>1, <3>2
  <2>6. ASSUME NEW i \in 1 .. Len(t), t[i].module = m PROVE m \in About(s)
    BY <1>1, <2>2, <2>4, <2>6
  <2>7. m = Head(s).module => m \in About(s)
    BY <1>1, <2>3, <2>4
  <2> QED BY <2>4, <2>5, <2>6, <2>7
<1>3. ASSUME NEW v, LastIs(s, m, v)
      PROVE  /\ m \in About(t) => LastIs(t, m, v)
             /\ m \notin About(t) => Head(s).value = v
  <2>1. PICK i \in 1 .. Len(s) :
          /\ s[i].module = m /\ s[i].value = v
          /\ \A j \in i + 1 .. Len(s) : s[j].module # m
    BY <1>3 DEF LastIs
  <2>2. CASE i = 1
    <3>1. \A j \in 1 .. Len(t) : t[j].module # m
      <4>1. \A j \in 1 .. Len(t) : j + 1 \in i + 1 .. Len(s) /\ t[j] = s[j + 1]
        BY <1>1, <2>2
      <4> QED BY <2>1, <4>1
    <3> QED BY <1>1, <2>1, <2>2, <3>1, AboutIs
  <2>3. CASE i > 1
    <3>1. i - 1 \in 1 .. Len(t) /\ t[i - 1] = s[i]
      BY <1>1, <2>3
    <3>2. \A j \in (i - 1) + 1 .. Len(t) : t[j].module # m
      <4>1. \A j \in (i - 1) + 1 .. Len(t) : j + 1 \in i + 1 .. Len(s) /\ t[j] = s[j + 1]
        BY <1>1, <2>3
      <4> QED BY <2>1, <4>1
    <3>3. LastIs(t, m, v)
      BY <2>1, <3>1, <3>2 DEF LastIs
    <3>4. m \in About(t)
      BY <1>1, <2>1, <3>1, AboutIs
    <3> QED BY <3>3, <3>4
  <2> QED BY <2>2, <2>3
<1> QED BY <1>1, <1>2, <1>3 DEF t

\* A step that touches no event can only disturb the row.
LEMMA NewsStays ==
  ASSUME NEW m, UNCHANGED <<queue, wire, slot>>, file'[m] = file[m],
         NewsTrue(m), RowTrue(m) => RowTrue(m)'
  PROVE  NewsTrue(m)'
BY DEF NewsTrue, LastIs, About

LEMMA ShowInit == Init => ShowInv
<1> SUFFICES ASSUME Init PROVE ShowInv
  OBVIOUS
<1> USE DEF Init, SettingsInit, StreamInit
<1>1. StoreShape
  BY DEF StoreShape, Rows
<1>2. Untorn
  BY DEF Untorn, Locking
<1>3. ASSUME NEW m \in Modules PROVE NewsTrue(m)
  BY <1>3 DEF NewsTrue, About, RowTrue
<1> QED BY <1>1, <1>2, <1>3 DEF ShowInv

\* An update owes an announcement from the moment the file changes; until then
\* it has not touched the file, and it touches nothing else of it.
LEMMA ShowUpdate ==
  ASSUME Inv, ShowInv, NEW u \in Updates, Update(u), UNCHANGED <<streamVars, storeVars>>
  PROVE  ShowInv'
<1>1. StoreShape'
  BY DEF ShowInv, StoreShape, streamVars, storeVars
<1>2. Untorn'
  BY DEF ShowInv, Untorn, Update, Merge, Replace, Remember, SaveFails, Inv, Shape, OneInside,
     Locking
<1>3. /\ about' = about /\ phase \in [Updates -> Phases]
      /\ phase[u] \notin {"answered"}
      /\ \A v \in Updates : v # u => phase'[v] = phase[v]
      /\ phase'[u] # "answered"
      /\ phase[u] \in {"replaced", "saved"} => phase'[u] \in {"replaced", "saved"}
  BY DEF Update, Merge, Replace, Remember, SaveFails, Inv, Shape
<1>4. ASSUME NEW m \in Modules, ~ Owing(m)' PROVE file'[m] = file[m]
  <2>1. CASE Replace(u)
    <3>1. memory = [file EXCEPT ![about[u]] = u] /\ file' = memory
      BY <2>1 DEF Replace, Inv, MergedOnTop, ShowInv, Untorn, Locking
    <3>2. phase'[u] = "replaced"
      BY <1>3, <2>1 DEF Replace
    <3>3. about[u] # m
      BY <1>3, <1>4, <3>2 DEF Owing
    <3> QED BY <3>1, <3>3 DEF Inv, Shape
  <2>2. CASE Merge(u) \/ Remember(u) \/ SaveFails(u)
    BY <2>2 DEF Merge, Remember, SaveFails
  <2> QED BY <2>1, <2>2 DEF Update
<1>5. ASSUME NEW m \in Modules \ (missed' \cup garbled'), ~ Owing(m)' PROVE NewsTrue(m)'
  <2>1. UNCHANGED <<queue, wire, slot, row, edit, fetch, missed, garbled>>
    BY DEF streamVars, storeVars
  <2>2. ~ Owing(m)
    BY <1>3, <1>5 DEF Owing
  <2>3. NewsTrue(m)
    BY <1>5, <2>1, <2>2 DEF ShowInv
  <2>4. ASSUME RowTrue(m) PROVE RowTrue(m)'
    <3>1. edit = Nothing \/ edit.update \in Updates
      BY DEF ShowInv, StoreShape, Edits
    <3>2. edit = Nothing \/ (phase'[edit.update] = "answered" <=> phase[edit.update] = "answered")
      BY <1>3, <3>1
    <3> QED BY <1>3, <1>4, <1>5, <2>1, <2>4, <3>2 DEF RowTrue
  <2> QED BY <1>4, <1>5, <2>1, <2>3, <2>4, NewsStays
<1> QED BY <1>1, <1>2, <1>5 DEF ShowInv

\* The announcement is true, or the module is garbled; its place in the queue is
\* taken from another module's only with that one's name.
LEMMA ShowAnnounce == ASSUME Inv, ShowInv, NEW u \in Updates, Announce(u) PROVE ShowInv'
<1> DEFINE a    == about[u]
           e    == [module |-> a, value |-> memory[a]]
           kept == Enqueued(e)
<1>1. /\ a \in Modules /\ e \in Events /\ e.module = a /\ e.value = memory[a]
      /\ queue \in Seq(Events) /\ queue' = kept
      /\ phase \in [Updates -> Phases] /\ phase' = [phase EXCEPT ![u] = "answered"]
      /\ UNCHANGED <<wire, slot, row, edit, fetch, file, about, torn, stat, mtime>>
  BY DEF Announce, Answer, Inv, Shape, Events, ShowInv, StoreShape
<1>2. /\ missed' = IF Joined THEN missed \ {a} ELSE missed \cup {a}
      /\ About(queue) \ About(kept) \subseteq garbled'
      /\ memory[a] # file[a] => a \in garbled'
      /\ garbled \ {a} \subseteq garbled'
  BY DEF Announce
<1> HIDE DEF a, e
<1>3. ~ Joined => kept = queue
  BY DEF Enqueued
<1>4. ASSUME Joined
      PROVE  /\ kept \in Seq(Events)
             /\ LastIs(kept, a, memory[a]) /\ a \in About(kept)
             /\ \A m \in Modules \ {a} :
                  /\ m \in About(kept) => m \in About(queue)
                  /\ \A v : m \in About(kept) /\ LastIs(queue, m, v) => LastIs(kept, m, v)
  <2>1. CASE Len(queue) < MaxQueue
    <3>1. kept = Append(queue, e)
      BY <1>4, <2>1 DEF Enqueued
    <3> HIDE DEF kept
    <3> QED BY <1>1, <3>1, OnAppend
  <2>2. CASE ~ (Len(queue) < MaxQueue)
    <3>1. kept = Append(Tail(queue), e) /\ queue # << >>
      BY <1>1, <1>4, <2>2, StreamBounds DEF Enqueued
    <3> HIDE DEF kept
    <3>2. Tail(queue) \in Seq(Events)
      BY <1>1, <3>1
    <3>3. kept \in Seq(Events) /\ LastIs(kept, a, memory[a]) /\ a \in About(kept)
      <4>1. kept \in Seq(Events)
        BY <1>1, <3>1, <3>2
      <4>2. LastIs(kept, e.module, e.value) /\ e.module \in About(kept)
        BY <1>1, <3>1, <3>2, OnAppend
      <4> QED BY <1>1, <4>1, <4>2
    <3>4. ASSUME NEW m \in Modules \ {a}
          PROVE  /\ m \in About(kept) => m \in About(queue)
                 /\ \A v : m \in About(kept) /\ LastIs(queue, m, v) => LastIs(kept, m, v)
      <4>1. m \in About(kept) <=> m \in About(Tail(queue))
        BY <1>1, <3>1, <3>2, <3>4, OnAppend
      <4>2. \A v : LastIs(Tail(queue), m, v) => LastIs(kept, m, v)
        BY <1>1, <3>1, <3>2, <3>4, OnAppend
      <4>3. m \in About(Tail(queue)) => m \in About(queue)
        BY <1>1, <3>1, OnTail
      <4>4. \A v : m \in About(Tail(queue)) /\ LastIs(queue, m, v) => LastIs(Tail(queue), m, v)
        BY <1>1, <3>1, OnTail
      <4> QED BY <4>1, <4>2, <4>3, <4>4
    <3> QED BY <3>3, <3>4
  <2> QED BY <2>1, <2>2
<1> HIDE DEF kept
<1>5. StoreShape'
  BY <1>1, <1>3, <1>4 DEF ShowInv, StoreShape
<1>6. Untorn'
  BY <1>1 DEF ShowInv, Untorn, Locking
<1>7. ASSUME NEW m \in Modules \ (missed' \cup garbled'), ~ Owing(m)' PROVE NewsTrue(m)'
  <2>1. CASE m = a
    <3>1. Joined /\ memory[a] = file[a]
      BY <1>2, <1>7, <2>1
    <3>2. a \in About(kept) /\ LastIs(kept, a, file[a])
      BY <1>4, <3>1
    <3> QED BY <1>1, <2>1, <3>2 DEF NewsTrue, About, LastIs
  <2>2. CASE m # a
    <3>1. NewsTrue(m)
      <4>1. ~ Owing(m)
        BY <1>1, <1>7, <2>2 DEF Owing, a
      <4> QED BY <1>2, <1>7, <2>2, <4>1 DEF ShowInv
    <3>2. RowTrue(m)' <=> RowTrue(m)
      <4>1. edit = Nothing \/ edit.update \in Updates
        BY DEF ShowInv, StoreShape, Edits
      <4>2. edit = Nothing \/ about[edit.update] # m
            \/ phase'[edit.update] = phase[edit.update]
        BY <1>1, <2>2, <4>1 DEF a
      <4> QED BY <1>1, <4>2 DEF RowTrue
    <3>3. CASE ~ Joined
      <4>1. queue' = queue
        BY <1>1, <1>3, <3>3
      <4> QED BY <1>1, <3>1, <3>2, <4>1, NewsStays
    <3>4. CASE Joined
      <4>1. m \in About(queue) <=> m \in About(kept)
        BY <1>2, <1>4, <1>7, <2>2, <3>4
      <4>2. \A v : m \in About(kept) /\ LastIs(queue, m, v) => LastIs(kept, m, v)
        BY <1>4, <2>2, <3>4
      <4>3. About(queue)' = About(kept) /\ LastIs(queue, m, file[m])' = LastIs(kept, m, file[m])
        BY <1>1 DEF About, LastIs
      <4>4. About(wire)' = About(wire) /\ LastIs(wire, m, file[m])' = LastIs(wire, m, file[m])
        BY <1>1 DEF About, LastIs
      <4> QED BY <1>1, <3>1, <3>2, <4>1, <4>2, <4>3, <4>4 DEF NewsTrue
    <3> QED BY <3>3, <3>4
  <2> QED BY <2>1, <2>2
<1> QED BY <1>5, <1>6, <1>7 DEF ShowInv

\* What a step that leaves file and updates alone must still show.
LEMMA ShowFrame ==
  ASSUME Inv, ShowInv, UNCHANGED <<file, phase, about, torn, stat, mtime>>, StoreShape',
         missed \subseteq missed', garbled \subseteq garbled',
         \A m \in Modules \ (missed' \cup garbled') : NewsTrue(m) => NewsTrue(m)'
  PROVE  ShowInv'
BY DEF ShowInv, Untorn, Owing, Locking

\* The edit shows its value at once, and keeps the rows that were true.
LEMMA ShowEdit == ASSUME Inv, ShowInv, NEW u \in Updates, Edit(u) PROVE ShowInv'
<1>1. /\ UNCHANGED <<file, phase, about, torn, stat, mtime, queue, wire, slot, fetch, missed,
                     garbled>>
      /\ edit = Nothing /\ phase[u] = "new"
      /\ edit' = [update |-> u, before |-> row, news |-> {}]
      /\ row' = [row EXCEPT ![about[u]] = u]
  BY DEF Edit, settingsVars, streamVars
<1>2. row \in Rows /\ u \in Values
  BY SettingsBounds DEF ShowInv, StoreShape, Updates, Values
<1>3. edit' \in Edits /\ edit' # Nothing
  BY <1>1, <1>2, NothingIsNone DEF Edits
<1>4. StoreShape'
  BY <1>1, <1>2, <1>3 DEF ShowInv, StoreShape, Rows
<1>5. ASSUME NEW m \in Modules, NewsTrue(m) PROVE NewsTrue(m)'
  <2>1. RowTrue(m) => RowTrue(m)'
    BY <1>1, <1>2, <1>3 DEF RowTrue, Rows
  <2> QED BY <1>1, <1>5, <2>1, NewsStays
<1> QED BY <1>1, <1>4, <1>5, ShowFrame

\* The end of the edit, either way.
LEMMA ShowEdited == ASSUME Inv, ShowInv, EditDone \/ EditFails PROVE ShowInv'
<1>1. /\ UNCHANGED <<file, phase, about, torn, stat, mtime, queue, wire, slot, fetch, missed>>
      /\ edit # Nothing /\ edit' = Nothing /\ garbled \subseteq garbled'
  BY DEF EditDone, EditFails, settingsVars, streamVars
<1>2. StoreShape'
  BY <1>1 DEF EditDone, EditFails, ShowInv, StoreShape, Edits
<1>3. ASSUME NEW m \in Modules \ (missed' \cup garbled'), NewsTrue(m) PROVE NewsTrue(m)'
  <2>1. RowTrue(m) => RowTrue(m)'
    <3>1. CASE EditDone
      BY <1>1, <3>1 DEF EditDone, RowTrue
    <3>2. CASE EditFails
      BY <1>1, <1>3, <3>2 DEF EditFails, RowTrue
    <3> QED BY <3>1, <3>2
  <2> QED BY <1>1, <1>3, <2>1, NewsStays
<1> QED BY <1>1, <1>2, <1>3, ShowFrame

\* The server answers what the file holds ...
LEMMA ShowFetchServed == ASSUME Inv, ShowInv, NEW m \in Modules, FetchServed(m) PROVE ShowInv'
<1>1. /\ UNCHANGED <<file, phase, about, torn, stat, mtime, queue, wire, slot, row, edit,
                     missed, garbled>>
      /\ fetch = Nothing /\ fetch' = [module |-> m, value |-> memory'[m], news |-> FALSE]
  BY DEF FetchServed, Refresh, streamVars
<1>2. memory' = file
  BY DEF FetchServed, Refresh, Inv, CacheHonest, ShowInv, Untorn
<1>3. fetch' \in Answers
  BY <1>1, <1>2 DEF Answers, Inv, Shape
<1>4. StoreShape'
  BY <1>1, <1>3 DEF ShowInv, StoreShape
<1>5. ASSUME NEW n \in Modules, NewsTrue(n) PROVE NewsTrue(n)'
  <2>1. RowTrue(n) => RowTrue(n)'
    BY <1>1, <1>2 DEF RowTrue
  <2> QED BY <1>1, <1>5, <2>1, NewsStays
<1> QED BY <1>1, <1>4, <1>5, ShowFrame

\* ... and the answer is shown; after later news the module counts as garbled.
LEMMA ShowFetchDone == ASSUME Inv, ShowInv, FetchDone PROVE ShowInv'
<1>1. /\ UNCHANGED <<file, phase, about, torn, stat, mtime, queue, wire, slot, missed>>
      /\ fetch # Nothing /\ fetch' = Nothing /\ garbled \subseteq garbled'
      /\ fetch.news => fetch.module \in garbled'
      /\ row' = [row EXCEPT ![fetch.module] = fetch.value]
      /\ edit = Nothing => edit' = Nothing
      /\ edit # Nothing => edit' = [edit EXCEPT !.news = @ \cup {fetch.module}]
  BY DEF FetchDone, settingsVars, streamVars
<1>2. /\ row \in Rows /\ fetch \in Answers
      /\ edit # Nothing => edit \in Edits
  BY <1>1 DEF ShowInv, StoreShape
<1>3. edit # Nothing => /\ edit' \in Edits /\ edit' # Nothing
                        /\ edit'.update = edit.update /\ edit'.before = edit.before
                        /\ edit'.news = edit.news \cup {fetch.module}
  BY <1>1, <1>2, NothingIsNone DEF Edits, Answers
<1>4. row' \in Rows
  BY <1>1, <1>2 DEF Rows, Answers
<1>5. StoreShape'
  BY <1>1, <1>2, <1>3, <1>4 DEF ShowInv, StoreShape
<1>6. ASSUME NEW m \in Modules \ (missed' \cup garbled'), NewsTrue(m) PROVE NewsTrue(m)'
  <2>1. RowTrue(m) => RowTrue(m)'
    <3>1. SUFFICES ASSUME RowTrue(m) PROVE RowTrue(m)'
      OBVIOUS
    <3>2. CASE m = fetch.module
      <4>1. fetch.value = file[m] /\ row'[m] = file[m]
        BY <1>1, <1>2, <1>6, <3>1, <3>2 DEF RowTrue, Rows
      <4> QED BY <1>1, <1>3, <3>2, <4>1 DEF RowTrue
    <3>3. CASE m # fetch.module
      BY <1>1, <1>2, <1>3, <3>1, <3>3 DEF RowTrue, Rows
    <3> QED BY <3>2, <3>3
  <2> QED BY <1>1, <1>6, <2>1, NewsStays
<1> QED BY <1>1, <1>5, <1>6, ShowFrame

\* The slot takes the oldest event sent; one it had is garbled unless a later
\* one is under way.
LEMMA ShowReceive == ASSUME Inv, ShowInv, Receive PROVE ShowInv'
<1>1. /\ UNCHANGED <<file, phase, about, torn, stat, mtime, queue, row, edit, fetch, missed>>
      /\ wire # << >> /\ wire' = Tail(wire) /\ slot' = Head(wire)
      /\ garbled \subseteq garbled'
      /\ slot # Nothing =>
           \A m : m = slot.module /\ m \notin About(wire) \cup About(queue) => m \in garbled'
  BY DEF Receive, Arrives, settingsVars
<1>2. wire \in Seq(Events)
  BY DEF ShowInv, StoreShape
<1>3. Head(wire) \in Events /\ Tail(wire) \in Seq(Events) /\ slot' # Nothing
  BY <1>1, <1>2, NothingIsNone
<1>4. StoreShape'
  BY <1>1, <1>3 DEF ShowInv, StoreShape
<1>5. ASSUME NEW m \in Modules \ (missed' \cup garbled'), NewsTrue(m) PROVE NewsTrue(m)'
  <2>1. /\ About(queue)' = About(queue) /\ LastIs(queue, m, file[m])' = LastIs(queue, m, file[m])
        /\ About(wire)' = About(Tail(wire))
        /\ LastIs(wire, m, file[m])' = LastIs(Tail(wire), m, file[m])
        /\ RowTrue(m)' = RowTrue(m)
    BY <1>1 DEF About, LastIs, RowTrue
  <2>2. CASE m \in About(queue)
    BY <1>5, <2>1, <2>2 DEF NewsTrue
  <2>3. CASE m \notin About(queue) /\ m \in About(wire)
    <3>1. LastIs(wire, m, file[m])
      BY <1>5, <2>3 DEF NewsTrue
    <3>2. m \in About(Tail(wire)) => LastIs(Tail(wire), m, file[m])
      BY <1>1, <1>2, <3>1, OnTail
    <3>3. m \notin About(Tail(wire)) => Head(wire).value = file[m] /\ Head(wire).module = m
      BY <1>1, <1>2, <2>3, <3>1, OnTail
    <3> QED BY <1>1, <1>3, <2>1, <2>3, <3>2, <3>3 DEF NewsTrue
  <2>4. CASE m \notin About(queue) /\ m \notin About(wire)
    <3>1. Head(wire).module # m /\ m \notin About(Tail(wire))
      BY <1>1, <1>2, <2>4, OnTail
    <3>2. slot = Nothing \/ slot.module # m
      BY <1>1, <1>5, <2>4
    <3>3. RowTrue(m)
      BY <1>5, <2>4, <3>2 DEF NewsTrue
    <3> QED BY <1>1, <2>1, <2>4, <3>1, <3>3 DEF NewsTrue
  <2> QED BY <2>2, <2>3, <2>4
<1> QED BY <1>1, <1>4, <1>5, ShowFrame

\* The effect shows it, and marks what it overtakes.
LEMMA ShowApply == ASSUME Inv, ShowInv, Apply PROVE ShowInv'
<1>1. /\ UNCHANGED <<file, phase, about, torn, stat, mtime, queue, wire, missed, garbled>>
      /\ slot # Nothing /\ slot' = Nothing
      /\ row' = [row EXCEPT ![slot.module] = slot.value]
      /\ edit = Nothing => edit' = Nothing
      /\ edit # Nothing => edit' = [edit EXCEPT !.news = @ \cup {slot.module}]
      /\ fetch # Nothing /\ fetch.module = slot.module => fetch' = [fetch EXCEPT !.news = TRUE]
      /\ fetch = Nothing \/ fetch.module # slot.module => fetch' = fetch
  BY DEF Apply, settingsVars, streamVars
<1>2. /\ row \in Rows /\ slot \in Events
      /\ edit # Nothing => edit \in Edits
      /\ fetch # Nothing => fetch \in Answers
  BY <1>1 DEF ShowInv, StoreShape
<1>3. edit # Nothing => /\ edit' \in Edits /\ edit' # Nothing
                        /\ edit'.update = edit.update /\ edit'.before = edit.before
                        /\ edit'.news = edit.news \cup {slot.module}
  BY <1>1, <1>2, NothingIsNone DEF Edits, Events
<1>4. /\ fetch # Nothing => /\ fetch' \in Answers /\ fetch' # Nothing
                            /\ fetch'.module = fetch.module /\ fetch'.value = fetch.value
      /\ fetch # Nothing /\ fetch.module = slot.module => fetch'.news = TRUE
      /\ fetch = Nothing => fetch' = Nothing
  BY <1>1, <1>2, NothingIsNone DEF Answers
<1>5. row' \in Rows
  BY <1>1, <1>2 DEF Rows, Events
<1>6. StoreShape'
  BY <1>1, <1>2, <1>3, <1>4, <1>5 DEF ShowInv, StoreShape
<1>7. ASSUME NEW m \in Modules, NewsTrue(m) PROVE NewsTrue(m)'
  <2>1. /\ About(queue)' = About(queue) /\ LastIs(queue, m, file[m])' = LastIs(queue, m, file[m])
        /\ About(wire)' = About(wire) /\ LastIs(wire, m, file[m])' = LastIs(wire, m, file[m])
    BY <1>1 DEF About, LastIs
  <2>2. CASE m \in About(queue) \/ m \in About(wire)
    BY <1>7, <2>1, <2>2 DEF NewsTrue
  <2>3. CASE m \notin About(queue) /\ m \notin About(wire)
    <3>1. RowTrue(m)'
      <4>1. CASE m = slot.module
        <5>1. row'[m] = file[m]
          BY <1>1, <1>2, <1>7, <2>3, <4>1 DEF NewsTrue, Rows
        <5> QED BY <1>1, <1>3, <1>4, <4>1, <5>1 DEF RowTrue
      <4>2. CASE m # slot.module
        <5>1. RowTrue(m)
          BY <1>1, <1>7, <2>3, <4>2 DEF NewsTrue
        <5>2. row'[m] = row[m]
          BY <1>1, <1>2, <4>2 DEF Rows
        <5> QED BY <1>1, <1>3, <1>4, <4>2, <5>1, <5>2 DEF RowTrue
      <4> QED BY <4>1, <4>2
    <3> QED BY <1>1, <2>1, <2>3, <3>1 DEF NewsTrue
  <2> QED BY <2>2, <2>3
<1> QED BY <1>1, <1>6, <1>7, ShowFrame

\* The sender moves the oldest event from queue to wire.
LEMMA ShowSend == ASSUME Inv, ShowInv, Stream, Send PROVE ShowInv'
<1>1. /\ UNCHANGED <<file, phase, about, torn, stat, mtime, slot, row, edit, fetch, garbled>>
      /\ missed \subseteq missed'
      /\ queue # << >> /\ queue' = Tail(queue) /\ wire' = Append(wire, Head(queue))
  BY DEF Stream, Send, settingsVars
<1>2. queue \in Seq(Events) /\ wire \in Seq(Events)
  BY DEF ShowInv, StoreShape
<1>3. Head(queue) \in Events /\ Tail(queue) \in Seq(Events)
  BY <1>1, <1>2
<1>4. StoreShape'
  BY <1>1, <1>2, <1>3 DEF ShowInv, StoreShape
<1>5. ASSUME NEW m \in Modules, NewsTrue(m) PROVE NewsTrue(m)'
  <2> DEFINE v == file[m]
             s == Append(wire, Head(queue))
  <2>1. /\ About(queue)' = About(Tail(queue)) /\ LastIs(queue, m, v)' = LastIs(Tail(queue), m, v)
        /\ About(wire)' = About(s) /\ LastIs(wire, m, v)' = LastIs(s, m, v)
        /\ RowTrue(m)' = RowTrue(m)
    BY <1>1 DEF About, LastIs, RowTrue
  <2>2. /\ m \in About(s) <=> m \in About(wire) \/ m = Head(queue).module
        /\ Head(queue).module = m => LastIs(s, m, Head(queue).value)
        /\ Head(queue).module # m /\ LastIs(wire, m, v) => LastIs(s, m, v)
    BY <1>2, <1>3, OnAppend
  <2>3. /\ m \in About(queue) <=> m = Head(queue).module \/ m \in About(Tail(queue))
        /\ m \in About(Tail(queue)) /\ LastIs(queue, m, v) => LastIs(Tail(queue), m, v)
        /\ m \notin About(Tail(queue)) /\ LastIs(queue, m, v) => Head(queue).value = v
    BY <1>1, <1>2, OnTail
  <2> HIDE DEF s
  <2> QED BY <1>1, <1>5, <2>1, <2>2, <2>3 DEF NewsTrue
<1> QED BY <1>1, <1>4, <1>5, ShowFrame

\* A connection that goes takes its events along, and their modules are missed.
LEMMA ShowStream == ASSUME Inv, ShowInv, Stream PROVE ShowInv'
<1>1. /\ UNCHANGED <<file, phase, about, torn, stat, mtime, slot, row, edit, fetch, garbled>>
      /\ missed' = missed \cup ((About(queue) \cup About(wire)) \ (About(queue') \cup About(wire')))
  BY DEF Stream, settingsVars
<1>2. CASE Send
  BY <1>2, ShowSend
<1>3. CASE UNCHANGED <<queue, wire>>
  <2>1. StoreShape'
    BY <1>1, <1>3 DEF ShowInv, StoreShape
  <2>2. ASSUME NEW m \in Modules, NewsTrue(m) PROVE NewsTrue(m)'
    <3>1. RowTrue(m) => RowTrue(m)'
      BY <1>1 DEF RowTrue
    <3> QED BY <1>1, <1>3, <2>2, <3>1, NewsStays
  <2> QED BY <1>1, <2>1, <2>2, ShowFrame
<1>4. CASE Cut
  <2>1. queue' = << >> /\ wire' = << >>
    BY <1>4 DEF Cut
  <2>2. StoreShape'
    BY <1>1, <2>1 DEF ShowInv, StoreShape
  <2>3. About(queue') = {} /\ About(wire') = {}
    BY <2>1 DEF About
  <2>4. ASSUME NEW m \in Modules \ (missed' \cup garbled'), NewsTrue(m) PROVE NewsTrue(m)'
    <3>1. m \notin About(queue) \cup About(wire)
      BY <1>1, <2>3, <2>4
    <3>2. About(queue)' = About(queue') /\ About(wire)' = About(wire') /\ RowTrue(m)' = RowTrue(m)
      BY <1>1 DEF About, RowTrue
    <3> QED BY <1>1, <2>3, <2>4, <3>1, <3>2 DEF NewsTrue
  <2> QED BY <1>1, <2>2, <2>4, ShowFrame
<1>5. Connect => Cut
  BY DEF Connect
<1>6. Lose => Cut
  BY DEF Lose
<1>7. ASSUME Accept \/ Register \/ (\E s \in Sockets : OnClose(s)) PROVE UNCHANGED <<queue, wire>>
  BY <1>7 DEF Accept, Register, OnClose
<1> QED BY <1>2, <1>3, <1>4, <1>5, <1>6, <1>7
        DEF Stream, StreamStep, StreamTrouble, RetryFires, ForceReconnect

LEMMA ShowNext == Inv /\ ShowInv /\ [Next]_vars => ShowInv'
<1> SUFFICES ASSUME Inv, ShowInv, [Next]_vars PROVE ShowInv'
  OBVIOUS
<1>1. CASE Server
  BY <1>1, ShowUpdate, ShowAnnounce DEF Server
<1>2. CASE Screen
  BY <1>2, ShowEdit, ShowEdited, ShowFetchServed, ShowFetchDone, ShowApply DEF Screen
<1>3. CASE Receive \/ Stream
  BY <1>3, ShowReceive, ShowStream
<1>4. CASE UNCHANGED vars
  BY <1>4 DEF vars, settingsVars, streamVars, storeVars, ShowInv, StoreShape, Untorn, Owing,
     NewsTrue, RowTrue, LastIs, About
<1> QED BY <1>1, <1>2, <1>3, <1>4 DEF Next

\* When nothing is under way the screen shows what settings.json holds, for every
\* module whose last news was not lost in a way the model names (EntityStore and
\* the broadcasts of update_module_settings_async).
THEOREM Convergence == Spec => []Converges
<1>1. ShowInv => Converges
  <2> SUFFICES ASSUME ShowInv, Quiet, NEW m \in Modules \ (missed \cup garbled) PROVE Shown(m)
    BY DEF Converges
  <2>1. ~ Owing(m) /\ m \notin About(queue) \cup About(wire) /\ slot = Nothing /\ edit = Nothing
    BY DEF Quiet, Owing
  <2>2. RowTrue(m)
    BY <2>1 DEF ShowInv, NewsTrue
  <2> QED BY <2>1, <2>2 DEF RowTrue, Shown
<1>2. Init /\ SettingsInit => Inv /\ ShowInv
  BY InitInv, ShowInit
<1>3. Inv /\ ShowInv /\ [Next]_vars /\ [SettingsNext]_settingsVars => Inv' /\ ShowInv'
  BY NextInv, ShowNext
<1> QED BY <1>1, <1>2, <1>3, ScreenRunsSettings, PTL DEF Spec, SettingsSpec

-----------------------------------------------------------------------------
(* Types.                                                                  *)

\* Updates that are past the critical section's replace.
Through == {u \in Updates : phase[u] \notin {"new", "merged"}}

\* Every stamp is an update that has got through, or somebody else's write.
Counted == mtime <= Cardinality(Through) + foreign

LEMMA ThroughFinite ==
  /\ IsFiniteSet(Through) /\ Cardinality(Through) \in Nat /\ Cardinality(Through) <= MaxUpdates
<1>1. IsFiniteSet(Updates) /\ Cardinality(Updates) = MaxUpdates
  BY SettingsBounds, FS_Interval DEF Updates
<1>2. Through \subseteq Updates
  BY DEF Through
<1> QED BY <1>1, <1>2, FS_Subset, FS_CardinalityType

\* One more update gets through.
LEMMA OneThrough ==
  ASSUME phase \in [Updates -> Phases], NEW u \in Updates, phase[u] = "merged",
         phase' = [phase EXCEPT ![u] = "replaced"] \/ phase' = [phase EXCEPT ![u] = "saved"]
  PROVE  Cardinality(Through') = Cardinality(Through) + 1
<1>1. Through' = Through \cup {u} /\ u \notin Through
  BY DEF Through
<1> QED BY <1>1, ThroughFinite, FS_AddElement

\* The others leave those that are through as they are.
LEMMA SameThrough ==
  ASSUME phase \in [Updates -> Phases], NEW u \in Updates,
         \/ phase' = phase
         \/ phase[u] = "new" /\ phase' = [phase EXCEPT ![u] = "merged"]
         \/ phase[u] \in {"replaced", "saved"} /\ phase' = [phase EXCEPT ![u] = "saved"]
         \/ phase[u] = "saved" /\ phase' = [phase EXCEPT ![u] = "answered"]
  PROVE  Through' = Through
BY DEF Through

LEMMA NextCounted == Inv /\ Counted /\ [SettingsNext]_settingsVars => Counted'
<1> SUFFICES ASSUME Inv, Counted, [SettingsNext]_settingsVars PROVE Counted'
  OBVIOUS
<1>0. /\ phase \in [Updates -> Phases] /\ mtime \in Nat /\ foreign \in Nat
      /\ Cardinality(Through) \in Nat
  BY ThroughFinite DEF Inv, Shape
<1>1. ASSUME NEW u \in Updates, Merge(u) \/ Remember(u) \/ Answer(u) PROVE Counted'
  <2>1. UNCHANGED <<mtime, foreign>> /\ Through' = Through
    BY <1>0, <1>1, SameThrough DEF Merge, Remember, Answer
  <2> QED BY <2>1 DEF Counted
<1>2. ASSUME NEW u \in Updates, Replace(u) PROVE Counted'
  <2>1. /\ mtime' = mtime + 1 /\ foreign' = foreign
        /\ Cardinality(Through') = Cardinality(Through) + 1
    BY <1>0, <1>2, OneThrough DEF Replace
  <2> QED BY <1>0, <2>1 DEF Counted
<1>3. ASSUME NEW u \in Updates, SaveFails(u) PROVE Counted'
  <2>1. /\ UNCHANGED <<mtime, foreign>>
        /\ Cardinality(Through') = Cardinality(Through) + 1
    BY <1>0, <1>3, OneThrough DEF SaveFails
  <2> QED BY <1>0, <2>1 DEF Counted
<1>4. CASE Refresh \/ UNCHANGED settingsVars
  BY <1>4 DEF Refresh, settingsVars, Counted, Through
<1>5. ASSUME NEW m \in Modules, ForeignWrite(m) PROVE Counted'
  <2>1. mtime' = mtime + 1 /\ foreign' = foreign + 1 /\ Through' = Through
    BY <1>5 DEF ForeignWrite, Through
  <2> QED BY <1>0, <2>1 DEF Counted
<1> QED BY <1>1, <1>2, <1>3, <1>4, <1>5 DEF SettingsNext, Update

LEMMA InitCounted == SettingsInit => Counted
<1> SUFFICES ASSUME SettingsInit PROVE Counted
  OBVIOUS
<1>1. mtime = 0 /\ foreign = 0
  BY DEF SettingsInit
<1> QED BY <1>1, ThroughFinite DEF Counted

\* No stamp is beyond the number of writes there can be.
LEMMA StampsBounded == Inv /\ Counted => SettingsTypeOK
<1> SUFFICES ASSUME Inv, Counted PROVE SettingsTypeOK
  OBVIOUS
<1>0. Shape /\ Stamped
  BY DEF Inv
<1>1. mtime \in Stamps
  <2>1. mtime \in Nat /\ foreign \in Nat /\ foreign <= MaxForeign
    BY <1>0, SettingsBounds DEF Shape
  <2> QED BY <2>1, ThroughFinite, SettingsBounds DEF Counted, Stamps
<1>2. stat \in Stamps /\ loaded \in Stamps \cup {NoStamp}
  BY <1>0, <1>1, SettingsBounds DEF Shape, Stamped, Stamps, NoStamp
<1> QED BY <1>0, <1>1, <1>2 DEF Shape, SettingsTypeOK

\* The manager's variables stay in their ranges, whoever writes the file.
THEOREM SettingsTypes == SettingsSpec => []SettingsTypeOK
<1>1. SettingsInit => Inv /\ Counted
  BY InitInv, InitCounted
<1>2. Inv /\ Counted /\ [SettingsNext]_settingsVars => Inv' /\ Counted'
  BY NextInv, NextCounted
<1> QED BY <1>1, <1>2, StampsBounded, PTL DEF SettingsSpec

\* Of the rest: no queue or wire beyond its size, no module but the known ones.
Bounded ==
  /\ link \in {"down", "accepted", "registered"}
  /\ Len(queue) <= MaxQueue /\ Len(wire) <= MaxWire
  /\ {missed, garbled} \subseteq SUBSET Modules

LEMMA AboutModules == \A s \in Seq(Events) : About(s) \subseteq Modules
<1> SUFFICES ASSUME NEW s \in Seq(Events), NEW m \in About(s) PROVE m \in Modules
  OBVIOUS
<1>1. PICK i \in DOMAIN s : m = s[i].module
  BY DEF About
<1>2. s[i] \in Events
  <2>1. DOMAIN s = 1 .. Len(s) /\ \A j \in 1 .. Len(s) : s[j] \in Events
    OBVIOUS
  <2> QED BY <2>1
<1> QED BY <1>1, <1>2 DEF Events

LEMMA NextBounded == StoreShape /\ Inv /\ Bounded /\ [Next]_vars => Bounded'
<1> SUFFICES ASSUME StoreShape, Inv, Bounded, [Next]_vars PROVE Bounded'
  OBVIOUS
<1>0. /\ queue \in Seq(Events) /\ wire \in Seq(Events)
      /\ MaxQueue \in Nat \ {0} /\ MaxWire \in Nat \ {0}
  BY StreamBounds DEF StoreShape
<1>1. ASSUME NEW u \in Updates, Announce(u) PROVE Bounded'
  <2>1. /\ link' = link /\ wire' = wire
        /\ about[u] \in Modules
    BY <1>1 DEF Announce, Inv, Shape
  <2>2. PICK event \in Events : queue' = Enqueued(event)
    <3>1. [module |-> about[u], value |-> memory[about[u]]] \in Events
      BY <2>1 DEF Inv, Shape, Events
    <3> QED BY <1>1, <3>1 DEF Announce
  <2>3. Len(queue') <= MaxQueue
    BY <1>0, <2>2 DEF Enqueued, Bounded
  <2>4. missed' \subseteq Modules
    BY <1>1, <2>1 DEF Announce, Bounded
  <2>5. garbled' \subseteq Modules
    <3>1. garbled' \subseteq (garbled \cup {about[u]}) \cup About(queue)
      BY <1>1 DEF Announce
    <3> QED BY <1>0, <2>1, <3>1, AboutModules DEF Bounded
  <2> QED BY <2>1, <2>3, <2>4, <2>5 DEF Bounded
<1>2. ASSUME NEW u \in Updates,
             (Update(u) /\ UNCHANGED <<streamVars, storeVars>>) \/ Edit(u)
      PROVE  Bounded'
  BY <1>2 DEF Edit, streamVars, storeVars, Bounded
<1>3. CASE EditDone \/ Apply
  BY <1>3 DEF EditDone, Apply, streamVars, Bounded
<1>4. ASSUME NEW m \in Modules, FetchServed(m) PROVE Bounded'
  BY <1>4 DEF FetchServed, streamVars, Bounded
<1>5. CASE EditFails
  BY <1>5 DEF EditFails, streamVars, Bounded, StoreShape, Edits
<1>6. CASE FetchDone
  BY <1>6 DEF FetchDone, streamVars, Bounded, StoreShape, Answers
<1>7. CASE Receive
  BY <1>0, <1>7 DEF Receive, Arrives, Bounded, StoreShape, Events
<1>8. CASE Stream
  <2>1. missed' \subseteq Modules /\ garbled' = garbled
    BY <1>0, <1>8, AboutModules DEF Stream, Bounded
  <2>2. ASSUME Cut PROVE Bounded'
    BY <1>0, <2>1, <2>2 DEF Cut, Bounded
  <2>3. CASE RetryFires \/ ForceReconnect \/ Lose
    BY <2>2, <2>3 DEF RetryFires, ForceReconnect, Connect, Lose
  <2>4. CASE Accept \/ Register \/ \E s \in Sockets : OnClose(s)
    BY <2>1, <2>4 DEF Accept, Register, OnClose, Bounded
  <2>5. CASE Send
    BY <1>0, <2>1, <2>5 DEF Send, Bounded
  <2> QED BY <1>8, <2>3, <2>4, <2>5 DEF Stream, StreamStep, StreamTrouble
<1>9. CASE UNCHANGED vars
  BY <1>9 DEF vars, streamVars, storeVars, Bounded
<1> QED BY <1>1, <1>2, <1>3, <1>4, <1>5, <1>6, <1>7, <1>8, <1>9 DEF Next, Server, Screen

LEMMA InitBounded == Init => Bounded
BY StreamBounds DEF Init, StreamInit, Bounded

\* So do those of the screen: whatever is announced, sent and lost, the queue
\* of a connection never holds more than _QUEUE_MAXSIZE events.
THEOREM TypesHold == Spec => []TypeOK
<1>1. SettingsTypeOK /\ WayInv /\ ShowInv /\ Bounded => TypeOK
  BY DEF TypeOK, StreamTypeOK, WayInv, ShowInv, StoreShape, Bounded
<1>2. Init /\ SettingsInit => Inv /\ ShowInv /\ Bounded
  BY InitInv, ShowInit, InitBounded
<1>3. Inv /\ ShowInv /\ Bounded /\ [Next]_vars /\ [SettingsNext]_settingsVars
        => Inv' /\ ShowInv' /\ Bounded'
  BY NextInv, ShowNext, NextBounded DEF ShowInv
<1>4. Spec /\ SettingsSpec => [](Inv /\ ShowInv /\ Bounded)
  BY <1>2, <1>3, PTL DEF Spec, SettingsSpec
<1>5. Spec => []WayInv
  BY WayInit, WayStep, PTL DEF Spec
<1> QED BY <1>1, <1>4, <1>5, SettingsTypes, ScreenRunsSettings, PTL
=============================================================================

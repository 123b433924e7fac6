-------------------------- MODULE PauseSignalProofs --------------------------
(***************************************************************************)
(* Proofs about signal.json: the types, that a trainer obeys no signal     *)
(* from before its launch, and that the status is honest.                  *)
(***************************************************************************)
EXTENDS PauseSignal, TLAPS

USE Bounds DEF Signals, None, Torn, Statuses, Stages, Phases, Lines, Idle

-----------------------------------------------------------------------------
(* Types.                                                                  *)

Requests == [op : Signals \cup {None}, at : {"idle", "checked", "opened", "sent"}]

\* A request knows what it asks for.
RequestOf == request.at # "idle" => request.op \in Signals

TypeInv == TypeOK /\ RequestOf

LEMMA InitTypes == Init => TypeInv
  <1> SUFFICES ASSUME Init PROVE TypeInv
    OBVIOUS
  <1> USE DEF Init
  <1>1. log \in Seq(Lines)
    OBVIOUS
  <1>2. request \in Requests
    BY DEF Requests
  <1>3. runs \in 1 .. MaxRuns /\ requests \in 0 .. MaxRequests
        /\ crashes \in 0 .. MaxCrashes /\ slotRun \in 0 .. MaxRuns
    OBVIOUS
  <1>4. linked \in BOOLEAN /\ relaunch \in BOOLEAN /\ lost \in BOOLEAN
    OBVIOUS
  <1> QED
    BY <1>1, <1>2, <1>3, <1>4 DEF TypeInv, TypeOK, RequestOf, Requests

LEMMA NextTypes == TypeInv /\ [Next]_vars => TypeInv'
  <1> SUFFICES ASSUME TypeInv, [Next]_vars PROVE TypeInv'
    OBVIOUS
  <1> USE DEF TypeInv, TypeOK, RequestOf
  <1>1. CASE StartJob
    <2>1. lost' \in BOOLEAN
      BY <1>1 DEF StartJob
    <2>2. runs' \in 1 .. MaxRuns /\ log' \in Seq(Lines)
      BY <1>1 DEF StartJob
    <2>3. RequestOf'
      BY <1>1 DEF StartJob
    <2>4. linked' \in BOOLEAN /\ relaunch' \in BOOLEAN
      BY <1>1 DEF StartJob
    <2> QED
      BY <1>1, <2>1, <2>2, <2>3, <2>4 DEF StartJob
  <1>2. CASE ClearStale
    <2>1. lost' \in BOOLEAN
      BY <1>2 DEF ClearStale
    <2>2. slot' \in Signals \cup {None, Torn} /\ linked' \in BOOLEAN
      BY <1>2 DEF ClearStale, ClearSignal
    <2> QED
      BY <1>2, <2>1, <2>2 DEF ClearStale
  <1>3. CASE Spawn \/ Flip \/ Repause
    BY <1>3 DEF Spawn, Flip, Repause
  <1>4. ASSUME NEW op \in Signals, Ask(op) PROVE TypeInv'
    BY <1>4 DEF Ask
  <1>5. CASE OpenSignal
    BY <1>5 DEF OpenSignal
  <1>6. CASE WriteSignal
    <2>1. lost' \in BOOLEAN
      BY <1>6 DEF WriteSignal
    <2>2. slot' \in Signals \cup {None, Torn} /\ slotRun' \in 0 .. MaxRuns
      BY <1>6 DEF WriteSignal
    <2>3. request' \in Requests /\ RequestOf'
      BY <1>6 DEF WriteSignal, Requests
    <2> QED
      BY <1>6, <2>1, <2>2, <2>3 DEF WriteSignal, Requests
  <1>7. CASE Answer
    BY <1>7 DEF Answer
  <1>8. CASE Deliver
    <2>1. Tail(log) \in Seq(Lines)
      BY <1>8 DEF Deliver
    <2>2. status' \in Statuses /\ row' \in Statuses
      <3>1. Head(log) \in Lines
        BY <1>8 DEF Deliver
      <3> QED
        BY <1>8, <3>1 DEF Deliver, Mirror
    <2> QED
      BY <1>8, <2>1, <2>2 DEF Deliver
  <1>9. CASE Crash
    <2> PICK alive \in {trainer, "none"} :
           /\ trainer' = alive
           /\ taken' = IF alive = "none" THEN None ELSE taken
           /\ IF alive = "none" /\ row = "paused" /\ runs < MaxRuns
              THEN /\ slot' = "pause" /\ slotRun' = runs + 1 /\ runs' = runs + 1
                   /\ launch' = "spawn" /\ relaunch' = TRUE /\ lost' = FALSE
                   /\ status' = "running" /\ UNCHANGED row
              ELSE /\ status' = IF alive = "none" THEN "ended" ELSE row
                   /\ row' = status'
                   /\ UNCHANGED <<slot, slotRun, lost, launchVars>>
      BY <1>9 DEF Crash
    <2>1. crashes' \in 0 .. MaxCrashes /\ request' = Idle /\ linked' = FALSE
          /\ log' = log /\ requests' = requests
      BY <1>9 DEF Crash
    <2>2. request' \in Requests /\ RequestOf'
      BY <2>1 DEF Requests
    <2>3. trainer' \in Phases /\ taken' \in Signals \cup {None} /\ status' \in Statuses
          /\ row' \in Statuses
      OBVIOUS
    <2>4. lost' \in BOOLEAN /\ relaunch' \in BOOLEAN
      BY DEF launchVars
    <2>5. slot' \in Signals \cup {None, Torn} /\ slotRun' \in 0 .. MaxRuns
          /\ runs' \in 1 .. MaxRuns /\ launch' \in Stages
      BY DEF launchVars
    <2> QED
      BY <2>1, <2>2, <2>3, <2>4, <2>5 DEF Requests
  <1>10. CASE Load
    BY <1>10 DEF Load, trainerFrame, launchVars
  <1>11. CASE ReadSignal
    <2>1. log' \in Seq(Lines)
      BY <1>11 DEF ReadSignal
    <2> QED
      BY <1>11, <2>1 DEF ReadSignal, trainerFrame, launchVars
  <1>12. CASE ActOnSignal
    <2>1. log' \in Seq(Lines)
      BY <1>12 DEF ActOnSignal
    <2>2. lost' \in BOOLEAN
      BY <1>12 DEF ActOnSignal, TakesUnread
    <2>3. trainer' \in Phases /\ taken' \in Signals \cup {None}
      BY <1>12 DEF ActOnSignal
    <2>4. slot' \in Signals \cup {None, Torn} /\ linked' \in BOOLEAN
      BY <1>12 DEF ActOnSignal, ClearSignal
    <2> QED
      BY <1>12, <2>1, <2>2, <2>3, <2>4 DEF ActOnSignal, trainerFrame, launchVars
  <1>13. CASE Leave
    <2>1. log' \in Seq(Lines)
      BY <1>13 DEF Leave
    <2> QED
      BY <1>13, <2>1 DEF Leave, trainerFrame, launchVars
  <1>14. CASE UNCHANGED vars
    BY <1>14 DEF vars
  <1> QED
    BY <1>1, <1>2, <1>3, <1>4, <1>5, <1>6, <1>7, <1>8, <1>9, <1>10, <1>11, <1>12,
       <1>13, <1>14 DEF Next, Backend, Trainer, User

\* Whatever the requests, runs and crashes, every variable keeps its type.
THEOREM TypesHold == Spec => []TypeOK
  <1> QED
    BY InitTypes, NextTypes, PTL DEF Spec, TypeInv

-----------------------------------------------------------------------------
(* Signals of earlier runs.                                                *)

\* A file that a request has open is empty.
Linked == linked => slot = Torn /\ request.at = "opened"

\* Only a trainer at work has read a signal, and it reads a pause while it
\* trains.
Taking ==
  /\ taken # None => trainer \in {"stepping", "paused"}
  /\ taken = "pause" => trainer = "stepping"

\* Before the spawn there is no trainer.
Launching == launch \in {"clear", "spawn"} => trainer = "none"

\* Once start_job has cleared the folder, the signal in it is of this run.
Fresh == launch # "clear" /\ slot \in Signals => slotRun = runs

OwnInv == TypeInv /\ Linked /\ Taking /\ Launching /\ Fresh /\ ObeysOwnSignals

LEMMA InitOwn == Init => OwnInv
  <1> SUFFICES ASSUME Init PROVE OwnInv
    OBVIOUS
  <1> QED
    BY InitTypes DEF Init, OwnInv, Linked, Taking, Launching, Fresh, ObeysOwnSignals

LEMMA NextOwn == OwnInv /\ [Next]_vars => OwnInv'
  <1> SUFFICES ASSUME OwnInv, [Next]_vars PROVE OwnInv'
    OBVIOUS
  <1>0. TypeInv'
    BY NextTypes DEF OwnInv
  <1>00. slot \in Signals \cup {None, Torn} /\ request \in Requests /\ trainer \in Phases
         /\ taken \in Signals \cup {None} /\ runs \in Nat /\ slotRun \in Nat
    BY DEF OwnInv, TypeInv, TypeOK, Requests
  <1> USE <1>0, <1>00 DEF OwnInv, Linked, Taking, Launching, Fresh, ObeysOwnSignals
  <1>1. CASE StartJob
    BY <1>1 DEF StartJob
  <1>2. CASE ClearStale
    BY <1>2 DEF ClearStale, ClearSignal
  <1>3. CASE Spawn \/ Flip \/ Repause
    BY <1>3 DEF Spawn, Flip, Repause
  <1>4. ASSUME NEW op \in Signals, Ask(op) PROVE OwnInv'
    BY <1>4 DEF Ask
  <1>5. CASE OpenSignal
    BY <1>5 DEF OpenSignal, Requests
  <1>6. CASE WriteSignal
    BY <1>6 DEF WriteSignal
  <1>7. CASE Answer
    BY <1>7 DEF Answer
  <1>8. CASE Deliver
    BY <1>8 DEF Deliver
  <1>9. CASE Crash
    BY <1>9 DEF Crash, launchVars
  <1>10. CASE Load
    BY <1>10 DEF Load, trainerFrame, launchVars
  <1>11. CASE ReadSignal
    BY <1>11 DEF ReadSignal, trainerFrame, launchVars
  <1>12. CASE ActOnSignal
    BY <1>12 DEF ActOnSignal, ClearSignal, trainerFrame, launchVars
  <1>13. CASE Leave
    BY <1>13 DEF Leave, trainerFrame, launchVars
  <1>14. CASE UNCHANGED vars
    BY <1>14 DEF vars
  <1> QED
    BY <1>1, <1>2, <1>3, <1>4, <1>5, <1>6, <1>7, <1>8, <1>9, <1>10, <1>11, <1>12,
       <1>13, <1>14 DEF Next, Backend, Trainer, User

\* A trainer never obeys a signal from before its own launch, for any number of
\* requests, runs and crashes.
THEOREM OwnSignals == Spec => []ObeysOwnSignals
  <1> QED
    BY InitOwn, NextOwn, PTL DEF Spec, OwnInv

-----------------------------------------------------------------------------
(* The status.  It is wrong only while something is on its way that will   *)
(* put it right: a line of the log, or a signal the trainer will answer    *)
(* with one, or the end of a request.                                      *)

Training == trainer \in {"loading", "stepping", "paused"}

\* The trainer is paused, or has announced that it will be.
Pausing == trainer = "paused" \/ taken = "pause"

\* The last line of the log tells whether the trainer is paused.
LogTells ==
  Training /\ log # << >> => log[Len(log)] = IF Pausing THEN "paused" ELSE "resumed"

\* An exit line is a trainer's last; a launch starts with an empty log, which
\* nobody reads before the row is flipped.
Logged ==
  /\ trainer # "none" => \A i \in 1 .. Len(log) : log[i] # "exit"
  /\ launch \in {"clear", "spawn"} => log = << >>
  /\ launch = "flip" /\ Pausing => log # << >>
  /\ trainer # "none" \/ launch # "none" => status # "ended"

\* The word of a request that is not answered yet is to be read, or was read
\* and obeyed.
Sent ==
  request.at = "sent" =>
    /\ slotRun = runs
    /\ Training \/ launch \in {"clear", "spawn"} =>
         /\ request.op = "pause" =>
              slot = "pause" \/ (slot = None /\ taken = None /\ trainer = "paused")
         /\ request.op = "resume" =>
              slot = "resume" \/ (slot = None /\ taken = None /\ trainer = "stepping")

\* Nothing on its way, or the status is right.
Answered ==
  Training /\ launch = "none" /\ log = << >> =>
    /\ Pausing /\ status = "running" =>
         \/ {slot, taken} \cap {"resume", "soft_stop"} # {}
         \/ request.at = "opened"
         \/ request.at = "sent" /\ request.op = "pause"
    /\ ~ Pausing /\ status = "paused" =>
         \/ slot \in {"pause", "soft_stop"} \/ taken = "soft_stop"
         \/ request.at = "opened"
         \/ request.at = "sent" /\ request.op = "resume"

HonestInv ==
  crashes = 0 =>
    /\ ~ relaunch /\ launch # "repause"
    /\ LogTells /\ Logged
    /\ ~ lost => Sent /\ Answered

NoExit(s) == \A i \in 1 .. Len(s) : s[i] # "exit"

LEMMA AppendLast ==
  ASSUME NEW s \in Seq(Lines), NEW line \in Lines
  PROVE  /\ Append(s, line) # << >>
         /\ Append(s, line)[Len(Append(s, line))] = line
         /\ NoExit(s) /\ line # "exit" => NoExit(Append(s, line))
  <1>1. Append(s, line) # << >> /\ Append(s, line)[Len(Append(s, line))] = line
    OBVIOUS
  <1>2. ASSUME NoExit(s), line # "exit", NEW i \in 1 .. Len(Append(s, line))
        PROVE  Append(s, line)[i] # "exit"
    BY <1>2 DEF NoExit
  <1> QED
    BY <1>1, <1>2 DEF NoExit

LEMMA TailLast ==
  ASSUME NEW s \in Seq(Lines), s # << >>
  PROVE  /\ Head(s) = s[1] /\ 1 \in 1 .. Len(s)
         /\ Tail(s) # << >> => Tail(s)[Len(Tail(s))] = s[Len(s)]
         /\ Tail(s) = << >> => s[Len(s)] = Head(s)
         /\ NoExit(s) => NoExit(Tail(s))
  <1>1. Head(s) = s[1] /\ Len(Tail(s)) = Len(s) - 1 /\ Len(s) \in Nat \ {0}
        /\ \A i \in 1 .. Len(s) - 1 : Tail(s)[i] = s[i + 1]
    OBVIOUS
  <1>2. Tail(s) \in Seq(Lines)
    OBVIOUS
  <1>3. ASSUME NoExit(s), NEW i \in 1 .. Len(Tail(s)) PROVE Tail(s)[i] # "exit"
    BY <1>1, <1>3 DEF NoExit
  <1>4. Tail(s) = << >> => Len(Tail(s)) = 0
    <2>1. Len(<< >>) = 0
      OBVIOUS
    <2> QED
      BY <2>1, Zenon
  <1>5. Tail(s) # << >> => Len(Tail(s)) > 0
    BY <1>2
  <1> QED
    BY <1>1, <1>2, <1>3, <1>4, <1>5 DEF NoExit

LEMMA InitHonest == Init => HonestInv
  BY DEF Init, HonestInv, LogTells, Logged, Training, Pausing, Sent, Answered

LEMMA NextHonest == OwnInv /\ HonestInv /\ [Next]_vars => HonestInv'
  <1> SUFFICES ASSUME OwnInv, HonestInv, [Next]_vars, crashes' = 0
               PROVE  (~ relaunch /\ launch # "repause" /\ LogTells /\ Logged
                       /\ (~ lost => Sent /\ Answered))'
    BY DEF HonestInv
  <1>0. slot \in Signals \cup {None, Torn} /\ request \in Requests /\ trainer \in Phases
        /\ taken \in Signals \cup {None} /\ runs \in Nat /\ slotRun \in Nat
        /\ log \in Seq(Lines) /\ status \in Statuses /\ crashes \in Nat /\ launch \in Stages
    BY DEF OwnInv, TypeInv, TypeOK, Requests
  <1> USE <1>0
  <1>00. crashes = 0
    <2>1. CASE Crash
      BY <2>1 DEF Crash
    <2>2. CASE Backend
      BY <2>2 DEF Backend, ClearStale, Spawn, Flip, Repause, OpenSignal, WriteSignal, Answer, Deliver
    <2>3. CASE Trainer
      BY <2>3 DEF Trainer, Load, ReadSignal, ActOnSignal, trainerFrame
    <2>4. CASE User
      BY <2>4 DEF User, StartJob, Ask
    <2>5. CASE Leave
      BY <2>5 DEF Leave, trainerFrame
    <2>6. CASE UNCHANGED vars
      BY <2>6 DEF vars
    <2> QED
      BY <2>1, <2>2, <2>3, <2>4, <2>5, <2>6 DEF Next
  <1>000. ~ relaunch /\ launch # "repause" /\ LogTells /\ Logged /\ (~ lost => Sent /\ Answered)
    BY <1>00 DEF HonestInv
  <1> USE <1>000
  <1> USE DEF LogTells, Logged, Sent, Answered, Training, Pausing, OwnInv, Linked, Taking,
              Launching, Fresh, ObeysOwnSignals
  <1>1. CASE StartJob
    <2>1. request.at = "sent" => lost'
      <3>1. lost' = (request # Idle)
        BY <1>1 DEF StartJob
      <3>2. Idle.at = "idle"
        OBVIOUS
      <3> QED
        BY <3>1, <3>2, Zenon
    <2>2. launch' = "clear" /\ relaunch' = FALSE /\ trainer' = "none" /\ log' = << >>
          /\ status' = "running" /\ taken' = taken /\ request' = request
      BY <1>1 DEF StartJob
    <2> QED
      BY <2>1, <2>2
  <1>2. CASE ClearStale
    BY <1>2 DEF ClearStale, ClearSignal, TakesUnread
  <1>3. CASE Spawn \/ Flip \/ Repause
    BY <1>3 DEF Spawn, Flip, Repause
  <1>4. ASSUME NEW op \in Signals, Ask(op) PROVE (~ relaunch /\ launch # "repause" /\ LogTells
                  /\ Logged /\ (~ lost => Sent /\ Answered))'
    BY <1>4 DEF Ask
  <1>5. CASE OpenSignal
    BY <1>5 DEF OpenSignal, Requests
  <1>6. CASE WriteSignal
    BY <1>6 DEF WriteSignal, Requests, TypeInv, RequestOf
  <1>7. CASE Answer
    BY <1>7 DEF Answer, Requests, TypeInv, RequestOf
  <1>8. CASE Deliver
    <2>1. log # << >> /\ launch = "none" /\ log' = Tail(log) /\ launch' = launch
          /\ trainer' = trainer /\ taken' = taken /\ slot' = slot /\ request' = request
          /\ lost' = lost /\ relaunch' = relaunch /\ slotRun' = slotRun /\ runs' = runs
      BY <1>8 DEF Deliver
    <2>2. Head(log) \in Lines
      BY <2>1
    <2>3. LogTells'
      BY <2>1, TailLast
    <2>4. NoExit(log) => NoExit(log')
      BY <2>1, TailLast
    <2>5. trainer # "none" => Head(log) # "exit"
      BY <2>1, TailLast
    <2>6. trainer # "none" => status' # "ended"
      BY <1>8, <2>2, <2>5 DEF Deliver, Mirror
    <2>7. Logged'
      BY <2>1, <2>4, <2>6 DEF NoExit
    <2>8. Training /\ log' = << >> => Head(log) = IF Pausing THEN "paused" ELSE "resumed"
      BY <2>1, TailLast
    <2>9. Training /\ log' = << >> => status' = IF Pausing THEN "paused" ELSE "running"
      BY <1>8, <2>1, <2>8 DEF Deliver, Mirror
    <2>10. ~ lost' => Sent' /\ Answered'
      BY <2>1, <2>9
    <2> QED
      BY <2>1, <2>3, <2>7, <2>10
  <1>9. CASE Crash
    BY <1>9, <1>00 DEF Crash
  <1>10. CASE Load
    BY <1>10 DEF Load, trainerFrame, launchVars
  <1>11. CASE ReadSignal
    <2>1. taken = None /\ slot \in Signals /\ taken' = slot /\ trainer' = trainer
          /\ slot' = slot /\ slotRun' = slotRun /\ linked' = linked /\ lost' = lost
          /\ request' = request /\ status' = status /\ launch' = launch
          /\ relaunch' = relaunch /\ runs' = runs
      BY <1>11 DEF ReadSignal, trainerFrame, launchVars
    <2>2. trainer = "stepping" \/ (trainer = "paused" /\ slot \in {"resume", "soft_stop"})
      BY <1>11 DEF ReadSignal
    <2>3. CASE trainer = "stepping" /\ slot = "pause"
      <3>1. log' = Append(log, "paused")
        BY <1>11, <2>3 DEF ReadSignal
      <3>2. log' # << >> /\ log'[Len(log')] = "paused" /\ NoExit(log')
        BY <3>1, <2>3, AppendLast DEF NoExit
      <3>3. LogTells'
        BY <2>1, <2>3, <3>2
      <3>4. Logged'
        BY <2>1, <2>3, <3>2 DEF NoExit
      <3>5. ~ lost' => Sent' /\ Answered'
        BY <2>1, <2>3, <3>2
      <3> QED
        BY <2>1, <3>3, <3>4, <3>5
    <2>4. CASE ~ (trainer = "stepping" /\ slot = "pause")
      <3>1. log' = log
        BY <1>11, <2>4 DEF ReadSignal
      <3> QED
        BY <2>1, <2>2, <2>4, <3>1
    <2> QED
      BY <2>3, <2>4
  <1>12. CASE ActOnSignal
    <2>1. taken # None /\ taken' = None /\ slotRun' = slotRun /\ request' = request
          /\ status' = status /\ launch' = launch /\ relaunch' = relaunch /\ runs' = runs
      BY <1>12 DEF ActOnSignal, trainerFrame, launchVars
    <2>2. /\ taken = "pause" => trainer' = "paused"
          /\ taken = "resume" => trainer' = "stepping"
          /\ taken = "soft_stop" => trainer' = "saving"
      BY <1>12 DEF ActOnSignal
    <2>3. slot' = slot \/ slot' = None
      BY <1>12 DEF ActOnSignal, ClearSignal
    <2>4. ~ lost' => ~ lost /\ (slot \in Signals => slot = taken)
      BY <1>12 DEF ActOnSignal, ClearSignal, TakesUnread
    <2>5. launch \notin {"clear", "spawn"}
      BY <2>1
    <2>6. CASE trainer = "paused" /\ taken = "resume"
      <3>1. log' = Append(log, "resumed")
        BY <1>12, <2>6 DEF ActOnSignal
      <3>2. log' # << >> /\ log'[Len(log')] = "resumed" /\ NoExit(log')
        BY <3>1, <2>6, AppendLast DEF NoExit
      <3>3. LogTells'
        BY <2>1, <2>2, <2>6, <3>2
      <3>4. Logged'
        BY <2>1, <2>2, <2>5, <2>6, <3>2 DEF NoExit
      <3>5. ~ lost' => Sent' /\ Answered'
        BY <2>1, <2>2, <2>3, <2>4, <2>5, <2>6, <3>2
      <3> QED
        BY <2>1, <3>3, <3>4, <3>5
    <2>7. CASE ~ (trainer = "paused" /\ taken = "resume")
      <3>1. log' = log
        BY <1>12, <2>7 DEF ActOnSignal
      <3> QED
        BY <2>1, <2>2, <2>3, <2>4, <2>5, <2>7, <3>1
    <2> QED
      BY <2>6, <2>7
  <1>13. CASE Leave
    BY <1>13, AppendLast DEF Leave, trainerFrame, launchVars
  <1>14. CASE UNCHANGED vars
    BY <1>14 DEF vars
  <1> QED
    BY <1>1, <1>2, <1>3, <1>4, <1>5, <1>6, <1>7, <1>8, <1>9, <1>10, <1>11, <1>12,
       <1>13, <1>14 DEF Next, Backend, Trainer, User

\* When everything is read and said, the status shows PAUSED for exactly the
\* blocked trainers, for any number of requests and runs.
THEOREM HonestStatus == Spec => []StatusHonest
  <1>1. OwnInv /\ HonestInv => StatusHonest
    BY DEF OwnInv, TypeInv, TypeOK, HonestInv, StatusHonest, Settled, Logged, Answered, Training, Pausing
  <1> QED
    BY <1>1, InitOwn, NextOwn, InitHonest, NextHonest, PTL DEF Spec
=============================================================================

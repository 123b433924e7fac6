---------------------------- MODULE LogTailProofs ----------------------------
(***************************************************************************)
(* Proofs about LogTail. Unless a theorem says otherwise the handlers are  *)
(* quick: a join waits for the end of its thread, and a tailer that        *)
(* stopped itself does not save again.                                     *)
(***************************************************************************)
EXTENDS LogTail, TLAPS

-----------------------------------------------------------------------------
(* Types.                                                                  *)

\* A line in hand is one: the line that raised can be taken back.
TypeInv == TypeOK /\ \A t \in Tailers :
  tailer[t].pc \in {"dispatch", "return"} => tailer[t].pos \in Lines

-----------------------------------------------------------------------------
(* The invariant.                                                          *)

\* The tailer that may still deliver: registered, or being joined.
Current(t) == t \in {attached, stopping}

\* At most one tailer is current; the others have ended, or have stopped
\* themselves and are on their way out.
Control ==
  /\ \A t \in Tailers : /\ tailer[t].pc = "none" <=> t > made
                        /\ tailer[t].pc = "none" => ~tailer[t].stop
  /\ attached = NoTailer \/ stopping = NoTailer
  /\ \A t \in Tailers : Current(t) => t <= made /\ tailer[t].pc # "return"
  /\ \A t \in Tailers : attached = t => ~tailer[t].stop
  /\ \A t \in Tailers : ~Current(t) =>
       \/ tailer[t].pc \in {"none", "ended"}
       \/ tailer[t].stop /\ tailer[t].pc \in {"return", "save", "poll"}

\* Logs that are still to come, and one that is not there, are empty.
Future ==
  \A g \in Logs : g > live \/ (g = live /\ ~present) =>
    lines[g] = 0 /\ \A k \in Lines : times[g][k] = 0

\* The current tailer reads the live log, and its offset is where it reads.
Place ==
  /\ saved <= lines[live]
  /\ \A t \in Tailers : Current(t) =>
       /\ tailer[t].offset <= lines[live]
       /\ tailer[t].pc \in {"poll", "read", "dispatch", "save"} =>
            tailer[t].log = live /\ tailer[t].pos = tailer[t].offset

\* The current tailer has line k in hand.
Holds(t, k) == tailer[t].pc = "dispatch" /\ tailer[t].pos = k

\* Nothing before an offset is unhandled, but a line in hand.
Behind ==
  \A k \in Lines \ Unparseable :
    /\ k <= saved => times[live][k] > 0
    /\ \A t \in Tailers : Current(t) /\ k <= tailer[t].offset /\ ~Holds(t, k)
                            => times[live][k] > 0

\* Nothing after an offset was handled, nor a line in hand, as long as nothing
\* went wrong.
Ahead ==
  crashes = 0 /\ failures = 0 =>
    /\ \A g \in Logs, k \in Lines : times[g][k] <= 1
    /\ \A k \in Lines :
         /\ attached = NoTailer /\ stopping = NoTailer /\ k > saved
              => times[live][k] = 0
         /\ \A t \in Tailers : Current(t) /\ (k > tailer[t].offset \/ Holds(t, k))
              => times[live][k] = 0

TailInv == TypeInv /\ Control /\ Future /\ Place /\ Behind /\ Ahead

-----------------------------------------------------------------------------
(* Types are kept.                                                         *)

\* What a tailer object can be.
TailerRecord == [pc : Steps, log : Logs, pos : 0 .. MaxLines,
                 offset : 0 .. MaxLines, stop : BOOLEAN]

\* The types hold at the start and each step keeps them.
LEMMA TypeInvInit == Init => TypeInv
<1> SUFFICES ASSUME Init PROVE TypeInv
  OBVIOUS
<1>1. /\ 0 \in 0 .. MaxLines /\ 0 \in 0 .. MaxTailers /\ 1 \in Logs
      /\ 0 \in 0 .. MaxCrashes /\ 0 \in 0 .. MaxFailures
  BY LogTailAssumption DEF Logs
<1>2. Unused \in TailerRecord BY <1>1 DEF Unused, TailerRecord, Steps
<1>3. /\ tailer \in [Tailers -> TailerRecord]
      /\ \A t \in Tailers : tailer[t].pc = "none"
  BY <1>2 DEF Init, Unused
<1>4. /\ lines \in [Logs -> 0 .. MaxLines]
      /\ times \in [Logs -> [Lines -> Nat]]
  BY <1>1 DEF Init
<1>5. QED BY <1>1, <1>3, <1>4 DEF Init, TypeInv, TypeOK, TailerRecord

\* Counters stay within their bounds.
LEMMA Counting == \A m \in Nat :
  /\ \A n \in 0 .. m : n < m => n + 1 \in 0 .. m
  /\ \A n \in 1 .. m : n - 1 \in 0 .. m
  OBVIOUS

LEMMA TypeInvStep == TypeInv /\ [Next]_vars => TypeInv'
<1> SUFFICES ASSUME TypeInv, [Next]_vars PROVE TypeInv'
  OBVIOUS
<1> USE LogTailAssumption DEF TypeInv, TypeOK, fileVars
<1>a. /\ {MaxLines, MaxTailers, MaxCrashes, MaxFailures, MaxLogs} \subseteq Nat
      /\ Lines = 1 .. MaxLines /\ Logs = 1 .. MaxLogs /\ Tailers = 1 .. MaxTailers
  BY DEF Lines, Logs, Tailers
<1>b. \A t \in Tailers : tailer[t] \in TailerRecord
  BY DEF TailerRecord
<1>c. ASSUME NEW t \in Tailers, NEW r \in TailerRecord,
             tailer' = [tailer EXCEPT ![t] = r],
             r.pc \in {"dispatch", "return"} => r.pos \in Lines
      PROVE  /\ tailer' \in [Tailers -> TailerRecord]
             /\ \A u \in Tailers :
                  tailer'[u].pc \in {"dispatch", "return"} => tailer'[u].pos \in Lines
  BY <1>b, <1>c
<1>1. CASE CreateLog BY <1>1 DEF CreateLog
<1>2. CASE Write
  <2>1. lines[live] + 1 \in 0 .. MaxLines BY <1>2, <1>a, Counting DEF Write
  <2>2. lines' \in [Logs -> 0 .. MaxLines] BY <1>2, <2>1 DEF Write
  <2>3. QED BY <1>2, <2>2 DEF Write
<1>3. CASE Rotate
  <2>1. live' \in Logs /\ saved' \in 0 .. MaxLines BY <1>3, <1>a DEF Rotate
  <2>2. QED BY <1>3, <2>1 DEF Rotate
<1>4. CASE Crash
  <2>1. crashes' \in 0 .. MaxCrashes BY <1>4, <1>a, Counting DEF Crash
  <2>2. \A t \in Tailers : [tailer[t] EXCEPT !.pc = "ended"] \in TailerRecord
    BY <1>b DEF TailerRecord, Steps
  <2>3. tailer' \in [Tailers -> TailerRecord] BY <1>4, <1>b, <2>2 DEF Crash
  <2>4. \A t \in Tailers : tailer'[t].pc \notin {"dispatch", "return"}
    BY <1>4, <1>b DEF Crash, TailerRecord
  <2>5. QED BY <1>4, <2>1, <2>3, <2>4 DEF Crash, TailerRecord
<1>5. ASSUME NEW t \in Tailers, Attach(t) PROVE TypeInv'
  <2> DEFINE r == [tailer[t] EXCEPT !.pc = "open", !.offset = saved]
  <2>1. r \in TailerRecord /\ r.pc = "open" BY <1>b DEF TailerRecord, Steps
  <2>2. tailer' = [tailer EXCEPT ![t] = r] BY <1>5 DEF Attach
  <2>3. made' \in 0 .. MaxTailers BY <1>5, <1>a DEF Attach
  <2> HIDE DEF r
  <2>4. QED BY <1>5, <1>c, <2>1, <2>2, <2>3 DEF Attach, TailerRecord
<1>6. ASSUME NEW t \in Tailers, StopBegin(t) PROVE TypeInv'
  BY <1>6 DEF StopBegin, Steps
<1>7. ASSUME NEW t \in Tailers, StopEnd(t) PROVE TypeInv'
  BY <1>7 DEF StopEnd
<1>8. ASSUME NEW t \in Tailers, Open(t) PROVE TypeInv'
  <2> DEFINE start == IF lines[live] < tailer[t].offset THEN 0 ELSE tailer[t].offset
             r == IF tailer[t].stop
                  THEN [tailer[t] EXCEPT !.pc = "ended"]
                  ELSE [tailer[t] EXCEPT !.pc = "poll", !.log = live,
                                         !.offset = start, !.pos = start]
  <2>a. tailer[t].offset \in 0 .. MaxLines /\ 0 \in 0 .. MaxLines
    BY <1>a, <1>b DEF TailerRecord
  <2>1. start \in 0 .. MaxLines BY <2>a
  <2>2. tailer' = [tailer EXCEPT ![t] = r] BY <1>8 DEF Open
  <2> HIDE DEF start
  <2>3. r \in TailerRecord /\ r.pc \notin {"dispatch", "return"}
    BY <1>b, <2>1 DEF TailerRecord, Steps
  <2> HIDE DEF r
  <2>4. QED BY <1>8, <1>c, <2>2, <2>3 DEF Open, TailerRecord
<1>9. ASSUME NEW t \in Tailers, Poll(t) PROVE TypeInv'
  BY <1>9 DEF Poll, Steps
<1>10. ASSUME NEW t \in Tailers, AtEnd(t) PROVE TypeInv'
  <2> DEFINE p == IF present /\ lines[live] < tailer[t].pos THEN 0 ELSE tailer[t].pos
             r == [tailer[t] EXCEPT !.pc = "poll", !.pos = p]
  <2>a. tailer[t].pos \in 0 .. MaxLines /\ 0 \in 0 .. MaxLines
    BY <1>a, <1>b DEF TailerRecord
  <2>1. p \in 0 .. MaxLines BY <2>a
  <2>2. tailer' = [tailer EXCEPT ![t] = r] BY <1>10 DEF AtEnd
  <2> HIDE DEF p
  <2>3. r \in TailerRecord /\ r.pc \notin {"dispatch", "return"}
    BY <1>b, <2>1 DEF TailerRecord, Steps
  <2> HIDE DEF r
  <2>4. QED BY <1>10, <1>c, <2>2, <2>3 DEF AtEnd, TailerRecord
<1>11. ASSUME NEW t \in Tailers, Read(t) PROVE TypeInv'
  <2> DEFINE k == tailer[t].pos + 1
             r == [tailer[t] EXCEPT !.pos = k, !.offset = k,
                     !.pc = IF k \in Unparseable THEN "save" ELSE "dispatch"]
  <2>a. tailer[t].pos \in 0 .. MaxLines /\ lines[tailer[t].log] \in 0 .. MaxLines
    BY <1>b DEF TailerRecord
  <2>b. k <= lines[tailer[t].log] BY <1>11 DEF Read
  <2>c. \A m \in 0 .. MaxLines, n \in 0 .. MaxLines :
          m + 1 <= n => m + 1 \in 1 .. MaxLines /\ m + 1 \in 0 .. MaxLines
    BY <1>a
  <2>1. k \in Lines /\ k \in 0 .. MaxLines BY <1>a, <2>a, <2>b, <2>c
  <2>2. tailer' = [tailer EXCEPT ![t] = r] BY <1>11 DEF Read
  <2> HIDE DEF k
  <2>3. r \in TailerRecord /\ r.pos \in Lines
    BY <1>b, <2>1 DEF TailerRecord, Steps
  <2> HIDE DEF r
  <2>4. QED BY <1>11, <1>c, <2>2, <2>3 DEF Read, TailerRecord
<1>12. ASSUME NEW t \in Tailers, StopSelf(t) PROVE TypeInv'
  <2> DEFINE r == [tailer[t] EXCEPT !.stop = TRUE, !.pc = "return"]
  <2>1. tailer[t].pos \in Lines BY <1>12 DEF StopSelf
  <2>2. tailer' = [tailer EXCEPT ![t] = r] BY <1>12 DEF StopSelf
  <2>3. r \in TailerRecord /\ r.pos \in Lines
    BY <1>b, <2>1 DEF TailerRecord, Steps
  <2>4. times' \in [Logs -> [Lines -> Nat]] BY <1>12, <2>1 DEF StopSelf
  <2> HIDE DEF r
  <2>5. QED BY <1>12, <1>c, <2>2, <2>3, <2>4 DEF StopSelf, TailerRecord
<1>13. ASSUME NEW t \in Tailers, Return(t) PROVE TypeInv'
  BY <1>13 DEF Return, Steps
<1>14. ASSUME NEW t \in Tailers, Handled(t) PROVE TypeInv'
  <2> DEFINE r == [tailer[t] EXCEPT !.pc = "save"]
  <2>1. tailer[t].pos \in Lines BY <1>14 DEF Handled
  <2>2. tailer' = [tailer EXCEPT ![t] = r] BY <1>14 DEF Handled
  <2>3. r \in TailerRecord /\ r.pc = "save" BY <1>b DEF TailerRecord, Steps
  <2>4. times' \in [Logs -> [Lines -> Nat]] BY <1>14, <2>1 DEF Handled
  <2> HIDE DEF r
  <2>5. QED BY <1>14, <1>c, <2>2, <2>3, <2>4 DEF Handled, TailerRecord
<1>15. ASSUME NEW t \in Tailers, Fails(t) PROVE TypeInv'
  <2> DEFINE r == [tailer[t] EXCEPT !.pc = "ended", !.offset = tailer[t].pos - 1]
  <2>a. tailer[t].pos \in 1 .. MaxLines BY <1>15, <1>a DEF Fails
  <2>1. tailer[t].pos - 1 \in 0 .. MaxLines BY <1>a, <2>a, Counting
  <2>2. tailer' = [tailer EXCEPT ![t] = r] BY <1>15 DEF Fails
  <2>3. r \in TailerRecord /\ r.pc = "ended"
    BY <1>b, <2>1 DEF TailerRecord, Steps
  <2>4. failures' \in 0 .. MaxFailures BY <1>15, <1>a, Counting DEF Fails
  <2> HIDE DEF r
  <2>5. QED BY <1>15, <1>c, <2>2, <2>3, <2>4 DEF Fails, TailerRecord
<1>16. ASSUME NEW t \in Tailers, Save(t) PROVE TypeInv'
  BY <1>16 DEF Save, Steps
<1>17. CASE UNCHANGED vars BY <1>17 DEF vars
<1>18. QED
  BY <1>1, <1>2, <1>3, <1>4, <1>5, <1>6, <1>7, <1>8, <1>9, <1>10, <1>11, <1>12,
     <1>13, <1>14, <1>15, <1>16, <1>17 DEF Next, Step

\* Every variable always has its type.
THEOREM TypeCorrect == Spec => []TypeOK
<1>1. TypeInv => TypeOK BY DEF TypeInv
<1>2. QED BY <1>1, TypeInvInit, TypeInvStep, PTL DEF Spec

-----------------------------------------------------------------------------
(* Offsets.                                                                *)

\* What the types say, for the steps below.
Typed ==
  /\ lines \in [Logs -> Nat] /\ times \in [Logs -> [Lines -> Nat]]
  /\ live \in Logs /\ present \in BOOLEAN /\ saved \in Nat /\ made \in Nat
  /\ attached \in Tailers \cup {NoTailer} /\ stopping \in Tailers \cup {NoTailer}
  /\ crashes \in Nat /\ failures \in Nat
  /\ Logs \subseteq Nat /\ Lines \subseteq Nat \ {0} /\ Tailers \subseteq Nat \ {0}
  /\ NoTailer \notin Tailers
  /\ DOMAIN tailer = Tailers
  /\ \A t \in Tailers :
       /\ tailer[t].pc \in Steps /\ tailer[t].log \in Logs
       /\ tailer[t].pos \in Nat /\ tailer[t].offset \in Nat
       /\ tailer[t].stop \in BOOLEAN
       /\ tailer[t].pc \in {"dispatch", "return"} => tailer[t].pos \in Lines

\* They say it of a state and of the next one.
LEMMA TypesHold == (TypeInv => Typed) /\ (TypeInv' => Typed')
<1>1. /\ Logs \subseteq Nat /\ Lines \subseteq Nat \ {0} /\ Tailers \subseteq Nat \ {0}
      /\ \A n \in 0 .. MaxLines : n \in Nat
      /\ \A n \in 0 .. MaxTailers : n \in Nat
      /\ \A n \in 0 .. MaxCrashes : n \in Nat
      /\ \A n \in 0 .. MaxFailures : n \in Nat
      /\ NoTailer \notin Tailers
  BY LogTailAssumption DEF Lines, Logs, Tailers
<1>2. TypeInv => Typed BY <1>1 DEF TypeInv, TypeOK, Typed
<1>3. TypeInv' => Typed' BY <1>1 DEF TypeInv, TypeOK, Typed
<1>4. QED BY <1>2, <1>3

\* The offsets are right at the start.
LEMMA TailInvInit == Init => TailInv
<1> SUFFICES ASSUME Init PROVE TailInv
  OBVIOUS
<1>1. TypeInv /\ Typed BY TypeInvInit, TypesHold
<1>2. \A t \in Tailers : tailer[t] = Unused /\ t > 0 /\ ~Current(t)
  BY <1>1 DEF Init, Typed, Current
<1>3. Control BY <1>1, <1>2 DEF Init, Control, Unused, Typed
<1>4. Future BY <1>1 DEF Init, Future, Typed
<1>5. Place /\ Behind /\ Ahead BY <1>1, <1>2 DEF Init, Place, Behind, Ahead, Typed
<1>6. QED BY <1>1, <1>3, <1>4, <1>5 DEF TailInv

\* A trainer opens its log.
LEMMA CreateLogKeeps ==
  ASSUME ~SlowHandler, TailInv, CreateLog, TypeInv'
  PROVE  TailInv'
<1>1. Typed /\ Typed' BY TypesHold DEF TailInv
<1>2. Control'
  BY DEF CreateLog, TailInv, Control, Current
<1>3. Future'
  BY DEF CreateLog, TailInv, Future
<1>4. Place'
  BY DEF CreateLog, TailInv, Place, Current
<1>5. Behind'
  BY DEF CreateLog, TailInv, Behind, Current, Holds
<1>6. Ahead'
  BY <1>1 DEF CreateLog, TailInv, Ahead, Future, Typed
<1>7. QED BY <1>2, <1>3, <1>4, <1>5, <1>6 DEF TailInv

\* A line more in the live log: only the current tailer looks there.
LEMMA WriteKeeps ==
  ASSUME ~SlowHandler, TailInv, Write, TypeInv'
  PROVE  TailInv'
<1>1. Typed /\ Typed' BY TypesHold DEF TailInv
<1>2. Control'
  BY DEF Write, TailInv, Control, Current
<1>3. Future'
  BY <1>1 DEF Write, TailInv, Future, Typed
<1>4. Place'
  BY <1>1 DEF Write, TailInv, Place, Current, Typed
<1>5. Behind'
  BY DEF Write, TailInv, Behind, Current, Holds
<1>6. Ahead'
  BY DEF Write, TailInv, Ahead, Current, Holds
<1>7. QED BY <1>2, <1>3, <1>4, <1>5, <1>6 DEF TailInv

\* No tailer is current, the next log is empty, the offset is gone.
LEMMA RotateKeeps ==
  ASSUME ~SlowHandler, TailInv, Rotate, TypeInv'
  PROVE  TailInv'
<1>1. Typed /\ Typed' BY TypesHold DEF TailInv
<1>2. Control'
  BY DEF Rotate, TailInv, Control, Current
<1>3. Future'
  BY <1>1 DEF Rotate, TailInv, Future, Typed
<1>4. Place'
  BY <1>1 DEF Rotate, Place, Current, Typed
<1>5. Behind'
  BY <1>1 DEF Rotate, Behind, Current, Typed
<1>6. Ahead'
  BY <1>1 DEF Rotate, TailInv, Ahead, Future, Typed
<1>7. QED BY <1>2, <1>3, <1>4, <1>5, <1>6 DEF TailInv

\* No tailer is current any more; the saved offset stays.
LEMMA CrashKeeps ==
  ASSUME ~SlowHandler, TailInv, Crash, TypeInv'
  PROVE  TailInv'
<1>1. Typed /\ Typed' BY TypesHold DEF TailInv
<1>2. Control'
  BY <1>1 DEF Crash, TailInv, Control, Current, Typed
<1>3. Future'
  BY DEF Crash, TailInv, Future, fileVars
<1>4. Place'
  BY <1>1 DEF Crash, TailInv, Place, Current, Typed, fileVars
<1>5. Behind'
  BY <1>1 DEF Crash, TailInv, Behind, Current, Typed, fileVars
<1>6. Ahead'
  BY <1>1 DEF Crash, Ahead, Typed
<1>7. QED BY <1>2, <1>3, <1>4, <1>5, <1>6 DEF TailInv

\* The new tailer starts where the saved offset is.
LEMMA AttachKeeps ==
  ASSUME ~SlowHandler, TailInv, NEW t \in Tailers, Attach(t), TypeInv'
  PROVE  TailInv'
<1>1. Typed /\ Typed' BY TypesHold DEF TailInv
<1>2. \A u \in Tailers : u # t => tailer'[u] = tailer[u]
  BY <1>1 DEF Attach, Typed
<1>3. /\ tailer'[t].pc = "open" /\ tailer'[t].offset = saved
      /\ tailer'[t].stop = tailer[t].stop
  BY <1>1 DEF Attach, Typed
<1>4. /\ tailer[t].pc = "none" /\ ~tailer[t].stop
      /\ \A u \in Tailers : Current(u)' <=> u = t
      /\ \A u \in Tailers : ~Current(u)
  BY <1>1 DEF Attach, TailInv, Control, Current, Typed
<1>5. \A u \in Tailers : tailer'[u].pc = "none" <=> u > made'
  <2>1. made \in Nat /\ made' = made + 1 /\ t = made + 1
    BY <1>1 DEF Attach, Typed
  <2>2. \A u \in Tailers : tailer[u].pc = "none" <=> u > made
    BY DEF TailInv, Control
  <2>3. \A u \in Tailers : u # t => (u > made <=> u > made')
    BY <2>1
  <2>4. QED BY <1>1, <1>2, <1>3, <2>1, <2>2, <2>3 DEF Typed
<1>6. Control'
  BY <1>1, <1>4, <1>5 DEF Attach, TailInv, Control, Typed
<1>7. Future'
  BY DEF Attach, TailInv, Future, fileVars
<1>8. Place'
  BY <1>2, <1>3 DEF Attach, TailInv, Place, Current, fileVars
<1>9. Behind'
  BY <1>1 DEF Attach, TailInv, Behind, Current, Typed, fileVars
<1>10. Ahead'
  BY <1>1 DEF Attach, TailInv, Ahead, Current, Holds, Typed, fileVars
<1>11. QED BY <1>6, <1>7, <1>8, <1>9, <1>10 DEF TailInv

\* The tailer that was registered is the one being joined.
LEMMA StopBeginKeeps ==
  ASSUME ~SlowHandler, TailInv, NEW t \in Tailers, StopBegin(t), TypeInv'
  PROVE  TailInv'
<1>1. Typed /\ Typed' BY TypesHold DEF TailInv
<1>2. Control'
  BY <1>1 DEF StopBegin, TailInv, Control, Current, Typed
<1>3. Future'
  BY DEF StopBegin, TailInv, Future, fileVars
<1>4. Place'
  BY DEF StopBegin, TailInv, Place, Current, fileVars
<1>5. Behind'
  BY DEF StopBegin, TailInv, Behind, Current, Holds, fileVars
<1>6. Ahead'
  BY DEF StopBegin, TailInv, Ahead, Current, Holds, fileVars
<1>7. QED BY <1>2, <1>3, <1>4, <1>5, <1>6 DEF TailInv

\* The tailer has ended: its offset is right, and is the saved one.
LEMMA StopEndKeeps ==
  ASSUME ~SlowHandler, TailInv, NEW t \in Tailers, StopEnd(t), TypeInv'
  PROVE  TailInv'
<1>1. Typed /\ Typed' BY TypesHold DEF TailInv
<1>2. Control'
  BY DEF StopEnd, TailInv, Control, Current
<1>3. Future'
  BY DEF StopEnd, TailInv, Future, fileVars
<1>4. Place'
  BY <1>1 DEF StopEnd, TailInv, Place, Current, Typed, fileVars
<1>5. Behind'
  BY <1>1 DEF StopEnd, TailInv, Behind, Current, Holds, Typed, fileVars
<1>6. Ahead'
  BY <1>1 DEF StopEnd, TailInv, Ahead, Current, Holds, Typed, fileVars
<1>7. QED BY <1>2, <1>3, <1>4, <1>5, <1>6 DEF TailInv

\* The offset lies in the live log: reading starts there.
LEMMA OpenKeeps ==
  ASSUME ~SlowHandler, TailInv, NEW t \in Tailers, Open(t), TypeInv'
  PROVE  TailInv'
<1>1. Typed /\ Typed' BY TypesHold DEF TailInv
<1>2. \A u \in Tailers : u # t => tailer'[u] = tailer[u]
  BY <1>1 DEF Open, Typed
<1>3. Control'
  BY <1>1, <1>2 DEF Open, TailInv, Control, Current, Typed, fileVars
<1>4. Future'
  BY DEF Open, TailInv, Future, fileVars
<1>5. Place'
  BY <1>1 DEF Open, TailInv, Place, Current, Typed, fileVars
<1>6. Behind'
  BY <1>1 DEF Open, TailInv, Behind, Current, Holds, Typed, fileVars
<1>7. Ahead'
  BY <1>1 DEF Open, TailInv, Ahead, Place, Current, Holds, Typed, fileVars
<1>8. QED BY <1>3, <1>4, <1>5, <1>6, <1>7 DEF TailInv

\* One that is current goes on, or ends where it is.
LEMMA PollKeeps ==
  ASSUME ~SlowHandler, TailInv, NEW t \in Tailers, Poll(t), TypeInv'
  PROVE  TailInv'
<1>1. Control'
  BY DEF Poll, TailInv, Control, Current
<1>2. Future'
  BY DEF Poll, TailInv, Future, fileVars
<1>3. Place'
  BY DEF Poll, TailInv, Place, Current, fileVars
<1>4. Behind'
  BY DEF Poll, TailInv, Behind, Current, Holds, fileVars
<1>5. Ahead'
  BY DEF Poll, TailInv, Ahead, Current, Holds, fileVars
<1>6. QED BY <1>1, <1>2, <1>3, <1>4, <1>5 DEF TailInv

\* The live log is never shorter than what was read.
LEMMA AtEndKeeps ==
  ASSUME ~SlowHandler, TailInv, NEW t \in Tailers, AtEnd(t), TypeInv'
  PROVE  TailInv'
<1>1. Typed /\ Typed' BY TypesHold DEF TailInv
<1>2. \A u \in Tailers : u # t => tailer'[u] = tailer[u]
  BY <1>1 DEF AtEnd, Typed
<1>3. /\ tailer'[t].pc = "poll" /\ tailer'[t].offset = tailer[t].offset
      /\ ~(present /\ lines[live] < tailer[t].pos) => tailer'[t].pos = tailer[t].pos
      /\ tailer'[t].log = tailer[t].log /\ tailer'[t].stop = tailer[t].stop
  BY <1>1 DEF AtEnd, Typed
<1>4. Control'
  BY <1>1 DEF AtEnd, TailInv, Control, Current, Typed
<1>5. Future'
  BY DEF AtEnd, TailInv, Future, fileVars
<1>6. Place'
  BY <1>1 DEF AtEnd, TailInv, Place, Current, Typed, fileVars
<1>7. Behind'
  BY <1>2, <1>3 DEF AtEnd, TailInv, Behind, Current, Holds, fileVars
<1>8. Ahead'
  BY <1>2, <1>3 DEF AtEnd, TailInv, Ahead, Current, Holds, fileVars
<1>9. QED BY <1>4, <1>5, <1>6, <1>7, <1>8 DEF TailInv

\* The line read is the one in hand.
LEMMA ReadKeeps ==
  ASSUME ~SlowHandler, TailInv, NEW t \in Tailers, Read(t), TypeInv'
  PROVE  TailInv'
<1>1. Typed /\ Typed' BY TypesHold DEF TailInv
<1>2. \A u \in Tailers : u # t => tailer'[u] = tailer[u]
  BY <1>1 DEF Read, Typed
<1>3. /\ tailer'[t].pos = tailer[t].pos + 1 /\ tailer'[t].offset = tailer[t].pos + 1
      /\ tailer'[t].pc = IF tailer[t].pos + 1 \in Unparseable THEN "save" ELSE "dispatch"
      /\ tailer'[t].log = tailer[t].log /\ tailer'[t].stop = tailer[t].stop
  BY <1>1 DEF Read, Typed
<1>4. Control'
  BY <1>1 DEF Read, TailInv, Control, Current, Typed
<1>5. Future'
  BY DEF Read, TailInv, Future, fileVars
<1>6. Place'
  BY <1>2, <1>3 DEF Read, TailInv, Place, Current, fileVars
<1>7. Behind'
  <2>1. /\ Current(t) /\ tailer[t].offset = tailer[t].pos /\ tailer[t].pc = "read"
    BY DEF Read, TailInv, Control, Place, Current
  <2>2. \A k \in Lines \ Unparseable : k <= tailer'[t].offset /\ ~Holds(t, k)'
                                       => k <= tailer[t].offset
    BY <1>1, <1>3, <2>1 DEF Holds, Typed
  <2>3. QED
    BY <1>2, <2>2 DEF Read, TailInv, Behind, Current, Holds, fileVars
<1>8. Ahead'
  BY <1>1 DEF Read, TailInv, Ahead, Place, Current, Holds, Typed, fileVars
<1>9. QED BY <1>4, <1>5, <1>6, <1>7, <1>8 DEF TailInv

\* The line in hand is handled, and the offset saved is just past it.
LEMMA StopSelfKeeps ==
  ASSUME ~SlowHandler, TailInv, NEW t \in Tailers, StopSelf(t), TypeInv'
  PROVE  TailInv'
<1>1. Typed /\ Typed' BY TypesHold DEF TailInv
<1>2. Control'
  BY <1>1 DEF StopSelf, TailInv, Control, Current, Typed
<1>3. Future'
  BY <1>1 DEF StopSelf, TailInv, Future, Place, Current, Typed, fileVars
<1>4. Place'
  BY <1>1 DEF StopSelf, TailInv, Place, Current, Typed, fileVars
<1>5. Behind'
  BY <1>1 DEF StopSelf, TailInv, Behind, Place, Current, Holds, Typed, fileVars
<1>6. Ahead'
  BY <1>1 DEF StopSelf, TailInv, Ahead, Control, Place, Current, Holds, Typed,
     fileVars
<1>7. QED BY <1>2, <1>3, <1>4, <1>5, <1>6 DEF TailInv

\* The tailer that stopped itself is no longer current.
LEMMA ReturnKeeps ==
  ASSUME ~SlowHandler, TailInv, NEW t \in Tailers, Return(t), TypeInv'
  PROVE  TailInv'
<1>1. Control'
  BY DEF Return, TailInv, Control, Current
<1>2. Future'
  BY DEF Return, TailInv, Future, fileVars
<1>3. Place'
  BY DEF Return, TailInv, Place, Control, Current, fileVars
<1>4. Behind'
  BY DEF Return, TailInv, Behind, Current, Holds, fileVars
<1>5. Ahead'
  BY DEF Return, TailInv, Ahead, Current, Holds, fileVars
<1>6. QED BY <1>1, <1>2, <1>3, <1>4, <1>5 DEF TailInv

\* The line in hand is handled.
LEMMA HandledKeeps ==
  ASSUME ~SlowHandler, TailInv, NEW t \in Tailers, Handled(t), TypeInv'
  PROVE  TailInv'
<1>1. Typed /\ Typed' BY TypesHold DEF TailInv
<1>2. Control'
  BY DEF Handled, TailInv, Control, Current
<1>3. Future'
  BY <1>1 DEF Handled, TailInv, Future, Control, Place, Typed, fileVars
<1>4. Place'
  BY DEF Handled, TailInv, Place, Current, fileVars
<1>5. Behind'
  BY <1>1 DEF Handled, TailInv, Behind, Place, Current, Holds, Typed, fileVars
<1>6. Ahead'
  BY <1>1 DEF Handled, TailInv, Ahead, Control, Place, Current, Holds, Typed,
     fileVars
<1>7. QED BY <1>2, <1>3, <1>4, <1>5, <1>6 DEF TailInv

\* The line in hand is before the offset no more.
LEMMA FailsKeeps ==
  ASSUME ~SlowHandler, TailInv, NEW t \in Tailers, Fails(t), TypeInv'
  PROVE  TailInv'
<1>1. Typed /\ Typed' BY TypesHold DEF TailInv
<1>2. Control'
  BY <1>1 DEF Fails, TailInv, Control, Current, Typed
<1>3. Future'
  BY DEF Fails, TailInv, Future, fileVars
<1>4. Place'
  BY <1>1 DEF Fails, TailInv, Place, Control, Current, Typed, fileVars
<1>5. Behind'
  BY <1>1 DEF Fails, TailInv, Behind, Control, Place, Current, Holds, Typed,
     fileVars
<1>6. Ahead'
  BY <1>1 DEF Fails, Ahead, Typed
<1>7. QED BY <1>2, <1>3, <1>4, <1>5, <1>6 DEF TailInv

\* Only the current tailer saves.
LEMMA SaveKeeps ==
  ASSUME ~SlowHandler, TailInv, NEW t \in Tailers, Save(t), TypeInv'
  PROVE  TailInv'
<1>1. Control'
  BY DEF Save, TailInv, Control, Current
<1>2. Future'
  BY DEF Save, TailInv, Future, fileVars
<1>3. Place'
  BY DEF Save, TailInv, Place, Current, fileVars
<1>4. Behind'
  BY DEF Save, TailInv, Behind, Current, Holds, fileVars
<1>5. Ahead'
  BY DEF Save, TailInv, Ahead, Current, Holds, fileVars
<1>6. QED BY <1>1, <1>2, <1>3, <1>4, <1>5 DEF TailInv

-----------------------------------------------------------------------------
(* What follows.                                                           *)

\* Each step keeps the offsets right.
LEMMA TailInvStep == ASSUME ~SlowHandler PROVE TailInv /\ [Next]_vars => TailInv'
<1> SUFFICES ASSUME TailInv, [Next]_vars PROVE TailInv'
  OBVIOUS
<1>1. TypeInv' BY TypeInvStep DEF TailInv
<1>2. CASE UNCHANGED vars
  <2>1. Control' BY <1>2 DEF vars, TailInv, Control, Current
  <2>2. Future' /\ Place' BY <1>2 DEF vars, TailInv, Future, Place, Current
  <2>3. Behind' /\ Ahead' BY <1>2 DEF vars, TailInv, Behind, Ahead, Current, Holds
  <2>4. QED BY <1>1, <2>1, <2>2, <2>3 DEF TailInv
<1>3. QED
  BY <1>1, <1>2, CreateLogKeeps, WriteKeeps, RotateKeeps, CrashKeeps, AttachKeeps,
     StopBeginKeeps, StopEndKeeps, OpenKeeps, PollKeeps, AtEndKeeps, ReadKeeps,
     StopSelfKeeps, ReturnKeeps, HandledKeeps, FailsKeeps, SaveKeeps
  DEF Next, Step

\* With quick handlers the offsets are always right.
LEMMA TailInvHolds == ASSUME ~SlowHandler PROVE Spec => []TailInv
<1>1. TailInv /\ [Next]_vars => TailInv' BY TailInvStep
<1>2. QED BY <1>1, TailInvInit, PTL DEF Spec

\* With quick handlers no line before the saved offset is unhandled, whoever
\* saved it: a restart of the backend misses no line.
THEOREM NothingSkippedCorrect == ASSUME ~SlowHandler PROVE Spec => []NothingSkipped
<1>1. TailInv => NothingSkipped
  BY DEF TailInv, Place, Behind, NothingSkipped
<1>2. QED BY <1>1, TailInvHolds, PTL

\* With quick handlers and no failure, each line is handled once at most.
THEOREM CleanHandOverCorrect == ASSUME ~SlowHandler PROVE Spec => []CleanHandOver
<1>1. TailInv => CleanHandOver BY DEF TailInv, Ahead, CleanHandOver
<1>2. QED BY <1>1, TailInvHolds, PTL

\* With quick handlers a restarted job's tailer starts at the start.
THEOREM FreshStartCorrect == ASSUME ~SlowHandler PROVE Spec => []FreshStart
<1>1. TailInv => FreshStart
  <2> SUFFICES ASSUME TailInv, NEW t \in Tailers, tailer[t].pc = "open", ~present
               PROVE  tailer[t].offset = 0
    BY DEF FreshStart
  <2>1. Typed BY TypesHold DEF TailInv
  <2>2. Current(t) BY DEF TailInv, Control
  <2>3. lines[live] = 0 BY <2>1 DEF TailInv, Future, Typed
  <2>4. QED BY <2>1, <2>2, <2>3 DEF TailInv, Place, Typed
<1>2. QED BY <1>1, TailInvHolds, PTL

\* With quick handlers no line of a rotated log is dispatched.
THEOREM NoReplayCorrect == ASSUME ~SlowHandler PROVE Spec => NoReplay
<1> DEFINE Replays == \E t \in Tailers : /\ tailer[t].pc # "dispatch"
                                       /\ tailer'[t].pc = "dispatch"
                                       /\ tailer'[t].log # live
<1>1. TailInv /\ Next => ~Replays
  <2> SUFFICES ASSUME TailInv, Next, NEW u \in Tailers, tailer[u].pc # "dispatch",
                      tailer'[u].pc = "dispatch"
               PROVE  tailer'[u].log = live
    OBVIOUS
  <2>1. Typed BY TypesHold DEF TailInv
  <2>2. ASSUME NEW t \in Tailers, Read(t) PROVE tailer'[u].log = live
    <3>1. Current(t) /\ tailer[t].log = live
      BY <2>2 DEF Read, TailInv, Control, Place
    <3>2. u = t BY <2>1, <2>2 DEF Read, Typed
    <3>3. QED BY <2>1, <2>2, <3>1, <3>2 DEF Read, Typed
  <2>3. CASE CreateLog \/ Write \/ Rotate BY <2>3 DEF CreateLog, Write, Rotate
  <2>4. CASE Crash BY <2>1, <2>4 DEF Crash, Typed
  <2>5. ASSUME NEW t \in Tailers,
               \/ Attach(t) \/ StopBegin(t) \/ StopEnd(t) \/ Open(t) \/ Poll(t)
               \/ AtEnd(t) \/ Handled(t) \/ Fails(t) \/ StopSelf(t) \/ Return(t)
               \/ Save(t)
        PROVE  FALSE
    <3>1. CASE Attach(t) BY <2>1, <3>1 DEF Attach, Typed
    <3>2. CASE StopBegin(t) BY <2>1, <3>2 DEF StopBegin, Typed
    <3>3. CASE StopEnd(t) BY <2>1, <3>3 DEF StopEnd, Typed
    <3>4. CASE Open(t) BY <2>1, <3>4 DEF Open, Typed
    <3>5. CASE Poll(t) BY <2>1, <3>5 DEF Poll, Typed
    <3>6. CASE AtEnd(t) BY <2>1, <3>6 DEF AtEnd, Typed
    <3>7. CASE Handled(t) BY <2>1, <3>7 DEF Handled, Typed
    <3>8. CASE Fails(t) BY <2>1, <3>8 DEF Fails, Typed
    <3>9. CASE StopSelf(t) BY <2>1, <3>9 DEF StopSelf, Typed
    <3>10. CASE Return(t) BY <2>1, <3>10 DEF Return, Typed
    <3>11. CASE Save(t) BY <2>1, <3>11 DEF Save, Typed
    <3>12. QED BY <2>5, <3>1, <3>2, <3>3, <3>4, <3>5, <3>6, <3>7, <3>8, <3>9, <3>10, <3>11
  <2>6. QED BY <2>2, <2>3, <2>4, <2>5 DEF Next, Step
<1>2. TailInv /\ [Next]_vars => [\A t \in Tailers :
        tailer[t].pc # "dispatch" /\ tailer'[t].pc = "dispatch"
          => tailer'[t].log = live]_vars
  BY <1>1
<1>3. QED BY <1>2, TailInvHolds, PTL DEF Spec, NoReplay
=============================================================================

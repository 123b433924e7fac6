------------------------------- MODULE LogTail -------------------------------
(***************************************************************************)
(* LogTailer (core/log_tailer.py): how the lines a trainer appends to      *)
(* job_log.jsonl reach JobManager. A tailer thread reads the file from the *)
(* saved offset, counts a line before it dispatches it, takes it back if   *)
(* the dispatch raises, and saves its offset now and then; stop() signals, *)
(* joins and saves. A restart of the job stops the tailer, rotates the log *)
(* and drops the offset; a crash of the backend ends all tailers.          *)
(*                                                                         *)
(* Offsets count lines, so a missing offset file is offset 0. Each tailer  *)
(* object is a number of Tailers, in the order they are made.              *)
(***************************************************************************)
EXTENDS Naturals

CONSTANTS
  MaxLines,    \* bound: lines of one log
  MaxLogs,     \* bound: logs of the job, the rotated ones included
  MaxTailers,  \* bound: tailers made
  MaxCrashes,  \* bound: backend crashes
  MaxFailures, \* bound: dispatches that raise
  Unparseable, \* line numbers that are not JSON
  SlowHandler, \* whether a handler may outlast the save interval and the join
  NoTailer     \* no tailer

Lines   == 1 .. MaxLines
Logs    == 1 .. MaxLogs
Tailers == 1 .. MaxTailers

ASSUME LogTailAssumption ==
  /\ {MaxLines, MaxTailers, MaxCrashes, MaxFailures} \subseteq Nat
  /\ MaxLogs \in Nat \ {0}
  /\ SlowHandler \in BOOLEAN
  /\ Unparseable \subseteq Lines /\ NoTailer \notin Tailers

VARIABLES
  lines,    \* number of lines of each log
  live,     \* the log at log_path
  present,  \* whether log_path exists
  saved,    \* the .offset file
  attached, \* _tailers[job_id]
  stopping, \* the tailer whose stop() waits in its join
  tailer,   \* tailer objects and where their threads are
  made,     \* tailers made so far
  times,    \* history: how often each line of each log was handled
  crashes, failures

fileVars == <<lines, live, present>>
vars == <<lines, live, present, saved, attached, stopping, tailer, made, times,
          crashes, failures>>

Steps == {"none", "open", "poll", "read", "dispatch", "return", "save", "ended"}
Unused == [pc |-> "none", log |-> 1, pos |-> 0, offset |-> 0, stop |-> FALSE]

\* Every variable has its type.
TypeOK ==
  /\ lines \in [Logs -> 0 .. MaxLines] /\ live \in Logs /\ present \in BOOLEAN
  /\ saved \in 0 .. MaxLines
  /\ attached \in Tailers \cup {NoTailer} /\ stopping \in Tailers \cup {NoTailer}
  /\ tailer \in [Tailers -> [pc : Steps, log : Logs, pos : 0 .. MaxLines,
                             offset : 0 .. MaxLines, stop : BOOLEAN]]
  /\ made \in 0 .. MaxTailers
  /\ times \in [Logs -> [Lines -> Nat]]
  /\ crashes \in 0 .. MaxCrashes /\ failures \in 0 .. MaxFailures

Init ==
  /\ lines = [g \in Logs |-> 0] /\ live = 1 /\ present = FALSE /\ saved = 0
  /\ attached = NoTailer /\ stopping = NoTailer
  /\ tailer = [t \in Tailers |-> Unused] /\ made = 0
  /\ times = [g \in Logs |-> [k \in Lines |-> 0]]
  /\ crashes = 0 /\ failures = 0

-----------------------------------------------------------------------------
(* The trainer and JobManager.                                             *)

\* JobLogWriter: a trainer starts and opens the log.
CreateLog ==
  /\ ~present /\ present' = TRUE
  /\ UNCHANGED <<lines, live, saved, attached, stopping, tailer, made, times,
                 crashes, failures>>

\* emit: a line appears whole.
Write ==
  /\ present /\ lines[live] < MaxLines
  /\ lines' = [lines EXCEPT ![live] = @ + 1]
  /\ UNCHANGED <<live, present, saved, attached, stopping, tailer, made, times,
                 crashes, failures>>

\* start_job or recover_jobs: a tailer of its own, from the saved offset.
Attach(t) ==
  /\ attached = NoTailer /\ stopping = NoTailer /\ t = made + 1
  /\ attached' = t /\ made' = t
  /\ tailer' = [tailer EXCEPT ![t].pc = "open", ![t].offset = saved]
  /\ UNCHANGED <<fileVars, saved, stopping, times, crashes, failures>>

\* _stop_tailer from another thread: take it off the registry, signal it.
StopBegin(t) ==
  /\ attached = t /\ stopping = NoTailer
  /\ attached' = NoTailer /\ stopping' = t
  /\ tailer' = [tailer EXCEPT ![t].stop = TRUE]
  /\ UNCHANGED <<fileVars, saved, made, times, crashes, failures>>

\* Faulty variant: the thread is not joined before the offset is saved.
StopEndNoJoin(t) ==
  /\ stopping = t
  /\ stopping' = NoTailer /\ saved' = tailer[t].offset
  /\ UNCHANGED <<fileVars, attached, tailer, made, times, crashes, failures>>

\* The join returned, or timed out on a slow handler: the offset is saved.
StopEnd(t) ==
  /\ stopping = t
  /\ tailer[t].pc = "ended" \/ (SlowHandler /\ tailer[t].pc = "dispatch")
  /\ stopping' = NoTailer /\ saved' = tailer[t].offset
  /\ UNCHANGED <<fileVars, attached, tailer, made, times, crashes, failures>>

\* Faulty variant: the log is rotated, its offset stays.
RotateKeepsOffset ==
  /\ attached = NoTailer /\ stopping = NoTailer
  /\ live < MaxLogs
  /\ live' = IF present THEN live + 1 ELSE live
  /\ present' = FALSE
  /\ UNCHANGED <<lines, saved, attached, stopping, tailer, made, times, crashes,
                 failures>>

\* Faulty variant: the tailer is not stopped before the log is rotated.
RotateUnderTailer ==
  /\ stopping = NoTailer
  /\ live < MaxLogs
  /\ live' = IF present THEN live + 1 ELSE live
  /\ present' = FALSE /\ saved' = 0
  /\ UNCHANGED <<lines, attached, stopping, tailer, made, times, crashes,
                 failures>>

\* restart_job, after it stopped the tailer: _reset_job_log_state.
Rotate ==
  /\ attached = NoTailer /\ stopping = NoTailer
  /\ live < MaxLogs
  /\ live' = IF present THEN live + 1 ELSE live
  /\ present' = FALSE /\ saved' = 0
  /\ UNCHANGED <<lines, attached, stopping, tailer, made, times, crashes,
                 failures>>

\* The backend dies, and its threads with it.
Crash ==
  /\ crashes < MaxCrashes /\ crashes' = crashes + 1
  /\ attached' = NoTailer /\ stopping' = NoTailer
  /\ tailer' = [t \in Tailers |-> IF tailer[t].pc = "none" THEN tailer[t]
                                  ELSE [tailer[t] EXCEPT !.pc = "ended"]]
  /\ UNCHANGED <<fileVars, saved, made, times, failures>>

-----------------------------------------------------------------------------
(* The tailer thread: _run.                                                *)

\* Faulty variant: the tailer starts at the end of the file.
OpenAtEnd(t) ==
  /\ tailer[t].pc = "open" /\ (tailer[t].stop \/ present)
  /\ tailer' = IF tailer[t].stop
               THEN [tailer EXCEPT ![t].pc = "ended"]
               ELSE [tailer EXCEPT ![t].pc = "poll", ![t].log = live,
                                   ![t].offset = lines[live],
                                   ![t].pos = lines[live]]
  /\ UNCHANGED <<fileVars, saved, attached, stopping, made, times, crashes,
                 failures>>

\* The file appeared: a file shorter than the offset is a new one.
Open(t) ==
  LET start == IF lines[live] < tailer[t].offset THEN 0 ELSE tailer[t].offset IN
  /\ tailer[t].pc = "open" /\ (tailer[t].stop \/ present)
  /\ tailer' = IF tailer[t].stop
               THEN [tailer EXCEPT ![t].pc = "ended"]
               ELSE [tailer EXCEPT ![t].pc = "poll", ![t].log = live,
                                   ![t].offset = start, ![t].pos = start]
  /\ UNCHANGED <<fileVars, saved, attached, stopping, made, times, crashes,
                 failures>>

\* The top of the loop.
Poll(t) ==
  /\ tailer[t].pc = "poll"
  /\ tailer' = [tailer EXCEPT ![t].pc = IF tailer[t].stop THEN "ended"
                                        ELSE "read"]
  /\ UNCHANGED <<fileVars, saved, attached, stopping, made, times, crashes,
                 failures>>

\* Nothing to read: go back to the start if the file at log_path is shorter.
AtEnd(t) ==
  /\ tailer[t].pc = "read" /\ tailer[t].pos = lines[tailer[t].log]
  /\ tailer' = [tailer EXCEPT
                  ![t].pc = "poll",
                  ![t].pos = IF present /\ lines[live] < @ THEN 0 ELSE @]
  /\ UNCHANGED <<fileVars, saved, attached, stopping, made, times, crashes,
                 failures>>

\* Faulty variant: the offset moves only after the dispatch.
ReadCountsLate(t) ==
  LET k == tailer[t].pos + 1 IN
  /\ tailer[t].pc = "read" /\ k <= lines[tailer[t].log]
  /\ tailer' = [tailer EXCEPT
                  ![t].pos = k,
                  ![t].offset = IF k \in Unparseable THEN k ELSE @,
                  ![t].pc = IF k \in Unparseable THEN "save" ELSE "dispatch"]
  /\ UNCHANGED <<fileVars, saved, attached, stopping, made, times, crashes,
                 failures>>

\* The next line counts as read before it is dispatched.
Read(t) ==
  LET k == tailer[t].pos + 1 IN
  /\ tailer[t].pc = "read" /\ k <= lines[tailer[t].log]
  /\ tailer' = [tailer EXCEPT
                  ![t].pos = k, ![t].offset = k,
                  ![t].pc = IF k \in Unparseable THEN "save" ELSE "dispatch"]
  /\ UNCHANGED <<fileVars, saved, attached, stopping, made, times, crashes,
                 failures>>

\* The handler of an exit line has ended the job and stops its own tailer: no
\* join, and the offset saved counts the line in hand.
StopSelf(t) ==
  /\ tailer[t].pc = "dispatch" /\ attached = t
  /\ attached' = NoTailer /\ saved' = tailer[t].offset
  /\ times' = [times EXCEPT ![tailer[t].log][tailer[t].pos] = @ + 1]
  /\ tailer' = [tailer EXCEPT ![t].stop = TRUE, ![t].pc = "return"]
  /\ UNCHANGED <<fileVars, stopping, made, crashes, failures>>

\* What the exit handler does after that: broadcast, auto-resume, advance.
Return(t) ==
  /\ tailer[t].pc = "return"
  /\ tailer' = [tailer EXCEPT ![t].pc = "save"]
  /\ UNCHANGED <<fileVars, saved, attached, stopping, made, times, crashes,
                 failures>>

Handled(t) ==
  /\ tailer[t].pc = "dispatch"
  /\ times' = [times EXCEPT ![tailer[t].log][tailer[t].pos] = @ + 1]
  /\ tailer' = [tailer EXCEPT ![t].pc = "save"]
  /\ UNCHANGED <<fileVars, saved, attached, stopping, made, crashes, failures>>

\* Faulty variant: the line that raised stays counted.
FailsForward(t) ==
  /\ tailer[t].pc \in {"dispatch", "return"} /\ failures < MaxFailures
  /\ failures' = failures + 1
  /\ tailer' = [tailer EXCEPT ![t].pc = "ended"]
  /\ UNCHANGED <<fileVars, saved, attached, stopping, made, times, crashes>>

\* The dispatch raised: take the line back and end the thread.
Fails(t) ==
  /\ tailer[t].pc \in {"dispatch", "return"} /\ failures < MaxFailures
  /\ failures' = failures + 1
  /\ tailer' = [tailer EXCEPT ![t].pc = "ended", ![t].offset = tailer[t].pos - 1]
  /\ UNCHANGED <<fileVars, saved, attached, stopping, made, times, crashes>>

\* _save_offset: every so many lines or seconds. A tailer that stopped itself
\* has just saved, unless its handler went on for longer than the interval.
Save(t) ==
  /\ tailer[t].pc = "save"
  /\ saved' \in {saved, tailer[t].offset}
  /\ saved' # saved => SlowHandler \/ t \in {attached, stopping}
  /\ tailer' = [tailer EXCEPT ![t].pc = "poll"]
  /\ UNCHANGED <<fileVars, attached, stopping, made, times, crashes, failures>>

Step(t) ==
  \/ Open(t) \/ Poll(t) \/ AtEnd(t) \/ Read(t) \/ Handled(t) \/ Fails(t)
  \/ StopSelf(t) \/ Return(t) \/ Save(t)

Next ==
  \/ CreateLog \/ Write \/ Rotate \/ Crash
  \/ \E t \in Tailers : Attach(t) \/ StopBegin(t) \/ StopEnd(t) \/ Step(t)

Spec     == Init /\ [][Next]_vars
LiveSpec == Spec /\ \A t \in Tailers : WF_vars(Step(t)) /\ WF_vars(StopEnd(t))

-----------------------------------------------------------------------------
(* Properties.                                                             *)

\* A backend that restarts now misses nothing: every line of the log up to the
\* saved offset was handled, or is no line a handler could take.
NothingSkipped ==
  saved <= lines[live] /\ \A k \in Lines \ Unparseable : k <= saved => times[live][k] > 0

\* Stopping a tailer and attaching the next repeats no line: only a crash or a
\* dispatch that raised does.
CleanHandOver ==
  crashes = 0 /\ failures = 0 => \A g \in Logs, k \in Lines : times[g][k] <= 1

\* No line of a rotated log is dispatched: a restarted job never sees the exit
\* of its previous run.
NoReplay ==
  [][\A t \in Tailers : tailer[t].pc # "dispatch" /\ tailer'[t].pc = "dispatch"
                          => tailer'[t].log = live]_vars

\* "The new tailer starts at byte 0 of an empty file": one that waits for the
\* log of a restarted job to appear has no offset of the log before.
FreshStart ==
  \A t \in Tailers : tailer[t].pc = "open" /\ ~present => tailer[t].offset = 0

\* A line that is there is handled, as long as its tailer lives.
EveryLineHandled ==
  \A t \in Tailers, k \in Lines \ Unparseable :
    attached = t /\ tailer[t].pc \notin {"open", "ended"} /\ k <= lines[live]
      ~> times[live][k] > 0 \/ tailer[t].pc = "ended"
=============================================================================

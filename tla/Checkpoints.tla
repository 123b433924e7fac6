---------------------------- MODULE Checkpoints ----------------------------
(***************************************************************************)
(* The run folder of one job: how the trainer saves, replaces and retires  *)
(* its training-state folders, and how the backend picks one to relaunch   *)
(* the job from.  Any step of a save can be the trainer's last, and any    *)
(* rename, read or deletion can meet a folder another process has locked.  *)
(*   checkpoints.py    save_checkpoint, _publish_folder, _cleanup_old_     *)
(*                     checkpoints, remove_unfinished_saves,               *)
(*                     restore_replaced_saves, select_resumable_checkpoint *)
(*   pipeline_train.py the periodic, rebuild, soft-stop and final saves    *)
(*   job_manager.py    resume_from_checkpoint, restart_job                 *)
(* A folder is named by its rank: n for checkpoint-n, Final for final.     *)
(***************************************************************************)
EXTENDS Integers, FiniteSets

CONSTANTS
  MaxSteps,     \* bound: steps a user may ask the training for
  MaxRuns,      \* bound: launches of the job
  KeepLast,     \* keep_last_checkpoints; 0 keeps all
  WipeCanFail   \* "Restart fresh" may leave locked folders behind

ASSUME Bounds == MaxSteps \in Nat \ {0} /\ MaxRuns \in Nat \ {0}
                 /\ KeepLast \in Nat /\ WipeCanFail \in BOOLEAN

Numbered == 0 .. MaxSteps
Final    == MaxSteps + 1     \* _FINAL_RANK
Names    == 0 .. Final
NoName   == -1

\* whole: everything its save wrote.  husk: a deletion that was cut short took
\* the manifest but neither training_state.json nor a half of a .pt file, which
\* is what a folder from before manifests looks like.  half: anything else.
Kinds  == {"whole", "husk", "half"}
Absent == [kind |-> "absent", run |-> 0, step |-> 0]
Folder == [kind : Kinds, run : 1 .. MaxRuns, step : Numbered]
Parked == [name : Names, was : Folder]

VARIABLES
  folder,    \* the folders under their final names
  replaced,  \* the <name>.replaced-<uuid> folders
  staging,   \* names of the <name>.staging-<uuid> folders
  trainer,   \* where the trainer is; "dead" when there is none
  mode,      \* why it saves
  step,      \* the step a save would record now
  total,     \* max_train_steps
  target,    \* the folder this save publishes now
  aside,     \* what that publication moved out of its way
  resumeFrom,\* resume_from_checkpoint of the job's config
  run,       \* the launch the job is in
  saved,     \* the last save that returned: its folder's name and run
  rewound    \* this run or one before did not go on from the newest point, or
             \* went on beyond the end of a run that had finished

vars == <<folder, replaced, staging, trainer, mode, step, total, target, aside,
          resumeFrom, run, saved, rewound>>

Stages == {"dead", "training", "sweep", "write", "publish", "swap", "tidy", "retain", "done"}
Modes  == {"periodic", "rebuild", "stop", "final"}

TypeOK ==
  /\ folder \in [Names -> Folder \cup {Absent}]
  /\ replaced \subseteq Parked /\ aside \in Folder \cup {Absent}
  /\ staging \subseteq Names
  /\ trainer \in Stages /\ mode \in Modes
  /\ total \in 1 .. MaxSteps /\ step \in Numbered
  /\ target \in Names \cup {NoName}
  /\ resumeFrom \in Names \cup {NoName}
  /\ run \in 1 .. MaxRuns
  /\ saved \in [name : Names \cup {NoName}, run : 0 .. MaxRuns]
  /\ rewound \in BOOLEAN

Init ==
  /\ folder = [n \in Names |-> Absent]
  /\ replaced = {} /\ staging = {}
  /\ trainer = "training" /\ mode = "periodic" /\ step = 0 /\ total \in 1 .. MaxSteps
  /\ target = NoName /\ aside = Absent
  /\ resumeFrom = NoName /\ run = 1
  /\ saved = [name |-> NoName, run |-> 0] /\ rewound = FALSE

-----------------------------------------------------------------------------
(* Judging and deleting folders.                                           *)

\* checkpoint_resumable: format-2 manifest and all it lists, or no manifest
\* and a training_state.json.
Resumable(f) == f.kind \in {"whole", "husk"}

\* The ranks a relaunch could start from if nothing were locked.
Points ==
  {n \in Names : \/ Resumable(folder[n])
                 \/ folder[n] = Absent /\ \E r \in replaced : r.name = n /\ Resumable(r.was)}

\* rmtree of a folder that is locked, or of a process that is killed: all of
\* the folder may stay, or a part.
Shreds(f) ==
  {[f EXCEPT !.kind = k] : k \in CASE f.kind = "whole" -> Kinds
                                  [] f.kind = "husk"  -> {"husk", "half"}
                                  [] OTHER            -> {f.kind}}
Remains(f) == {Absent} \cup Shreds(f)

\* What may stay of replaced folders that are deleted, at most one for each.
Scraps(rs)    == UNION {{[name |-> r.name, was |-> f] : f \in Shreds(r.was)} : r \in rs}
OneEach(left) == \A a, b \in left : a.name = b.name /\ a.was.run = b.was.run => a = b

\* Faulty variant: what an earlier save moved aside is swept unseen.
RestoresNothing(back, kept) == back = {} /\ kept = {}

\* restore_replaced_saves: of each name with no folder, the first replaced one
\* that is intact and can be moved (back) returns; the ones that are locked
\* are kept.
Restores(back, kept) ==
  LET missing == {r \in replaced : folder[r.name] = Absent}
  IN  /\ back \subseteq {r \in missing : Resumable(r.was)}
      /\ kept \subseteq missing \ back
      /\ \A a, b \in back : a.name = b.name => a = b
      /\ \A r \in missing \ back :
           Resumable(r.was) => r \in kept \/ \E b \in back : b.name = r.name

MovedBack(back) ==
  [n \in Names |-> IF \E b \in back : b.name = n
                   THEN (CHOOSE b \in back : b.name = n).was ELSE folder[n]]

-----------------------------------------------------------------------------
(* The trainer.                                                            *)

life == <<total, resumeFrom, run, rewound>>
disk == <<folder, replaced, staging>>

Train ==
  /\ trainer = "training" /\ step < total
  /\ step' = step + 1
  /\ UNCHANGED <<disk, trainer, mode, target, aside, saved, life>>

\* save_checkpoint is called: every n steps, for a rebuild, for a soft stop,
\* which may record a step that is saved already, and at the end.
BeginSave(m) ==
  /\ trainer = "training"
  /\ (m = "final") <=> (step = total)
  /\ m \in {"periodic", "rebuild"} => step > 0 /\ saved # [name |-> step, run |-> run]
  /\ trainer' = "sweep" /\ mode' = m
  /\ UNCHANGED <<disk, step, target, aside, saved, life>>

\* remove_unfinished_saves: restore first, then delete what was not kept, and
\* the staging folder of this save is made.
Sweep ==
  /\ trainer = "sweep"
  /\ \E back \in SUBSET replaced : \E kept \in SUBSET (replaced \ back) :
       /\ Restores(back, kept)
       /\ folder' = MovedBack(back)
       /\ \E left \in SUBSET Scraps(replaced \ (back \cup kept)) :
            OneEach(left) /\ replaced' = kept \cup left
  /\ \E locked \in SUBSET staging :
       staging' = locked \cup {IF mode = "final" THEN Final ELSE step}
  /\ trainer' = "write"
  /\ UNCHANGED <<mode, step, target, aside, saved, life>>

\* Every file, then the manifest, of each folder the save makes; the last
\* save makes two, and publishes the numbered one first.
WriteStaging ==
  /\ trainer = "write"
  /\ staging' = staging \cup {step}
  /\ target' = step
  /\ trainer' = "publish"
  /\ UNCHANGED <<folder, replaced, mode, step, aside, saved, life>>

\* An exception ends the save and with it the run, unless the save was a
\* rebuild's; the staging folders are deleted as far as that succeeds.
GiveUp ==
  /\ trainer' = IF mode = "rebuild" THEN "training" ELSE "dead"
  /\ staging' \in SUBSET staging
  /\ target' = NoName /\ aside' = Absent
  /\ UNCHANGED <<mode, step, saved, life>>

WriteFails == trainer = "write" /\ GiveUp /\ UNCHANGED <<folder, replaced>>

\* _publish_folder, first rename: the folder that has the name goes aside.
MoveAside ==
  /\ trainer = "publish" /\ folder[target] # Absent
  /\ folder' = [folder EXCEPT ![target] = Absent]
  /\ replaced' = replaced \cup {[name |-> target, was |-> folder[target]]}
  /\ aside' = folder[target]
  /\ trainer' = "swap"
  /\ UNCHANGED <<staging, mode, step, target, saved, life>>

\* Faulty variant: a locked folder counts as published.
AsideRefusedUnseen ==
  /\ trainer = "publish" /\ folder[target] # Absent
  /\ trainer' = "retain"
  /\ UNCHANGED <<disk, mode, step, target, aside, saved, life>>

AsideRefused ==
  /\ trainer = "publish" /\ folder[target] # Absent
  /\ GiveUp /\ UNCHANGED <<folder, replaced>>

\* Second rename: the staging folder takes the name.
MoveIn ==
  /\ trainer \in {"publish", "swap"} /\ folder[target] = Absent
  /\ folder' = [folder EXCEPT ![target] = [kind |-> "whole", run |-> run, step |-> step]]
  /\ staging' = staging \ {target}
  /\ trainer' = "tidy"
  /\ UNCHANGED <<replaced, mode, step, target, aside, saved, life>>

\* It cannot: the old folder gets its name back, if that can be done.
MoveInRefused ==
  /\ trainer \in {"publish", "swap"} /\ folder[target] = Absent
  /\ \/ /\ folder' = [folder EXCEPT ![target] = aside]
        /\ replaced' = replaced \ {[name |-> target, was |-> aside]}
     \/ UNCHANGED <<folder, replaced>>
  /\ GiveUp

\* rmtree of the replaced folder; the next folder's turn.
Tidy ==
  /\ trainer = "tidy"
  /\ LET old == {[name |-> target, was |-> aside]} \cap replaced
     IN  \E left \in SUBSET Scraps(old) : OneEach(left) /\ replaced' = (replaced \ old) \cup left
  /\ aside' = Absent
  /\ IF mode = "final" /\ target # Final
     THEN target' = Final /\ trainer' = "publish"
     ELSE trainer' = "retain" /\ UNCHANGED target
  /\ UNCHANGED <<folder, staging, mode, step, saved, life>>

\* _cleanup_old_checkpoints: of the numbered folders only the last KeepLast by
\* name stay, as far as the others can be deleted.
Numbers == {n \in Numbered : folder[n] # Absent}

\* Faulty variant: the list is sorted the other way round.
RetainedOldest(kept) ==
  \/ kept = Numbers /\ (KeepLast = 0 \/ Cardinality(Numbers) <= KeepLast)
  \/ /\ KeepLast > 0 /\ Cardinality(kept) = KeepLast
     /\ \A k \in kept, n \in Numbers \ kept : k < n

Retained(kept) ==
  \/ kept = Numbers /\ (KeepLast = 0 \/ Cardinality(Numbers) <= KeepLast)
  \/ /\ KeepLast > 0 /\ Cardinality(kept) = KeepLast
     /\ \A k \in kept, n \in Numbers \ kept : n < k

Retain ==
  /\ trainer = "retain"
  /\ \E kept \in SUBSET Numbers :
       /\ Retained(kept)
       /\ \E left \in [Numbers \ kept -> Folder \cup {Absent}] :
            /\ \A n \in Numbers \ kept : left[n] \in Remains(folder[n])
            /\ folder' = [n \in Names |-> IF n \in Numbers \ kept THEN left[n] ELSE folder[n]]
  /\ trainer' = "done"
  /\ UNCHANGED <<replaced, staging, mode, step, target, aside, saved, life>>

\* save_checkpoint returns; a stop, a rebuild and the last save end the run.
Return ==
  /\ trainer = "done"
  /\ saved' = [name |-> target, run |-> run] /\ target' = NoName
  /\ trainer' = IF mode = "periodic" THEN "training" ELSE "dead"
  /\ UNCHANGED <<disk, mode, step, aside, life>>

\* The process is killed, or training fails, between any two steps.
Die ==
  /\ trainer # "dead"
  /\ trainer' = "dead" /\ target' = NoName /\ aside' = Absent
  /\ UNCHANGED <<disk, mode, step, saved, life>>

-----------------------------------------------------------------------------
(* The backend, while no trainer is alive.                                 *)

\* The relaunched trainer loads its checkpoint, or starts at step 0.
Launch(from, newTotal) ==
  /\ run < MaxRuns /\ run' = run + 1
  /\ resumeFrom' = from /\ total' = newTotal
  /\ LET start == IF from = NoName THEN 0 ELSE folder'[from].step
     IN  /\ step' = start
         /\ trainer' = "training"
         /\ rewound' = (rewound \/ (newTotal # total /\ Final \in Points)
                        \/ \E n \in Points : from < n)
  /\ mode' = "periodic"
  /\ UNCHANGED <<staging, target, aside, saved>>

\* resume_from_checkpoint: select_resumable_checkpoint restores replaced saves,
\* then the newest folder is taken, or one the user named, that is judged
\* intact; a lock makes it look damaged.
Resume ==
  /\ trainer = "dead"
  /\ \E back \in SUBSET replaced : \E kept \in SUBSET (replaced \ back) :
       /\ Restores(back, kept)
       /\ folder' = MovedBack(back) /\ replaced' = replaced \ back
  /\ \E n \in Names, t \in total .. MaxSteps :
       Resumable(folder'[n]) /\ Launch(n, t)

\* restart_job keeps the folder, and resume_from_checkpoint if it is set.
Restart ==
  /\ trainer = "dead"
  /\ UNCHANGED <<folder, replaced>>
  /\ resumeFrom # NoName => Resumable(folder[resumeFrom])
  /\ Launch(resumeFrom, total)

\* restart_job(fresh): the folder is wiped, as far as nothing in it is locked.
RestartFresh ==
  /\ trainer = "dead" /\ run < MaxRuns
  /\ \/ folder' = [n \in Names |-> Absent] /\ replaced' = {} /\ staging' = {}
     \/ /\ WipeCanFail
        /\ folder' \in [Names -> UNION {Remains(folder[n]) : n \in Names}]
        /\ \A n \in Names : folder'[n] = Absent \/ folder'[n] \in Remains(folder[n])
        /\ UNCHANGED <<replaced, staging>>
  /\ run' = run + 1 /\ resumeFrom' = NoName /\ step' = 0
  /\ trainer' = "training" /\ mode' = "periodic"
  /\ saved' = [name |-> NoName, run |-> 0] /\ rewound' = FALSE
  /\ UNCHANGED <<total, target, aside>>

-----------------------------------------------------------------------------

Next ==
  \/ Train \/ (\E m \in Modes : BeginSave(m)) \/ Sweep \/ WriteStaging \/ WriteFails
  \/ MoveAside \/ AsideRefused \/ MoveIn \/ MoveInRefused \/ Tidy \/ Retain
  \/ Return \/ Die
  \/ Resume \/ Restart \/ RestartFresh

Spec == Init /\ [][Next]_vars

-----------------------------------------------------------------------------
(* What must hold.                                                         *)

\* Whatever is killed, locked or refused, a save or a retention never loses
\* the newest step to resume from, and a save that returned can be resumed
\* from, or a later one can.
Store == INSTANCE ResumeStore WITH Marks <- Names, points <- Points, reported <- saved.name
KeepsResumePoints == Store!Spec

\* A folder under a final name that is judged damaged is one that retention
\* was deleting: there is always a later one to resume from.
DamageIsOld ==
  \A n \in Names : folder[n].kind = "half" => \E later \in Points : later > n

\* What a relaunch would pick is complete, under its name or moved aside, and
\* is the last save of the latest run that returned, or a later one of it,
\* however saves were cut short.
InStore(n, r) ==
  \/ folder[n].kind = "whole" /\ folder[n].run = r
  \/ folder[n] = Absent /\ \E a \in replaced : a.name = n /\ a.was.kind = "whole" /\ a.was.run = r

LastSaveIsNewest ==
  trainer \in {"training", "dead"} /\ saved.run = run =>
    \E n \in Points : /\ n >= saved.name /\ InStore(n, run)
                      /\ \A m \in Points : m <= n

SavedIsKept == rewound \/ LastSaveIsNewest
=============================================================================

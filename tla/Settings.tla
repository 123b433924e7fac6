------------------------------ MODULE Settings ------------------------------
(***************************************************************************)
(* settings.json and the SettingsManager that caches it.  Every read and   *)
(* every load-merge-save runs under _io_lock; the file can also be written *)
(* by somebody else, and replacing it can fail.  The cache is trusted as   *)
(* long as the file has the mtime it had when it was last loaded or saved. *)
(*   settings_manager.py   load, save, get_module_settings,                *)
(*                         update_module_settings                          *)
(* A module's settings are one value: the number of the update that wrote  *)
(* them, 0 before any.                                                     *)
(***************************************************************************)
EXTENDS Integers

CONSTANTS
  Modules,    \* keys of settings.json
  MaxUpdates, \* bound: calls of update_module_settings
  MaxForeign  \* bound: writes by another process, or from a backup

ASSUME SettingsBounds == MaxUpdates \in Nat /\ MaxForeign \in Nat

Updates == 1 .. MaxUpdates
Values  == 0 .. MaxUpdates + MaxForeign
NoStamp == -1     \* _loaded_mtime_ns is None
Stamps  == 0 .. MaxUpdates + MaxForeign

VARIABLES
  file,     \* settings.json
  mtime,    \* its modification time
  memory,   \* self.settings
  loaded,   \* self._loaded_mtime_ns
  stat,     \* the mtime of the content the thread in the lock read, then wrote
  phase,    \* where each call of update_module_settings is
  about,    \* the module it updates
  foreign,  \* writes by somebody else
  landed,   \* of each module, the last write that reached the file
  torn      \* somebody else wrote between two steps of an update

settingsVars == <<file, mtime, memory, loaded, stat, phase, about,
                  foreign, landed, torn>>

Locking == {"merged", "replaced"}
Phases  == Locking \cup {"new", "saved", "answered"}

SettingsTypeOK ==
  /\ file \in [Modules -> Values] /\ memory \in [Modules -> Values]
  /\ landed \in [Modules -> Values]
  /\ mtime \in Stamps /\ stat \in Stamps
  /\ loaded \in Stamps \cup {NoStamp}
  /\ phase \in [Updates -> Phases] /\ about \in [Updates -> Modules]
  /\ foreign \in 0 .. MaxForeign
  /\ torn \in BOOLEAN

\* The manager has just loaded the file.
SettingsInit ==
  /\ file = [m \in Modules |-> 0] /\ memory = file /\ landed = file
  /\ mtime = 0 /\ loaded = 0 /\ stat = 0
  /\ phase = [u \in Updates |-> "new"] /\ about \in [Updates -> Modules]
  /\ foreign = 0 /\ torn = FALSE

Locked == \E u \in Updates : phase[u] \in Locking

-----------------------------------------------------------------------------
(* update_module_settings: load, merge, save.                              *)

\* Faulty variant: the merge goes into whatever the cache holds.
MergeCached(u) ==
  /\ phase[u] = "new" /\ ~ Locked
  /\ memory' = [memory EXCEPT ![about[u]] = u] /\ stat' = mtime
  /\ phase' = [phase EXCEPT ![u] = "merged"]
  /\ UNCHANGED <<file, mtime, loaded, about, foreign, landed, torn>>

\* The lock, load() and the merge.  load() asks for the mtime before it reads:
\* a write in between only makes the cache look stale.
Merge(u) ==
  /\ phase[u] = "new" /\ ~ Locked
  /\ memory' = [file EXCEPT ![about[u]] = u] /\ loaded' = mtime /\ stat' = mtime
  /\ phase' = [phase EXCEPT ![u] = "merged"]
  /\ UNCHANGED <<file, mtime, about, foreign, landed, torn>>

\* The whole document to a temporary file, and os.replace.
Replace(u) ==
  /\ phase[u] = "merged"
  /\ file' = memory /\ mtime' = mtime + 1 /\ stat' = mtime + 1
  /\ landed' = [landed EXCEPT ![about[u]] = u]
  /\ torn' = (torn \/ mtime # stat)
  /\ phase' = [phase EXCEPT ![u] = "replaced"]
  /\ UNCHANGED <<memory, loaded, about, foreign>>

\* os.stat after the replace; the lock is released.
Remember(u) ==
  /\ phase[u] = "replaced"
  /\ loaded' = mtime
  /\ torn' = (torn \/ mtime # stat)
  /\ phase' = [phase EXCEPT ![u] = "saved"]
  /\ UNCHANGED <<file, mtime, memory, stat, about, foreign, landed>>

\* Faulty variant: a save that failed leaves the cache trusted.
SaveFailsUnseen(u) ==
  /\ phase[u] = "merged"
  /\ phase' = [phase EXCEPT ![u] = "saved"]
  /\ UNCHANGED <<file, mtime, memory, loaded, stat, about, foreign, landed, torn>>

\* The replace fails, and the exception is logged and swallowed: memory holds
\* what the file does not, so the next read must load again.
SaveFails(u) ==
  /\ phase[u] = "merged"
  /\ loaded' = NoStamp
  /\ phase' = [phase EXCEPT ![u] = "saved"]
  /\ UNCHANGED <<file, mtime, memory, stat, about, foreign, landed, torn>>

Update(u) == Merge(u) \/ Replace(u) \/ Remember(u) \/ SaveFails(u)

\* get_module_settings: load if the mtime moved, answer from memory.
Refresh ==
  /\ ~ Locked
  /\ IF loaded = mtime
     THEN UNCHANGED <<memory, loaded>>
     ELSE memory' = file /\ loaded' = mtime
  /\ UNCHANGED <<file, mtime, stat, phase, about, foreign, landed, torn>>

\* Somebody else replaces the file and knows nothing of _io_lock.
ForeignWrite(m) ==
  /\ foreign < MaxForeign /\ foreign' = foreign + 1
  /\ file' = [file EXCEPT ![m] = MaxUpdates + foreign + 1]
  /\ landed' = [landed EXCEPT ![m] = MaxUpdates + foreign + 1]
  /\ mtime' = mtime + 1
  /\ UNCHANGED <<memory, loaded, stat, phase, about, torn>>

\* update_module_settings_async has its thread's result, and announces it.
Answer(u) ==
  /\ phase[u] = "saved"
  /\ phase' = [phase EXCEPT ![u] = "answered"]
  /\ UNCHANGED <<file, mtime, memory, loaded, stat, about, foreign, landed, torn>>

SettingsNext ==
  \/ \E u \in Updates : Update(u) \/ Answer(u)
  \/ Refresh
  \/ \E m \in Modules : ForeignWrite(m)

SettingsSpec == SettingsInit /\ [][SettingsNext]_settingsVars

-----------------------------------------------------------------------------
(* What must hold.                                                         *)

\* Threads that update different modules at once never drop each other's
\* update, nor one that another process wrote before they took the lock.
NothingLost == ~torn => file = landed

\* What a read answers without looking into the file is what the file holds,
\* also after a save that failed.
CacheHonest == ~Locked /\ ~torn /\ loaded = mtime => memory = file
=============================================================================

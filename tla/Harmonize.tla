----------------------------- MODULE Harmonize -----------------------------
(***************************************************************************)
(* The folder of one dataset, the metadata the backend keeps of it in      *)
(* memory and in media_items, and the task that converts every picture to  *)
(* JPG and renames all of them, first to temporary names, then to final    *)
(* ones.                                                                   *)
(*   dataset_manager.py   harmonize_files, get_dataset_pairs, scan_dataset,*)
(*                        toggle_image_enabled, delete_media_pair, load    *)
(*   crud_routes.py       upload_file                                      *)
(* A name is a file's stem, a number whose order is that of the listing.   *)
(* The caption stands for all the files that are renamed with a picture.   *)
(* Of a picture's metadata the model keeps whether it is enabled.          *)
(***************************************************************************)
EXTENDS Integers, FiniteSets, Sequences

CONSTANTS
  Pictures,    \* what users upload
  UserNames,   \* the names they give
  FirstTemp,   \* __harmonize_tmp_00000
  FirstFinal,  \* the number before <dataset>_00001
  None,        \* no file, no metadata
  MaxRuns,     \* bound: harmonize tasks
  MaxTroubles  \* bound: restarts of the backend and operations that fail

Slots    == Cardinality(Pictures) + MaxTroubles
Temp(i)  == FirstTemp + i - 1    \* of the i-th pair
Final(i) == FirstFinal + i       \* of the i-th pair renamed
Temps    == {Temp(i) : i \in 1 .. Slots}
Finals   == {Final(i) : i \in 1 .. Slots}
Names    == UserNames \cup Temps \cup Finals

\* Users do not upload files with temporary or final names.
ASSUME NamesApart ==
  /\ {FirstTemp, FirstFinal, MaxRuns, MaxTroubles} \subseteq Nat
  /\ UserNames \subseteq Nat /\ IsFiniteSet(UserNames) /\ IsFiniteSet(Pictures)
  /\ UserNames \cap Temps = {} /\ UserNames \cap Finals = {} /\ Temps \cap Finals = {}

\* JPG, another format, one Pillow cannot open (a video, a damaged picture).
Kinds == {"jpg", "png", "clip", "song"}
Files == [of : Pictures, kind : Kinds]
Marks == {"on", "off", None}

ASSUME NoneApart == None \notin Files /\ None \notin Pictures \cup {"on", "off"}

VARIABLES
  media,    \* the media file of each name
  caption,  \* whose caption file each name has
  marks,    \* dataset.media_metadata: is the name enabled
  rows,     \* the same in the table media_items
  step,     \* where the worker is
  pairs,    \* what it listed
  at,       \* the pair it is at
  moved,    \* temp_map
  runs, troubles,
  life,       \* of each picture: new, kept, or deleted by the user
  captioned,  \* those of them with a caption
  wanted,     \* what the user last set
  clean       \* no harmonize was cut short, no listed name used again

files == <<media, caption>>
task  == <<step, pairs, at, moved, runs>>
user  == <<life, captioned, wanted>>
vars  == <<files, marks, rows, task, troubles, user, clean>>

Steps == {"idle", "toTemp", "original", "sidecars", "toFinal", "finalSidecars",
          "scan", "persist"}

Init ==
  /\ media = [n \in Names |-> None] /\ caption = media
  /\ marks = media /\ rows = media
  /\ step = "idle" /\ pairs = <<>> /\ at = 1 /\ moved = <<>>
  /\ runs = 0 /\ troubles = 0
  /\ life = [p \in Pictures |-> "new"]
  /\ captioned = {} /\ wanted = [p \in Pictures |-> "on"]
  /\ clean = TRUE

TypeOK ==
  /\ media \in [Names -> Files \cup {None}] /\ caption \in [Names -> Pictures \cup {None}]
  /\ {marks, rows} \subseteq [Names -> Marks]
  /\ step \in Steps
  /\ pairs \in Seq([name : Names, kind : Kinds, captioned : BOOLEAN])
  /\ moved \in Seq([old : Names, temp : Temps, captioned : BOOLEAN])
  /\ at \in 1 .. Len(pairs) + 1 /\ Len(moved) <= Len(pairs) /\ Len(pairs) <= Slots
  /\ runs \in 0 .. MaxRuns /\ troubles \in 0 .. MaxTroubles
  /\ life \in [Pictures -> {"new", "kept", "deleted"}]
  /\ captioned \subseteq Pictures /\ wanted \in [Pictures -> {"on", "off"}]
  /\ clean \in BOOLEAN

Rename(f, from, to) == [f EXCEPT ![from] = None, ![to] = f[from]]

-----------------------------------------------------------------------------
(* What users do.  They leave the dataset alone while a task of the gpu    *)
(* lane has it, but for uploads.                                           *)

Idle == step = "idle"

\* upload_file: into the folder only; the next scan will see it.
Upload(p, n) ==
  /\ life[p] = "new" /\ media[n] = None
  /\ life' = [life EXCEPT ![p] = "kept"]
  /\ \E kind \in Kinds, c \in BOOLEAN :
       /\ media' = [media EXCEPT ![n] = [of |-> p, kind |-> kind]]
       /\ caption' = IF c THEN [caption EXCEPT ![n] = p] ELSE caption
       /\ captioned' = IF c THEN captioned \cup {p} ELSE captioned
  /\ clean' = (clean /\ \A i \in DOMAIN pairs : pairs[i].name # n)
  /\ UNCHANGED <<marks, rows, task, troubles, wanted>>

\* toggle_image_enabled
Toggle(n) ==
  /\ Idle /\ marks[n] # None
  /\ LET mark == IF marks[n] = "on" THEN "off" ELSE "on" IN
       /\ marks' = [marks EXCEPT ![n] = mark]
       /\ rows' = IF rows[n] = None THEN rows ELSE [rows EXCEPT ![n] = mark]
       /\ wanted' = IF media[n] = None THEN wanted
                    ELSE [wanted EXCEPT ![media[n].of] = mark]
  /\ UNCHANGED <<files, task, troubles, life, captioned, clean>>

\* delete_media_pair: the row, the metadata, then the files.
Delete(n) ==
  /\ Idle /\ media[n] # None
  /\ rows' = [rows EXCEPT ![n] = None]
  /\ marks' = [marks EXCEPT ![n] = None]
  /\ media' = [media EXCEPT ![n] = None]
  /\ caption' = [caption EXCEPT ![n] = None]
  /\ life' = [life EXCEPT ![media[n].of] = "deleted"]
  /\ UNCHANGED <<task, troubles, captioned, wanted, clean>>

-----------------------------------------------------------------------------
(* harmonize_files                                                         *)

Visual == {n \in Names : media[n] # None /\ media[n].kind # "song"}
Pair(n) == [name |-> n, kind |-> media[n].kind, captioned |-> caption[n] # None]

\* Faulty variant: listed the other way round.
ListedLastFirst == {names \in [1 .. Cardinality(Visual) -> Visual] :
                      \A i, j \in DOMAIN names : i < j => names[i] > names[j]}

\* get_dataset_pairs, sorted, without the audio: there is one such listing.
Listed == {names \in [1 .. Cardinality(Visual) -> Visual] :
             \A i, j \in DOMAIN names : i < j => names[i] < names[j]}

Begin ==
  /\ Idle /\ runs < MaxRuns /\ runs' = runs + 1
  /\ Visual # {}
  /\ \E names \in Listed : pairs' = [i \in DOMAIN names |-> Pair(names[i])]
  /\ at' = 1 /\ moved' = <<>> /\ step' = "toTemp"
  /\ UNCHANGED <<files, marks, rows, troubles, user, clean>>

Current == pairs[at]

\* Pass 1: a JPG is renamed to its temporary name.
ToTemp ==
  /\ step = "toTemp" /\ at <= Len(pairs) /\ Current.kind = "jpg"
  /\ media' = Rename(media, Current.name, Temp(at))
  /\ step' = "sidecars"
  /\ UNCHANGED <<caption, marks, rows, pairs, at, moved, runs, troubles, user, clean>>

\* Another picture is saved there as a JPG; then the original goes.
Convert ==
  /\ step = "toTemp" /\ at <= Len(pairs) /\ Current.kind = "png"
  /\ media' = [media EXCEPT ![Temp(at)] = [media[Current.name] EXCEPT !.kind = "jpg"]]
  /\ step' = "original"
  /\ UNCHANGED <<caption, marks, rows, pairs, at, moved, runs, troubles, user, clean>>

RemoveOriginal ==
  /\ step = "original"
  /\ media' = [media EXCEPT ![Current.name] = None]
  /\ step' = "sidecars"
  /\ UNCHANGED <<caption, marks, rows, pairs, at, moved, runs, troubles, user, clean>>

\* What fails to convert is skipped; the number of its temporary name is used up.
Skip ==
  /\ step = "toTemp" /\ at <= Len(pairs) /\ Current.kind = "clip"
  /\ at' = at + 1
  /\ UNCHANGED <<files, marks, rows, step, pairs, moved, runs, troubles, user, clean>>

\* So is a picture whose original cannot be removed.
RemoveFails ==
  /\ step = "original" /\ troubles < MaxTroubles /\ troubles' = troubles + 1
  /\ at' = at + 1 /\ step' = "toTemp" /\ clean' = FALSE
  /\ UNCHANGED <<files, marks, rows, pairs, moved, runs, user>>

\* Faulty variant: the flag is set for renamed pictures only.
SidecarsOfConvertedForgotten ==
  /\ step = "sidecars"
  /\ LET has == Current.captioned /\ caption[Current.name] # None IN
       /\ caption' = IF has THEN Rename(caption, Current.name, Temp(at)) ELSE caption
       /\ moved' = Append(moved, [old |-> Current.name, temp |-> Temp(at),
                                  captioned |-> has /\ Current.kind = "jpg"])
  /\ at' = at + 1 /\ step' = "toTemp"
  /\ UNCHANGED <<media, marks, rows, pairs, runs, troubles, user, clean>>

\* The caption follows, and the pair is noted in temp_map.
SidecarsToTemp ==
  /\ step = "sidecars"
  /\ LET has == Current.captioned /\ caption[Current.name] # None IN
       /\ caption' = IF has THEN Rename(caption, Current.name, Temp(at)) ELSE caption
       /\ moved' = Append(moved, [old |-> Current.name, temp |-> Temp(at), captioned |-> has])
  /\ at' = at + 1 /\ step' = "toTemp"
  /\ UNCHANGED <<media, marks, rows, pairs, runs, troubles, user, clean>>

SecondPass ==
  /\ step = "toTemp" /\ at > Len(pairs)
  /\ at' = 1 /\ step' = "toFinal"
  /\ UNCHANGED <<files, marks, rows, pairs, moved, runs, troubles, user, clean>>

\* Pass 2: the pairs of temp_map get final names without gaps.
ToFinal ==
  /\ step = "toFinal" /\ at <= Len(moved)
  /\ media' = IF media[moved[at].temp] = None THEN media
              ELSE Rename(media, moved[at].temp, Final(at))
  /\ step' = "finalSidecars"
  /\ UNCHANGED <<caption, marks, rows, pairs, at, moved, runs, troubles, user, clean>>

SidecarsToFinal ==
  /\ step = "finalSidecars"
  /\ caption' = IF moved[at].captioned /\ caption[moved[at].temp] # None
                THEN Rename(caption, moved[at].temp, Final(at)) ELSE caption
  /\ at' = at + 1 /\ step' = "toFinal"
  /\ UNCHANGED <<media, marks, rows, pairs, moved, runs, troubles, user, clean>>

\* Faulty variant: the metadata goes by the place in the listing, not by the old name.
RemappedByPlace ==
  [n \in Names |->
    IF \E i \in DOMAIN moved : n = Final(i) THEN marks[pairs[n - FirstFinal].name] ELSE None]

\* Pass 3: the metadata of the old names, under the final ones.
Remapped ==
  [n \in Names |->
    IF \E i \in DOMAIN moved : n = Final(i) THEN marks[moved[n - FirstFinal].old] ELSE None]

Remap ==
  /\ step = "toFinal" /\ at > Len(moved)
  /\ marks' = Remapped
  /\ step' = "scan"
  /\ UNCHANGED <<files, rows, pairs, at, moved, runs, troubles, user, clean>>

\* The next call is an os.rename that nothing catches.
Renaming ==
  \/ step = "toTemp" /\ at <= Len(pairs) /\ Current.kind = "jpg"
  \/ step = "toFinal" /\ at <= Len(moved)
  \/ step \in {"sidecars", "finalSidecars"}

\* Faulty variant: the next task goes on at this one's place.
AbortKeepsPlace ==
  /\ Renaming
  /\ troubles < MaxTroubles /\ troubles' = troubles + 1
  /\ step' = "idle" /\ pairs' = <<>> /\ moved' = <<>>
  /\ clean' = FALSE
  /\ UNCHANGED <<files, marks, rows, at, runs, user>>

\* An exception from a rename ends the task where it is.
Abort ==
  /\ Renaming
  /\ troubles < MaxTroubles /\ troubles' = troubles + 1
  /\ step' = "idle" /\ pairs' = <<>> /\ at' = 1 /\ moved' = <<>>
  /\ clean' = FALSE
  /\ UNCHANGED <<files, marks, rows, runs, user>>

-----------------------------------------------------------------------------
(* scan_dataset, as a task of its own or at the end of harmonize_files.    *)

Rescan ==
  /\ Idle /\ step' = "scan"
  /\ UNCHANGED <<files, marks, rows, pairs, at, moved, runs, troubles, user, clean>>

\* The files of the folder, with what was known of each name.
Scanned ==
  [n \in Names |-> IF media[n] = None THEN None
                   ELSE IF marks[n] = None THEN "on"
                   ELSE marks[n]]

Scan ==
  /\ step = "scan" /\ step' = "persist"
  /\ marks' = Scanned
  /\ UNCHANGED <<files, rows, pairs, at, moved, runs, troubles, user, clean>>

\* _persist_dataset: all the rows, unless there is no file at all.
Persist ==
  /\ step = "persist" /\ step' = "idle"
  /\ rows' = IF \A n \in Names : marks[n] = None THEN rows ELSE marks
  /\ pairs' = <<>> /\ at' = 1 /\ moved' = <<>>
  /\ UNCHANGED <<files, marks, runs, troubles, user, clean>>

\* The backend is killed, starts again and loads the rows.
Restart ==
  /\ troubles < MaxTroubles /\ troubles' = troubles + 1
  /\ marks' = rows
  /\ step' = "idle" /\ pairs' = <<>> /\ at' = 1 /\ moved' = <<>>
  /\ clean' = (clean /\ pairs = <<>>)
  /\ UNCHANGED <<files, rows, runs, user>>

-----------------------------------------------------------------------------

Users == \E n \in Names : Toggle(n) \/ Delete(n)
Uploads == \E p \in Pictures, n \in UserNames : Upload(p, n)
Passes ==
  \/ Begin \/ ToTemp \/ Convert \/ RemoveOriginal \/ Skip \/ RemoveFails
  \/ SidecarsToTemp \/ SecondPass \/ ToFinal \/ SidecarsToFinal \/ Remap \/ Abort

Next == Users \/ Uploads \/ Passes \/ Rescan \/ Scan \/ Persist \/ Restart

Spec == Init /\ [][Next]_vars

-----------------------------------------------------------------------------
(* What must hold.                                                         *)

\* No rename, conversion or removal, and no restart or failure between two of
\* them, loses a picture: the folder holds every one that was not deleted.
PicturesKept ==
  \A p \in Pictures : life[p] = "kept" =>
    \E n \in Names : media[n] # None /\ media[n].of = p

\* Each picture has its own caption next to it, and a picture without one has
\* not been given another's, unless a run was cut short.
OwnCaption ==
  Idle /\ clean => \A n \in Names : media[n] # None =>
    caption[n] = IF media[n].of \in captioned THEN media[n].of ELSE None

\* A picture that the user excluded from training stays excluded, and no other,
\* through renames, rescans and restarts, unless a run was cut short.  (What
\* harmonize skips loses its mark.)
MarksFollow ==
  Idle /\ clean => \A n \in Names :
    media[n] # None /\ media[n].kind \in {"jpg", "png"} =>
      marks[n] \in {None, wanted[media[n].of]}
=============================================================================

------------------------- MODULE CheckpointsProofs -------------------------
(***************************************************************************)
(* Proofs about Checkpoints: types; that damage is always old, that the    *)
(* run folder implements ResumeStore and that a save that returned is what *)
(* the next launch finds, as long as "Restart fresh" wipes what it says it *)
(* wipes.                                                                  *)
(***************************************************************************)
EXTENDS Checkpoints, FiniteSetTheorems, TLAPS

Contents == Folder \cup {Absent}

-----------------------------------------------------------------------------
(* What the helpers return.                                                *)

\* Deleting leaves pieces of the folder, and no intact one of a damaged one.
LEMMA ShredsType ==
  ASSUME NEW f \in Folder
  PROVE  /\ Shreds(f) \subseteq Folder
         /\ \A g \in Shreds(f) : g.run = f.run /\ g.step = f.step /\ (Resumable(g) => Resumable(f))
BY DEF Shreds, Folder, Kinds, Resumable

LEMMA RemainsType ==
  ASSUME NEW f \in Contents, NEW g \in Remains(f), f # Absent
  PROVE  g \in Contents /\ (g # Absent => g.step = f.step)
BY ShredsType DEF Remains, Contents

\* l may be what stays of r: the same name and step, intact only if r was.
PieceOf(l, r) ==
  /\ r.name = l.name /\ r.was.step = l.was.step
  /\ Resumable(l.was) => Resumable(r.was)

LEMMA ScrapsType ==
  ASSUME NEW rs \in SUBSET Parked, NEW l \in Scraps(rs)
  PROVE  /\ l \in Parked
         /\ \E r \in rs : PieceOf(l, r)
<1>1. PICK r \in rs : l \in {[name |-> r.name, was |-> f] : f \in Shreds(r.was)}
  BY DEF Scraps
<1>2. r \in Parked /\ r.was \in Folder /\ r.name \in Names
  BY DEF Parked
<1>3. PICK f \in Shreds(r.was) : l = [name |-> r.name, was |-> f]
  BY <1>1
<1>4. f \in Folder /\ f.step = r.was.step /\ (Resumable(f) => Resumable(r.was))
  BY <1>2, ShredsType
<1> QED
  BY <1>2, <1>3, <1>4 DEF Parked, PieceOf

\* A folder that is moved back gets a name that was free, and is intact.
LEMMA MovedBackType ==
  ASSUME TypeOK, NEW back \in SUBSET replaced, NEW kept \in SUBSET replaced,
         Restores(back, kept)
  PROVE  /\ MovedBack(back) \in [Names -> Contents]
         /\ \A n \in Names :
              \/ MovedBack(back)[n] = folder[n]
              \/ /\ folder[n] = Absent /\ Resumable(MovedBack(back)[n])
                 /\ \E b \in back : b.name = n /\ b.was = MovedBack(back)[n]
         /\ \A n \in Names : (\E b \in back : b.name = n) =>
              folder[n] = Absent /\ Resumable(MovedBack(back)[n])
<1>1. ASSUME NEW n \in Names, \E b \in back : b.name = n
      PROVE  /\ MovedBack(back)[n] \in Folder /\ Resumable(MovedBack(back)[n])
             /\ folder[n] = Absent /\ \E b \in back : b.name = n /\ b.was = MovedBack(back)[n]
  <2> DEFINE b == CHOOSE x \in back : x.name = n
  <2>1. b \in back /\ b.name = n
    BY <1>1
  <2>2. MovedBack(back)[n] = b.was
    BY <1>1 DEF MovedBack
  <2>3. b \in Parked /\ folder[b.name] = Absent /\ Resumable(b.was)
    BY <2>1 DEF Restores, TypeOK
  <2> QED
    BY <2>1, <2>2, <2>3 DEF Parked
<1>2. ASSUME NEW n \in Names, ~ \E b \in back : b.name = n
      PROVE  MovedBack(back)[n] = folder[n] /\ folder[n] \in Contents
  BY <1>2 DEF MovedBack, TypeOK, Contents
<1>3. MovedBack(back) = [n \in Names |-> MovedBack(back)[n]]
  BY DEF MovedBack
<1> QED
  BY <1>1, <1>2, <1>3 DEF Contents

-----------------------------------------------------------------------------
(* Types.                                                                  *)

\* A save that publishes has a folder to publish.
TypeInv ==
  TypeOK /\ (trainer \in {"publish", "swap", "tidy", "retain", "done"} => target \in Names)

LEMMA InitTypes == Init => TypeInv
<1> SUFFICES ASSUME Init PROVE TypeInv
  OBVIOUS
<1>1. folder \in [Names -> Contents]
  BY DEF Init, Contents
<1>2. 1 \in 1 .. MaxRuns /\ 0 \in Numbered /\ -1 \in Names \cup {NoName}
  BY Bounds DEF Numbered, NoName
<1>3. saved \in [name : Names \cup {NoName}, run : 0 .. MaxRuns]
  BY Bounds DEF Init, NoName
<1> QED
  BY <1>1, <1>2, <1>3 DEF Init, TypeInv, TypeOK, Contents, Stages, Modes, NoName

LEMMA NextTypes == TypeInv /\ [Next]_vars => TypeInv'
<1> SUFFICES ASSUME TypeInv, [Next]_vars PROVE TypeInv'
  OBVIOUS
<1> USE Bounds DEF TypeInv
<1>1. CASE Train
  BY <1>1 DEF Train, TypeOK, disk, life, Numbered
<1>2. ASSUME NEW m \in Modes, BeginSave(m) PROVE TypeInv'
  BY <1>2 DEF BeginSave, TypeOK, disk, life, Stages
<1>3. CASE Sweep
  <2>1. PICK back \in SUBSET replaced, kept \in SUBSET replaced :
          /\ Restores(back, kept)
          /\ folder' = MovedBack(back)
          /\ \E left \in SUBSET Scraps(replaced \ (back \cup kept)) :
               OneEach(left) /\ replaced' = kept \cup left
    BY <1>3 DEF Sweep
  <2>2. folder' \in [Names -> Contents]
    BY <2>1, MovedBackType
  <2>3. replaced' \subseteq Parked
    <3>1. PICK left \in SUBSET Scraps(replaced \ (back \cup kept)) : replaced' = kept \cup left
      BY <2>1
    <3>2. replaced \in SUBSET Parked
      BY DEF TypeOK
    <3>3. \A l \in left : l \in Parked
      BY <3>2, ScrapsType
    <3> QED
      BY <3>1, <3>2, <3>3
  <2>4. staging' \subseteq Names
    BY <1>3 DEF Sweep, TypeOK, Names, Final, Numbered
  <2> QED
    BY <1>3, <2>2, <2>3, <2>4 DEF Sweep, TypeOK, life, Contents, Stages
<1>4. CASE WriteStaging
  BY <1>4 DEF WriteStaging, TypeOK, life, Stages, Names, Final, Numbered
<1>5. CASE WriteFails
  BY <1>5 DEF WriteFails, GiveUp, TypeOK, life, Stages
<1>6. CASE MoveAside
  BY <1>6 DEF MoveAside, TypeOK, life, Stages, Parked
<1>7. CASE AsideRefused
  BY <1>7 DEF AsideRefused, GiveUp, TypeOK, life, Stages
<1>8. CASE MoveIn
  <2>1. [kind |-> "whole", run |-> run, step |-> step] \in Folder
    BY DEF TypeOK, Folder, Kinds
  <2> QED
    BY <1>8, <2>1 DEF MoveIn, TypeOK, life, Stages
<1>9. CASE MoveInRefused
  BY <1>9 DEF MoveInRefused, GiveUp, TypeOK, life, Stages
<1>10. CASE Tidy
  <2> DEFINE old == {[name |-> target, was |-> aside]} \cap replaced
  <2>1. PICK left \in SUBSET Scraps(old) : replaced' = (replaced \ old) \cup left
    BY <1>10 DEF Tidy
  <2>2. old \in SUBSET Parked
    BY DEF TypeOK
  <2>3. \A l \in left : l \in Parked
    BY <2>2, ScrapsType
  <2>4. replaced' \subseteq Parked
    BY <2>1, <2>3 DEF TypeOK
  <2> QED
    BY <1>10, <2>4 DEF Tidy, TypeOK, life, Stages, Names, Final, Numbered
<1>11. CASE Retain
  BY <1>11 DEF Retain, TypeOK, life, Stages, Numbers, Names, Final, Numbered
<1>12. CASE Return
  BY <1>12 DEF Return, TypeOK, disk, life, Stages
<1>13. CASE Die
  BY <1>13 DEF Die, TypeOK, disk, life, Stages
<1>14. CASE Resume
  <2>1. PICK back \in SUBSET replaced, kept \in SUBSET replaced :
          Restores(back, kept) /\ folder' = MovedBack(back) /\ replaced' = replaced \ back
    BY <1>14 DEF Resume
  <2>2. folder' \in [Names -> Contents]
    BY <2>1, MovedBackType
  <2>3. PICK n \in Names, t \in total .. MaxSteps : Resumable(folder'[n]) /\ Launch(n, t)
    BY <1>14 DEF Resume
  <2>4. folder'[n] \in Folder
    BY <2>2, <2>3 DEF Contents, Resumable, Absent
  <2>5. n # NoName
    BY DEF NoName, Names, Final, Numbered
  <2>6. step' \in Numbered
    BY <2>3, <2>4, <2>5 DEF Launch, Folder
  <2> QED
    BY <2>1, <2>2, <2>3, <2>6 DEF Launch, TypeOK, Contents, Stages, Modes
<1>15. CASE Restart
  <2>1. step' \in Numbered
    <3>1. CASE resumeFrom = NoName
      BY <1>15, <3>1 DEF Restart, Launch, Numbered
    <3>2. CASE resumeFrom # NoName
      <4>1. folder[resumeFrom] \in Folder
        BY <1>15, <3>2 DEF Restart, TypeOK, Resumable, Absent
      <4> QED
        BY <1>15, <3>2, <4>1 DEF Restart, Launch, Folder
    <3> QED
      BY <3>1, <3>2
  <2> QED
    BY <1>15, <2>1 DEF Restart, Launch, TypeOK, Stages, Modes
<1>16. CASE RestartFresh
  <2>1. \A n \in Names : folder'[n] \in Contents
    <3> TAKE n \in Names
    <3>1. folder'[n] = Absent \/ folder'[n] \in Remains(folder[n])
      BY <1>16 DEF RestartFresh
    <3>2. folder[n] \in Contents
      BY DEF TypeOK, Contents
    <3>3. Absent \in Contents /\ Shreds(Absent) = {Absent}
      BY DEF Contents, Shreds, Absent
    <3> QED
      BY <3>1, <3>2, <3>3, RemainsType DEF Remains
  <2>2. folder' = [n \in Names |-> folder'[n]]
    BY <1>16 DEF RestartFresh, Remains
  <2>3. replaced' \subseteq Parked /\ staging' \subseteq Names
    BY <1>16 DEF RestartFresh, TypeOK
  <2>4. run' \in 1 .. MaxRuns /\ step' \in Numbered
    BY <1>16 DEF RestartFresh, TypeOK, Numbered
  <2>5. /\ saved' \in [name : Names \cup {NoName}, run : 0 .. MaxRuns]
        /\ resumeFrom' \in Names \cup {NoName}
    BY <1>16 DEF RestartFresh
  <2> QED
    BY <1>16, <2>1, <2>2, <2>3, <2>4, <2>5 DEF RestartFresh, TypeOK, Contents, Stages, Modes
<1>17. CASE UNCHANGED vars
  BY <1>17 DEF vars, TypeOK
<1> QED
  BY <1>1, <1>2, <1>3, <1>4, <1>5, <1>6, <1>7, <1>8, <1>9, <1>10, <1>11, <1>12,
     <1>13, <1>14, <1>15, <1>16, <1>17 DEF Next

\* Every run folder is one the code can make: Checkpoints.TypeOK.
THEOREM TypesHold == Spec => []TypeOK
<1>1. TypeInv => TypeOK
  BY DEF TypeInv
<1> QED
  BY InitTypes, NextTypes, <1>1, PTL DEF Spec

-----------------------------------------------------------------------------
(* The invariant.                                                          *)

Later(n) == \E later \in Points : later > n

\* A damaged folder that is being replaced is old, too.
AsideIsOld == trainer = "swap" /\ aside.kind = "half" => Later(target)

\* Where a save is: the name it publishes is free during the swap, intact
\* after it, and after retention it or a later one can be resumed from.
SaveState ==
  /\ trainer \notin {"swap", "tidy"} => aside = Absent
  /\ trainer = "retain" => Resumable(folder[target])
  /\ trainer = "tidy" => Resumable(folder[target])
  /\ trainer = "done" => \E k \in Points : k >= target

IInv == TypeInv /\ DamageIsOld /\ AsideIsOld /\ SaveState

\* What ResumeStore asks of a step that wipes nothing.
PointsKept == \A m \in Points \ Points' : \E later \in Points' : later > m

LEMMA PointsNumbers == Points \subseteq Int /\ Names \subseteq Int
BY Bounds DEF Points, Names, Final, Numbered

\* What was later than something stays so.
LEMMA LaterKept ==
  ASSUME PointsKept
  PROVE  /\ \A n \in Int : Later(n) => Later(n)'
         /\ \A n \in Int : (\E k \in Points : k >= n) => \E k \in Points' : k >= n
<1>1. Points' \subseteq Int
  BY Bounds DEF Points, Names, Final, Numbered
<1>2. ASSUME NEW n \in Int, NEW k \in Points, k >= n
      PROVE  \E j \in Points' : j >= k
  BY <1>1, <1>2, PointsNumbers DEF PointsKept
<1> QED
  BY <1>1, <1>2, PointsNumbers DEF Later

LEMMA SameDisk ==
  ASSUME UNCHANGED <<folder, replaced>>
  PROVE  Points' = Points /\ PointsKept
BY DEF Points, Resumable, PointsKept

\* Restoring loses no point, and damages no folder.
LEMMA RestoreKeeps ==
  ASSUME TypeOK, NEW back \in SUBSET replaced, NEW kept \in SUBSET replaced,
         Restores(back, kept), folder' = MovedBack(back), kept \subseteq replaced'
  PROVE  /\ PointsKept
         /\ \A n \in Names : folder'[n].kind = "half" => folder[n].kind = "half"
<1>1. ASSUME NEW n \in Points PROVE n \in Points'
  <2>1. n \in Names
    BY DEF Points
  <2>2. CASE Resumable(folder[n])
    BY <2>1, <2>2, MovedBackType DEF Points, Resumable, Absent
  <2>3. ASSUME folder[n] = Absent, NEW r \in replaced, r.name = n, Resumable(r.was)
        PROVE  n \in Points'
    <3>1. CASE \E b \in back : b.name = n
      BY <2>1, <3>1, MovedBackType DEF Points, Resumable
    <3>2. CASE ~ \E b \in back : b.name = n
      <4>1. r \in kept
        BY <2>3, <3>2 DEF Restores
      <4>2. folder'[n] = Absent
        BY <2>1, <2>3, <3>2, MovedBackType
      <4> QED
        BY <2>1, <2>3, <4>1, <4>2 DEF Points, Resumable
    <3> QED
      BY <3>1, <3>2
  <2> QED
    BY <2>2, <2>3 DEF Points
<1>2. ASSUME NEW n \in Names, folder'[n].kind = "half" PROVE folder[n].kind = "half"
  BY <1>2, MovedBackType DEF Resumable
<1> QED
  BY <1>1, <1>2 DEF PointsKept

\* Retention takes a folder, or damages it, only while a later one stays.
LEMMA RetainKeeps ==
  ASSUME TypeInv, DamageIsOld, Retain
  PROVE  /\ PointsKept
         /\ \A n \in Names : folder'[n] = folder[n] \/ Later(n)'
<1>1. PICK kept \in SUBSET Numbers :
        /\ Retained(kept)
        /\ \E left \in [Numbers \ kept -> Folder \cup {Absent}] :
             folder' = [n \in Names |-> IF n \in Numbers \ kept THEN left[n] ELSE folder[n]]
  BY DEF Retain
<1>2. replaced' = replaced
  BY DEF Retain
<1>3. \A n \in Names : n \notin Numbers \ kept => folder'[n] = folder[n]
  BY <1>1
<1>4. \A n \in Points : n \notin Numbers \ kept => n \in Points'
  BY <1>2, <1>3 DEF Points, Resumable
<1>5. ASSUME NEW n \in Numbers \ kept PROVE Later(n)'
  <2>1. kept # {} /\ \A k \in kept : n < k
    <3>1. Cardinality({}) = 0
      BY FS_EmptySet
    <3> QED
      BY <1>1, <3>1, Bounds DEF Retained
  <2>2. PICK k \in kept : n < k
    BY <2>1
  <2>3. k \in Names /\ k \in Numbers /\ folder[k] # Absent /\ folder[k] \in Folder
    <3>1. Numbered \subseteq Names
      BY Bounds DEF Names, Final, Numbered
    <3> QED
      BY <1>1, <2>2, <3>1 DEF Numbers, TypeInv, TypeOK
  <2>4. CASE Resumable(folder[k])
    <3>1. k \in Points'
      BY <1>4, <2>3, <2>4 DEF Points
    <3> QED
      BY <2>2, <3>1 DEF Later
  <2>5. CASE folder[k].kind = "half"
    <3>1. PICK later \in Points : later > k
      BY <2>3, <2>5 DEF DamageIsOld
    <3>2. later \notin Numbers \ kept
      <4>1. \A m \in Numbers \ kept : m < k
        BY <1>1, <1>5 DEF Retained
      <4>2. k \in Int /\ later \in Int
        BY <2>3, PointsNumbers
      <4> QED
        BY <3>1, <4>1, <4>2
    <3>3. later > n
      BY <2>2, <2>3, <3>1, PointsNumbers DEF Numbers, Numbered
    <3> QED
      BY <1>4, <3>1, <3>2, <3>3 DEF Later
  <2> QED
    BY <2>3, <2>4, <2>5 DEF Folder, Kinds, Resumable
<1> QED
  BY <1>3, <1>4, <1>5 DEF PointsKept, Later, Points

\* Every step but a wipe keeps the points, and damages old folders only.
StepKept ==
  /\ PointsKept
  /\ \A n \in Names : folder'[n].kind = "half" => folder[n].kind = "half" \/ Later(n)'

LEMMA StepKeeps ==
  ASSUME IInv, [Next]_vars, ~ RestartFresh
  PROVE  StepKept
<1> USE DEF IInv, TypeInv
<1>1. ASSUME UNCHANGED <<folder, replaced>> PROVE StepKept
  BY <1>1, SameDisk DEF StepKept
<1>2. CASE Sweep
  <2>1. PICK back \in SUBSET replaced : \E kept \in SUBSET (replaced \ back) :
          Restores(back, kept) /\ folder' = MovedBack(back) /\ kept \subseteq replaced'
    BY <1>2 DEF Sweep
  <2> QED
    BY <2>1, RestoreKeeps DEF StepKept
<1>3. CASE MoveAside
  <2> DEFINE old == [name |-> target, was |-> folder[target]]
  <2>1. \A n \in Names : folder'[n] = folder[n] \/ (n = target /\ folder'[n] = Absent)
    BY <1>3 DEF MoveAside, TypeOK
  <2>2. replaced' = replaced \cup {old}
    BY <1>3 DEF MoveAside
  <2>3. ASSUME NEW n \in Points PROVE n \in Points'
    BY <2>1, <2>2, <2>3 DEF Points, Resumable, Absent
  <2> QED
    BY <2>1, <2>3 DEF StepKept, PointsKept, Absent
<1>4. CASE MoveIn
  <2>1. \A n \in Names : folder'[n] = folder[n] \/ folder'[n].kind = "whole"
    BY <1>4 DEF MoveIn, TypeOK
  <2>2. \A n \in Names : folder[n] # Absent => folder'[n] = folder[n]
    BY <1>4 DEF MoveIn, TypeOK
  <2>3. replaced' = replaced
    BY <1>4 DEF MoveIn
  <2>4. ASSUME NEW n \in Points PROVE n \in Points'
    BY <2>1, <2>2, <2>3, <2>4 DEF Points, Resumable, Absent
  <2> QED
    BY <2>1, <2>4 DEF StepKept, PointsKept
<1>5. CASE MoveInRefused
  <2> DEFINE old == [name |-> target, was |-> aside]
  <2>1. CASE UNCHANGED <<folder, replaced>>
    BY <2>1, <1>1
  <2>2. CASE aside = Absent /\ folder' = [folder EXCEPT ![target] = aside]
             /\ replaced' = replaced \ {old}
    <3>1. old \notin replaced
      <4>1. Absent \notin Folder
        BY DEF Absent, Folder, Kinds
      <4> QED
        BY <2>2, <4>1 DEF TypeOK, Parked
    <3>2. UNCHANGED <<folder, replaced>>
      BY <1>5, <2>2, <3>1 DEF MoveInRefused, TypeOK
    <3> QED
      BY <3>2, <1>1
  <2>3. CASE trainer = "swap" /\ folder' = [folder EXCEPT ![target] = aside]
             /\ replaced' = replaced \ {old} /\ aside # Absent
    <3>1. target \in Names /\ folder'[target] = aside /\ aside \in Folder
      BY <1>5, <2>3 DEF TypeOK
    <3>2. \A n \in Names : n # target => folder'[n] = folder[n]
      BY <2>3 DEF TypeOK
    <3>3. \A n \in Points : n # target => n \in Points'
      BY <2>3, <3>2 DEF Points, Resumable
    <3>4. Resumable(aside) => target \in Points'
      BY <3>1 DEF Points, Resumable
    <3>5. aside.kind = "half" => \E later \in Points' : later > target
      <4> SUFFICES ASSUME aside.kind = "half" PROVE \E later \in Points' : later > target
        OBVIOUS
      <4>1. PICK later \in Points : later > target
        BY <2>3 DEF AsideIsOld, Later
      <4>2. later # target
        BY <3>1, <4>1, PointsNumbers
      <4> QED
        BY <3>3, <4>1, <4>2
    <3>6. Resumable(aside) \/ aside.kind = "half"
      BY <3>1 DEF Folder, Kinds, Resumable
    <3>7. PointsKept
      BY <3>3, <3>4, <3>5, <3>6 DEF PointsKept
    <3>8. \A n \in Names : folder'[n].kind = "half" => folder[n].kind = "half" \/ Later(n)'
      BY <3>1, <3>2, <3>5 DEF Later
    <3> QED
      BY <3>7, <3>8 DEF StepKept
  <2>4. trainer = "swap" \/ aside = Absent
    BY <1>5 DEF MoveInRefused, SaveState
  <2> QED
    BY <1>5, <2>1, <2>2, <2>3, <2>4 DEF MoveInRefused
<1>6. CASE Tidy
  <2> DEFINE old == {[name |-> target, was |-> aside]} \cap replaced
  <2>1. PICK left \in SUBSET Scraps(old) : replaced' = (replaced \ old) \cup left
    BY <1>6 DEF Tidy
  <2>2. Resumable(folder[target]) /\ folder' = folder
    BY <1>6 DEF Tidy, SaveState
  <2>3. \A r \in replaced : r.name # target => r \in replaced'
    BY <2>1
  <2>4. ASSUME NEW n \in Points PROVE n \in Points'
    BY <2>2, <2>3, <2>4 DEF Points, Resumable
  <2> QED
    BY <2>2, <2>4 DEF StepKept, PointsKept
<1>7. CASE Retain
  BY <1>7, RetainKeeps DEF StepKept
<1>8. CASE Resume
  <2>1. PICK back \in SUBSET replaced : \E kept \in SUBSET (replaced \ back) :
          Restores(back, kept) /\ folder' = MovedBack(back) /\ kept \subseteq replaced'
    BY <1>8 DEF Resume
  <2> QED
    BY <2>1, RestoreKeeps DEF StepKept
<1>9. CASE UNCHANGED vars
  BY <1>1, <1>9 DEF vars
<1> QED
  BY <1>1, <1>2, <1>3, <1>4, <1>5, <1>6, <1>7, <1>8, <1>9
     DEF Next, Train, BeginSave, WriteStaging, WriteFails, AsideRefused, Return, Die,
         Restart, disk

LEMMA InitInv == Init => IInv
<1> SUFFICES ASSUME Init PROVE IInv
  OBVIOUS
<1>1. TypeInv
  BY InitTypes
<1>2. DamageIsOld
  BY DEF Init, DamageIsOld, Absent
<1> QED
  BY <1>1, <1>2 DEF Init, IInv, AsideIsOld, SaveState

LEMMA NextInv ==
  ASSUME ~ WipeCanFail
  PROVE  IInv /\ [Next]_vars => IInv'
<1> SUFFICES ASSUME IInv, [Next]_vars PROVE IInv'
  OBVIOUS
<1>1. TypeInv'
  BY NextTypes DEF IInv
<1>2. CASE RestartFresh
  <2>1. \A n \in Names : folder'[n] = Absent
    BY <1>2 DEF RestartFresh
  <2>2. DamageIsOld'
    BY <2>1 DEF DamageIsOld, Absent
  <2> QED
    BY <1>1, <1>2, <2>2 DEF RestartFresh, IInv, AsideIsOld, SaveState
<1>3. CASE ~ RestartFresh
  <2>1. StepKept
    BY <1>3, StepKeeps
  <2>2. /\ \A n \in Int : Later(n) => Later(n)'
        /\ \A n \in Int : (\E k \in Points : k >= n) => \E k \in Points' : k >= n
    BY <2>1, LaterKept DEF StepKept
  <2>3. DamageIsOld'
    BY <2>1, <2>2, PointsNumbers DEF StepKept, DamageIsOld, IInv, Later
  <2>4. AsideIsOld' /\ SaveState'
    <3>1. CASE MoveAside
      <4>1. aside' = folder[target] /\ target' = target /\ trainer' = "swap" /\ target \in Int
        BY <3>1, PointsNumbers DEF MoveAside, IInv, TypeInv
      <4>2. folder[target].kind = "half" => Later(target)
        BY <3>1 DEF MoveAside, IInv, TypeInv, DamageIsOld, Later
      <4> QED
        BY <2>2, <4>1, <4>2 DEF AsideIsOld, SaveState, Later
    <3>2. CASE MoveIn
      BY <3>2 DEF MoveIn, AsideIsOld, SaveState, IInv, TypeInv, TypeOK, Resumable
    <3>3. CASE Tidy
      BY <3>3 DEF Tidy, AsideIsOld, SaveState, IInv
    <3>4. CASE Retain
      <4>1. target \in Points /\ target \in Int
        BY <3>4, PointsNumbers DEF Retain, IInv, TypeInv, SaveState, Points
      <4>2. \E k \in Points : k >= target
        BY <4>1
      <4>3. \E k \in Points' : k >= target
        BY <2>2, <4>1, <4>2
      <4>4. trainer' = "done" /\ target' = target /\ aside' = Absent
        BY <3>4 DEF Retain, IInv, SaveState
      <4> QED
        BY <4>3, <4>4 DEF AsideIsOld, SaveState
    <3>5. CASE WriteStaging
      BY <3>5 DEF WriteStaging, AsideIsOld, SaveState, IInv
    <3>6. CASE UNCHANGED vars
      BY <3>6, <2>2 DEF vars, AsideIsOld, SaveState, IInv, Later, Points, Resumable
    <3>7. ASSUME trainer' \notin {"swap", "publish", "retain", "tidy", "done"},
                 aside' = Absent
          PROVE  AsideIsOld' /\ SaveState'
      BY <3>7 DEF AsideIsOld, SaveState
    <3>8. CASE WriteFails \/ AsideRefused \/ MoveInRefused
      BY <3>7, <3>8 DEF WriteFails, AsideRefused, MoveInRefused, GiveUp
    <3>9. CASE Train \/ Sweep \/ Return \/ Die \/ \E m \in Modes : BeginSave(m)
      BY <3>7, <3>9 DEF Train, Sweep, Return, Die, BeginSave, IInv, SaveState
    <3>10. CASE Resume \/ Restart
      BY <3>7, <3>10 DEF Resume, Restart, Launch, IInv, SaveState
    <3> QED
      BY <1>3, <3>1, <3>2, <3>3, <3>4, <3>5, <3>6, <3>8, <3>9, <3>10 DEF Next
  <2> QED
    BY <1>1, <2>3, <2>4 DEF IInv
<1> QED
  BY <1>2, <1>3

\* A damaged folder under a final name always has a later one to resume from,
\* if "Restart fresh" wipes all it should: Checkpoints.DamageIsOld.
THEOREM DamageOld ==
  ASSUME ~ WipeCanFail
  PROVE  Spec => []DamageIsOld
<1>1. IInv => DamageIsOld
  BY DEF IInv
<1> QED
  BY InitInv, NextInv, <1>1, PTL DEF Spec

\* The run folder, with everything that can be killed, locked or refused on
\* the way, implements ResumeStore: no step to resume from is lost unless a
\* later one is there, and a save that returned left one.
THEOREM Refinement ==
  ASSUME ~ WipeCanFail
  PROVE  Spec => KeepsResumePoints
<1>1. Init => Store!Init
  BY DEF Init, Store!Init, Points, Resumable, Absent, NoName
<1>2. IInv /\ [Next]_vars => [Store!Next]_(Store!vars)
  <2> SUFFICES ASSUME IInv, [Next]_vars PROVE [Store!Next]_(Store!vars)
    OBVIOUS
  <2>1. Points' \in SUBSET Names
    BY DEF Points
  <2>2. CASE RestartFresh
    <3>1. Points' = {} /\ saved'.name = -1
      BY <2>2 DEF RestartFresh, Points, Resumable, Absent, NoName
    <3> QED
      BY <3>1 DEF Store!Next, Store!Wipe
  <2>3. CASE Return
    <3>1. Points' = Points /\ saved'.name = target /\ target \in Names
      BY <2>3 DEF Return, disk, Points, Resumable, IInv, TypeInv
    <3>2. \E k \in Points : k >= target
      BY <2>3 DEF Return, IInv, SaveState
    <3> QED
      BY <3>1, <3>2 DEF Store!Next, Store!Report
  <2>4. CASE ~ RestartFresh /\ ~ Return
    <3>1. PointsKept
      BY <2>4, StepKeeps DEF StepKept
    <3>2. saved' = saved
      BY <2>4 DEF Next, vars, Train, BeginSave, Sweep, WriteStaging, WriteFails, GiveUp,
                  MoveAside, AsideRefused, MoveIn, MoveInRefused, Tidy, Retain, Die,
                  Resume, Restart, Launch
    <3> QED
      BY <2>1, <3>1, <3>2 DEF Store!Next, Store!Move, PointsKept
  <2> QED
    BY <2>2, <2>3, <2>4
<1> QED
  BY InitInv, NextInv, <1>1, <1>2, PTL DEF Spec, KeepsResumePoints, Store!Spec
-----------------------------------------------------------------------------
(* A save that returned.                                                   *)

\* The folders and replaced folders of name n record step s.
Recorded(n, s) ==
  \/ folder[n] # Absent /\ folder[n].step = s
  \/ \E r \in replaced : r.name = n /\ r.was.step = s

\* A numbered folder records the step it is named for, and none a step beyond
\* the end; what was ever published as final can be resumed from.
NameTellsStep ==
  /\ step <= total
  /\ \A n \in Names, s \in Numbered :
       Recorded(n, s) => s <= total /\ (n # Final => s = n) /\ (n = Final => Final \in Points)

\* What the save moved aside is still there while the name is free.
SwapState ==
  trainer = "swap" =>
    folder[target] = Absent /\ aside # Absent /\ [name |-> target, was |-> aside] \in replaced

\* Only the last save publishes as final, and it ends there.
Targets ==
  /\ trainer \in {"dead", "training", "sweep", "write"} => target = NoName
  /\ trainer \in {"publish", "swap", "tidy", "retain", "done"} =>
       target \in {step, Final} /\ (target = Final => mode = "final")
  /\ trainer \in {"retain", "done"} => (target = Final <=> mode = "final")
  /\ trainer \notin {"training", "dead"} => (mode = "final" <=> step = total)

\* What the run saved once it does not save again, but for a soft stop.
SavedOnce ==
  /\ saved.run <= run
  /\ trainer \in {"sweep", "write", "publish", "swap"} /\ mode \in {"periodic", "rebuild"}
       => saved # [name |-> step, run |-> run]

\* In a run that went on from the newest point, nothing is ahead of it ...
FinalIsEnd == \A s \in Numbered : Recorded(Final, s) => s = total

NotAhead ==
  trainer # "dead" =>
    /\ \A n \in Numbered : folder[n] # Absent \/ n \in Points => n <= step
    /\ Final \in Points => step = total

\* ... what it publishes stays to the end of the save ...
Published ==
  trainer \in {"tidy", "retain", "done"} =>
    folder[target] = [kind |-> "whole", run |-> run, step |-> step]

\* ... and the newest point is a save of this run, from the last one that
\* returned on; until a save publishes again it is that one.
Newest(n) == n \in Points /\ \A m \in Points : m <= n

OfThisRun(n) ==
  \/ folder[n].kind = "whole" /\ folder[n].run = run
  \/ trainer = "swap" /\ n = target /\ aside.kind = "whole" /\ aside.run = run
  \/ trainer = "dead" /\ InStore(n, run)

SavedIsNewest ==
  saved.run = run => \E n \in Names : n >= saved.name /\ Newest(n) /\ OfThisRun(n)

SavedIsLast ==
  saved.run = run /\ trainer \in {"training", "sweep", "write", "publish", "swap"} /\ target # Final
    => \A m \in Points : m <= saved.name

SaveSteps == NameTellsStep /\ SwapState /\ Targets /\ SavedOnce
Straight  == FinalIsEnd /\ NotAhead /\ Published /\ SavedIsNewest /\ SavedIsLast

SInv == IInv /\ SaveSteps /\ (rewound \/ Straight)

-----------------------------------------------------------------------------
(* Where the folders of the next state come from.                          *)

\* A restore makes no folder and no point that was not there.
LEMMA RestoreAdds ==
  ASSUME TypeOK, NEW back \in SUBSET replaced, NEW kept \in SUBSET replaced,
         NEW left \in SUBSET Scraps(replaced), Restores(back, kept),
         folder' = MovedBack(back), replaced' \subseteq replaced \cup left
  PROVE  /\ Points' \subseteq Points
         /\ \A n \in Names : folder[n] # Absent => folder'[n] = folder[n]
         /\ \A n \in Names : folder'[n] # Absent => folder[n] # Absent \/ n \in Points
         /\ \A n \in Names, s \in Numbered : Recorded(n, s)' => Recorded(n, s)
<1>0. replaced \in SUBSET Parked
  BY DEF TypeOK
<1>1. ASSUME NEW r \in replaced'
      PROVE  \E q \in replaced : PieceOf(r, q)
  <2>1. CASE r \in replaced
    BY <2>1 DEF PieceOf
  <2>2. CASE r \in Scraps(replaced)
    BY <1>0, <2>2, ScrapsType
  <2> QED
    BY <2>1, <2>2
<1>2. \A n \in Names : \/ folder'[n] = folder[n]
                       \/ /\ folder[n] = Absent /\ Resumable(folder'[n])
                          /\ \E b \in replaced : b.name = n /\ b.was = folder'[n]
  BY MovedBackType
<1>3. ASSUME NEW n \in Points' PROVE n \in Points
  <2>1. n \in Names
    BY DEF Points
  <2>2. CASE Resumable(folder'[n])
    BY <1>2, <2>1, <2>2 DEF Points
  <2>3. ASSUME folder'[n] = Absent, NEW r \in replaced', r.name = n, Resumable(r.was)
        PROVE  n \in Points
    <3>1. folder[n] = Absent
      BY <1>2, <2>1, <2>3 DEF Resumable, Absent
    <3> QED
      BY <1>1, <2>1, <2>3, <3>1 DEF Points, PieceOf
  <2> QED
    BY <2>2, <2>3 DEF Points
<1>4. ASSUME NEW n \in Names, NEW s \in Numbered, Recorded(n, s)' PROVE Recorded(n, s)
  BY <1>1, <1>2, <1>4 DEF Recorded, PieceOf
<1>5. \A n \in Names : folder'[n] # Absent => folder[n] # Absent \/ n \in Points
  BY <1>2 DEF Points
<1>6. \A n \in Names : folder[n] # Absent => folder'[n] = folder[n]
  BY <1>2
<1> QED
  BY <1>3, <1>4, <1>5, <1>6

\* No step but the one that publishes makes a new folder; a point that comes
\* up was under a damaged folder of that name.
StepAdds ==
  /\ \A n \in Points' : n \in Points \/ (MoveIn /\ n = target) \/ folder[n].kind = "half"
  /\ \A n \in Names : folder'[n] # Absent =>
       \/ folder[n] # Absent \/ n \in Points \/ (n = target /\ trainer \in {"publish", "swap"})
  /\ \A n \in Names, s \in Numbered :
       Recorded(n, s)' => Recorded(n, s) \/ (MoveIn /\ n = target /\ s = step)

LEMMA NextAdds ==
  ASSUME IInv, SwapState, [Next]_vars, ~ RestartFresh
  PROVE  StepAdds
<1> USE DEF IInv, TypeInv
<1>1. ASSUME UNCHANGED <<folder, replaced>> PROVE StepAdds
  <2>1. Points' = Points
    BY <1>1, SameDisk
  <2> QED
    BY <1>1, <2>1 DEF StepAdds, Recorded
<1>2. CASE Sweep
  <2>1. PICK back \in SUBSET replaced, kept \in SUBSET replaced :
          /\ Restores(back, kept) /\ folder' = MovedBack(back)
          /\ \E left \in SUBSET Scraps(replaced \ (back \cup kept)) : replaced' = kept \cup left
    BY <1>2 DEF Sweep
  <2>2. PICK left \in SUBSET Scraps(replaced \ (back \cup kept)) : replaced' = kept \cup left
    BY <2>1
  <2>3. left \in SUBSET Scraps(replaced)
    BY DEF Scraps
  <2> QED
    BY <2>1, <2>2, <2>3, RestoreAdds DEF StepAdds
<1>3. CASE MoveAside
  <2> DEFINE old == [name |-> target, was |-> folder[target]]
  <2>1. /\ target \in Names /\ folder[target] # Absent
        /\ folder'[target] = Absent /\ replaced' = replaced \cup {old}
        /\ \A n \in Names : n # target => folder'[n] = folder[n]
    BY <1>3 DEF MoveAside, TypeOK
  <2>2. \A n \in Names, s \in Numbered : Recorded(n, s)' => Recorded(n, s)
    BY <2>1 DEF Recorded
  <2>3. folder[target] \in Folder
    BY <2>1 DEF TypeOK
  <2>4. target \in Points \/ folder[target].kind = "half"
    BY <2>1, <2>3 DEF Points, Resumable, Folder, Kinds
  <2>5. ASSUME NEW n \in Points', n # target PROVE n \in Points
    BY <2>1, <2>5 DEF Points, Resumable
  <2> QED
    BY <2>1, <2>2, <2>4, <2>5 DEF StepAdds
<1>4. CASE MoveIn
  <2>1. /\ target \in Names /\ replaced' = replaced /\ trainer \in {"publish", "swap"}
        /\ folder'[target] = [kind |-> "whole", run |-> run, step |-> step]
        /\ \A n \in Names : n # target => folder'[n] = folder[n]
    BY <1>4 DEF MoveIn, TypeOK
  <2>2. ASSUME NEW n \in Points', n # target PROVE n \in Points
    BY <2>1, <2>2 DEF Points, Resumable
  <2>3. \A n \in Names, s \in Numbered :
          Recorded(n, s)' => Recorded(n, s) \/ (n = target /\ s = step)
    BY <2>1 DEF Recorded
  <2> QED
    BY <1>4, <2>1, <2>2, <2>3 DEF StepAdds
<1>5. CASE MoveInRefused
  <2> DEFINE old == [name |-> target, was |-> aside]
  <2>1. CASE UNCHANGED <<folder, replaced>>
    BY <2>1, <1>1
  <2>2. CASE trainer = "publish" /\ folder' = [folder EXCEPT ![target] = aside]
             /\ replaced' = replaced \ {old}
    <3>1. aside = Absent
      BY <2>2 DEF SaveState
    <3>2. old \notin replaced
      <4>1. Absent \notin Folder
        BY DEF Absent, Folder, Kinds
      <4> QED
        BY <3>1, <4>1 DEF TypeOK, Parked
    <3>3. UNCHANGED <<folder, replaced>>
      BY <1>5, <2>2, <3>1, <3>2 DEF MoveInRefused, TypeOK
    <3> QED
      BY <3>3, <1>1
  <2>3. CASE trainer = "swap" /\ folder' = [folder EXCEPT ![target] = aside]
             /\ replaced' = replaced \ {old}
    <3>1. /\ target \in Names /\ folder'[target] = aside /\ old \in replaced
          /\ folder[target] = Absent /\ aside # Absent
          /\ \A n \in Names : n # target => folder'[n] = folder[n]
      BY <2>3 DEF TypeOK, SwapState
    <3>2. \A n \in Names, s \in Numbered : Recorded(n, s)' => Recorded(n, s)
      BY <2>3, <3>1 DEF Recorded
    <3>3. ASSUME NEW n \in Points', n # target PROVE n \in Points
      BY <2>3, <3>1, <3>3 DEF Points, Resumable
    <3>4. target \in Points' => target \in Points
      BY <3>1 DEF Points, PieceOf, Resumable
    <3> QED
      BY <2>3, <3>1, <3>2, <3>3, <3>4 DEF StepAdds
  <2> QED
    BY <1>5, <2>1, <2>2, <2>3 DEF MoveInRefused
<1>6. CASE Tidy
  <2> DEFINE old == {[name |-> target, was |-> aside]} \cap replaced
  <2>1. PICK left \in SUBSET Scraps(old) : replaced' = (replaced \ old) \cup left
    BY <1>6 DEF Tidy
  <2>2. Resumable(folder[target]) /\ folder' = folder /\ target \in Names
    BY <1>6 DEF Tidy, SaveState
  <2>3. old \in SUBSET Parked
    BY DEF TypeOK
  <2>4. ASSUME NEW r \in replaced'
        PROVE  \E q \in replaced : PieceOf(r, q)
    <3>1. CASE r \in replaced
      BY <3>1 DEF PieceOf
    <3>2. CASE r \in Scraps(old)
      <4>1. \E q \in old : PieceOf(r, q)
        BY <2>3, <3>2, ScrapsType
      <4> QED
        BY <4>1
    <3> QED
      BY <2>1, <3>1, <3>2
  <2>5. Points' \subseteq Points
    BY <2>2, <2>4 DEF Points, Resumable, PieceOf
  <2>6. \A n \in Names, s \in Numbered : Recorded(n, s)' => Recorded(n, s)
    BY <2>2, <2>4 DEF Recorded, PieceOf
  <2> QED
    BY <2>2, <2>5, <2>6 DEF StepAdds
<1>7. CASE Retain
  <2>1. PICK kept \in SUBSET Numbers : \E left \in [Numbers \ kept -> Folder \cup {Absent}] :
          /\ \A n \in Numbers \ kept : left[n] \in Remains(folder[n])
          /\ folder' = [n \in Names |-> IF n \in Numbers \ kept THEN left[n] ELSE folder[n]]
    BY <1>7 DEF Retain
  <2>2. replaced' = replaced
    BY <1>7 DEF Retain
  <2>3. ASSUME NEW n \in Names
        PROVE  \/ folder'[n] = folder[n]
               \/ /\ folder[n] # Absent /\ folder[n] \in Folder
                  /\ folder'[n] \in Remains(folder[n])
    BY <2>1 DEF Numbers, TypeOK
  <2>4. ASSUME NEW n \in Names
        PROVE  /\ folder'[n] # Absent => folder[n] # Absent /\ folder'[n].step = folder[n].step
               /\ Resumable(folder'[n]) => Resumable(folder[n])
    <3>1. CASE folder'[n] = folder[n]
      BY <3>1
    <3>2. CASE folder[n] # Absent /\ folder[n] \in Folder /\ folder'[n] \in Remains(folder[n])
      BY <3>2, ShredsType DEF Remains, Resumable, Absent
    <3> QED
      BY <2>3, <3>1, <3>2
  <2>5. ASSUME NEW n \in Points' PROVE n \in Points \/ folder[n].kind = "half"
    <3>1. n \in Names
      BY DEF Points
    <3>2. folder[n] = Absent \/ Resumable(folder[n]) \/ folder[n].kind = "half"
      BY <3>1 DEF TypeOK, Folder, Kinds, Resumable
    <3> QED
      BY <2>2, <2>4, <3>1, <3>2 DEF Points, Resumable, Absent
  <2>6. \A n \in Names, s \in Numbered : Recorded(n, s)' => Recorded(n, s)
    BY <2>2, <2>4 DEF Recorded
  <2> QED
    BY <2>4, <2>5, <2>6 DEF StepAdds
<1>8. CASE Resume
  <2>1. PICK back \in SUBSET replaced, kept \in SUBSET replaced :
          Restores(back, kept) /\ folder' = MovedBack(back) /\ replaced' = replaced \ back
    BY <1>8 DEF Resume
  <2> QED
    BY <2>1, RestoreAdds DEF StepAdds
<1>9. CASE UNCHANGED vars
  BY <1>1, <1>9 DEF vars
<1> QED
  BY <1>1, <1>2, <1>3, <1>4, <1>5, <1>6, <1>7, <1>8, <1>9
     DEF Next, Train, BeginSave, WriteStaging, WriteFails, AsideRefused, Return, Die,
         Restart, disk

-----------------------------------------------------------------------------
(* Where a save is, whatever it started from.                              *)

LEMMA FinalName == Final \notin Numbered /\ Numbered \subseteq Names /\ Final \in Names
                   /\ NoName \notin Names /\ (\A n \in Names : n <= Final)
                   /\ Numbered \subseteq Int
BY Bounds DEF Final, Numbered, Names, NoName

LEMMA NextNames ==
  ASSUME IInv, SaveSteps, [Next]_vars, ~ RestartFresh
  PROVE  NameTellsStep'
<1> USE DEF SaveSteps
<1>1. StepAdds /\ PointsKept
  BY NextAdds, StepKeeps DEF StepKept
<1>2. step' <= total' /\ total <= total' /\ step \in Numbered /\ total \in Int /\ total' \in Int
  <2>1. TypeOK /\ TypeOK'
    BY NextTypes DEF IInv, TypeInv
  <2>2. step \in Numbered /\ total \in Int /\ step \in Int /\ total' \in Int
    BY <2>1, FinalName DEF TypeOK
  <2>3. ASSUME UNCHANGED <<step, total>> PROVE step' <= total' /\ total <= total'
    BY <2>2, <2>3 DEF NameTellsStep
  <2>4. CASE Train
    BY <2>2, <2>4 DEF Train, life
  <2>5. CASE Resume
    <3>1. PICK n \in Names, t \in total .. MaxSteps : Resumable(folder'[n]) /\ Launch(n, t)
      BY <2>5 DEF Resume
    <3>2. folder'[n] # Absent /\ step' = folder'[n].step /\ step' \in Numbered /\ total' = t
      BY <2>1, <3>1, FinalName DEF TypeOK, Resumable, Absent, Folder, Launch
    <3>3. PICK s \in Numbered : s = step'
      BY <3>2
    <3>4. Recorded(n, s)'
      BY <3>2, <3>3 DEF Recorded
    <3>5. Recorded(n, s)
      <4>1. trainer = "dead"
        BY <2>5 DEF Resume
      <4>2. ~ MoveIn
        BY <4>1 DEF MoveIn
      <4> QED
        BY <1>1, <3>4, <4>2 DEF StepAdds
    <3>6. s <= total
      BY <3>5 DEF NameTellsStep
    <3> QED
      BY <2>2, <3>2, <3>3, <3>6
  <2>6. CASE Restart
    <3>1. CASE resumeFrom = NoName
      BY <2>1, <2>2, <2>6, <3>1 DEF Restart, Launch, TypeOK
    <3>2. CASE resumeFrom # NoName
      <4>1. resumeFrom \in Names /\ folder[resumeFrom] # Absent
            /\ folder[resumeFrom].step \in Numbered /\ folder' = folder
        BY <2>1, <2>6, <3>2 DEF Restart, TypeOK, Resumable, Absent, Folder
      <4>2. folder[resumeFrom].step <= total
        BY <4>1 DEF NameTellsStep, Recorded
      <4> QED
        BY <2>2, <2>6, <3>2, <4>1, <4>2 DEF Restart, Launch
    <3> QED
      BY <3>1, <3>2
  <2>7. CASE ~ Train /\ ~ Resume /\ ~ Restart
    <3>1. UNCHANGED <<step, total>>
      BY <2>7 DEF Next, vars, BeginSave, Sweep, WriteStaging, WriteFails, GiveUp,
           MoveAside, AsideRefused, MoveIn, MoveInRefused, Tidy, Retain, Return, Die, life
    <3> QED
      BY <2>2, <2>3, <3>1
  <2> QED
    BY <2>2, <2>4, <2>5, <2>6, <2>7
<1>3. ASSUME NEW n \in Names, NEW s \in Numbered, Recorded(n, s)'
      PROVE  s <= total' /\ (n # Final => s = n) /\ (n = Final => Final \in Points')
  <2>1. Final \in Points => Final \in Points'
    <3> SUFFICES ASSUME Final \in Points, Final \notin Points' PROVE FALSE
      OBVIOUS
    <3>1. PICK later \in Points' : later > Final
      BY <1>1 DEF PointsKept
    <3>2. later \in Names
      BY DEF Points
    <3> QED
      BY <3>1, <3>2, FinalName, PointsNumbers
  <2>2. CASE Recorded(n, s)
    <3>1. s <= total /\ (n # Final => s = n) /\ (n = Final => Final \in Points)
      BY <2>2 DEF NameTellsStep
    <3>2. s \in Int
      BY FinalName
    <3> QED
      BY <1>2, <2>1, <3>1, <3>2
  <2>3. CASE MoveIn /\ n = target /\ s = step
    <3>1. trainer \in {"publish", "swap"} /\ target \in Names
      BY <2>3 DEF MoveIn, IInv, TypeInv
    <3>2. target \in {step, Final}
      BY <3>1 DEF Targets
    <3>3. target \in Points'
      BY <2>3, <3>1 DEF MoveIn, Points, Resumable, IInv, TypeInv, TypeOK
    <3>4. s <= total /\ s \in Int
      BY <2>3, FinalName DEF NameTellsStep
    <3>5. n # Final => s = n
      BY <2>3, <3>2
    <3> QED
      BY <1>2, <2>3, <3>3, <3>4, <3>5
  <2> QED
    BY <1>1, <1>3, <2>2, <2>3 DEF StepAdds
<1> QED
  BY <1>2, <1>3 DEF NameTellsStep

LEMMA NextSaveState ==
  ASSUME IInv, SaveSteps, [Next]_vars
  PROVE  SwapState' /\ Targets' /\ SavedOnce'
<1> USE DEF SaveSteps
<1>0. TypeOK /\ step \in Int /\ total \in Int /\ run \in Int /\ saved.run \in Int
      /\ step \in Numbered
      /\ (trainer \in {"publish", "swap", "tidy", "retain", "done"} => target \in Names)
  BY FinalName DEF IInv, TypeInv, TypeOK
<1>1. SwapState'
  <2>1. CASE MoveAside
    BY <1>0, <2>1 DEF MoveAside, SwapState, TypeOK
  <2>2. CASE UNCHANGED vars
    BY <2>2 DEF vars, SwapState
  <2> QED
    BY <2>1, <2>2 DEF Next, SwapState, Train, BeginSave, Sweep, WriteStaging, WriteFails, GiveUp,
         AsideRefused, MoveIn, MoveInRefused, Tidy, Retain, Return, Die, Resume, Restart,
         RestartFresh, Launch
<1>2. Targets'
  <2>1. CASE WriteStaging
    BY <1>0, <2>1, FinalName DEF WriteStaging, Targets, life
  <2>2. CASE Tidy
    BY <1>0, <2>2, FinalName DEF Tidy, Targets, life
  <2>3. CASE MoveAside \/ MoveIn \/ Retain
    BY <1>0, <2>3, FinalName DEF MoveAside, MoveIn, Retain, Targets, life
  <2>4. CASE WriteFails \/ AsideRefused \/ MoveInRefused
    BY <2>4 DEF WriteFails, AsideRefused, MoveInRefused, GiveUp, Targets, life
  <2>5. ASSUME NEW m \in Modes, BeginSave(m) PROVE Targets'
    BY <2>5 DEF BeginSave, Targets, life
  <2>6. CASE Train \/ Return \/ Die \/ RestartFresh \/ Resume \/ Restart
    BY <2>6 DEF Train, Return, Die, RestartFresh, Resume, Restart, Launch, Targets
  <2>7. CASE Sweep \/ UNCHANGED vars
    BY <2>7 DEF vars, Sweep, Targets, life
  <2> QED
    BY <2>1, <2>2, <2>3, <2>4, <2>5, <2>6, <2>7 DEF Next
<1>3. SavedOnce'
  <2>1. CASE Tidy
    BY <2>1 DEF Tidy, SavedOnce, life
  <2>2. CASE MoveAside \/ MoveIn \/ Retain \/ WriteStaging \/ Sweep \/ UNCHANGED vars
    BY <2>2 DEF MoveAside, MoveIn, Retain, WriteStaging, Sweep, SavedOnce, life, vars
  <2>3. CASE WriteFails \/ AsideRefused \/ MoveInRefused
    BY <2>3 DEF WriteFails, AsideRefused, MoveInRefused, GiveUp, SavedOnce, life
  <2>4. ASSUME NEW m \in Modes, BeginSave(m) PROVE SavedOnce'
    BY <2>4 DEF BeginSave, SavedOnce, life
  <2>5. CASE Train \/ Return \/ Die
    BY <1>0, <2>5 DEF Train, Return, Die, SavedOnce, life
  <2>6. CASE RestartFresh \/ Resume \/ Restart
    <3>1. trainer' = "training" /\ run' = run + 1 /\ (saved'.run = 0 \/ saved' = saved)
      BY <2>6 DEF RestartFresh, Resume, Restart, Launch
    <3>2. run \in 1 .. MaxRuns /\ saved.run <= run
      BY DEF IInv, TypeInv, TypeOK, SavedOnce
    <3>3. saved'.run <= run'
      BY <1>0, <3>1, <3>2
    <3> QED
      BY <3>1, <3>3 DEF SavedOnce
  <2> QED
    BY <2>1, <2>2, <2>3, <2>4, <2>5, <2>6 DEF Next
<1> QED
  BY <1>1, <1>2, <1>3

LEMMA FreshSteps ==
  ASSUME ~ WipeCanFail, IInv, [Next]_vars, RestartFresh
  PROVE  /\ NameTellsStep' /\ (\A n \in Names, s \in Numbered : ~ Recorded(n, s)')
         /\ Points' = {} /\ \A n \in Names : folder'[n] = Absent
<1>1. replaced' = {} /\ \A n \in Names : folder'[n] = Absent
  BY DEF RestartFresh
<1>2. step' = 0 /\ total' = total /\ total \in 1 .. MaxSteps
  BY DEF RestartFresh, IInv, TypeInv, TypeOK
<1>3. Points' = {} /\ \A n \in Names, s \in Numbered : ~ Recorded(n, s)'
  BY <1>1 DEF Points, Resumable, Absent, Recorded
<1> QED
  BY <1>1, <1>2, <1>3 DEF NameTellsStep

LEMMA NextSteps ==
  ASSUME ~ WipeCanFail
  PROVE  IInv /\ SaveSteps /\ [Next]_vars => SaveSteps'
BY NextNames, NextSaveState, FreshSteps DEF SaveSteps

-----------------------------------------------------------------------------
(* A run that went on from the newest point.                               *)

\* What a launch that rewinds nothing starts from.
LEMMA LaunchedFrom ==
  ASSUME IInv, Resume \/ Restart, ~ rewound'
  PROVE  /\ total' = total \/ Final \notin Points
         /\ \/ Points = {}
            \/ \E from \in Names : /\ \A n \in Points : n <= from
                                   /\ folder'[from] # Absent /\ step' = folder'[from].step
<1>1. PICK from \in Names \cup {NoName}, t \in Nat :
        /\ Launch(from, t)
        /\ from # NoName => Resumable(folder'[from])
  <2>1. total .. MaxSteps \subseteq Nat /\ total \in Nat /\ resumeFrom \in Names \cup {NoName}
    BY Bounds DEF IInv, TypeInv, TypeOK
  <2>2. CASE Resume
    BY <2>1, <2>2 DEF Resume
  <2>3. CASE Restart
    BY <2>1, <2>3 DEF Restart
  <2> QED
    BY <2>2, <2>3
<1>2. \A n \in Points : ~ (from < n)
  BY <1>1 DEF Launch
<1>3. total' = total \/ Final \notin Points
  BY <1>1 DEF Launch
<1>4. CASE from = NoName
  BY <1>2, <1>3, <1>4, FinalName, PointsNumbers DEF NoName, Points, Names
<1>5. CASE from # NoName
  <2>1. from \in Int /\ \A n \in Points : n <= from
    BY <1>1, <1>2, <1>5, PointsNumbers
  <2>2. folder'[from] # Absent /\ step' = folder'[from].step
    BY <1>1, <1>5 DEF Launch, Resumable, Absent
  <2> QED
    BY <1>1, <1>3, <1>5, <2>1, <2>2
<1> QED
  BY <1>4, <1>5

LEMMA RewoundStays ==
  ASSUME [Next]_vars, ~ RestartFresh, ~ rewound'
  PROVE  ~ rewound
BY DEF Next, vars, Train, BeginSave, Sweep, WriteStaging, WriteFails, GiveUp, MoveAside,
       AsideRefused, MoveIn, MoveInRefused, Tidy, Retain, Return, Die, Resume, Restart,
       Launch, life

\* A folder that is there, and a point, record a step.
LEMMA PointRecorded ==
  ASSUME TypeOK, NEW n \in Names, folder[n] # Absent \/ n \in Points
  PROVE  \E s \in Numbered : Recorded(n, s)
<1>1. CASE folder[n] # Absent
  <2>1. folder[n].step \in Numbered
    BY <1>1 DEF TypeOK, Folder
  <2> QED
    BY <1>1, <2>1 DEF Recorded
<1>2. CASE folder[n] = Absent
  <2>1. PICK r \in replaced : r.name = n
    BY <1>2 DEF Points, Resumable, Absent
  <2>2. r.was.step \in Numbered
    BY <2>1 DEF TypeOK, Parked, Folder
  <2> QED
    BY <2>1, <2>2 DEF Recorded
<1> QED
  BY <1>1, <1>2

\* The length of the training changes only when it is launched again.
LEMMA SameTotal ==
  ASSUME [Next]_vars, ~ Resume
  PROVE  total' = total
BY DEF Next, vars, Train, BeginSave, Sweep, WriteStaging, WriteFails, GiveUp, MoveAside,
       AsideRefused, MoveIn, MoveInRefused, Tidy, Retain, Return, Die, Restart,
       RestartFresh, Launch, life

LEMMA NextFinalIsEnd ==
  ASSUME IInv, SaveSteps, FinalIsEnd, [Next]_vars, ~ RestartFresh, ~ rewound'
  PROVE  FinalIsEnd'
<1> SUFFICES ASSUME NEW s \in Numbered, Recorded(Final, s)' PROVE s = total'
  BY DEF FinalIsEnd
<1> USE FinalName
<1>1. CASE Recorded(Final, s)
  <2>1. s = total /\ Final \in Points
    BY <1>1 DEF FinalIsEnd, SaveSteps, NameTellsStep
  <2>2. total' = total
    BY <2>1, SameTotal, LaunchedFrom
  <2> QED
    BY <2>1, <2>2
<1>2. CASE MoveIn /\ Final = target /\ s = step
  <2>1. trainer \in {"publish", "swap"} /\ total' = total
    BY <1>2 DEF MoveIn, life
  <2> QED
    BY <1>2, <2>1 DEF SaveSteps, Targets
<1> QED
  BY <1>1, <1>2, NextAdds DEF StepAdds, SaveSteps

LEMMA NextNotAhead ==
  ASSUME IInv, SaveSteps, FinalIsEnd, NotAhead, [Next]_vars, ~ RestartFresh, ~ rewound'
  PROVE  NotAhead'
<1> USE FinalName
<1>0. /\ step \in Int /\ step' \in Int /\ step \in Numbered /\ total \in Int
      /\ TypeOK /\ TypeOK' /\ StepAdds /\ SaveSteps
  <2>1. TypeOK /\ TypeOK'
    BY NextTypes DEF IInv, TypeInv
  <2>2. StepAdds
    BY NextAdds DEF SaveSteps
  <2> QED
    BY <2>1, <2>2 DEF TypeOK
<1>1. CASE Resume \/ Restart
  <2>1. ~ MoveIn /\ trainer = "dead"
    BY <1>1 DEF MoveIn, Resume, Restart
  <2>2. \A n \in Names : folder'[n] # Absent \/ n \in Points' => folder[n] # Absent \/ n \in Points
    BY <1>0, <2>1 DEF StepAdds, Absent
  <2>3. \A n \in Names : folder[n] # Absent => n \in Points \/ \E m \in Points : n < m
    BY <1>0 DEF TypeOK, Folder, Kinds, Points, Resumable, IInv, DamageIsOld
  <2>4. CASE Points = {}
    BY <2>2, <2>3, <2>4 DEF NotAhead
  <2>5. ASSUME NEW from \in Names, \A n \in Points : n <= from,
               folder'[from] # Absent, step' = folder'[from].step
        PROVE  NotAhead'
    <3>1. PICK s \in Numbered : s = step'
      BY <1>0 DEF TypeOK
    <3>2. Recorded(from, s)'
      BY <2>5, <3>1 DEF Recorded
    <3>3. Recorded(from, s)
      BY <1>0, <2>1, <3>2 DEF StepAdds
    <3>4. from # Final => step' = from
      BY <3>1, <3>3, <1>0 DEF SaveSteps, NameTellsStep
    <3>5. from = Final => step' = total /\ total' = total
      <4> SUFFICES ASSUME from = Final PROVE step' = total /\ total' = total
        OBVIOUS
      <4>1. s = total /\ Final \in Points
        BY <3>3, <1>0 DEF FinalIsEnd, SaveSteps, NameTellsStep
      <4> QED
        BY <1>1, <3>1, <4>1, LaunchedFrom
    <3>6. \A n \in Numbered : folder'[n] # Absent \/ n \in Points' => n <= step'
      <4> SUFFICES ASSUME NEW n \in Numbered, folder'[n] # Absent \/ n \in Points'
                   PROVE  n <= step'
        OBVIOUS
      <4>1. PICK m \in Points : n <= m
        BY <2>2, <2>3, PointsNumbers
      <4>2. n <= from
        BY <2>5, <4>1, PointsNumbers
      <4>3. CASE from # Final
        BY <3>4, <4>2, <4>3
      <4>4. CASE from = Final
        <5>1. PICK k \in Numbered : Recorded(n, k)
          BY <1>0, <2>2, PointRecorded
        <5>2. n <= total
          BY <5>1, <1>0 DEF SaveSteps, NameTellsStep
        <5> QED
          BY <3>5, <4>4, <5>2
      <4> QED
        BY <4>3, <4>4
    <3>7. Final \in Points' => step' = total'
      <4> SUFFICES ASSUME Final \in Points' PROVE step' = total'
        OBVIOUS
      <4>1. PICK m \in Points : Final <= m
        BY <2>2, <2>3, PointsNumbers
      <4>2. from = Final
        BY <2>5, <4>1, PointsNumbers
      <4> QED
        BY <3>5, <4>2
    <3> QED
      BY <3>6, <3>7 DEF NotAhead
  <2> QED
    BY <1>1, <2>4, <2>5, LaunchedFrom
<1>2. CASE Train
  <2>1. /\ step' = step + 1 /\ Points' = Points /\ folder' = folder /\ total' = total
        /\ trainer = "training" /\ step < total
    BY <1>2, SameDisk DEF Train, disk, life
  <2>2. Final \notin Points /\ \A n \in Numbered : folder[n] # Absent \/ n \in Points => n <= step
    BY <1>0, <2>1 DEF NotAhead
  <2> QED
    BY <1>0, <2>1, <2>2 DEF NotAhead
<1>3. CASE ~ Resume /\ ~ Restart /\ ~ Train /\ trainer' # "dead"
  <2>1. step' = step /\ total' = total /\ trainer # "dead"
    BY <1>3 DEF Next, vars, BeginSave, Sweep, WriteStaging, WriteFails, GiveUp, MoveAside,
           AsideRefused, MoveIn, MoveInRefused, Tidy, Retain, Return, Die, life
  <2>2. trainer \in {"publish", "swap"} =>
          (target = Final => step = total) /\ target \in {step, Final}
    BY <1>0 DEF SaveSteps, Targets
  <2>3. MoveIn => trainer \in {"publish", "swap"}
    BY DEF MoveIn
  <2>4. ASSUME NEW n \in Numbered, folder'[n] # Absent \/ n \in Points' PROVE n <= step
    <3>1. \/ folder[n] # Absent \/ n \in Points
          \/ n = target /\ trainer \in {"publish", "swap"}
      BY <1>0, <2>3, <2>4 DEF StepAdds, Absent
    <3> QED
      BY <1>0, <2>1, <2>2, <3>1 DEF NotAhead
  <2>5. ASSUME Final \in Points' PROVE step = total
    <3>1. \/ Final \in Points \/ folder[Final].kind = "half"
          \/ Final = target /\ trainer \in {"publish", "swap"}
      BY <1>0, <2>3, <2>5 DEF StepAdds
    <3>2. folder[Final].kind # "half"
      <4> SUFFICES ASSUME folder[Final].kind = "half" PROVE FALSE
        OBVIOUS
      <4>1. PICK m \in Points : m > Final
        BY DEF IInv, DamageIsOld
      <4>2. m \in Names
        BY DEF Points
      <4> QED
        BY <4>1, <4>2, PointsNumbers
    <3> QED
      BY <2>1, <2>2, <3>1, <3>2 DEF NotAhead
  <2> QED
    BY <2>1, <2>4, <2>5 DEF NotAhead
<1> QED
  BY <1>1, <1>2, <1>3 DEF NotAhead

LEMMA NextPublished ==
  ASSUME IInv, SaveSteps, NotAhead, Published, [Next]_vars
  PROVE  Published'
<1> USE FinalName
<1>0. TypeOK /\ step \in Int /\ step \in Numbered
      /\ (trainer \in {"publish", "swap", "tidy", "retain", "done"} => target \in Names)
  BY DEF IInv, TypeInv, TypeOK
<1>1. CASE MoveIn
  BY <1>0, <1>1 DEF MoveIn, Published, TypeOK, life
<1>2. CASE Tidy
  BY <1>2 DEF Tidy, Published, life
<1>3. CASE Retain
  <2>1. PICK kept \in SUBSET Numbers :
          /\ Retained(kept)
          /\ \E left \in [Numbers \ kept -> Folder \cup {Absent}] :
               folder' = [n \in Names |-> IF n \in Numbers \ kept THEN left[n] ELSE folder[n]]
    BY <1>3 DEF Retain
  <2>2. /\ trainer = "retain" /\ target \in Names /\ target \in {step, Final}
        /\ UNCHANGED <<run, step, target>>
    BY <1>0, <1>3 DEF Retain, SaveSteps, Targets, life
  <2>3. target \notin Numbers \ kept
    <3> SUFFICES ASSUME target \in Numbers, target \notin kept PROVE FALSE
      OBVIOUS
    <3>1. kept # {} /\ \A k \in kept : target < k
      <4>1. Cardinality({}) = 0
        BY FS_EmptySet
      <4> QED
        BY <2>1, <4>1, Bounds DEF Retained
    <3>2. PICK k \in kept : target < k
      BY <3>1
    <3>3. k \in Numbered /\ folder[k] # Absent
      BY <2>1, <3>2 DEF Numbers
    <3>4. k <= step
      BY <2>2, <3>3 DEF NotAhead
    <3>5. target = step
      BY <2>2 DEF Numbers
    <3> QED
      BY <1>0, <3>2, <3>3, <3>4, <3>5
  <2>4. folder'[target] = folder[target]
    BY <2>1, <2>2, <2>3
  <2> QED
    BY <2>2, <2>4 DEF Published
<1>4. ASSUME trainer' \notin {"tidy", "retain", "done"} PROVE Published'
  BY <1>4 DEF Published
<1>5. CASE UNCHANGED vars
  BY <1>5 DEF Published, vars
<1> QED
  BY <1>1, <1>2, <1>3, <1>4, <1>5
     DEF Next, Train, BeginSave, Sweep, WriteStaging, WriteFails, GiveUp, MoveAside,
         AsideRefused, MoveInRefused, Return, Die, Resume, Restart, Launch, RestartFresh, SaveSteps,
         Targets, IInv, SaveState

\* What every point is behind stays ahead, but for the save that publishes.
LEMMA StaysNewest ==
  ASSUME IInv, SaveSteps, [Next]_vars, ~ RestartFresh, ~ MoveIn,
         NEW n \in Int, \A m \in Points : m <= n
  PROVE  \A m \in Points' : m <= n
<1>1. StepAdds
  BY NextAdds DEF SaveSteps
<1>2. ASSUME NEW m \in Points' PROVE m <= n
  <2>1. m \in Names /\ m \in Int
    BY PointsNumbers DEF Points
  <2>2. CASE m \in Points
    BY <2>2
  <2>3. CASE folder[m].kind = "half"
    <3>1. PICK later \in Points : later > m
      BY <2>1, <2>3 DEF IInv, DamageIsOld
    <3> QED
      BY <2>1, <3>1, PointsNumbers
  <2> QED
    BY <1>1, <1>2, <2>2, <2>3 DEF StepAdds
<1> QED
  BY <1>2

\* The save that returns is the newest point.
LEMMA ReturnedNewest ==
  ASSUME IInv, SaveSteps, NotAhead, Published, trainer = "done"
  PROVE  /\ target \in Names /\ Newest(target)
         /\ folder[target].kind = "whole" /\ folder[target].run = run
<1> USE FinalName
<1>1. /\ target \in Names /\ step \in Int /\ target \in {step, Final}
      /\ target = Final <=> step = total
  BY DEF IInv, TypeInv, TypeOK, SaveSteps, Targets
<1>2. folder[target].kind = "whole" /\ folder[target].run = run /\ target \in Points
  BY <1>1 DEF Published, Points, Resumable
<1>3. ASSUME NEW m \in Points PROVE m <= target
  <2>1. m \in Names /\ (m = Final \/ m \in Numbered)
    BY Bounds DEF Points, Names, Final, Numbered
  <2>2. CASE m = Final
    BY <1>1, <1>3, <2>2, PointsNumbers DEF NotAhead
  <2>3. CASE m \in Numbered /\ target = step
    BY <1>3, <2>3 DEF NotAhead
  <2>4. CASE target = Final
    BY <2>1, <2>4
  <2> QED
    BY <1>1, <2>1, <2>2, <2>3, <2>4
<1> QED
  BY <1>1, <1>2, <1>3 DEF Newest

LEMMA NextSavedIsLast ==
  ASSUME IInv, SaveSteps, NotAhead, Published, SavedIsLast, [Next]_vars, ~ RestartFresh
  PROVE  SavedIsLast'
<1> SUFFICES ASSUME saved'.run = run', target' # Final,
                    trainer' \in {"training", "sweep", "write", "publish", "swap"}
             PROVE  \A m \in Points' : m <= saved'.name
  BY DEF SavedIsLast
<1> USE FinalName
<1>0. TypeOK /\ run \in Int /\ saved.run \in Int /\ saved.run <= run /\ saved.name \in Int
  BY DEF IInv, TypeInv, TypeOK, SaveSteps, SavedOnce, NoName, Names
<1>1. CASE Return
  <2>1. saved'.name = target /\ folder' = folder /\ replaced' = replaced
    BY <1>1 DEF Return, disk
  <2>2. trainer = "done"
    BY <1>1 DEF Return
  <2>3. Points' = Points
    BY <2>1, SameDisk
  <2> QED
    BY <2>1, <2>2, <2>3, ReturnedNewest DEF Newest
<1>2. CASE Resume \/ Restart
  BY <1>0, <1>2 DEF Resume, Restart, Launch
<1>3. CASE ~ Return /\ ~ Resume /\ ~ Restart
  <2>1. ~ MoveIn
    BY DEF MoveIn
  <2>2. saved' = saved /\ run' = run
    BY <1>3 DEF Next, vars, Train, BeginSave, Sweep, WriteStaging, WriteFails, GiveUp, MoveAside,
           AsideRefused, MoveIn, MoveInRefused, Tidy, Retain, Die, life
  <2>3. trainer \in {"training", "sweep", "write", "publish", "swap"} /\ target # Final
    <3>1. CASE Tidy
      <4>1. trainer' = "retain" \/ target' = Final
        BY <3>1 DEF Tidy
      <4> QED
        BY <4>1
    <3>2. CASE WriteFails \/ AsideRefused \/ MoveInRefused
      <4>1. trainer \in {"write", "publish", "swap"} /\ mode = "rebuild"
        BY <3>2 DEF WriteFails, AsideRefused, MoveInRefused, GiveUp
      <4> QED
        BY <4>1 DEF SaveSteps, Targets, NoName, Final, Names
    <3>3. CASE Train \/ Sweep \/ WriteStaging \/ MoveAside \/ \E m \in Modes : BeginSave(m)
      BY <3>3 DEF Train, Sweep, WriteStaging, MoveAside, BeginSave, SaveSteps, Targets
    <3>4. CASE UNCHANGED vars
      BY <3>4 DEF vars
    <3> QED
      BY <1>3, <2>1, <3>1, <3>2, <3>3, <3>4 DEF Next, Retain, Die
  <2>4. \A m \in Points : m <= saved.name
    BY <2>2, <2>3 DEF SavedIsLast
  <2> QED
    BY <1>0, <2>1, <2>2, <2>4, StaysNewest
<1> QED
  BY <1>1, <1>2, <1>3

LEMMA NextSavedIsNewest ==
  ASSUME IInv, SaveSteps, NotAhead, Published, SavedIsNewest, SavedIsLast, [Next]_vars,
         ~ RestartFresh
  PROVE  SavedIsNewest'
<1> SUFFICES ASSUME saved'.run = run'
             PROVE  \E n \in Names : n >= saved'.name /\ Newest(n)' /\ OfThisRun(n)'
  BY DEF SavedIsNewest
<1> USE FinalName
<1>0. /\ TypeOK /\ run \in Int /\ saved.run \in Int /\ saved.run <= run /\ saved.name \in Int
      /\ Points' \subseteq Int /\ Names \subseteq Int /\ StepKept /\ StepAdds
      /\ (trainer \in {"publish", "swap", "tidy", "retain", "done"} => target \in Names)
  <2>1. StepKept /\ StepAdds
    BY StepKeeps, NextAdds DEF SaveSteps
  <2>2. Points' \subseteq Int /\ Names \subseteq Int /\ NoName \in Int
    <3>1. Points' \subseteq Names
      BY DEF Points
    <3> QED
      BY <3>1, PointsNumbers DEF NoName
  <2>3. TypeOK /\ run \in Int /\ saved.run \in Int /\ saved.name \in Names \cup {NoName}
    BY DEF IInv, TypeInv, TypeOK
  <2> QED
    BY <2>1, <2>2, <2>3 DEF IInv, TypeInv, SaveSteps, SavedOnce
<1>1. CASE Return
  <2>1. saved'.name = target /\ folder' = folder /\ replaced' = replaced /\ run' = run
    BY <1>1 DEF Return, disk, life
  <2>2. trainer = "done"
    BY <1>1 DEF Return
  <2>3. Points' = Points
    BY <2>1, SameDisk
  <2> QED
    BY <1>0, <2>1, <2>2, <2>3, ReturnedNewest DEF Newest, OfThisRun
<1>2. CASE Resume \/ Restart
  BY <1>0, <1>2 DEF Resume, Restart, Launch
<1>3. CASE ~ Return /\ ~ Resume /\ ~ Restart
  <2>1. saved' = saved /\ run' = run
    BY <1>3 DEF Next, vars, Train, BeginSave, Sweep, WriteStaging, WriteFails, GiveUp, MoveAside,
           AsideRefused, MoveIn, MoveInRefused, Tidy, Retain, Die, life
  <2>2. PICK n \in Names : n >= saved.name /\ Newest(n) /\ OfThisRun(n)
    BY <2>1 DEF SavedIsNewest
  <2>3. n \in Points /\ n \in Int /\ \A m \in Points : m <= n
    BY <2>2, PointsNumbers DEF Newest
  <2>4. ~ MoveIn => Newest(n)'
    <3> SUFFICES ASSUME ~ MoveIn PROVE Newest(n)'
      OBVIOUS
    <3>1. \A m \in Points' : m <= n
      BY <2>3, StaysNewest
    <3>2. n \in Points'
      <4> SUFFICES ASSUME n \notin Points' PROVE FALSE
        OBVIOUS
      <4>1. PICK m \in Points' : m > n
        BY <1>0, <2>3 DEF StepKept, PointsKept
      <4> QED
        BY <1>0, <2>3, <3>1, <4>1
    <3> QED
      BY <3>1, <3>2 DEF Newest
  <2>5. CASE MoveIn
    <3>1. /\ target \in Names /\ trainer' = "tidy"
          /\ folder'[target] = [kind |-> "whole", run |-> run, step |-> step]
          /\ \A m \in Names : m # target => folder'[m] = folder[m]
          /\ folder[target] = Absent
      BY <1>0, <2>5 DEF MoveIn, TypeOK
    <3>2. ASSUME NEW m \in Points' PROVE m \in Points \/ m = target
      <4>1. folder[m].kind # "half" \/ m \in Names
        BY DEF Points
      <4>2. folder[m].kind = "half" => m # target
        BY <3>1 DEF Absent
      <4>3. folder[m].kind = "half" /\ m # target => m \notin Points'
        BY <3>1, <4>1 DEF Points, Resumable, Absent
      <4> QED
        BY <1>0, <3>2, <4>2, <4>3 DEF StepAdds
    <3>3. target \in Points'
      BY <3>1 DEF Points, Resumable
    <3>4. CASE n <= target
      <4>1. \A m \in Points' : m <= target
        BY <1>0, <2>3, <3>1, <3>2, <3>4
      <4>2. target >= saved.name
        <5>1. target \in Int /\ n \in Int /\ saved.name \in Int
          BY <1>0, <2>3, <3>1
        <5> QED
          BY <2>2, <3>4, <5>1
      <4> QED
        BY <2>1, <3>1, <3>3, <4>1, <4>2 DEF Newest, OfThisRun
    <3>5. CASE n > target
      <4>1. folder[n].kind = "whole" /\ folder[n].run = run /\ folder'[n] = folder[n]
        BY <1>0, <2>2, <2>5, <3>1, <3>5 DEF OfThisRun, MoveIn
      <4>2. n \in Points' /\ \A m \in Points' : m <= n
        BY <2>3, <3>1, <3>2, <3>5, <4>1, <1>0 DEF Points, Resumable
      <4> QED
        BY <2>1, <2>2, <4>1, <4>2 DEF Newest, OfThisRun
    <3> QED
      BY <1>0, <2>3, <3>1, <3>4, <3>5
  <2>6. CASE ~ MoveIn
    <3>1. SUFFICES OfThisRun(n)'
      BY <2>1, <2>2, <2>4, <2>6
    <3>2. CASE UNCHANGED vars
      BY <2>2, <3>2 DEF vars, OfThisRun, InStore
    <3>3. CASE folder[n].kind = "whole" /\ folder[n].run = run
      <4>1. folder[n] # Absent
        BY <3>3 DEF Absent
      <4>2. SUFFICES \/ folder'[n] = folder[n]
                     \/ trainer' = "swap" /\ n = target' /\ aside' = folder[n]
        BY <2>1, <3>3 DEF OfThisRun
      <4>3. CASE Sweep
        <5>1. PICK back \in SUBSET replaced, kept \in SUBSET replaced :
                Restores(back, kept) /\ folder' = MovedBack(back)
          BY <4>3 DEF Sweep
        <5> QED
          BY <1>0, <4>1, <5>1, MovedBackType
      <4>4. CASE MoveAside
        BY <1>0, <4>4 DEF MoveAside, TypeOK
      <4>5. CASE MoveInRefused
        BY <1>0, <4>1, <4>5 DEF MoveInRefused, TypeOK
      <4>6. CASE Retain
        <5>1. folder'[n] = folder[n] \/ Later(n)'
          BY <4>6, RetainKeeps DEF IInv
        <5>2. ~ Later(n)'
          BY <1>0, <2>3, <2>4, <2>6 DEF Later, Newest
        <5> QED
          BY <5>1, <5>2
      <4>7. CASE UNCHANGED folder
        BY <4>7
      <4> QED
        BY <1>3, <2>6, <3>2, <4>3, <4>4, <4>5, <4>6, <4>7
           DEF Next, vars, Train, BeginSave, WriteStaging, WriteFails, AsideRefused, Tidy, Die, disk
    <3>4. CASE trainer = "swap" /\ n = target /\ aside.kind = "whole" /\ aside.run = run
               /\ ~ UNCHANGED vars
      <4>1. folder[n] = Absent /\ [name |-> n, was |-> aside] \in replaced
        BY <3>4 DEF SaveSteps, SwapState
      <4>2. UNCHANGED <<folder, replaced>> /\ trainer' = "dead" => OfThisRun(n)'
        BY <2>1, <3>4, <4>1 DEF OfThisRun, InStore
      <4>3. CASE Die
        BY <4>2, <4>3 DEF Die, disk
      <4>4. CASE MoveInRefused /\ folder' = [folder EXCEPT ![target] = aside]
        BY <1>0, <2>1, <3>4, <4>4 DEF OfThisRun, TypeOK
      <4>5. CASE MoveInRefused /\ UNCHANGED <<folder, replaced>>
        <5>1. mode # "rebuild"
          <6> SUFFICES ASSUME mode = "rebuild" PROVE FALSE
            OBVIOUS
          <6>1. target # Final /\ target = step
            BY <3>4 DEF SaveSteps, Targets
          <6>2. saved.name = step
            BY <1>0, <2>1, <2>2, <2>3, <3>4, <6>1 DEF SavedIsLast
          <6>3. saved = [name |-> step, run |-> run]
            BY <1>0, <2>1, <6>2 DEF TypeOK
          <6> QED
            BY <3>4, <6>3 DEF SaveSteps, SavedOnce
        <5>2. trainer' = "dead"
          BY <4>5, <5>1 DEF MoveInRefused, GiveUp
        <5> QED
          BY <4>2, <4>5, <5>2
      <4> QED
        BY <1>3, <2>6, <3>4, <4>3, <4>4, <4>5
           DEF Next, Train, BeginSave, Sweep, WriteStaging, WriteFails, MoveAside, AsideRefused,
               MoveInRefused, Tidy, Retain
    <3>5. CASE trainer = "dead" /\ ~ UNCHANGED vars
      BY <1>3, <3>5 DEF Next, Train, BeginSave, Sweep, WriteStaging, WriteFails, MoveAside,
             AsideRefused, MoveIn, MoveInRefused, Tidy, Retain, Die
    <3> QED
      BY <2>2, <3>2, <3>3, <3>4, <3>5 DEF OfThisRun
  <2> QED
    BY <2>5, <2>6
<1> QED
  BY <1>1, <1>2, <1>3

LEMMA InitSaved == Init => SInv
<1> SUFFICES ASSUME Init PROVE SInv
  OBVIOUS
<1>1. IInv
  BY InitInv
<1>2. /\ Points = {} /\ (\A n \in Names, s \in Numbered : ~ Recorded(n, s))
      /\ \A n \in Names : folder[n] = Absent
  BY DEF Init, Points, Resumable, Absent, Recorded
<1>3. SaveSteps
  BY <1>2 DEF Init, SaveSteps, NameTellsStep, SwapState, Targets, SavedOnce
<1>4. Straight
  BY <1>2, FinalName DEF Init, Straight, FinalIsEnd, NotAhead, Published, SavedIsNewest, SavedIsLast
<1> QED
  BY <1>1, <1>3, <1>4 DEF SInv

LEMMA NextSaved ==
  ASSUME ~ WipeCanFail
  PROVE  SInv /\ [Next]_vars => SInv'
<1> SUFFICES ASSUME SInv, [Next]_vars PROVE SInv'
  OBVIOUS
<1> USE DEF SInv
<1>1. IInv' /\ SaveSteps'
  BY NextInv, NextSteps
<1>2. CASE RestartFresh
  <2>1. trainer' = "training" /\ saved'.run = 0 /\ run' # 0
    <3>1. run' = run + 1 /\ run \in 1 .. MaxRuns
      BY <1>2 DEF RestartFresh, IInv, TypeInv, TypeOK
    <3> QED
      BY <1>2, <3>1 DEF RestartFresh
  <2>2. /\ Points' = {} /\ \A n \in Names, s \in Numbered : ~ Recorded(n, s)'
        /\ \A n \in Names : folder'[n] = Absent
    BY <1>2, FreshSteps
  <2>3. Straight'
    BY <2>1, <2>2, FinalName
       DEF Straight, FinalIsEnd, NotAhead, Published, SavedIsNewest, SavedIsLast
  <2> QED
    BY <1>1, <2>3
<1>3. CASE ~ RestartFresh /\ ~ rewound'
  <2>1. Straight
    BY <1>3, RewoundStays
  <2>2. Straight'
    BY <1>3, <2>1, NextFinalIsEnd, NextNotAhead, NextPublished, NextSavedIsNewest,
       NextSavedIsLast DEF Straight
  <2> QED
    BY <1>1, <2>2
<1> QED
  BY <1>1, <1>2, <1>3

\* A save that returned is what the next launch picks, complete under its name
\* or moved aside, or a later save of the same run is, however the saves after
\* it were cut short, unless the user went back or on beyond the end, or
\* "Restart fresh" left folders: Checkpoints.SavedIsKept.
THEOREM SavedKept ==
  ASSUME ~ WipeCanFail
  PROVE  Spec => []SavedIsKept
<1>1. SInv => SavedIsKept
  <2> SUFFICES ASSUME SInv, ~ rewound, trainer \in {"training", "dead"}, saved.run = run
               PROVE  \E n \in Points : /\ n >= saved.name /\ InStore(n, run)
                                        /\ \A m \in Points : m <= n
    BY DEF SavedIsKept, LastSaveIsNewest
  <2>1. PICK n \in Names : n >= saved.name /\ Newest(n) /\ OfThisRun(n)
    BY DEF SInv, Straight, SavedIsNewest
  <2>2. InStore(n, run)
    BY <2>1 DEF OfThisRun, InStore
  <2> QED
    BY <2>1, <2>2 DEF Newest
<1> QED
  BY InitSaved, NextSaved, <1>1, PTL DEF Spec
=============================================================================

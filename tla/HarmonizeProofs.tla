--------------------------- MODULE HarmonizeProofs ---------------------------
(***************************************************************************)
(* Proofs about Harmonize: types, that captions and marks stay with their  *)
(* pictures, and that no picture is lost, where no name sorts before a     *)
(* temporary one or no task was cut short.                                 *)
(***************************************************************************)
EXTENDS Harmonize, FiniteSetTheorems, SequenceTheorems, TLAPS

-----------------------------------------------------------------------------
(* The names.                                                              *)

Listing == [name : Names, kind : Kinds, captioned : BOOLEAN]
Move    == [old : Names, temp : Temps, captioned : BOOLEAN]

LEMMA NamesFacts ==
  /\ Slots \in Nat /\ Cardinality(Pictures) \in Nat /\ FirstTemp \in Nat /\ FirstFinal \in Nat
  /\ Names \subseteq Nat /\ IsFiniteSet(Names)
  /\ MaxRuns \in Nat /\ MaxTroubles \in Nat
<1>1. /\ FirstTemp \in Nat /\ FirstFinal \in Nat /\ MaxRuns \in Nat /\ MaxTroubles \in Nat
      /\ IsFiniteSet(UserNames) /\ IsFiniteSet(Pictures) /\ UserNames \subseteq Nat
  BY NamesApart
<1>2. Cardinality(Pictures) \in Nat /\ Slots \in Nat
  BY <1>1, FS_CardinalityType DEF Slots
<1>3. /\ Temps \in SUBSET Nat /\ FirstTemp + Slots \in Nat
      /\ \A t \in Temps : t <= FirstTemp + Slots
  BY <1>1, <1>2 DEF Temps, Temp
<1>4. /\ Finals \in SUBSET Nat /\ FirstFinal + Slots \in Nat
      /\ \A t \in Finals : t <= FirstFinal + Slots
  BY <1>1, <1>2 DEF Finals, Final
<1>5. IsFiniteSet(Temps)
  BY <1>3, FS_BoundedSetOfNaturals
<1>6. IsFiniteSet(Finals)
  BY <1>4, FS_BoundedSetOfNaturals
<1>7. IsFiniteSet(UserNames \cup Temps)
  BY <1>1, <1>5, FS_Union
<1>8. IsFiniteSet((UserNames \cup Temps) \cup Finals)
  BY <1>6, <1>7, FS_Union
<1>9. Names = (UserNames \cup Temps) \cup Finals
  BY DEF Names
<1> QED
  BY <1>1, <1>2, <1>3, <1>4, <1>8, <1>9

LEMMA TempsFacts ==
  /\ \A i \in 1 .. Slots : Temp(i) \in Temps
  /\ \A i, j \in 1 .. Slots : (Temp(i) = Temp(j) <=> i = j) /\ (Temp(i) < Temp(j) <=> i < j)
  /\ \A t \in Temps : \E i \in 1 .. Slots : t = Temp(i)
  /\ Temps \subseteq Names /\ Temps \cap UserNames = {} /\ Temps \cap Finals = {}
BY NamesFacts, NamesApart DEF Temps, Temp, Names

LEMMA FinalsFacts ==
  /\ \A i \in 1 .. Slots : Final(i) \in Finals
  /\ \A i, j \in 1 .. Slots : Final(i) = Final(j) <=> i = j
  /\ \A t \in Finals : \E i \in 1 .. Slots : t = Final(i)
  /\ Finals \subseteq Names /\ Finals \cap UserNames = {} /\ Temps \cap Finals = {}
BY NamesFacts, NamesApart DEF Finals, Final, Names

LEMMA NamesSplit ==
  \A n \in Names : n \notin UserNames => n \in Temps \/ n \in Finals
BY DEF Names

-----------------------------------------------------------------------------
(* The task and what it has listed.                                        *)

PassOne == step \in {"toTemp", "original", "sidecars"}
PassTwo == step \in {"toFinal", "finalSidecars"}

\* The first pair whose new name nothing has been given yet, and the first
\* whose file is where it was listed.
Ahead == IF step \in {"original", "sidecars", "finalSidecars"} THEN at + 1 ELSE at
Todo  == IF step = "sidecars" THEN at + 1 ELSE at

\* Of each pass, the pair it is at; distinct names; temp_map in order.
Shape ==
  /\ step = "idle" => pairs = <<>>
  /\ PassOne \/ PassTwo => pairs # <<>>
  /\ step \in {"original", "sidecars"} => at <= Len(pairs)
  /\ step = "finalSidecars" => at <= Len(moved)
  /\ PassTwo => at <= Len(moved) + 1
  /\ PassOne => Len(moved) < at
  /\ \A i, j \in 1 .. Len(pairs) : i # j => pairs[i].name # pairs[j].name
  /\ PassOne => \A i \in 1 .. Len(moved) : moved[i].temp < Temp(at)
  /\ \A i, k \in 1 .. Len(moved) : i < k => moved[i].temp < moved[k].temp

\* Only converted pictures have temporary or final names.
JpgOnly == \A n \in Names : n \notin UserNames /\ media[n] # None => media[n].kind = "jpg"

\* What is listed and not yet renamed is still there.
Pending ==
  PassOne =>
    /\ \A j \in 1 .. Len(pairs) : j >= Todo =>
         media[pairs[j].name] # None /\ media[pairs[j].name].kind = pairs[j].kind
    /\ step = "original" => /\ Current.kind = "png" /\ media[Temp(at)] # None
                            /\ media[Temp(at)].of = media[Current.name].of
    /\ step = "sidecars" => media[Temp(at)] # None

\* There are no more files than pictures, but for copies left by failures.
Occupied == {n \in Names : media[n] # None}
Seen     == {p \in Pictures : life[p] # "new"}
Copies   == IF step = "original" THEN 1 ELSE 0
Counted  == Cardinality(Occupied) <= Cardinality(Seen) + troubles + Copies

Base == TypeOK /\ Shape /\ JpgOnly /\ Pending /\ Counted

-----------------------------------------------------------------------------
(* Facts of every state of the task.                                       *)

LEMMA Listings ==
  ASSUME TypeOK
  PROVE  /\ Len(pairs) \in Nat /\ Len(moved) \in Nat /\ at \in Nat /\ at >= 1
         /\ DOMAIN pairs = 1 .. Len(pairs) /\ DOMAIN moved = 1 .. Len(moved)
         /\ \A i \in 1 .. Len(pairs) : pairs[i] \in Listing /\ i \in 1 .. Slots
         /\ \A i \in 1 .. Len(moved) : moved[i] \in Move /\ i \in 1 .. Slots
<1>1. pairs \in Seq(Listing) /\ moved \in Seq(Move)
      /\ Len(moved) <= Len(pairs) /\ Len(pairs) <= Slots /\ at \in 1 .. Len(pairs) + 1
  BY DEF TypeOK, Listing, Move
<1>2. Len(pairs) \in Nat /\ Len(moved) \in Nat
      /\ DOMAIN pairs = 1 .. Len(pairs) /\ DOMAIN moved = 1 .. Len(moved)
  BY <1>1, LenProperties
<1> QED
  BY <1>1, <1>2, ElementOfSeq, NamesFacts

LEMMA Here ==
  ASSUME TypeOK, at <= Len(pairs)
  PROVE  /\ at \in 1 .. Len(pairs) /\ at \in 1 .. Slots /\ Current \in Listing
         /\ Current.name \in Names /\ Temp(at) \in Temps /\ Temp(at) \in Names
BY Listings, TempsFacts DEF Current, Listing

LEMMA HereMoved ==
  ASSUME TypeOK, at <= Len(moved)
  PROVE  /\ at \in 1 .. Len(moved) /\ at \in 1 .. Slots
         /\ moved[at].temp \in Temps /\ moved[at].temp \in Names
         /\ Final(at) \in Finals /\ Final(at) \in Names /\ Final(at) # moved[at].temp
BY Listings, TempsFacts, FinalsFacts DEF Move

LEMMA MediaType ==
  ASSUME TypeOK, NEW n \in Names
  PROVE  /\ media[n] \in Files \cup {None} /\ caption[n] \in Pictures \cup {None}
         /\ marks[n] \in Marks /\ rows[n] \in Marks
         /\ media[n] # None => media[n].of \in Pictures /\ media[n].kind \in Kinds
BY DEF TypeOK, Files

\* A picture that is renamed from one name to another.
LEMMA Renamed ==
  ASSUME NEW S, NEW f \in [Names -> S], None \in S, NEW from \in Names, NEW to \in Names
  PROVE  /\ Rename(f, from, to) \in [Names -> S]
         /\ Rename(f, from, to)[to] = f[from]
         /\ from # to => Rename(f, from, to)[from] = None
         /\ \A n \in Names \ {from, to} : Rename(f, from, to)[n] = f[n]
BY DEF Rename

LEMMA Moves ==
  ASSUME TypeOK, NEW from \in Names, NEW to \in Names, NEW f, f = media \/ f = caption
  PROVE  /\ Rename(f, from, to)[to] = f[from]
         /\ from # to => Rename(f, from, to)[from] = None
         /\ \A n \in Names : n # from /\ n # to => Rename(f, from, to)[n] = f[n]
BY DEF Rename, TypeOK

\* The listing: all of the files in sight, each once, with its kind.
LEMMA BeginLists ==
  ASSUME Base, Idle, NEW names \in Listed
  PROVE  LET new == [i \in DOMAIN names |-> Pair(names[i])] IN
         /\ new \in Seq(Listing) /\ Len(new) = Cardinality(Visual)
         /\ Cardinality(Visual) \in Nat /\ Cardinality(Visual) <= Slots
         /\ DOMAIN new = 1 .. Cardinality(Visual)
         /\ \A i \in 1 .. Cardinality(Visual) : new[i] = Pair(names[i]) /\ names[i] \in Visual
         /\ \A i, j \in 1 .. Cardinality(Visual) : i < j => names[i] < names[j]
         /\ \A n \in Visual : \E i \in 1 .. Cardinality(Visual) : names[i] = n
<1> DEFINE N == Cardinality(Visual)
           new == [i \in DOMAIN names |-> Pair(names[i])]
<1>0. TypeOK /\ Counted /\ step = "idle"
  BY DEF Base, Idle
<1>1. /\ Occupied \in SUBSET Names /\ Visual \in SUBSET Occupied
      /\ Seen \in SUBSET Pictures /\ IsFiniteSet(Pictures)
  BY NamesApart DEF Visual, Occupied, Seen
<1>2. IsFiniteSet(Occupied) /\ IsFiniteSet(Visual) /\ IsFiniteSet(Seen)
      /\ Cardinality(Visual) <= Cardinality(Occupied)
      /\ Cardinality(Seen) <= Cardinality(Pictures)
  <2>1. IsFiniteSet(Occupied)
    BY <1>1, NamesFacts, FS_Subset
  <2>2. IsFiniteSet(Seen) /\ Cardinality(Seen) <= Cardinality(Pictures)
    BY <1>1, FS_Subset
  <2> QED
    BY <1>1, <2>1, <2>2, FS_Subset
<1>3. N \in Nat /\ Cardinality(Occupied) \in Nat /\ Cardinality(Seen) \in Nat
  BY <1>2, FS_CardinalityType
<1>4. N <= Slots
  <2>1. troubles \in Nat /\ troubles <= MaxTroubles
    BY <1>0, NamesFacts DEF TypeOK
  <2>2. Cardinality(Occupied) <= Cardinality(Seen) + troubles
    BY <1>0, <1>3, <2>1 DEF Counted, Copies
  <2> QED
    BY <1>2, <1>3, <2>1, <2>2, NamesFacts DEF Slots
<1>5. /\ names \in [1 .. N -> Visual] /\ DOMAIN names = 1 .. N
      /\ \A i, j \in 1 .. N : i < j => names[i] < names[j]
  BY DEF Listed
<1>6. \A i \in 1 .. N : names[i] \in Visual /\ names[i] \in Nat /\ Pair(names[i]) \in Listing
  <2>1. \A n \in Visual : n \in Names /\ n \in Nat /\ media[n].kind \in Kinds
    BY <1>0, <1>1, MediaType, NamesFacts DEF Visual
  <2> QED
    BY <1>5, <2>1 DEF Pair, Listing
<1>7. new \in [1 .. N -> Listing]
  BY <1>5, <1>6
<1>8. new \in Seq(Listing) /\ Len(new) = N
  BY <1>3, <1>7
<1>9. names \in Injection(1 .. N, Visual)
  <2>1. \A i, j \in 1 .. N : names[i] = names[j] => i = j
    BY <1>3, <1>5, <1>6
  <2> QED
    BY <1>5, <2>1 DEF Injection, IsInjective
<1>10. names \in Surjection(1 .. N, Visual)
  <2>1. Cardinality(1 .. N) = N
    BY <1>3, FS_Interval
  <2> QED
    BY <1>2, <1>9, <2>1, FS_Injection
<1>11. \A n \in Visual : \E i \in 1 .. N : names[i] = n
  BY <1>10 DEF Surjection
<1> QED
  BY <1>3, <1>4, <1>5, <1>6, <1>8, <1>11

-----------------------------------------------------------------------------
(* Types.                                                                  *)

LEMMA NextTypes == Base /\ [Next]_vars => TypeOK'
<1> SUFFICES ASSUME Base, [Next]_vars PROVE TypeOK'
  OBVIOUS
<1>0. TypeOK /\ Shape
  BY DEF Base
<1> USE NamesFacts
<1>1. ASSUME NEW n \in Names, Toggle(n) PROVE TypeOK'
  <2>1. {marks', rows'} \subseteq [Names -> Marks]
    BY <1>0, <1>1 DEF Toggle, TypeOK, Marks
  <2>2. wanted' \in [Pictures -> {"on", "off"}]
    BY <1>0, <1>1, MediaType DEF Toggle, TypeOK
  <2> QED
    BY <1>0, <1>1, <2>1, <2>2 DEF Toggle, TypeOK, files, task
<1>2. ASSUME NEW n \in Names, Delete(n) PROVE TypeOK'
  BY <1>0, <1>2 DEF Delete, TypeOK, task, Marks
<1>3. ASSUME NEW p \in Pictures, NEW n \in UserNames, Upload(p, n) PROVE TypeOK'
  <2>1. \A k \in Kinds : [of |-> p, kind |-> k] \in Files
    BY DEF Files
  <2>2. n \in Names
    BY DEF Names
  <2> QED
    BY <1>0, <1>3, <2>1, <2>2 DEF Upload, TypeOK, task
<1>5. CASE ToTemp
  <2>1. media' \in [Names -> Files \cup {None}]
    BY <1>0, <1>5, Here, Renamed DEF ToTemp, TypeOK
  <2> QED
    BY <1>0, <1>5, <2>1 DEF ToTemp, TypeOK, user, Steps
<1>6. CASE Convert
  <2>1. media[Current.name] # None
    BY <1>0, <1>6, Here DEF Convert, Base, Pending, PassOne, Todo, Current
  <2>2. [media[Current.name] EXCEPT !.kind = "jpg"] \in Files
    BY <1>0, <1>6, <2>1, Here DEF Convert, TypeOK, Files, Kinds
  <2> QED
    BY <1>0, <1>6, <2>2, Here DEF Convert, TypeOK, user, Steps
<1>7. CASE RemoveOriginal
  BY <1>0, <1>7, Here DEF RemoveOriginal, TypeOK, user, Steps, Shape
<1>8. CASE Skip \/ RemoveFails
  <2>1. at <= Len(pairs)
    BY <1>0, <1>8 DEF Skip, RemoveFails, Shape
  <2>2. at' \in 1 .. Len(pairs) + 1
    BY <1>0, <1>8, <2>1, Listings DEF Skip, RemoveFails
  <2> QED
    <3>1. CASE Skip
      BY <1>0, <2>2, <3>1 DEF Skip, TypeOK, user, files, Steps
    <3>2. CASE RemoveFails
      <4>0. clean' \in BOOLEAN
        BY <3>2 DEF RemoveFails
      <4>1. troubles' \in 0 .. MaxTroubles /\ step' \in Steps
            /\ UNCHANGED <<media, caption, marks, rows, pairs, moved, runs, life, captioned,
               wanted>>
        BY <1>0, <3>2 DEF RemoveFails, TypeOK, user, files, Steps
      <4> QED
        BY <1>0, <2>2, <4>0, <4>1 DEF TypeOK
    <3> QED
      BY <1>8, <3>1, <3>2
<1>9. CASE SidecarsToTemp
  <2>1. at <= Len(pairs) /\ Len(moved) < at
    BY <1>0, <1>9 DEF SidecarsToTemp, Shape, PassOne
  <2>2. PICK c \in BOOLEAN :
               moved' = Append(moved, [old |-> Current.name, temp |-> Temp(at), captioned |-> c])
    BY <1>9 DEF SidecarsToTemp
  <2>3. moved' \in Seq(Move) /\ Len(moved') = Len(moved) + 1
    BY <1>0, <2>1, <2>2, Here DEF TypeOK, Move
  <2>4. at' \in 1 .. Len(pairs) + 1 /\ Len(moved') <= Len(pairs)
    BY <1>0, <1>9, <2>1, <2>3, Listings DEF SidecarsToTemp
  <2>5. caption' \in [Names -> Pictures \cup {None}]
    BY <1>0, <1>9, <2>1, Here, Renamed DEF SidecarsToTemp, TypeOK
  <2> QED
    BY <1>0, <1>9, <2>3, <2>4, <2>5 DEF SidecarsToTemp, TypeOK, user, Steps, Move
<1>10. CASE SecondPass
  BY <1>0, <1>10, Listings DEF SecondPass, TypeOK, user, Steps, files
<1>11. CASE ToFinal
  <2>1. media' \in [Names -> Files \cup {None}]
    BY <1>0, <1>11, HereMoved, Renamed DEF ToFinal, TypeOK
  <2> QED
    BY <1>0, <1>11, <2>1 DEF ToFinal, TypeOK, user, Steps
<1>12. CASE SidecarsToFinal
  <2>1. at <= Len(moved)
    BY <1>0, <1>12 DEF SidecarsToFinal, Shape
  <2>2. caption' \in [Names -> Pictures \cup {None}]
    BY <1>0, <1>12, <2>1, HereMoved, Renamed DEF SidecarsToFinal, TypeOK
  <2>3. at' \in 1 .. Len(pairs) + 1
    BY <1>0, <1>12, <2>1, Listings DEF SidecarsToFinal, TypeOK
  <2> QED
    BY <1>0, <1>12, <2>2, <2>3 DEF SidecarsToFinal, TypeOK, user, Steps
<1>13. CASE Remap
  <2>1. \A i \in 1 .. Len(moved) : marks[moved[i].old] \in Marks
    BY <1>0, Listings, MediaType DEF Move
  <2>2. marks' \in [Names -> Marks]
    <3> SUFFICES ASSUME NEW n \in Names PROVE Remapped[n] \in Marks
      BY <1>13 DEF Remap, Remapped
    <3>1. CASE \E i \in DOMAIN moved : n = Final(i)
      <4>1. PICK i \in DOMAIN moved : n = Final(i)
        BY <3>1
      <4>2. i \in 1 .. Len(moved) /\ n - FirstFinal = i
        BY <1>0, <4>1, Listings DEF Final
      <4>3. Remapped[n] = marks[moved[n - FirstFinal].old]
        BY <3>1 DEF Remapped
      <4> QED
        BY <2>1, <4>2, <4>3
    <3>2. CASE ~ \E i \in DOMAIN moved : n = Final(i)
      BY <3>2 DEF Remapped, Marks
    <3> QED
      BY <3>1, <3>2
  <2>3. {marks', rows'} \subseteq [Names -> Marks]
    BY <1>0, <1>13, <2>2 DEF Remap, TypeOK
  <2> QED
    BY <1>0, <1>13, <2>3 DEF Remap, TypeOK, user, Steps, files
<1>14. CASE Abort
  <2>0. clean' \in BOOLEAN
    BY <1>14 DEF Abort
  <2>1. troubles' \in 0 .. MaxTroubles /\ step' \in Steps
        /\ pairs' = <<>> /\ moved' = <<>> /\ at' = 1
        /\ UNCHANGED <<media, caption, marks, rows, runs, life, captioned, wanted>>
    BY <1>0, <1>14 DEF Abort, TypeOK, user, files, Steps
  <2> QED
    BY <1>0, <2>0, <2>1 DEF TypeOK
<1>15. CASE Rescan
  BY <1>0, <1>15 DEF Rescan, TypeOK, user, Steps, files
<1>16. CASE Scan
  <2>1. marks' \in [Names -> Marks]
    BY <1>0, <1>16 DEF Scan, Scanned, TypeOK, Marks
  <2> QED
    BY <1>0, <1>16, <2>1 DEF Scan, TypeOK, user, Steps, files
<1>17. CASE Persist
  BY <1>0, <1>17 DEF Persist, TypeOK, user, Steps, files
<1>18. CASE Restart
  BY <1>0, <1>18 DEF Restart, TypeOK, user, Steps, files
<1>19. CASE UNCHANGED vars
  BY <1>0, <1>19 DEF vars, TypeOK, task, user, files
<1>4. CASE Begin
  <2>1. PICK names \in Listed : pairs' = [i \in DOMAIN names |-> Pair(names[i])]
    BY <1>4 DEF Begin
  <2>2. pairs' \in Seq(Listing) /\ Len(pairs') = Cardinality(Visual)
            /\ Cardinality(Visual) <= Slots
    <3>1. Idle
      BY <1>4 DEF Begin
    <3> QED
      BY <2>1, <3>1, BeginLists
  <2> QED
    BY <1>0, <1>4, <2>2 DEF Begin, TypeOK, user, Steps, files, Listing
<1> QED
  BY <1>1, <1>2, <1>3, <1>4, <1>5, <1>6, <1>7, <1>8, <1>9, <1>10, <1>11, <1>12, <1>13,
     <1>14, <1>15, <1>16, <1>17, <1>18, <1>19 DEF Next, Users, Uploads, Passes

-----------------------------------------------------------------------------
(* The shape of a task, what it has still to rename, and how many files    *)
(* there are.                                                              *)

LEMMA NextShape == Base /\ [Next]_vars => Shape'
<1> SUFFICES ASSUME Base, [Next]_vars PROVE Shape'
  OBVIOUS
<1>0. TypeOK /\ Shape /\ Len(pairs) \in Nat /\ Len(moved) \in Nat /\ at \in Nat /\ at >= 1
  BY Listings DEF Base
<1>1. CASE UNCHANGED <<step, pairs, at, moved>>
  BY <1>0, <1>1 DEF Shape, PassOne, PassTwo
<1>2. CASE ToTemp \/ Convert \/ RemoveOriginal
  BY <1>0, <1>2 DEF ToTemp, Convert, RemoveOriginal, Shape, PassOne, PassTwo
<1>3. CASE Skip \/ RemoveFails
  <2>1. at' = at + 1 /\ step' = "toTemp" /\ PassOne /\ UNCHANGED <<pairs, moved>>
    BY <1>3 DEF Skip, RemoveFails, PassOne
  <2>2. \A i \in 1 .. Len(moved) : moved[i].temp < Temp(at + 1)
    <3>1. \A i \in 1 .. Len(moved) : moved[i].temp \in Nat /\ moved[i].temp < Temp(at)
      BY <1>0, <2>1, Listings, NamesFacts, TempsFacts DEF Shape, Move
    <3>2. Temp(at) \in Int /\ Temp(at + 1) = Temp(at) + 1
      BY <1>0, NamesFacts DEF Temp
    <3> QED
      BY <3>1, <3>2
  <2> QED
    BY <1>0, <2>1, <2>2 DEF Shape, PassOne, PassTwo
<1>4. CASE SidecarsToTemp
  <2>1. at' = at + 1 /\ step' = "toTemp" /\ PassOne /\ UNCHANGED pairs /\ at <= Len(pairs)
    BY <1>0, <1>4 DEF SidecarsToTemp, PassOne, Shape
  <2>2. PICK c :
               c \in BOOLEAN /\ moved' = Append(moved, [old |-> Current.name, temp |-> Temp(at),
               captioned |-> c])
    BY <1>4 DEF SidecarsToTemp
  <2>3. /\ Len(moved') = Len(moved) + 1 /\ moved'[Len(moved) + 1].temp = Temp(at)
        /\ \A i \in 1 .. Len(moved) : moved'[i] = moved[i]
    BY <1>0, <2>1, <2>2, Here DEF TypeOK, Move
  <2>4. \A i \in 1 .. Len(moved) : moved[i].temp \in Nat /\ moved[i].temp < Temp(at)
    BY <1>0, <2>1, Listings, NamesFacts, TempsFacts DEF Shape, Move
  <2>5. Temp(at) \in Int /\ Temp(at + 1) = Temp(at) + 1
    BY <1>0, NamesFacts DEF Temp
  <2>6. \A i \in 1 .. Len(moved') : moved'[i].temp < Temp(at + 1)
    BY <1>0, <2>3, <2>4, <2>5
  <2>7. \A i, k \in 1 .. Len(moved') : i < k => moved'[i].temp < moved'[k].temp
    <3> SUFFICES ASSUME NEW i \in 1 .. Len(moved'), NEW k \in 1 .. Len(moved'), i < k
                 PROVE  moved'[i].temp < moved'[k].temp
      OBVIOUS
    <3>1. i \in 1 .. Len(moved) /\ (k \in 1 .. Len(moved) \/ k = Len(moved) + 1)
      BY <1>0, <2>3
    <3> QED
      BY <1>0, <2>3, <2>4, <3>1 DEF Shape
  <2>8. Len(moved) < at
    BY <1>0, <2>1 DEF Shape
  <2> QED
    BY <1>0, <2>1, <2>3, <2>6, <2>7, <2>8 DEF Shape, PassOne, PassTwo
<1>5. CASE SecondPass \/ ToFinal \/ SidecarsToFinal \/ Remap \/ Rescan \/ Scan
  BY <1>0, <1>5 DEF SecondPass, ToFinal, SidecarsToFinal, Remap, Rescan, Scan, Idle, Shape,
                    PassOne, PassTwo
<1>6. CASE Abort \/ Persist \/ Restart
  <2>1. step' = "idle" /\ pairs' = <<>> /\ moved' = <<>>
    BY <1>6 DEF Abort, Persist, Restart
  <2> QED
    BY <2>1 DEF Shape, PassOne, PassTwo
<1>7. CASE Begin
  <2>1. /\ Idle /\ at' = 1 /\ moved' = <<>> /\ step' = "toTemp" /\ Visual # {}
    BY <1>7 DEF Begin
  <2>2. PICK names \in Listed : pairs' = [i \in DOMAIN names |-> Pair(names[i])]
    BY <1>7 DEF Begin
  <2>3. /\ DOMAIN pairs' = 1 .. Cardinality(Visual) /\ Len(pairs') = Cardinality(Visual)
        /\ Cardinality(Visual) \in Nat
        /\ \A i \in 1 .. Cardinality(Visual) : pairs'[i] = Pair(names[i]) /\ names[i] \in Visual
        /\ \A i, j \in 1 .. Cardinality(Visual) : i < j => names[i] < names[j]
        /\ \A n \in Visual : \E i \in 1 .. Cardinality(Visual) : names[i] = n
    BY <2>1, <2>2, BeginLists
  <2>4. \A i, j \in 1 .. Len(pairs') : i # j => pairs'[i].name # pairs'[j].name
    <3>1. \A i \in 1 .. Cardinality(Visual) : pairs'[i].name = names[i] /\ names[i] \in Nat
      <4>1. Visual \subseteq Nat
        BY NamesFacts DEF Visual
      <4> SUFFICES ASSUME NEW i \in 1 .. Cardinality(Visual)
                   PROVE  pairs'[i].name = names[i] /\ names[i] \in Nat
        OBVIOUS
      <4>2. pairs'[i] = Pair(names[i]) /\ names[i] \in Visual
        BY <2>3
      <4>3. Pair(names[i]).name = names[i]
        BY DEF Pair
      <4> QED
        BY <4>1, <4>2, <4>3
    <3> QED
      BY <2>3, <3>1
  <2>5. pairs' # <<>>
    BY <2>1, <2>3
  <2> QED
    BY <2>1, <2>4, <2>5 DEF Shape, PassOne, PassTwo
<1> QED
  BY <1>1, <1>2, <1>3, <1>4, <1>5, <1>6, <1>7
  DEF Next, Users, Uploads, Passes, Toggle, Delete, Upload, task, vars

\* What is listed is what there is, and the names are all its names.
LEMMA NextJpgOnly == Base /\ [Next]_vars => JpgOnly'
<1> SUFFICES ASSUME Base, [Next]_vars PROVE JpgOnly'
  OBVIOUS
<1>0. TypeOK /\ Shape /\ JpgOnly /\ Pending
  BY DEF Base
<1>1. CASE UNCHANGED media
  BY <1>0, <1>1 DEF JpgOnly
<1>2. ASSUME NEW n \in Names, Delete(n) PROVE JpgOnly'
  BY <1>0, <1>2 DEF Delete, JpgOnly, TypeOK
<1>3. ASSUME NEW p \in Pictures, NEW n \in UserNames, Upload(p, n) PROVE JpgOnly'
  BY <1>0, <1>3 DEF Upload, JpgOnly, TypeOK
<1>4. CASE ToTemp
  <2>1. /\ at <= Len(pairs) /\ media' = Rename(media, Current.name, Temp(at))
        /\ media[Current.name] # None /\ media[Current.name].kind = "jpg"
    BY <1>0, <1>4, Here DEF ToTemp, Pending, PassOne, Todo, Current
  <2>2. media \in [Names -> Files \cup {None}]
    BY <1>0 DEF TypeOK
  <2> SUFFICES ASSUME NEW n \in Names, n \notin UserNames, media'[n] # None
               PROVE  media'[n].kind = "jpg"
    BY DEF JpgOnly
  <2>3. \/ media'[n] = media[n]
        \/ media'[n] = media[Current.name]
        \/ n # Temp(at) /\ n = Current.name /\ media'[n] = None
    BY <1>0, <2>1, <2>2, Here, Moves
  <2> QED
    BY <1>0, <2>1, <2>3 DEF JpgOnly
<1>5. CASE Convert
  <2>1. [media[Current.name] EXCEPT !.kind = "jpg"].kind = "jpg"
    <3>1. media[Current.name] # None
      BY <1>0, <1>5, Here DEF Convert, Pending, PassOne, Todo, Current
    <3> QED
      BY <1>0, <1>5, <3>1, Here, MediaType DEF Convert, Files, TypeOK
  <2> QED
    BY <1>0, <1>5, <2>1, Here DEF Convert, JpgOnly, TypeOK
<1>6. CASE RemoveOriginal
  BY <1>0, <1>6, Here DEF RemoveOriginal, JpgOnly, TypeOK, Shape
<1>7. CASE ToFinal
  <2>1. at <= Len(moved) /\ media \in [Names -> Files \cup {None}]
    BY <1>0, <1>7 DEF ToFinal, TypeOK
  <2>2. media' = media \/ media' = Rename(media, moved[at].temp, Final(at))
    BY <1>7 DEF ToFinal
  <2>3. moved[at].temp \notin UserNames
    BY <1>0, <2>1, HereMoved, TempsFacts
  <2> SUFFICES ASSUME NEW n \in Names, n \notin UserNames, media'[n] # None
               PROVE  media'[n].kind = "jpg"
    BY DEF JpgOnly
  <2>4. \/ media'[n] = media[n]
        \/ media'[n] = media[moved[at].temp]
        \/ n # Final(at) /\ n = moved[at].temp /\ media'[n] = None
    BY <1>0, <2>1, <2>2, HereMoved, Moves
  <2> QED
    BY <1>0, <2>1, <2>3, <2>4, HereMoved DEF JpgOnly
<1> QED
  BY <1>1, <1>2, <1>3, <1>4, <1>5, <1>6, <1>7
  DEF Next, Users, Uploads, Passes, Toggle, Begin, Skip, RemoveFails, SidecarsToTemp, SecondPass,
      SidecarsToFinal, Remap, Abort, Rescan, Scan, Persist, Restart, files, vars

LEMMA NextPending == Base /\ [Next]_vars => Pending'
<1> SUFFICES ASSUME Base, [Next]_vars, PassOne'
             PROVE  /\ \A j \in 1 .. Len(pairs') : j >= Todo' =>
                         /\ media'[pairs'[j].name] # None
                         /\ media'[pairs'[j].name].kind = pairs'[j].kind
                    /\ step' = "original" => /\ Current'.kind = "png" /\ media'[Temp(at')] # None
                                             /\ media'[Temp(at')].of = media'[Current'.name].of
                    /\ step' = "sidecars" => media'[Temp(at')] # None
  BY DEF Pending
<1>0. TypeOK /\ Shape /\ JpgOnly /\ Pending
  BY DEF Base
<1>a. /\ Len(pairs) \in Nat /\ at \in Nat
      /\ \A j \in 1 .. Len(pairs) : pairs[j].name \in Names
  BY <1>0, Listings DEF Listing
<1>b. ASSUME PassOne
      PROVE  \A j \in 1 .. Len(pairs) : j >= Todo =>
               media[pairs[j].name] # None /\ media[pairs[j].name].kind = pairs[j].kind
  BY <1>0, <1>b DEF Pending
<1>1. CASE UNCHANGED <<step, pairs, at, media>>
  <2>1. Pending
    BY <1>0
  <2> QED
    BY <1>1, <2>1 DEF Pending, PassOne, Todo, Current
<1>2. CASE Begin
  <2>1. Idle /\ at' = 1 /\ step' = "toTemp" /\ media' = media
    BY <1>2 DEF Begin, files
  <2>2. PICK names \in Listed : pairs' = [i \in DOMAIN names |-> Pair(names[i])]
    BY <1>2 DEF Begin
  <2>3. /\ Len(pairs') = Cardinality(Visual)
        /\ \A i \in 1 .. Cardinality(Visual) : pairs'[i] = Pair(names[i]) /\ names[i] \in Visual
    BY <2>1, <2>2, BeginLists
  <2>4. \A n \in Visual : media[n] # None
    BY DEF Visual
  <2>5. \A i \in 1 .. Len(pairs') : media[pairs'[i].name] # None
            /\ media[pairs'[i].name].kind = pairs'[i].kind
    BY <2>3, <2>4 DEF Pair
  <2> QED
    BY <2>1, <2>5
<1>3. CASE ToTemp
  <2>1. /\ at <= Len(pairs) /\ PassOne /\ Todo = at /\ Todo' = at + 1 /\ step' = "sidecars"
        /\ media' = Rename(media, Current.name, Temp(at)) /\ Current.kind = "jpg"
        /\ UNCHANGED <<pairs, at>>
    BY <1>3 DEF ToTemp, PassOne, Todo
  <2>2. at \in 1 .. Len(pairs) /\ Temp(at) \in Names /\ Temp(at) \notin UserNames
    BY <1>0, <2>1, Here, TempsFacts
  <2>3. media[Current.name] # None /\ media[Current.name].kind = "jpg"
    BY <1>b, <2>1, <2>2 DEF Current
  <2>4. media'[Temp(at)] = media[Current.name]
    BY <1>0, <2>1, Here, Moves
  <2>5. ASSUME NEW j \in 1 .. Len(pairs), j > at
        PROVE  media'[pairs[j].name] # None /\ media'[pairs[j].name].kind = pairs[j].kind
    <3>1. /\ pairs[j].name \in Names /\ pairs[j].name # Current.name
          /\ media[pairs[j].name] # None /\ media[pairs[j].name].kind = pairs[j].kind
      BY <1>0, <1>a, <1>b, <2>1, <2>2, <2>5 DEF Shape, Current
    <3>2. CASE pairs[j].name = Temp(at)
      BY <1>0, <2>2, <2>3, <2>4, <3>1, <3>2 DEF JpgOnly
    <3>3. CASE pairs[j].name # Temp(at)
      <4>1. media'[pairs[j].name] = media[pairs[j].name]
        BY <1>0, <2>1, <3>1, <3>3, Here, Moves
      <4> QED
        BY <3>1, <4>1
    <3> QED
      BY <3>2, <3>3
  <2> QED
    BY <1>a, <2>1, <2>3, <2>4, <2>5
<1>4. CASE Convert
  <2>1. /\ at <= Len(pairs) /\ PassOne /\ Todo = at /\ Todo' = at /\ step' = "original"
        /\ media' = [media EXCEPT ![Temp(at)] = [media[Current.name] EXCEPT !.kind = "jpg"]]
        /\ Current.kind = "png" /\ UNCHANGED <<pairs, at>> /\ Current' = Current
    BY <1>4 DEF Convert, PassOne, Todo, Current
  <2>2. at \in 1 .. Len(pairs) /\ Temp(at) \in Names /\ Temp(at) \notin UserNames
    BY <1>0, <2>1, Here, TempsFacts
  <2>3. media[Current.name] # None /\ media[Current.name].kind = "png"
    BY <1>b, <2>1, <2>2 DEF Current
  <2>4. media[Current.name] \in Files
    BY <1>0, <2>1, <2>3, Here, MediaType
  <2>5. /\ [media[Current.name] EXCEPT !.kind = "jpg"] \in Files
        /\ [media[Current.name] EXCEPT !.kind = "jpg"].kind = "jpg"
        /\ [media[Current.name] EXCEPT !.kind = "jpg"].of = media[Current.name].of
    BY <2>4 DEF Files, Kinds
  <2>6. /\ media'[Temp(at)] = [media[Current.name] EXCEPT !.kind = "jpg"]
        /\ \A n \in Names : n # Temp(at) => media'[n] = media[n]
    BY <1>0, <2>1, <2>2 DEF TypeOK
  <2>7. Current.name # Temp(at)
    BY <1>0, <2>2, <2>3 DEF JpgOnly
  <2>8. media'[Temp(at)] # None /\ media'[Temp(at)].kind = "jpg"
        /\ media'[Temp(at)].of = media'[Current.name].of
    BY <1>0, <2>1, <2>5, <2>6, <2>7, Here, NoneApart
  <2>9. ASSUME NEW j \in 1 .. Len(pairs), j >= at
        PROVE  media'[pairs[j].name] # None /\ media'[pairs[j].name].kind = pairs[j].kind
    BY <1>0, <1>a, <1>b, <2>1, <2>2, <2>6, <2>8, <2>9 DEF JpgOnly
  <2> QED
    BY <2>1, <2>8, <2>9
<1>5. CASE RemoveOriginal
  <2>1. /\ PassOne /\ Todo = at /\ Todo' = at + 1 /\ step' = "sidecars" /\ step = "original"
        /\ media' = [media EXCEPT ![Current.name] = None] /\ UNCHANGED <<pairs, at>>
    BY <1>5 DEF RemoveOriginal, PassOne, Todo
  <2>2. at \in 1 .. Len(pairs) /\ Temp(at) \in Names /\ Temp(at) \notin UserNames
            /\ at <= Len(pairs)
    BY <1>0, <2>1, Here, TempsFacts DEF Shape
  <2>3. /\ Current.kind = "png" /\ media[Temp(at)] # None
        /\ media[Current.name] # None /\ media[Current.name].kind = "png"
    BY <1>0, <1>b, <2>1, <2>2 DEF Current, Pending
  <2>4. Current.name # Temp(at)
    BY <1>0, <2>2, <2>3 DEF JpgOnly
  <2>5. \A n \in Names : n # Current.name => media'[n] = media[n]
    BY <1>0, <2>1 DEF TypeOK
  <2>6. \A j \in 1 .. Len(pairs) : j > at => pairs[j].name # Current.name
    BY <1>0, <2>2 DEF Shape, Current
  <2>7. media'[Temp(at)] # None
    BY <2>2, <2>3, <2>4, <2>5
  <2>8. \A j \in 1 .. Len(pairs) : j >= at + 1 => media'[pairs[j].name] = media[pairs[j].name]
    BY <1>a, <2>2, <2>5, <2>6
  <2>9. \A j \in 1 .. Len(pairs) : j >= at + 1 =>
          media[pairs[j].name] # None /\ media[pairs[j].name].kind = pairs[j].kind
    BY <1>a, <1>b, <2>1
  <2> QED
    BY <2>1, <2>7, <2>8, <2>9
<1>6. CASE Skip \/ RemoveFails \/ SidecarsToTemp
  <2>1. PassOne /\ Todo' >= Todo /\ UNCHANGED <<pairs, media>> /\ step' = "toTemp"
    BY <1>a, <1>6 DEF Skip, RemoveFails, SidecarsToTemp, PassOne, Todo, files
  <2>2. Todo \in Nat /\ Todo' \in Nat
    BY <1>a, <1>6 DEF Skip, RemoveFails, SidecarsToTemp, Todo
  <2> QED
    BY <1>a, <1>b, <2>1, <2>2
<1>7. ASSUME NEW p \in Pictures, NEW n \in UserNames, Upload(p, n), PassOne
      PROVE  /\ \A j \in 1 .. Len(pairs) : j >= Todo =>
                    /\ media'[pairs[j].name] # None
                    /\ media'[pairs[j].name].kind = pairs[j].kind
             /\ step = "original" => /\ Current.kind = "png" /\ media'[Temp(at)] # None
                                     /\ media'[Temp(at)].of = media'[Current.name].of
             /\ step = "sidecars" => media'[Temp(at)] # None
  <2>1. /\ media[n] = None /\ n \in Names
        /\ \A m \in Names : m # n => media'[m] = media[m]
    BY <1>0, <1>7 DEF Upload, TypeOK, Names
  <2>2. step \in {"original", "sidecars"} => at <= Len(pairs)
    BY <1>0 DEF Shape
  <2>3. step = "original" => /\ Current.kind = "png" /\ media[Temp(at)] # None
            /\ media[Current.name] # None
                             /\ media[Temp(at)].of = media[Current.name].of
    <3>1. step = "original" => Todo = at
      BY DEF Todo
    <3> QED
      BY <1>0, <1>7, <1>b, <2>2, <3>1, Here DEF Pending, Current
  <2>4. step = "sidecars" => media[Temp(at)] # None
    BY <1>0, <1>7 DEF Pending
  <2> QED
    BY <1>0, <1>7, <1>a, <1>b, <2>1, <2>2, <2>3, <2>4, Here
<1>8. ASSUME NEW p \in Pictures, NEW n \in UserNames, Upload(p, n)
      PROVE  UNCHANGED <<step, pairs, at>> /\ PassOne /\ Todo' = Todo /\ Current' = Current
  BY <1>8 DEF Upload, task, Todo, PassOne, Current
<1> QED
  <2>1. CASE Users
    BY <1>0, <2>1, <1>1 DEF Users, Toggle, Delete, task, Idle, files, PassOne
  <2>2. CASE Uploads
    BY <1>7, <1>8, <2>2 DEF Uploads
  <2>3. CASE Passes \/ Rescan \/ Scan \/ Persist \/ Restart \/ UNCHANGED vars
    BY <1>1, <1>2, <1>3, <1>4, <1>5, <1>6, <2>3
    DEF Passes, SecondPass, ToFinal, SidecarsToFinal, Remap, Abort, Rescan, Scan, Persist,
        Restart, PassOne, files, vars, task
  <2> QED
    BY <2>1, <2>2, <2>3 DEF Next

\* Renaming a file makes no more of them.
LEMMA CountRenamed ==
  ASSUME TypeOK, NEW from \in Names, NEW to \in Names, media[from] # None,
         media' = Rename(media, from, to)
  PROVE  Cardinality(Occupied') <= Cardinality(Occupied)
<1>1. IsFiniteSet(Occupied) /\ from \in Occupied
  <2>1. Occupied \in SUBSET Names
    BY DEF Occupied
  <2> QED
    BY <2>1, NamesFacts, FS_Subset DEF Occupied
<1>2. /\ IsFiniteSet(Occupied \ {from})
      /\ Cardinality(Occupied \ {from}) = Cardinality(Occupied) - 1
  BY <1>1, FS_RemoveElement
<1>3. /\ IsFiniteSet((Occupied \ {from}) \cup {to})
      /\ Cardinality((Occupied \ {from}) \cup {to}) <= Cardinality(Occupied)
  <2> DEFINE S == Occupied \ {from}
  <2>1. Cardinality(Occupied) \in Nat /\ IsFiniteSet(S)
            /\ Cardinality(S) = Cardinality(Occupied) - 1
    BY <1>1, <1>2, FS_CardinalityType
  <2> HIDE DEF S
  <2>2. IsFiniteSet(S \cup {to}) /\ Cardinality(S \cup {to}) <= Cardinality(S) + 1
    <3>1. /\ IsFiniteSet(S \cup {to})
          /\ Cardinality(S \cup {to}) = IF to \in S THEN Cardinality(S) ELSE Cardinality(S) + 1
      BY <2>1, FS_AddElement
    <3> QED
      BY <2>1, <3>1
  <2> QED
    BY <2>1, <2>2 DEF S
<1>4. Occupied' \subseteq (Occupied \ {from}) \cup {to}
  BY Moves DEF Occupied
<1>5. Cardinality(Occupied') <= Cardinality((Occupied \ {from}) \cup {to})
  BY <1>3, <1>4, FS_Subset
<1>6. Cardinality(Occupied) \in Nat /\ Cardinality(Occupied') \in Nat
      /\ Cardinality((Occupied \ {from}) \cup {to}) \in Nat
  <2>1. IsFiniteSet(Occupied')
    BY <1>3, <1>4, FS_Subset
  <2> QED
    BY <1>1, <1>3, <2>1, FS_CardinalityType
<1> QED
  BY <1>3, <1>5, <1>6

LEMMA NextCounted == Base /\ [Next]_vars => Counted'
<1> SUFFICES ASSUME Base, [Next]_vars PROVE Counted'
  OBVIOUS
<1>0. TypeOK /\ Shape /\ JpgOnly /\ Pending
          /\ Cardinality(Occupied) <= Cardinality(Seen) + troubles + Copies
  BY DEF Base, Counted
<1>s. TypeOK'
  BY NextTypes
<1>a. /\ Occupied \in SUBSET Names /\ Occupied' \in SUBSET Names
      /\ Seen \in SUBSET Pictures /\ Seen' \in SUBSET Pictures
  BY DEF Occupied, Seen
<1>b. /\ IsFiniteSet(Occupied) /\ IsFiniteSet(Occupied') /\ IsFiniteSet(Seen)
      /\ IsFiniteSet(Seen')
  BY <1>a, NamesFacts, NamesApart, FS_Subset
<1>c. /\ Cardinality(Occupied) \in Nat /\ Cardinality(Occupied') \in Nat
      /\ Cardinality(Seen) \in Nat /\ Cardinality(Seen') \in Nat
  BY <1>b, FS_CardinalityType
<1>t. troubles \in Nat /\ troubles' \in Nat
  BY <1>0, <1>s, NamesFacts DEF TypeOK
<1> DEFINE Fewer == Cardinality(Occupied') <= Cardinality(Occupied)
           Enough == Copies + troubles <= Copies' + troubles'
<1>d. ASSUME Fewer, Enough, Cardinality(Seen) <= Cardinality(Seen') PROVE Counted'
  <2>1. PICK c \in Nat, d \in Nat : c = Copies /\ d = Copies'
    BY DEF Copies
  <2>2. PICK o \in Nat, r \in Nat, s \in Nat, u \in Nat :
           /\ o = Cardinality(Occupied) /\ r = Cardinality(Occupied')
           /\ s = Cardinality(Seen) /\ u = Cardinality(Seen')
    BY <1>c
  <2>3. c + troubles <= d + troubles' /\ o <= s + troubles + c /\ r <= o /\ s <= u
    BY <1>0, <1>d, <2>1, <2>2
  <2>4. PICK t \in Nat, v \in Nat : t = troubles /\ v = troubles'
    BY <1>t
  <2>5. c + t <= d + v /\ o <= s + t + c /\ r <= o /\ s <= u
    BY <2>3, <2>4
  <2>6. r <= u + v + d
    BY <2>5
  <2> QED
    BY <2>1, <2>2, <2>4, <2>6 DEF Counted
<1>e. ASSUME (troubles' = troubles /\ Copies' = Copies) \/ troubles' = troubles + 1 PROVE Enough
  <2>1. PICK t \in Nat, v \in Nat : t = troubles /\ v = troubles'
    BY <1>t
  <2>2. PICK c \in 0 .. 1, d \in 0 .. 1 : c = Copies /\ d = Copies'
    BY DEF Copies
  <2>3. (t = v /\ d = c) \/ v = t + 1
    BY <1>e, <2>1, <2>2
  <2>4. c + t <= d + v
    BY <2>3
  <2> QED
    BY <2>1, <2>2, <2>4
<1>1. CASE UNCHANGED <<media, life>> /\ Enough
  BY <1>1, <1>c, <1>t, <1>d DEF Occupied, Seen
<1>2. ASSUME NEW n \in Names, Delete(n) PROVE Counted'
  <2>1. Occupied' \subseteq Occupied /\ Seen \subseteq Seen' /\ Enough
    BY <1>0, <1>c, <1>t, <1>2 DEF Delete, task, TypeOK, Copies, Occupied, Seen
  <2>2. Fewer /\ Cardinality(Seen) <= Cardinality(Seen')
    BY <1>b, <2>1, FS_Subset
  <2> QED
    BY <1>d, <2>1, <2>2
<1>3. ASSUME NEW p \in Pictures, NEW n \in UserNames, Upload(p, n) PROVE Counted'
  <2>1. p \notin Seen /\ Seen' = Seen \cup {p}
    BY <1>0, <1>3 DEF Upload, TypeOK, Seen
  <2>2. n \notin Occupied /\ n \in Names /\ Occupied' \subseteq Occupied \cup {n}
    BY <1>0, <1>3 DEF Upload, TypeOK, Occupied, Names
  <2>3. Cardinality(Seen') = Cardinality(Seen) + 1
    BY <1>b, <2>1, FS_AddElement
  <2>4. /\ Cardinality(Occupied \cup {n}) = Cardinality(Occupied) + 1
        /\ Cardinality(Occupied') <= Cardinality(Occupied \cup {n})
    BY <1>b, <2>2, FS_AddElement, FS_Subset
  <2>5. Copies' = Copies /\ troubles' = troubles
    BY <1>3 DEF Upload, task, Copies
  <2>6. PICK c \in 0 .. 1, t \in Nat, o \in Nat, r \in Nat, s \in Nat, u \in Nat :
          /\ c = Copies /\ t = troubles
          /\ o = Cardinality(Occupied) /\ r = Cardinality(Occupied')
          /\ s = Cardinality(Seen) /\ u = Cardinality(Seen')
    BY <1>c, <1>t DEF Copies
  <2>7. o <= s + t + c /\ u = s + 1 /\ r <= o + 1
    BY <1>0, <2>3, <2>4, <2>6
  <2>8. r <= u + t + c
    BY <2>7
  <2> QED
    BY <2>5, <2>6, <2>8 DEF Counted
<1>4. CASE ToTemp
  <2>1. /\ at <= Len(pairs) /\ media' = Rename(media, Current.name, Temp(at)) /\ life' = life
        /\ media[Current.name] # None
    BY <1>0, <1>4, Here DEF ToTemp, user, Pending, PassOne, Todo, Current
  <2>2. Fewer
    BY <1>0, <2>1, Here, CountRenamed
  <2>3. Enough /\ Seen' = Seen
    BY <1>c, <1>t, <1>4 DEF ToTemp, user, Seen, Copies
  <2> QED
    BY <1>c, <1>t, <1>d, <2>2, <2>3
<1>5. CASE Convert
  <2>1. at <= Len(pairs) /\ Occupied' \subseteq Occupied \cup {Temp(at)} /\ Seen' = Seen
    BY <1>0, <1>5 DEF Convert, TypeOK, Occupied, Seen, user
  <2>2. Cardinality(Occupied') <= Cardinality(Occupied) + 1
    <3>1. IsFiniteSet(Occupied \cup {Temp(at)})
              /\ Cardinality(Occupied \cup {Temp(at)}) <= Cardinality(Occupied) + 1
      <4>1. /\ IsFiniteSet(Occupied \cup {Temp(at)})
            /\ Cardinality(Occupied \cup {Temp(at)})
                 = IF Temp(at) \in Occupied THEN Cardinality(Occupied) ELSE Cardinality(Occupied) + 1
        BY <1>b, FS_AddElement
      <4> QED
        BY <1>c, <1>t, <4>1
    <3>2. Cardinality(Occupied') <= Cardinality(Occupied \cup {Temp(at)})
      BY <2>1, <3>1, FS_Subset
    <3>3. Cardinality(Occupied \cup {Temp(at)}) \in Nat
      BY <3>1, FS_CardinalityType
    <3> QED
      BY <1>c, <1>t, <3>1, <3>2, <3>3
  <2>3. Copies = 0 /\ Copies' = 1 /\ troubles' = troubles
    BY <1>5 DEF Convert, Copies
  <2> QED
    BY <1>0, <1>c, <1>t, <2>1, <2>2, <2>3 DEF Counted
<1>6. CASE RemoveOriginal
  <2>1. at <= Len(pairs) /\ media[Current.name] # None
    BY <1>0, <1>6, Here DEF RemoveOriginal, Shape, Pending, PassOne, Todo, Current
  <2>2. Current.name \in Occupied /\ Occupied' \subseteq Occupied \ {Current.name} /\ Seen' = Seen
    BY <1>0, <1>6, <2>1, Here DEF RemoveOriginal, Occupied, Seen, user, TypeOK
  <2>3. /\ Cardinality(Occupied \ {Current.name}) = Cardinality(Occupied) - 1
        /\ Cardinality(Occupied') <= Cardinality(Occupied \ {Current.name})
    <3>1. IsFiniteSet(Occupied \ {Current.name})
          /\ Cardinality(Occupied \ {Current.name}) = Cardinality(Occupied) - 1
      BY <1>b, <2>2, FS_RemoveElement
    <3> QED
      BY <2>2, <3>1, FS_Subset
  <2>4. Copies = 1 /\ Copies' = 0 /\ troubles' = troubles
    BY <1>6 DEF RemoveOriginal, Copies
  <2> QED
    BY <1>0, <1>c, <1>t, <2>2, <2>3, <2>4 DEF Counted
<1>7. CASE ToFinal
  <2>1. at <= Len(moved) /\ Enough /\ Seen' = Seen
    BY <1>c, <1>t, <1>7 DEF ToFinal, user, Seen, Copies
  <2>2. CASE media[moved[at].temp] = None
    BY <1>c, <1>t, <1>d, <1>7, <2>1, <2>2 DEF ToFinal, Occupied
  <2>3. CASE media[moved[at].temp] # None
    <3>1. media' = Rename(media, moved[at].temp, Final(at))
      BY <1>7, <2>3 DEF ToFinal
    <3>2. Fewer
      BY <1>0, <2>1, <2>3, <3>1, HereMoved, CountRenamed
    <3> QED
      BY <1>c, <1>t, <1>d, <2>1, <3>2
  <2> QED
    BY <2>2, <2>3
<1>8. CASE Skip \/ RemoveFails \/ SidecarsToTemp \/ SecondPass \/ SidecarsToFinal \/ Remap
          \/ Abort
  <2>1. UNCHANGED <<media, life>> /\ (Copies' = Copies \/ (Copies = 1 /\ Copies' = 0))
    BY <1>8
       DEF Skip, RemoveFails, SidecarsToTemp, SecondPass, SidecarsToFinal, Remap, Abort, Renaming,
                files, user, Copies
  <2>2. CASE Skip \/ SidecarsToTemp \/ SecondPass \/ SidecarsToFinal \/ Remap
    <3>1. Copies' = Copies /\ troubles' = troubles
      BY <2>2 DEF Skip, SidecarsToTemp, SecondPass, SidecarsToFinal, Remap, Copies
    <3> QED
      BY <1>1, <1>e, <2>1, <3>1
  <2>3. CASE RemoveFails \/ Abort
    <3>1. troubles' = troubles + 1
      BY <2>3 DEF RemoveFails, Abort
    <3> QED
      BY <1>1, <1>e, <2>1, <3>1
  <2> QED
    BY <1>1, <1>8, <2>1, <2>2, <2>3
<1>9. CASE Begin \/ Rescan \/ Scan \/ Persist \/ Restart \/ UNCHANGED vars
  <2>1. UNCHANGED <<media, life>>
    BY <1>9 DEF Begin, Rescan, Scan, Persist, Restart, files, user, vars
  <2>2. CASE Begin \/ Rescan \/ Scan \/ Persist \/ UNCHANGED vars
    <3>1. Copies' = Copies /\ troubles' = troubles
      BY <2>2 DEF Begin, Rescan, Scan, Persist, Idle, vars, task, Copies
    <3> QED
      BY <1>1, <1>e, <2>1, <3>1
  <2>3. CASE Restart
    <3>1. troubles' = troubles + 1
      BY <2>3 DEF Restart
    <3> QED
      BY <1>1, <1>e, <2>1, <3>1
  <2> QED
    BY <1>1, <1>9, <2>1, <2>2, <2>3
<1>10. ASSUME NEW n \in Names, Toggle(n) PROVE Counted'
  <2>1. UNCHANGED <<media, life>> /\ Enough
    BY <1>c, <1>t, <1>10 DEF Toggle, task, files, Copies
  <2> QED
    BY <1>1, <2>1
<1> QED
  BY <1>2, <1>3, <1>4, <1>5, <1>6, <1>7, <1>8, <1>9, <1>10 DEF Next, Users, Uploads, Passes

LEMMA InitBase == Init => Base
<1> SUFFICES ASSUME Init PROVE Base
  OBVIOUS
<1> USE NamesFacts DEF Init
<1>1. TypeOK
  BY DEF TypeOK, Steps, Marks
<1>2. Shape /\ JpgOnly /\ Pending
  BY DEF Shape, JpgOnly, Pending, PassOne, PassTwo
<1>3. Counted
  <2>1. Occupied = {} /\ Seen = {}
    BY DEF Occupied, Seen
  <2> QED
    BY <2>1, FS_EmptySet DEF Counted, Copies
<1> QED
  BY <1>1, <1>2, <1>3 DEF Base

LEMMA NextBase == Base /\ [Next]_vars => Base'
BY NextTypes, NextShape, NextJpgOnly, NextPending, NextCounted DEF Base

LEMMA SpecBase == Spec => []Base
BY InitBase, NextBase, PTL DEF Spec

\* The variables stay in their ranges; in particular no listing is longer than
\* the temporary and final names there are, whatever copies failures leave.
THEOREM TypesHold == Spec => []TypeOK
<1>1. Base => TypeOK
  BY DEF Base
<1> QED
  BY <1>1, SpecBase, PTL

-----------------------------------------------------------------------------
(* No picture is lost.                                                     *)

\* No file has a name yet that pass 2 will give, nor, in pass 1, one that
\* pass 1 will give but the file that it is listed for.
FinalsAhead ==
  /\ PassOne => \A k \in 1 .. Slots : media[Final(k)] # None =>
       \E m \in 1 .. Len(pairs) : m >= Todo /\ pairs[m].name = Final(k)
  /\ PassTwo => \A k \in 1 .. Slots : k >= Ahead => media[Final(k)] = None

TempsAhead ==
  PassOne => \A k \in 1 .. Slots : k >= Ahead /\ media[Temp(k)] # None =>
    \E m \in 1 .. Len(pairs) : m >= Todo /\ m <= k /\ pairs[m].name = Temp(k)

\* What is skipped, or left over as its copy could not be removed, has the name
\* a user gave it.
LEMMA LeftByUser ==
  ASSUME Base, Skip \/ RemoveFails
  PROVE  at \in 1 .. Len(pairs) /\ Todo = at /\ PassOne /\ Current.name \in UserNames
<1>1. /\ at <= Len(pairs) /\ PassOne /\ Todo = at /\ Current.kind # "jpg" /\ TypeOK /\ JpgOnly
  BY DEF Skip, RemoveFails, Base, Shape, PassOne, Todo, Pending
<1>2. at \in 1 .. Len(pairs) /\ media[Current.name] # None
          /\ media[Current.name].kind = Current.kind
  BY <1>1, Here DEF Base, Pending, Current
<1> QED
  BY <1>1, <1>2, Here DEF JpgOnly

LEMMA NextFinalsAhead == Base /\ FinalsAhead /\ [Next]_vars => FinalsAhead'
<1> SUFFICES ASSUME Base, FinalsAhead, [Next]_vars PROVE FinalsAhead'
  OBVIOUS
<1>0. TypeOK /\ Shape /\ JpgOnly /\ Pending
  BY DEF Base
<1>a. /\ Len(pairs) \in Nat /\ at \in Nat /\ Todo \in Nat /\ Ahead \in Nat /\ Slots \in Nat
      /\ \A k \in 1 .. Slots : Final(k) \in Names /\ Final(k) \notin UserNames
             /\ Final(k) \notin Temps
  <2>1. /\ Len(pairs) \in Nat /\ at \in Nat /\ Todo \in Nat /\ Ahead \in Nat /\ Slots \in Nat
    BY <1>0, Listings, NamesFacts DEF Todo, Ahead
  <2>2. \A k \in 1 .. Slots : Final(k) \in Names /\ Final(k) \notin UserNames
            /\ Final(k) \notin Temps
    BY FinalsFacts
  <2> QED
    BY <2>1, <2>2
<1>b. ASSUME NEW k \in 1 .. Slots, PassOne, media[Final(k)] # None
      PROVE  \E m \in 1 .. Len(pairs) : m >= Todo /\ pairs[m].name = Final(k)
  BY <1>b DEF FinalsAhead
<1>1. CASE UNCHANGED <<step, pairs, at, media>>
  BY <1>1 DEF FinalsAhead, PassOne, PassTwo, Todo, Ahead
<1>2. CASE Begin
  <2>1. Idle /\ at' = 1 /\ step' = "toTemp" /\ media' = media
    BY <1>2 DEF Begin, files
  <2>2. PICK names \in Listed : pairs' = [i \in DOMAIN names |-> Pair(names[i])]
    BY <1>2 DEF Begin
  <2>3. /\ Len(pairs') = Cardinality(Visual) /\ Cardinality(Visual) \in Nat
        /\ \A i \in 1 .. Cardinality(Visual) : pairs'[i] = Pair(names[i])
        /\ \A n \in Visual : \E i \in 1 .. Cardinality(Visual) : names[i] = n
    BY <2>1, <2>2, BeginLists
  <2>4. \A k \in 1 .. Slots : media[Final(k)] # None => Final(k) \in Visual
    BY <1>0, <1>a DEF Visual, JpgOnly
  <2>5. \A i \in 1 .. Len(pairs') : pairs'[i].name = names[i]
    BY <2>3 DEF Pair
  <2>6. Todo' = 1
    BY <2>1 DEF Todo
  <2> QED
    BY <2>1, <2>3, <2>4, <2>5, <2>6 DEF FinalsAhead, PassTwo
<1>3. CASE ToTemp \/ RemoveOriginal
  <2>1. /\ at <= Len(pairs) /\ PassOne /\ Todo = at /\ Todo' = at + 1 /\ step' = "sidecars"
        /\ UNCHANGED <<pairs, at>>
    BY <1>0, <1>3 DEF ToTemp, RemoveOriginal, Shape, PassOne, Todo
  <2>2. \A n \in Names : n \notin Temps /\ media'[n] # None
            => media'[n] = media[n] /\ n # Current.name
    <3>1. CASE ToTemp
      BY <1>0, <2>1, <3>1, Here, Moves DEF ToTemp
    <3>2. CASE RemoveOriginal
      BY <1>0, <2>1, <3>2, Here DEF RemoveOriginal, TypeOK
    <3> QED
      BY <1>3, <3>1, <3>2
  <2>3. ASSUME NEW k \in 1 .. Slots, media'[Final(k)] # None
        PROVE  \E m \in 1 .. Len(pairs) : m >= at + 1 /\ pairs[m].name = Final(k)
    <3>1. media[Final(k)] # None /\ Final(k) # Current.name
      BY <1>a, <2>2, <2>3
    <3>2. PICK m \in 1 .. Len(pairs) : m >= at /\ pairs[m].name = Final(k)
      BY <1>b, <2>1, <3>1
    <3> QED
      BY <1>a, <2>1, <3>1, <3>2 DEF Current
  <2> QED
    BY <2>1, <2>3 DEF FinalsAhead, PassTwo
<1>4. CASE Convert
  <2>1. /\ at <= Len(pairs) /\ PassOne /\ Todo = at /\ Todo' = at /\ step' = "original"
        /\ UNCHANGED <<pairs, at>>
    BY <1>0, <1>4 DEF Convert, PassOne, Todo
  <2>2. \A n \in Names : n \notin Temps => media'[n] = media[n]
    BY <1>0, <1>4, <2>1, Here DEF Convert, TypeOK
  <2> QED
    BY <1>a, <1>b, <2>1, <2>2 DEF FinalsAhead, PassTwo
<1>5. CASE Skip \/ RemoveFails
  <2>1. at \in 1 .. Len(pairs) /\ Todo = at /\ PassOne /\ Current.name \in UserNames
    BY <1>5, LeftByUser
  <2>2. step' = "toTemp" /\ Todo' = at + 1 /\ UNCHANGED <<pairs, media>>
    BY <1>5 DEF Skip, RemoveFails, Todo, files
  <2>3. ASSUME NEW k \in 1 .. Slots, media[Final(k)] # None
        PROVE  \E m \in 1 .. Len(pairs) : m >= at + 1 /\ pairs[m].name = Final(k)
    <3>1. PICK m \in 1 .. Len(pairs) : m >= at /\ pairs[m].name = Final(k)
      BY <1>b, <2>1, <2>3
    <3>2. m # at
      BY <1>a, <2>1, <3>1 DEF Current
    <3> QED
      BY <2>1, <3>1, <3>2
  <2> QED
    BY <2>2, <2>3 DEF FinalsAhead, PassTwo
<1>6. CASE SidecarsToTemp
  <2>1. PassOne /\ step' = "toTemp" /\ Todo' = Todo /\ UNCHANGED <<pairs, media>>
    BY <1>6 DEF SidecarsToTemp, PassOne, Todo
  <2> QED
    BY <1>b, <2>1 DEF FinalsAhead, PassTwo
<1>7. CASE SecondPass
  <2>1. PassOne /\ Todo > Len(pairs) /\ step' = "toFinal" /\ UNCHANGED media
    BY <1>7 DEF SecondPass, PassOne, Todo, files
  <2>2. \A k \in 1 .. Slots : media[Final(k)] = None
    BY <1>a, <1>b, <2>1
  <2> QED
    BY <2>1, <2>2 DEF FinalsAhead, PassOne
<1>8. CASE ToFinal
  <2>1. /\ at <= Len(moved) /\ PassTwo /\ Ahead = at /\ Ahead' = at + 1 /\ step' = "finalSidecars"
    BY <1>8 DEF ToFinal, PassTwo, Ahead
  <2>2. \A n \in Names : media[n] = None /\ n # Final(at) => media'[n] = None
    <3>1. media' = media \/ media' = Rename(media, moved[at].temp, Final(at))
      BY <1>8 DEF ToFinal
    <3> QED
      BY <1>0, <2>1, <3>1, HereMoved, Moves
  <2>3. \A k \in 1 .. Slots : k >= at + 1 => Final(k) # Final(at) /\ media[Final(k)] = None
    BY <1>0, <1>a, <2>1, HereMoved, FinalsFacts DEF FinalsAhead
  <2> QED
    BY <1>a, <2>1, <2>2, <2>3 DEF FinalsAhead, PassOne
<1>9. CASE SidecarsToFinal
  <2>1. PassTwo /\ step' = "toFinal" /\ Ahead' = Ahead /\ UNCHANGED media
    BY <1>9 DEF SidecarsToFinal, PassTwo, Ahead
  <2> QED
    BY <2>1 DEF FinalsAhead, PassOne
<1>10. ASSUME NEW p \in Pictures, NEW n \in UserNames, Upload(p, n) PROVE FinalsAhead'
  <2>1. /\ UNCHANGED <<step, pairs, at>>
        /\ \A k \in 1 .. Slots : media'[Final(k)] = media[Final(k)]
    BY <1>0, <1>10, <1>a DEF Upload, TypeOK, task
  <2> QED
    BY <2>1 DEF FinalsAhead, PassOne, PassTwo, Todo, Ahead
<1>11. CASE ~ (PassOne' \/ PassTwo')
  BY <1>11 DEF FinalsAhead
<1> QED
  <2>1. CASE Users
    BY <1>0, <1>11, <1>1, <2>1 DEF Users, Toggle, Delete, task, Idle, files, PassOne, PassTwo
  <2>2. CASE Remap \/ Abort \/ Rescan \/ Scan \/ Persist \/ Restart \/ UNCHANGED vars
    BY <1>1, <1>11, <2>2
    DEF Remap, Abort, Rescan, Scan, Persist, Restart, PassOne, PassTwo, files, vars, task
  <2> QED
    BY <1>2, <1>3, <1>4, <1>5, <1>6, <1>7, <1>8, <1>9, <1>10, <2>1, <2>2 DEF Next, Uploads, Passes

\* Where the temporary names sort before all others, a listed one is listed no
\* later than its number: before it there are only temporary ones with lesser numbers.
TempsFirst == \A t \in Temps, n \in Names \ Temps : t < n

LEMMA BeginTemps ==
  ASSUME Base, Idle, TempsFirst, NEW names \in Listed,
         NEW k \in 1 .. Slots, NEW i \in 1 .. Cardinality(Visual), names[i] = Temp(k)
  PROVE  i <= k
<1> DEFINE N == Cardinality(Visual)
           T == FirstTemp .. Temp(k)
<1>1. /\ N \in Nat /\ \A j \in 1 .. N : names[j] \in Visual
      /\ \A j, l \in 1 .. N : j < l => names[j] < names[l]
  BY BeginLists
<1>2. Visual \subseteq Names /\ Names \subseteq Nat /\ FirstTemp \in Nat /\ Slots \in Nat
  BY NamesFacts DEF Visual
<1>3. Temp(k) \in Temps /\ Temp(k) \in Nat /\ Temp(k) = FirstTemp + k - 1
  BY <1>2 DEF Temps, Temp
<1>4. \A j \in 1 .. i : j \in 1 .. N /\ names[j] \in Nat /\ names[j] <= Temp(k)
  <2> SUFFICES ASSUME NEW j \in 1 .. i
               PROVE  j \in 1 .. N /\ names[j] \in Nat /\ names[j] <= Temp(k)
    OBVIOUS
  <2>1. j \in 1 .. N /\ i \in 1 .. N /\ (j < i \/ j = i)
    BY <1>1
  <2>2. names[j] \in Nat
    BY <1>1, <1>2, <2>1
  <2>3. names[j] < names[i] \/ names[j] = names[i]
    BY <1>1, <2>1
  <2> QED
    BY <1>3, <2>1, <2>2, <2>3
<1>5. \A j \in 1 .. i : names[j] \in Temps
  <2> SUFFICES ASSUME NEW j \in 1 .. i, names[j] \notin Temps PROVE FALSE
    OBVIOUS
  <2>1. names[j] \in Names \ Temps
    BY <1>1, <1>2, <1>4
  <2>2. Temp(k) < names[j]
    BY <1>3, <2>1 DEF TempsFirst
  <2> QED
    BY <1>3, <1>4, <2>2
<1>6. \A t \in Temps : t \in Nat /\ t >= FirstTemp
  BY <1>2 DEF Temps, Temp
<1> DEFINE f == [j \in 1 .. i |-> names[j]]
<1>7. f \in Injection(1 .. i, T)
  <2>1. \A j \in 1 .. i : names[j] \in T
    BY <1>2, <1>3, <1>4, <1>5, <1>6
  <2>2. \A j, l \in 1 .. i : f[j] = f[l] => j = l
    BY <1>1, <1>4
  <2> QED
    BY <2>1, <2>2 DEF Injection, IsInjective
<1>8. IsFiniteSet(T) /\ Cardinality(T) = k
  BY <1>2, <1>3, FS_Interval
<1>9. Cardinality(1 .. i) = i
  BY <1>1, FS_Interval
<1> QED
  BY <1>7, <1>8, <1>9, FS_Injection

LEMMA NextTempsAhead == TempsFirst /\ Base /\ TempsAhead /\ [Next]_vars => TempsAhead'
<1> SUFFICES ASSUME TempsFirst, Base, TempsAhead, [Next]_vars, PassOne' PROVE TempsAhead'
  BY DEF TempsAhead
<1>0. TypeOK /\ Shape /\ JpgOnly /\ Pending
  BY DEF Base
<1>a. Len(pairs) \in Nat /\ at \in Nat /\ Todo \in Nat /\ Ahead \in Nat /\ Slots \in Nat
  BY <1>0, Listings, NamesFacts DEF Todo, Ahead
<1>c. \A k \in 1 .. Slots : Temp(k) \in Names /\ Temp(k) \notin UserNames
  BY TempsFacts
<1>b. ASSUME NEW k \in 1 .. Slots, PassOne, k >= Ahead, media[Temp(k)] # None
      PROVE  \E m \in 1 .. Len(pairs) : m >= Todo /\ m <= k /\ pairs[m].name = Temp(k)
  BY <1>b DEF TempsAhead
<1>1. CASE UNCHANGED <<step, pairs, at, media>>
  BY <1>1 DEF TempsAhead, PassOne, Todo, Ahead
<1>2. CASE Begin
  <2>1. Idle /\ at' = 1 /\ step' = "toTemp" /\ media' = media
    BY <1>2 DEF Begin, files
  <2>2. PICK names \in Listed : pairs' = [i \in DOMAIN names |-> Pair(names[i])]
    BY <1>2 DEF Begin
  <2>3. /\ Len(pairs') = Cardinality(Visual) /\ Cardinality(Visual) \in Nat
        /\ \A i \in 1 .. Cardinality(Visual) : pairs'[i] = Pair(names[i])
        /\ \A n \in Visual : \E i \in 1 .. Cardinality(Visual) : names[i] = n
    BY <2>1, <2>2, BeginLists
  <2>4. \A k \in 1 .. Slots : media[Temp(k)] # None => Temp(k) \in Visual
    BY <1>0, <1>c DEF Visual, JpgOnly
  <2>5. \A i \in 1 .. Len(pairs') : pairs'[i].name = names[i]
    BY <2>3 DEF Pair
  <2>6. \A k \in 1 .. Slots, i \in 1 .. Cardinality(Visual) : names[i] = Temp(k) => i <= k
    BY <2>1, BeginTemps
  <2>7. Todo' = 1
    BY <2>1 DEF Todo
  <2> QED
    BY <2>1, <2>3, <2>4, <2>5, <2>6, <2>7 DEF TempsAhead
<1>3. CASE ToTemp \/ RemoveOriginal
  <2>1. /\ at <= Len(pairs) /\ PassOne /\ Todo = at /\ Todo' = at + 1 /\ Ahead' = at + 1
        /\ Ahead <= at + 1 /\ UNCHANGED <<pairs, at>>
    BY <1>0, <1>a, <1>3 DEF ToTemp, RemoveOriginal, Shape, PassOne, Todo, Ahead
  <2>2. \A n \in Names : n # Temp(at) /\ media'[n] # None
            => media'[n] = media[n] /\ n # Current.name
    <3>1. CASE ToTemp
      BY <1>0, <2>1, <3>1, Here, Moves DEF ToTemp
    <3>2. CASE RemoveOriginal
      BY <1>0, <2>1, <3>2, Here DEF RemoveOriginal, TypeOK
    <3> QED
      BY <1>3, <3>1, <3>2
  <2>3. ASSUME NEW k \in 1 .. Slots, k >= at + 1, media'[Temp(k)] # None
        PROVE  \E m \in 1 .. Len(pairs) : m >= at + 1 /\ m <= k /\ pairs[m].name = Temp(k)
    <3>1. Temp(k) # Temp(at) /\ k >= Ahead
      BY <1>0, <1>a, <2>1, <2>3, Here, TempsFacts
    <3>2. media[Temp(k)] # None /\ Temp(k) # Current.name
      BY <1>c, <2>2, <2>3, <3>1
    <3>3. PICK m \in 1 .. Len(pairs) : m >= at /\ m <= k /\ pairs[m].name = Temp(k)
      BY <1>b, <2>1, <3>1, <3>2
    <3> QED
      BY <1>a, <2>1, <3>2, <3>3 DEF Current
  <2> QED
    BY <2>1, <2>3 DEF TempsAhead
<1>4. CASE Convert
  <2>1. /\ at <= Len(pairs) /\ PassOne /\ Todo = at /\ Todo' = at /\ Ahead = at /\ Ahead' = at + 1
        /\ UNCHANGED <<pairs, at>>
    BY <1>0, <1>4 DEF Convert, PassOne, Todo, Ahead
  <2>2. \A n \in Names : n # Temp(at) => media'[n] = media[n]
    BY <1>0, <1>4, <2>1, Here DEF Convert, TypeOK
  <2>3. \A k \in 1 .. Slots : k >= at + 1 => Temp(k) # Temp(at)
    BY <1>0, <1>a, <2>1, Here, TempsFacts
  <2>4. \A k \in 1 .. Slots : k >= at + 1 => k >= Ahead /\ media'[Temp(k)] = media[Temp(k)]
    BY <1>a, <1>c, <2>1, <2>2, <2>3
  <2> QED
    BY <1>b, <2>1, <2>4 DEF TempsAhead
<1>5. CASE Skip \/ RemoveFails
  <2>1. at \in 1 .. Len(pairs) /\ Todo = at /\ PassOne /\ Current.name \in UserNames
    BY <1>5, LeftByUser
  <2>2. /\ Todo' = at + 1 /\ Ahead' = at + 1 /\ Ahead <= at + 1 /\ UNCHANGED <<pairs, media>>
    BY <1>a, <1>5 DEF Skip, RemoveFails, Todo, Ahead, files
  <2>3. ASSUME NEW k \in 1 .. Slots, k >= at + 1, media[Temp(k)] # None
        PROVE  \E m \in 1 .. Len(pairs) : m >= at + 1 /\ m <= k /\ pairs[m].name = Temp(k)
    <3>1. k >= Ahead
      BY <1>a, <2>2, <2>3
    <3>2. PICK m \in 1 .. Len(pairs) : m >= at /\ m <= k /\ pairs[m].name = Temp(k)
      BY <1>b, <2>1, <2>3, <3>1
    <3>3. m # at
      BY <1>c, <2>1, <3>2 DEF Current
    <3> QED
      BY <2>1, <3>2, <3>3
  <2> QED
    BY <2>2, <2>3 DEF TempsAhead
<1>6. CASE SidecarsToTemp
  <2>1. PassOne /\ Todo' = Todo /\ Ahead' = Ahead /\ UNCHANGED <<pairs, media>>
    BY <1>6 DEF SidecarsToTemp, PassOne, Todo, Ahead
  <2> QED
    BY <1>b, <2>1 DEF TempsAhead
<1>7. ASSUME NEW p \in Pictures, NEW n \in UserNames, Upload(p, n) PROVE TempsAhead'
  <2>1. /\ UNCHANGED <<step, pairs, at>> /\ \A k \in 1 .. Slots : media'[Temp(k)] = media[Temp(k)]
    BY <1>0, <1>7, <1>c DEF Upload, TypeOK, task
  <2> QED
    BY <2>1 DEF TempsAhead, PassOne, Todo, Ahead
<1> QED
  <2>1. CASE Users
    BY <1>0, <2>1, <1>1 DEF Users, Toggle, Delete, task, Idle, files, PassOne
  <2>2. CASE SecondPass \/ ToFinal \/ SidecarsToFinal \/ Remap \/ Abort \/ Rescan \/ Scan
            \/ Persist
             \/ Restart \/ UNCHANGED vars
    BY <1>1, <2>2
    DEF SecondPass, ToFinal, SidecarsToFinal, Remap, Abort, Rescan, Scan, Persist, Restart,
        PassOne, files, vars, task
  <2> QED
    BY <1>2, <1>3, <1>4, <1>5, <1>6, <1>7, <2>1, <2>2 DEF Next, Uploads, Passes

\* The next rename of pass 1 hits no file but its own.
TempFree ==
  step = "toTemp" /\ at <= Len(pairs) => media[Temp(at)] = None \/ Temp(at) = Current.name

LEMMA NextPicturesKept ==
  Base /\ FinalsAhead /\ TempFree /\ PicturesKept /\ [Next]_vars => PicturesKept'
<1> SUFFICES ASSUME Base, FinalsAhead, TempFree, PicturesKept, [Next]_vars,
                    NEW p \in Pictures, life'[p] = "kept"
             PROVE  \E n \in Names : media'[n] # None /\ media'[n].of = p
  BY DEF PicturesKept
<1>0. TypeOK /\ Shape /\ JpgOnly /\ Pending
  BY DEF Base
<1>a. ASSUME life[p] = "kept" PROVE \E n \in Names : media[n] # None /\ media[n].of = p
  BY <1>a DEF PicturesKept
<1>1. CASE UNCHANGED <<media, life>>
  BY <1>1, <1>a
<1>2. ASSUME NEW n \in Names, Delete(n)
      PROVE  \E m \in Names : media'[m] # None /\ media'[m].of = p
  <2>1. p # media[n].of /\ life[p] = "kept" /\ \A m \in Names : m # n => media'[m] = media[m]
    BY <1>0, <1>2, MediaType DEF Delete, TypeOK
  <2>2. PICK m \in Names : media[m] # None /\ media[m].of = p
    BY <1>a, <2>1
  <2> QED
    BY <2>1, <2>2
<1>3. ASSUME NEW q \in Pictures, NEW n \in UserNames, Upload(q, n)
      PROVE  \E m \in Names : media'[m] # None /\ media'[m].of = p
  <2>1. /\ media[n] = None /\ n \in Names /\ \A m \in Names : m # n => media'[m] = media[m]
        /\ \E kind \in Kinds : media'[n] = [of |-> q, kind |-> kind]
        /\ p # q => life[p] = "kept"
    BY <1>0, <1>3 DEF Upload, TypeOK, Names
  <2>2. media'[n] # None /\ media'[n].of = q
    BY <2>1, NoneApart DEF Files
  <2> QED
    BY <1>a, <2>1, <2>2
<1>4. CASE ToTemp
  <2>1. /\ at <= Len(pairs) /\ media' = Rename(media, Current.name, Temp(at)) /\ life' = life
        /\ (media[Temp(at)] = None \/ Temp(at) = Current.name)
    BY <1>4 DEF ToTemp, user, TempFree
  <2>2. PICK m \in Names : media[m] # None /\ media[m].of = p
    BY <1>a, <2>1
  <2>3. CASE m = Current.name
    <3>1. media'[Temp(at)] = media[m]
      BY <1>0, <2>1, <2>3, Here, Moves
    <3> QED
      BY <1>0, <2>1, <2>2, <3>1, Here
  <2>4. CASE m # Current.name
    <3>1. m # Temp(at)
      BY <2>1, <2>2, <2>4
    <3>2. media'[m] = media[m]
      BY <1>0, <2>1, <2>4, <3>1, Here, Moves
    <3> QED
      BY <2>2, <3>2
  <2> QED
    BY <2>3, <2>4
<1>5. CASE Convert
  <2>1. /\ at <= Len(pairs) /\ life' = life /\ Current.kind = "png" /\ TypeOK
        /\ (media[Temp(at)] = None \/ Temp(at) = Current.name)
    BY <1>0, <1>5 DEF Convert, user, TempFree
  <2>2. media[Temp(at)] = None
    <3>1. media[Current.name] # None /\ media[Current.name].kind = "png"
              /\ Temp(at) \notin UserNames
      BY <1>0, <1>5, <2>1, Here, TempsFacts DEF Convert, Pending, PassOne, Todo, Current
    <3> QED
      BY <1>0, <2>1, <3>1, Here DEF JpgOnly
  <2>3. \A m \in Names : m # Temp(at) => media'[m] = media[m]
    BY <1>0, <1>5, <2>1, Here DEF Convert, TypeOK
  <2> QED
    BY <1>a, <2>1, <2>2, <2>3
<1>6. CASE RemoveOriginal
  <2>1. /\ at <= Len(pairs) /\ life' = life /\ Temp(at) \in Names /\ Current.name \in Names
        /\ media[Temp(at)] # None /\ media[Temp(at)].of = media[Current.name].of
        /\ Current.kind = "png" /\ media[Current.name] # None /\ media[Current.name].kind = "png"
    BY <1>0, <1>6, Here DEF RemoveOriginal, user, Shape, Pending, PassOne, Todo, Current
  <2>2. Temp(at) # Current.name
    BY <1>0, <2>1, Here, TempsFacts DEF JpgOnly
  <2>3. \A m \in Names : m # Current.name => media'[m] = media[m]
    BY <1>0, <1>6, <2>1 DEF RemoveOriginal, TypeOK
  <2> QED
    BY <1>a, <2>1, <2>2, <2>3
<1>7. CASE ToFinal
  <2>1. /\ at <= Len(moved) /\ life' = life /\ Ahead = at /\ PassTwo
    BY <1>7 DEF ToFinal, user, Ahead, PassTwo
  <2>2. media[Final(at)] = None
    BY <1>0, <2>1, HereMoved, Listings DEF FinalsAhead
  <2>3. CASE media[moved[at].temp] = None
    BY <1>a, <1>7, <2>1, <2>3 DEF ToFinal
  <2>4. CASE media[moved[at].temp] # None
    <3>1. media' = Rename(media, moved[at].temp, Final(at))
      BY <1>7, <2>4 DEF ToFinal
    <3>2. /\ media'[Final(at)] = media[moved[at].temp]
          /\ \A m \in Names : m # moved[at].temp /\ m # Final(at) => media'[m] = media[m]
      BY <1>0, <2>1, <3>1, HereMoved, Moves
    <3>3. PICK m \in Names : media[m] # None /\ media[m].of = p
      BY <1>a, <2>1
    <3> QED
      BY <1>0, <2>1, <2>2, <3>2, <3>3, HereMoved
  <2> QED
    BY <2>3, <2>4
<1> QED
  <2>1. CASE Skip \/ RemoveFails \/ SidecarsToTemp \/ SecondPass \/ SidecarsToFinal \/ Remap
            \/ Abort
    BY <1>1, <2>1
    DEF Skip, RemoveFails, SidecarsToTemp, SecondPass, SidecarsToFinal, Remap, Abort, files, user
  <2>2. CASE Begin \/ Rescan \/ Scan \/ Persist \/ Restart \/ UNCHANGED vars
    BY <1>1, <2>2 DEF Begin, Rescan, Scan, Persist, Restart, files, user, vars
  <2>3. ASSUME NEW n \in Names, Toggle(n) PROVE UNCHANGED <<media, life>>
    BY <2>3 DEF Toggle, files
  <2> QED
    BY <1>1, <1>2, <1>3, <1>4, <1>5, <1>6, <1>7, <2>1, <2>2, <2>3 DEF Next, Users, Uploads, Passes

LEMMA InitNothingLost == Init => FinalsAhead /\ TempsAhead /\ PicturesKept
<1> SUFFICES ASSUME Init PROVE FinalsAhead /\ TempsAhead /\ PicturesKept
  OBVIOUS
<1>1. step = "idle" /\ \A p \in Pictures : life[p] = "new"
  BY DEF Init
<1> QED
  BY <1>1 DEF FinalsAhead, TempsAhead, PicturesKept, PassOne, PassTwo

\* Where no name sorts before the temporary ones, the folder holds every picture
\* that was not deleted, whatever is cut short in whichever pass.
THEOREM NothingLost == ASSUME TempsFirst PROVE Spec => []PicturesKept
<1> DEFINE Inv == Base /\ FinalsAhead /\ TempsAhead /\ PicturesKept
<1>1. Init => Inv
  BY InitBase, InitNothingLost
<1>2. Inv => TempFree
  <2> SUFFICES ASSUME Inv, step = "toTemp", at <= Len(pairs), media[Temp(at)] # None
               PROVE  Temp(at) = Current.name
    BY DEF TempFree
  <2>1. TypeOK /\ PassOne /\ Todo = at /\ Ahead = at
    BY DEF Base, PassOne, Todo, Ahead
  <2>2. at \in 1 .. Slots /\ at \in Nat
    BY <2>1, Here
  <2>3. PICK m \in 1 .. Len(pairs) : m >= at /\ m <= at /\ pairs[m].name = Temp(at)
    BY <2>1, <2>2 DEF TempsAhead
  <2> QED
    BY <2>2, <2>3 DEF Current
<1>3. Inv /\ [Next]_vars => Inv'
  BY <1>2, NextBase, NextFinalsAhead, NextTempsAhead, NextPicturesKept
<1>4. Inv => PicturesKept
  OBVIOUS
<1> QED
  BY <1>1, <1>3, <1>4, PTL DEF Spec

-----------------------------------------------------------------------------
(* A run that nothing cuts short: the names it gives are free.             *)

\* Temporary names are those of the pairs that pass 1 has renamed and pass 2
\* has not; the pairs that pass 2 has renamed have their final names.
TempsClean ==
  /\ ~ PassOne /\ ~ PassTwo => \A t \in Temps : media[t] = None
  /\ \A t \in Temps : media[t] # None =>
       \/ step \in {"original", "sidecars"} /\ t = Temp(at)
       \/ \E i \in 1 .. Len(moved) : t = moved[i].temp /\ (PassTwo => i >= Ahead)
  /\ PassOne => /\ \A i \in 1 .. Len(moved) : media[moved[i].temp] # None
                /\ \A j \in 1 .. Len(pairs) : pairs[j].name \notin Temps
  /\ PassTwo => \A i \in 1 .. Len(moved) :
       IF i >= Ahead THEN media[moved[i].temp] # None ELSE media[Final(i)] # None

LEMMA InPassOne ==
  ASSUME Base, TempsClean, PassOne
  PROVE  /\ \A i \in 1 .. Len(moved) : moved[i].temp \in Temps /\ moved[i].temp # Temp(at)
                                       /\ media[moved[i].temp] # None
         /\ \A j \in 1 .. Len(pairs) : pairs[j].name \in Names /\ pairs[j].name \notin Temps
         /\ at <= Len(pairs) => Current.name \in Names /\ Current.name \notin Temps
         /\ step = "toTemp" /\ at <= Len(pairs) => media[Temp(at)] = None
         /\ \A t \in Temps : media[t] # None
                => t = Temp(at) \/ \E i \in 1 .. Len(moved) : t = moved[i].temp
<1>0. TypeOK /\ Shape
  BY DEF Base
<1>1. \A i \in 1 .. Len(moved) : moved[i].temp \in Temps /\ moved[i].temp # Temp(at)
                                 /\ media[moved[i].temp] # None
  <2>1. \A i \in 1 .. Len(moved) : moved[i].temp \in Temps /\ moved[i].temp \in Nat
    BY <1>0, Listings, TempsFacts, NamesFacts DEF Move
  <2> QED
    BY <1>0, <2>1 DEF Shape, TempsClean
<1>2. \A j \in 1 .. Len(pairs) : pairs[j].name \in Names /\ pairs[j].name \notin Temps
  BY <1>0, Listings DEF Listing, TempsClean
<1>3. at <= Len(pairs) => at \in 1 .. Len(pairs)
  BY <1>0, Here
<1>4. \A t \in Temps : media[t] # None =>
        (step # "toTemp" /\ t = Temp(at)) \/ \E i \in 1 .. Len(moved) : t = moved[i].temp
  BY DEF TempsClean
<1>5. step = "toTemp" /\ at <= Len(pairs) => media[Temp(at)] = None
  BY <1>0, <1>1, <1>4, Here
<1> QED
  BY <1>1, <1>2, <1>3, <1>4, <1>5 DEF Current

LEMMA InPassTwo ==
  ASSUME Base, TempsClean, PassTwo
  PROVE  /\ Ahead \in Nat /\ Ahead >= at
         /\ \A i \in 1 .. Len(moved) :
              /\ moved[i].temp \in Temps /\ moved[i].temp \in Names /\ i \in 1 .. Slots
              /\ Final(i) \in Names /\ Final(i) \notin Temps
              /\ i >= Ahead => media[moved[i].temp] # None
              /\ i < Ahead => media[Final(i)] # None
         /\ \A i, k \in 1 .. Len(moved) : i # k => /\ moved[i].temp # moved[k].temp
                                                   /\ Final(i) # Final(k)
         /\ \A t \in Temps : media[t] # None
                => \E i \in 1 .. Len(moved) : t = moved[i].temp /\ i >= Ahead
<1>0. TypeOK /\ Shape /\ Len(moved) \in Nat /\ at \in Nat
  BY Listings DEF Base
<1>1. Ahead \in Nat /\ Ahead >= at
  BY <1>0 DEF Ahead
<1>2. \A i \in 1 .. Len(moved) : moved[i].temp \in Temps /\ moved[i].temp \in Names
          /\ i \in 1 .. Slots
  BY <1>0, Listings, TempsFacts DEF Move
<1>3. \A i \in 1 .. Slots : Final(i) \in Names /\ Final(i) \notin Temps
  BY FinalsFacts
<1>4. \A i, k \in 1 .. Len(moved) : i # k => moved[i].temp # moved[k].temp
  <2>1. \A i \in 1 .. Len(moved) : moved[i].temp \in Nat
    BY <1>2, NamesFacts
  <2> SUFFICES ASSUME NEW i \in 1 .. Len(moved), NEW k \in 1 .. Len(moved), i # k
               PROVE  moved[i].temp # moved[k].temp
    OBVIOUS
  <2>2. i < k \/ k < i
    OBVIOUS
  <2> QED
    BY <1>0, <2>1, <2>2 DEF Shape
<1>5. \A i, k \in 1 .. Slots : i # k => Final(i) # Final(k)
  BY FinalsFacts
<1>6. \A i \in 1 .. Len(moved) : /\ i >= Ahead => media[moved[i].temp] # None
                                 /\ i < Ahead => media[Final(i)] # None
  BY <1>0, <1>1 DEF TempsClean
<1>7. \A t \in Temps : media[t] # None => \E i \in 1 .. Len(moved) : t = moved[i].temp
          /\ i >= Ahead
  BY DEF TempsClean, PassTwo
<1> QED
  BY <1>1, <1>2, <1>3, <1>4, <1>5, <1>6, <1>7

\* A step that leaves clean holds: the run is not cut short.
LEMMA Uncut ==
  ASSUME Base, [Next]_vars, clean'
  PROVE  /\ clean /\ ~ Abort /\ ~ RemoveFails
         /\ Restart => pairs = <<>> /\ ~ PassOne /\ ~ PassTwo
         /\ \A p \in Pictures, n \in UserNames : Upload(p, n) =>
              \A i \in 1 .. Len(pairs) : pairs[i].name # n
<1>0. TypeOK /\ Shape /\ clean \in BOOLEAN /\ DOMAIN pairs = 1 .. Len(pairs)
  BY Listings DEF Base, TypeOK
<1>1. ~ Abort /\ ~ RemoveFails
  BY DEF Abort, RemoveFails
<1>2. Restart => clean /\ pairs = <<>>
  BY DEF Restart
<1>3. ASSUME NEW p \in Pictures, NEW n \in UserNames, Upload(p, n)
      PROVE  clean /\ \A i \in 1 .. Len(pairs) : pairs[i].name # n
  BY <1>0, <1>3 DEF Upload
<1>4. ASSUME NEW n \in Names, Toggle(n) \/ Delete(n) PROVE clean
  BY <1>4 DEF Toggle, Delete
<1>5. ASSUME Begin \/ ToTemp \/ Convert \/ RemoveOriginal \/ Skip \/ SidecarsToTemp \/ SecondPass
               \/ ToFinal \/ SidecarsToFinal \/ Remap
      PROVE  clean
  BY <1>5 DEF Begin, ToTemp, Convert, RemoveOriginal, Skip, SidecarsToTemp, SecondPass, ToFinal,
              SidecarsToFinal, Remap
<1>6. ASSUME Rescan \/ Scan \/ Persist \/ UNCHANGED vars PROVE clean
  BY <1>6 DEF Rescan, Scan, Persist, vars
<1>7. clean
  BY <1>1, <1>2, <1>3, <1>4, <1>5, <1>6 DEF Next, Users, Uploads, Passes
<1> QED
  BY <1>0, <1>1, <1>2, <1>3, <1>7 DEF Shape

\* What the steps of the passes do to the files.
LEMMA DoesToTemp ==
  ASSUME Base, TempsClean, ToTemp
  PROVE  /\ PassOne /\ Todo = at /\ Todo' = at + 1 /\ step = "toTemp" /\ step' = "sidecars"
         /\ at \in 1 .. Len(pairs) /\ at <= Len(pairs) /\ Current' = Current
         /\ UNCHANGED <<caption, marks, rows, pairs, at, moved, user, clean>>
         /\ Temp(at) \in Temps /\ Temp(at) \in Names
         /\ Current.name \in Names /\ Current.name \notin Temps /\ Current.name # Temp(at)
         /\ media[Current.name] # None /\ media[Current.name].kind = "jpg"
         /\ media[Temp(at)] = None
         /\ media'[Temp(at)] = media[Current.name] /\ media'[Current.name] = None
         /\ \A n \in Names : n # Temp(at) /\ n # Current.name => media'[n] = media[n]
<1>1. /\ PassOne /\ Todo = at /\ Todo' = at + 1 /\ step = "toTemp" /\ step' = "sidecars"
      /\ at <= Len(pairs) /\ Current' = Current /\ TypeOK /\ Pending /\ Current.kind = "jpg"
      /\ UNCHANGED <<caption, marks, rows, pairs, at, moved, user, clean>>
      /\ media' = Rename(media, Current.name, Temp(at))
  BY DEF Base, ToTemp, PassOne, Todo, Current
<1>2. /\ at \in 1 .. Len(pairs) /\ Temp(at) \in Temps /\ Temp(at) \in Names
      /\ Current.name \in Names /\ Current.name \notin Temps /\ media[Temp(at)] = None
  BY <1>1, Here, InPassOne
<1>3. media[Current.name] # None /\ media[Current.name].kind = "jpg"
  BY <1>1, <1>2 DEF Pending, Current
<1>4. /\ media'[Temp(at)] = media[Current.name]
      /\ Current.name # Temp(at) => media'[Current.name] = None
      /\ \A n \in Names : n # Temp(at) /\ n # Current.name => media'[n] = media[n]
  BY <1>1, <1>2, Moves
<1> QED
  BY <1>1, <1>2, <1>3, <1>4

LEMMA DoesConvert ==
  ASSUME Base, TempsClean, Convert
  PROVE  /\ PassOne /\ Todo = at /\ Todo' = at /\ step = "toTemp" /\ step' = "original"
         /\ at \in 1 .. Len(pairs) /\ at <= Len(pairs) /\ Current' = Current
         /\ UNCHANGED <<caption, marks, rows, pairs, at, moved, user, clean>>
         /\ Temp(at) \in Temps /\ Temp(at) \in Names
         /\ Current.name \in Names /\ Current.name \notin Temps /\ Current.name # Temp(at)
         /\ media[Current.name] # None /\ media[Current.name].kind = "png"
         /\ media[Temp(at)] = None
         /\ media'[Temp(at)] # None /\ media'[Temp(at)].of = media[Current.name].of
         /\ \A n \in Names : n # Temp(at) => media'[n] = media[n]
<1>1. /\ PassOne /\ Todo = at /\ Todo' = at /\ step = "toTemp" /\ step' = "original"
      /\ at <= Len(pairs) /\ Current' = Current /\ TypeOK /\ Pending /\ Current.kind = "png"
      /\ UNCHANGED <<caption, marks, rows, pairs, at, moved, user, clean>>
      /\ media' = [media EXCEPT ![Temp(at)] = [media[Current.name] EXCEPT !.kind = "jpg"]]
  BY DEF Base, Convert, PassOne, Todo, Current
<1>2. /\ at \in 1 .. Len(pairs) /\ Temp(at) \in Temps /\ Temp(at) \in Names
      /\ Current.name \in Names /\ Current.name \notin Temps /\ media[Temp(at)] = None
  BY <1>1, Here, InPassOne
<1>3. media[Current.name] # None /\ media[Current.name].kind = "png"
  BY <1>1, <1>2 DEF Pending, Current
<1>4. media[Current.name] \in Files
  BY <1>1, <1>2, <1>3, MediaType
<1>5. /\ [media[Current.name] EXCEPT !.kind = "jpg"] \in Files
      /\ [media[Current.name] EXCEPT !.kind = "jpg"].of = media[Current.name].of
  BY <1>4 DEF Files, Kinds
<1>6. /\ media'[Temp(at)] = [media[Current.name] EXCEPT !.kind = "jpg"]
      /\ \A n \in Names : n # Temp(at) => media'[n] = media[n]
  BY <1>1, <1>2 DEF TypeOK
<1> QED
  BY <1>1, <1>2, <1>3, <1>5, <1>6, NoneApart

LEMMA DoesRemove ==
  ASSUME Base, TempsClean, RemoveOriginal
  PROVE  /\ PassOne /\ Todo = at /\ Todo' = at + 1 /\ step = "original" /\ step' = "sidecars"
         /\ at \in 1 .. Len(pairs) /\ at <= Len(pairs) /\ Current' = Current
         /\ UNCHANGED <<caption, marks, rows, pairs, at, moved, user, clean>>
         /\ Temp(at) \in Temps /\ Temp(at) \in Names
         /\ Current.name \in Names /\ Current.name \notin Temps /\ Current.name # Temp(at)
         /\ media[Current.name] # None /\ media[Temp(at)] # None
         /\ media[Temp(at)].of = media[Current.name].of
         /\ media'[Current.name] = None
         /\ \A n \in Names : n # Current.name => media'[n] = media[n]
<1>1. /\ PassOne /\ Todo = at /\ Todo' = at + 1 /\ step = "original" /\ step' = "sidecars"
      /\ at <= Len(pairs) /\ Current' = Current /\ TypeOK /\ Pending
      /\ UNCHANGED <<caption, marks, rows, pairs, at, moved, user, clean>>
      /\ media' = [media EXCEPT ![Current.name] = None]
  BY DEF Base, Shape, RemoveOriginal, PassOne, Todo, Current
<1>2. /\ at \in 1 .. Len(pairs) /\ Temp(at) \in Temps /\ Temp(at) \in Names
      /\ Current.name \in Names /\ Current.name \notin Temps
  BY <1>1, Here, InPassOne
<1>3. /\ media[Current.name] # None /\ media[Temp(at)] # None
      /\ media[Temp(at)].of = media[Current.name].of
  BY <1>1, <1>2 DEF Pending, Current
<1> QED
  BY <1>1, <1>2, <1>3 DEF TypeOK

LEMMA DoesToFinal ==
  ASSUME Base, TempsClean, FinalsAhead, ToFinal
  PROVE  /\ PassTwo /\ Ahead = at /\ Ahead' = at + 1 /\ step = "toFinal"
             /\ step' = "finalSidecars"
         /\ at \in 1 .. Len(moved) /\ at \in 1 .. Slots
         /\ UNCHANGED <<caption, marks, rows, pairs, at, moved, user, clean>>
         /\ moved[at].temp \in Temps /\ moved[at].temp \in Names
         /\ Final(at) \in Names /\ Final(at) \notin Temps /\ Final(at) \notin UserNames
         /\ media[moved[at].temp] # None /\ media[Final(at)] = None
         /\ media'[Final(at)] = media[moved[at].temp] /\ media'[moved[at].temp] = None
         /\ \A n \in Names : n # Final(at) /\ n # moved[at].temp => media'[n] = media[n]
<1>1. /\ PassTwo /\ Ahead = at /\ Ahead' = at + 1 /\ step = "toFinal" /\ step' = "finalSidecars"
      /\ at <= Len(moved) /\ TypeOK
      /\ UNCHANGED <<caption, marks, rows, pairs, at, moved, user, clean>>
  BY DEF Base, ToFinal, PassTwo, Ahead
<1>2. /\ at \in 1 .. Len(moved) /\ at \in 1 .. Slots
      /\ moved[at].temp \in Temps /\ moved[at].temp \in Names
      /\ Final(at) \in Names /\ Final(at) \notin Temps /\ Final(at) \notin UserNames
  BY <1>1, HereMoved, FinalsFacts
<1>3. media[moved[at].temp] # None
  BY <1>1, <1>2, InPassTwo
<1>4. media[Final(at)] = None
  BY <1>1, <1>2 DEF FinalsAhead
<1>5. media' = Rename(media, moved[at].temp, Final(at))
  BY <1>3 DEF ToFinal
<1> QED
  BY <1>1, <1>2, <1>3, <1>4, <1>5, Moves

LEMMA NextTempsClean == Base /\ FinalsAhead /\ TempsClean /\ [Next]_vars /\ clean' => TempsClean'
<1> SUFFICES ASSUME Base, FinalsAhead, TempsClean, [Next]_vars, clean' PROVE TempsClean'
  OBVIOUS
<1>0. /\ TypeOK /\ Shape /\ Len(pairs) \in Nat /\ Len(moved) \in Nat /\ at \in Nat
      /\ Temps \subseteq Names /\ Temps \cap UserNames = {}
  BY Listings, TempsFacts DEF Base
<1>1. CASE UNCHANGED <<step, pairs, at, moved, media>>
  BY <1>1 DEF TempsClean, PassOne, PassTwo, Ahead
<1>2. CASE ~ PassOne /\ ~ PassTwo /\ ~ PassOne' /\ ~ PassTwo' /\ \A t \in Temps : media'[t] = None
  BY <1>2 DEF TempsClean
<1>3. ASSUME NEW n \in Names, Delete(n) PROVE TempsClean'
  BY <1>0, <1>2, <1>3 DEF Delete, Idle, task, TypeOK, TempsClean, PassOne, PassTwo
<1>4. ASSUME NEW p \in Pictures, NEW n \in UserNames, Upload(p, n) PROVE TempsClean'
  <2>1. /\ UNCHANGED <<step, pairs, at, moved>>
        /\ \A m \in Names : m \notin UserNames => media'[m] = media[m]
    BY <1>0, <1>4 DEF Upload, TypeOK, task
  <2>2. \A t \in Temps : media'[t] = media[t]
    BY <1>0, <2>1
  <2>3. \A i \in 1 .. Len(moved) : media'[moved[i].temp] = media[moved[i].temp]
                                   /\ media'[Final(i)] = media[Final(i)]
    BY <1>0, <2>1, Listings, TempsFacts, FinalsFacts DEF Move
  <2> QED
    BY <2>1, <2>2, <2>3 DEF TempsClean, PassOne, PassTwo, Ahead
<1>5. CASE Begin
  <2>1. Idle /\ step' = "toTemp" /\ media' = media /\ moved' = <<>>
    BY <1>5 DEF Begin, files
  <2>2. PICK names \in Listed : pairs' = [i \in DOMAIN names |-> Pair(names[i])]
    BY <1>5 DEF Begin
  <2>3. /\ Len(pairs') = Cardinality(Visual) /\ Cardinality(Visual) \in Nat
        /\ \A i \in 1 .. Cardinality(Visual) : pairs'[i] = Pair(names[i]) /\ names[i] \in Visual
    BY <2>1, <2>2, BeginLists
  <2>4. \A t \in Temps : media[t] = None
    BY <2>1 DEF Idle, TempsClean, PassOne, PassTwo
  <2>5. \A n \in Visual : n \notin Temps
    BY <2>4 DEF Visual
  <2>6. \A i \in 1 .. Len(pairs') : pairs'[i].name = names[i]
    BY <2>3 DEF Pair
  <2>7. Len(moved') = 0
    BY <2>1
  <2> QED
    BY <2>1, <2>3, <2>4, <2>5, <2>6, <2>7 DEF TempsClean, PassOne, PassTwo
<1>6. CASE ToTemp
  <2>1. \A t \in Temps : t # Temp(at) => media'[t] = media[t]
    BY <1>0, <1>6, DoesToTemp
  <2>2. step' = "sidecars" /\ PassOne /\ UNCHANGED <<pairs, at, moved>>
    BY <1>6, DoesToTemp
  <2>3. /\ \A i \in 1 .. Len(moved) : media'[moved[i].temp] # None
        /\ \A j \in 1 .. Len(pairs) : pairs[j].name \notin Temps
        /\ \A t \in Temps : media'[t] # None
               => t = Temp(at) \/ \E i \in 1 .. Len(moved) : t = moved[i].temp
    BY <2>1, <2>2, InPassOne
  <2> QED
    BY <2>2, <2>3 DEF TempsClean, PassOne, PassTwo
<1>7. CASE Convert
  <2>1. \A t \in Temps : t # Temp(at) => media'[t] = media[t]
    BY <1>0, <1>7, DoesConvert
  <2>2. step' = "original" /\ PassOne /\ UNCHANGED <<pairs, at, moved>>
    BY <1>7, DoesConvert
  <2>3. /\ \A i \in 1 .. Len(moved) : media'[moved[i].temp] # None
        /\ \A j \in 1 .. Len(pairs) : pairs[j].name \notin Temps
        /\ \A t \in Temps : media'[t] # None
               => t = Temp(at) \/ \E i \in 1 .. Len(moved) : t = moved[i].temp
    BY <2>1, <2>2, InPassOne
  <2> QED
    BY <2>2, <2>3 DEF TempsClean, PassOne, PassTwo
<1>8. CASE RemoveOriginal
  <2>1. \A t \in Temps : media'[t] = media[t]
    BY <1>0, <1>8, DoesRemove
  <2>2. step' = "sidecars" /\ PassOne /\ UNCHANGED <<pairs, at, moved>>
    BY <1>8, DoesRemove
  <2>3. /\ \A i \in 1 .. Len(moved) : media'[moved[i].temp] # None
        /\ \A j \in 1 .. Len(pairs) : pairs[j].name \notin Temps
        /\ \A t \in Temps : media'[t] # None
               => t = Temp(at) \/ \E i \in 1 .. Len(moved) : t = moved[i].temp
    BY <2>1, <2>2, InPassOne
  <2> QED
    BY <2>2, <2>3 DEF TempsClean, PassOne, PassTwo
<1>9. CASE Skip
  <2>1. step = "toTemp" /\ PassOne /\ UNCHANGED <<media, step, pairs, moved>>
    BY <1>9 DEF Skip, PassOne, files
  <2> QED
    BY <2>1 DEF TempsClean, PassOne, PassTwo
<1>10. CASE SidecarsToTemp
  <2>1. step = "sidecars" /\ PassOne /\ step' = "toTemp" /\ UNCHANGED <<media, pairs>>
            /\ at <= Len(pairs)
    BY <1>0, <1>10 DEF SidecarsToTemp, PassOne, Shape
  <2>2. PICK c \in BOOLEAN :
               moved' = Append(moved, [old |-> Current.name, temp |-> Temp(at), captioned |-> c])
    BY <1>10 DEF SidecarsToTemp
  <2>3. /\ Len(moved') = Len(moved) + 1 /\ moved'[Len(moved) + 1].temp = Temp(at)
        /\ \A i \in 1 .. Len(moved) : moved'[i] = moved[i]
    BY <1>0, <2>1, <2>2, Here DEF TypeOK, Move
  <2>4. media[Temp(at)] # None
    BY <2>1 DEF Base, Pending
  <2>5. \A i \in 1 .. Len(moved') : media[moved'[i].temp] # None
    BY <1>0, <2>1, <2>3, <2>4, InPassOne
  <2>6. \A t \in Temps : media[t] # None => \E i \in 1 .. Len(moved') : t = moved'[i].temp
    <3> SUFFICES ASSUME NEW t \in Temps, media[t] # None
                 PROVE  \E i \in 1 .. Len(moved') : t = moved'[i].temp
      OBVIOUS
    <3>1. t = Temp(at) \/ \E i \in 1 .. Len(moved) : t = moved[i].temp
      BY <2>1, InPassOne
    <3> QED
      BY <1>0, <2>3, <3>1
  <2> QED
    BY <2>1, <2>5, <2>6, InPassOne DEF TempsClean, PassOne, PassTwo
<1>11. CASE SecondPass
  <2>1. /\ step = "toTemp" /\ PassOne /\ step' = "toFinal" /\ UNCHANGED <<media, moved>>
        /\ Ahead' = 1
    BY <1>11 DEF SecondPass, PassOne, files, Ahead
  <2>2. /\ \A i \in 1 .. Len(moved) : media[moved[i].temp] # None
        /\ \A t \in Temps : media[t] # None => \E i \in 1 .. Len(moved) : t = moved[i].temp
    BY <2>1 DEF TempsClean
  <2> QED
    BY <1>0, <2>1, <2>2 DEF TempsClean, PassOne, PassTwo
<1>12. CASE ToFinal
  <2>1. /\ PassTwo /\ Ahead = at /\ Ahead' = at + 1 /\ step' = "finalSidecars" /\ moved' = moved
        /\ at \in 1 .. Len(moved) /\ moved[at].temp \in Temps /\ Final(at) \notin Temps
        /\ media'[Final(at)] = media[moved[at].temp] /\ media'[moved[at].temp] = None
        /\ media[moved[at].temp] # None
        /\ \A n \in Names : n # Final(at) /\ n # moved[at].temp => media'[n] = media[n]
    BY <1>12, DoesToFinal
  <2>2. \A i \in 1 .. Len(moved) :
          IF i >= at + 1 THEN media'[moved[i].temp] # None ELSE media'[Final(i)] # None
    <3> SUFFICES ASSUME NEW i \in 1 .. Len(moved)
                 PROVE  IF i >= at + 1 THEN media'[moved[i].temp] # None ELSE media'[Final(i)] # None
      OBVIOUS
    <3>1. CASE i > at
      BY <1>0, <2>1, <3>1, InPassTwo
    <3>2. CASE i = at
      BY <1>0, <2>1, <3>2
    <3>3. CASE i < at
      <4>1. media[Final(i)] # None /\ Final(i) # Final(at) /\ Final(i) # moved[at].temp
                /\ Final(i) \in Names
        BY <1>0, <2>1, <3>3, InPassTwo
      <4> QED
        BY <1>0, <2>1, <3>3, <4>1
    <3> QED
      BY <1>0, <3>1, <3>2, <3>3
  <2>3. \A t \in Temps : media'[t] # None
            => \E i \in 1 .. Len(moved) : t = moved[i].temp /\ i >= at + 1
    <3> SUFFICES ASSUME NEW t \in Temps, media'[t] # None
                 PROVE  \E i \in 1 .. Len(moved) : t = moved[i].temp /\ i >= at + 1
      OBVIOUS
    <3>1. t # moved[at].temp /\ media[t] # None
      BY <1>0, <2>1
    <3>2. PICK i \in 1 .. Len(moved) : t = moved[i].temp /\ i >= at
      BY <2>1, <3>1, InPassTwo
    <3>3. i # at
      BY <3>1, <3>2
    <3> QED
      BY <1>0, <3>2, <3>3
  <2> QED
    BY <2>1, <2>2, <2>3 DEF TempsClean, PassOne, PassTwo
<1>13. CASE SidecarsToFinal
  <2>1. step = "finalSidecars" /\ step' = "toFinal" /\ Ahead' = Ahead
            /\ UNCHANGED <<media, moved>>
    BY <1>13 DEF SidecarsToFinal, Ahead
  <2> QED
    BY <2>1 DEF TempsClean, PassOne, PassTwo
<1>14. CASE Remap
  <2>1. PassTwo /\ at > Len(moved) /\ step' = "scan" /\ media' = media
    BY <1>14 DEF Remap, PassTwo, files
  <2>2. \A t \in Temps : media[t] = None
    BY <1>0, <2>1, InPassTwo
  <2> QED
    BY <2>1, <2>2 DEF TempsClean, PassOne, PassTwo
<1>15. CASE Rescan \/ Scan \/ Persist \/ Restart
  <2>1. /\ ~ PassOne /\ ~ PassTwo /\ ~ PassOne' /\ ~ PassTwo' /\ media' = media
    BY <1>15, Uncut DEF Rescan, Scan, Persist, Restart, Idle, PassOne, PassTwo, files
  <2> QED
    BY <1>2, <2>1 DEF TempsClean
<1> QED
  <2>1. ASSUME NEW n \in Names, Toggle(n) PROVE TempsClean'
    BY <1>1, <2>1 DEF Toggle, files, task
  <2>2. CASE UNCHANGED vars
    BY <1>1, <2>2 DEF vars, files, task
  <2> QED
    BY <1>3, <1>4, <1>5, <1>6, <1>7, <1>8, <1>9, <1>10, <1>11, <1>12, <1>13, <1>14, <1>15, <2>1,
       <2>2, Uncut
    DEF Next, Users, Uploads, Passes

LEMMA InitTempsClean == Init => TempsClean
<1> SUFFICES ASSUME Init PROVE TempsClean
  OBVIOUS
<1>1. step = "idle" /\ \A n \in Names : media[n] = None
  BY DEF Init
<1> QED
  BY <1>1, TempsFacts DEF TempsClean, PassOne, PassTwo

\* A picture can be lost only after a task was cut short, whatever the names.
THEOREM NothingLostUncut == Spec => [](clean => PicturesKept)
<1> DEFINE Inv == Base /\ FinalsAhead /\ (clean => TempsClean /\ PicturesKept)
<1>1. Init => Inv
  BY InitBase, InitNothingLost, InitTempsClean
<1>2. Inv /\ clean => TempFree
  <2> SUFFICES ASSUME Inv, clean, step = "toTemp", at <= Len(pairs) PROVE media[Temp(at)] = None
    BY DEF TempFree
  <2> QED
    BY InPassOne DEF PassOne
<1>3. Inv /\ [Next]_vars => Inv'
  <2> SUFFICES ASSUME Inv, [Next]_vars PROVE Inv'
    OBVIOUS
  <2>1. Base' /\ FinalsAhead'
    BY NextBase, NextFinalsAhead
  <2>2. ASSUME clean' PROVE TempsClean' /\ PicturesKept'
    <3>1. clean
      BY <2>2, Uncut
    <3> QED
      BY <1>2, <2>2, <3>1, NextTempsClean, NextPicturesKept
  <2> QED
    BY <2>1, <2>2
<1>4. Inv => (clean => PicturesKept)
  OBVIOUS
<1> QED
  BY <1>1, <1>3, <1>4, PTL DEF Spec

-----------------------------------------------------------------------------
(* Which pictures there are.                                               *)

\* What was not uploaded yet is nowhere.
NewUnseen ==
  \A p \in Pictures : life[p] = "new" =>
    p \notin captioned /\ wanted[p] = "on" /\ \A n \in Names : media[n] # None => media[n].of # p

\* What a task has listed does not vanish.
SomeFile == pairs # <<>> => \E n \in Names : media[n] # None

\* A picture has one name, but for the copy until its original is removed.
Unique ==
  \A n, m \in Names : media[n] # None /\ media[m] # None /\ media[n].of = media[m].of =>
    n = m \/ (step = "original" /\ {n, m} = {Temp(at), Current.name})

\* Only an upload brings a picture into the folder.
LEMMA NothingNew ==
  ASSUME Base, [Next]_vars, ~ Uploads, NEW n \in Names, media'[n] # None
  PROVE  \E m \in Names : media[m] # None /\ media'[n].of = media[m].of
<1>0. TypeOK /\ Shape /\ Pending
  BY DEF Base
<1>1. CASE media' = media
  BY <1>1
<1>2. ASSUME NEW m \in Names, Delete(m) PROVE media'[n] = media[n]
  BY <1>0, <1>2 DEF Delete, TypeOK
<1>3. CASE ToTemp
  <2>1. at <= Len(pairs) /\ media' = Rename(media, Current.name, Temp(at))
    BY <1>3 DEF ToTemp
  <2>2. media'[n] = media[n] \/ media'[n] = media[Current.name]
    BY <1>0, <2>1, Here, Moves
  <2> QED
    BY <1>0, <2>1, <2>2, Here
<1>4. CASE Convert
  <2>1. at <= Len(pairs) /\ PassOne /\ Todo = at
    BY <1>4 DEF Convert, PassOne, Todo
  <2>2. media[Current.name] # None /\ media[Current.name] \in Files /\ Current.name \in Names
    BY <1>0, <2>1, Here, MediaType DEF Pending, Current
  <2>3. [media[Current.name] EXCEPT !.kind = "jpg"].of = media[Current.name].of
    BY <2>2 DEF Files
  <2>4. media'[n] = media[n] \/ media'[n] = [media[Current.name] EXCEPT !.kind = "jpg"]
    BY <1>0, <1>4, <2>1, Here DEF Convert, TypeOK
  <2> QED
    BY <2>2, <2>3, <2>4
<1>5. CASE RemoveOriginal
  <2>1. media'[n] = media[n]
    BY <1>0, <1>5 DEF RemoveOriginal, TypeOK
  <2> QED
    BY <2>1
<1>6. CASE ToFinal
  <2>1. at <= Len(moved) /\ (media' = media \/ media' = Rename(media, moved[at].temp, Final(at)))
    BY <1>6 DEF ToFinal
  <2>2. media'[n] = media[n] \/ media'[n] = media[moved[at].temp]
    BY <1>0, <2>1, HereMoved, Moves
  <2> QED
    BY <1>0, <2>1, <2>2, HereMoved
<1>7. CASE Skip \/ RemoveFails \/ SidecarsToTemp \/ SecondPass \/ SidecarsToFinal \/ Remap
          \/ Abort
  BY <1>1, <1>7
  DEF Skip, RemoveFails, SidecarsToTemp, SecondPass, SidecarsToFinal, Remap, Abort, files
<1>8. CASE Begin \/ Rescan \/ Scan \/ Persist \/ Restart \/ UNCHANGED vars
  BY <1>1, <1>8 DEF Begin, Rescan, Scan, Persist, Restart, files, vars
<1>9. ASSUME NEW m \in Names, Toggle(m) PROVE media' = media
  BY <1>9 DEF Toggle, files
<1> QED
  BY <1>1, <1>2, <1>3, <1>4, <1>5, <1>6, <1>7, <1>8, <1>9 DEF Next, Users, Passes

LEMMA NextNewUnseen == Base /\ NewUnseen /\ [Next]_vars => NewUnseen'
<1> SUFFICES ASSUME Base, NewUnseen, [Next]_vars, NEW p \in Pictures, life'[p] = "new"
             PROVE  /\ p \notin captioned' /\ wanted'[p] = "on"
                    /\ \A n \in Names : media'[n] # None => media'[n].of # p
  BY DEF NewUnseen
<1>0. TypeOK
  BY DEF Base
<1>1. life[p] = "new" => /\ p \notin captioned /\ wanted[p] = "on"
                         /\ \A n \in Names : media[n] # None => media[n].of # p
  BY DEF NewUnseen
<1>2. CASE Uploads
  <2>1. PICK q \in Pictures, n \in UserNames : Upload(q, n)
    BY <1>2 DEF Uploads
  <2>2. /\ q # p /\ life[p] = "new" /\ n \in Names /\ wanted' = wanted
        /\ \A m \in Names : m # n => media'[m] = media[m]
        /\ \E kind \in Kinds : media'[n] = [of |-> q, kind |-> kind]
        /\ captioned' \subseteq captioned \cup {q}
    BY <1>0, <2>1 DEF Upload, TypeOK, Names
  <2>3. media'[n].of = q
    BY <2>2
  <2> QED
    BY <1>1, <2>2, <2>3
<1>3. CASE ~ Uploads
  <2>1. life[p] = "new" /\ captioned' = captioned
    <3>1. ASSUME NEW n \in Names, Delete(n) PROVE life[p] = "new" /\ captioned' = captioned
      BY <1>0, <3>1 DEF Delete, TypeOK
    <3>2. ASSUME NEW n \in Names, Toggle(n) PROVE life[p] = "new" /\ captioned' = captioned
      BY <3>2 DEF Toggle
    <3>3. CASE Passes
      BY <3>3
         DEF Passes, Begin, ToTemp, Convert, RemoveOriginal, Skip, RemoveFails, SidecarsToTemp,
                  SecondPass, ToFinal, SidecarsToFinal, Remap, Abort, user
    <3>4. CASE Rescan \/ Scan \/ Persist \/ Restart \/ UNCHANGED vars
      BY <3>4 DEF Rescan, Scan, Persist, Restart, user, vars
    <3> QED
      BY <1>3, <3>1, <3>2, <3>3, <3>4 DEF Next, Users
  <2>2. wanted'[p] = wanted[p]
    <3>1. ASSUME NEW n \in Names, Toggle(n) PROVE wanted'[p] = wanted[p]
      BY <1>0, <1>1, <2>1, <3>1 DEF Toggle, TypeOK
    <3>2. ASSUME NEW n \in Names, Delete(n) PROVE wanted' = wanted
      BY <3>2 DEF Delete
    <3>3. CASE Passes
      BY <3>3
         DEF Passes, Begin, ToTemp, Convert, RemoveOriginal, Skip, RemoveFails, SidecarsToTemp,
                  SecondPass, ToFinal, SidecarsToFinal, Remap, Abort, user
    <3>4. CASE Rescan \/ Scan \/ Persist \/ Restart \/ UNCHANGED vars
      BY <3>4 DEF Rescan, Scan, Persist, Restart, user, vars
    <3> QED
      BY <1>3, <3>1, <3>2, <3>3, <3>4 DEF Next, Users
  <2>3. ASSUME NEW n \in Names, media'[n] # None PROVE media'[n].of # p
    BY <1>1, <1>3, <2>1, <2>3, NothingNew
  <2> QED
    BY <1>1, <2>1, <2>2, <2>3
<1> QED
  BY <1>2, <1>3

LEMMA NextSomeFile == Base /\ SomeFile /\ [Next]_vars => SomeFile'
<1> SUFFICES ASSUME Base, SomeFile, [Next]_vars, pairs' # <<>>
             PROVE  \E n \in Names : media'[n] # None
  BY DEF SomeFile
<1>0. TypeOK /\ Shape /\ Pending
  BY DEF Base
<1>1. CASE media' = media /\ pairs' = pairs
  BY <1>1 DEF SomeFile
<1>2. CASE Begin
  BY <1>2 DEF Begin, Visual, files
<1>3. ASSUME NEW n \in Names, Delete(n) PROVE FALSE
  BY <1>0, <1>3 DEF Delete, Idle, Shape, task
<1>4. ASSUME NEW p \in Pictures, NEW n \in UserNames, Upload(p, n) PROVE media'[n] # None
  <2>1. n \in Names /\ \E kind \in Kinds : media'[n] = [of |-> p, kind |-> kind]
    BY <1>0, <1>4 DEF Upload, TypeOK, Names
  <2> QED
    BY <2>1, NoneApart DEF Files
<1>5. CASE ToTemp
  <2>1. /\ at <= Len(pairs) /\ media' = Rename(media, Current.name, Temp(at))
        /\ media[Current.name] # None
    BY <1>0, <1>5, Here DEF ToTemp, Pending, PassOne, Todo, Current
  <2> QED
    BY <1>0, <2>1, Here, Moves
<1>6. CASE Convert
  <2>1. at <= Len(pairs)
    BY <1>6 DEF Convert
  <2>2. media[Current.name] # None
    BY <1>0, <1>6, <2>1, Here DEF Convert, Pending, PassOne, Todo, Current
  <2>3. [media[Current.name] EXCEPT !.kind = "jpg"] \in Files
    BY <1>0, <2>1, <2>2, Here, MediaType DEF Files, Kinds
  <2> QED
    BY <1>0, <1>6, <2>1, <2>3, Here, NoneApart DEF Convert, TypeOK
<1>7. CASE RemoveOriginal
  <2>1. at <= Len(pairs)
    BY <1>0, <1>7 DEF RemoveOriginal, Shape
  <2>2. /\ media[Temp(at)] # None /\ Current.kind = "png"
        /\ media[Current.name] # None /\ media[Current.name].kind = "png"
    BY <1>0, <1>7, <2>1, Here DEF RemoveOriginal, Pending, PassOne, Todo, Current
  <2>3. Temp(at) # Current.name
    BY <2>1, <2>2, <1>0, Here, TempsFacts DEF Base, JpgOnly
  <2> QED
    BY <1>0, <1>7, <2>1, <2>2, <2>3, Here DEF RemoveOriginal, TypeOK
<1>8. CASE ToFinal
  <2>1. /\ at <= Len(moved) /\ pairs' = pairs
        /\ media[moved[at].temp] = None => media' = media
        /\ media[moved[at].temp] # None => media' = Rename(media, moved[at].temp, Final(at))
    BY <1>8 DEF ToFinal
  <2>2. media[moved[at].temp] # None => media'[Final(at)] # None
    BY <1>0, <2>1, HereMoved, Moves
  <2> QED
    BY <1>0, <1>1, <2>1, <2>2, HereMoved
<1>9. CASE Skip \/ RemoveFails \/ SidecarsToTemp \/ SecondPass \/ SidecarsToFinal \/ Remap
          \/ Abort
  BY <1>1, <1>9
  DEF Skip, RemoveFails, SidecarsToTemp, SecondPass, SidecarsToFinal, Remap, Abort, files
<1>10. CASE Rescan \/ Scan \/ Persist \/ Restart \/ UNCHANGED vars
  BY <1>1, <1>10 DEF Rescan, Scan, Persist, Restart, files, vars, task
<1>11. ASSUME NEW n \in Names, Toggle(n) PROVE media' = media /\ pairs' = pairs
  BY <1>11 DEF Toggle, files, task
<1> QED
  <2>1. CASE Users
    BY <1>1, <1>3, <1>11, <2>1 DEF Users
  <2>2. CASE Uploads
    BY <1>4, <2>2 DEF Uploads, Names
  <2> QED
    BY <1>2, <1>5, <1>6, <1>7, <1>8, <1>9, <1>10, <2>1, <2>2 DEF Next, Passes

LEMMA NextUnique ==
  Base /\ FinalsAhead /\ TempsClean /\ NewUnseen /\ Unique /\ [Next]_vars /\ clean' => Unique'
<1> SUFFICES ASSUME Base, FinalsAhead, TempsClean, NewUnseen, Unique, [Next]_vars, clean',
                    NEW n \in Names, NEW m \in Names,
                    media'[n] # None, media'[m] # None, media'[n].of = media'[m].of
             PROVE  n = m \/ (step' = "original" /\ {n, m} = {Temp(at'), Current'.name})
  BY DEF Unique
<1>0. TypeOK /\ Shape
  BY DEF Base
<1>a. \A k, l \in Names :
        /\ media[k] # None /\ media[l] # None /\ media[k].of = media[l].of /\ step # "original"
             => k = l
        /\ media[k] # None /\ media[l] # None /\ media[k].of = media[l].of /\ k # l =>
             k \in {Temp(at), Current.name} /\ l \in {Temp(at), Current.name}
  BY DEF Unique
<1>1. CASE UNCHANGED media /\ step # "original"
  BY <1>1, <1>a
<1>2. ASSUME NEW k \in Names, Delete(k) PROVE n = m
  BY <1>0, <1>2, <1>a DEF Delete, Idle, TypeOK
<1>3. ASSUME NEW p \in Pictures, NEW k \in UserNames, Upload(p, k)
      PROVE  n = m \/ (step' = "original" /\ {n, m} = {Temp(at'), Current'.name})
  <2>1. /\ UNCHANGED <<step, at, pairs>> /\ Current' = Current /\ life[p] = "new"
        /\ \A l \in Names : l # k => media'[l] = media[l]
        /\ \E kind \in Kinds : media'[k] = [of |-> p, kind |-> kind]
    BY <1>0, <1>3 DEF Upload, TypeOK, Names, task, Current
  <2>2. media'[k].of = p /\ \A l \in Names : media[l] # None => media[l].of # p
    BY <2>1 DEF NewUnseen
  <2>3. CASE n = k \/ m = k
    BY <2>1, <2>2, <2>3
  <2>4. CASE n # k /\ m # k
    <3>1. media'[n] = media[n] /\ media'[m] = media[m]
      BY <2>1, <2>4
    <3> QED
      BY <2>1, <3>1 DEF Unique
  <2> QED
    BY <2>3, <2>4
<1>4. CASE ToTemp
  <2>1. /\ Temp(at) \in Names /\ Current.name \in Names
        /\ step # "original" /\ media[Current.name] # None
        /\ media'[Temp(at)] = media[Current.name] /\ media'[Current.name] = None
        /\ \A l \in Names : l # Temp(at) /\ l # Current.name => media'[l] = media[l]
    BY <1>4, DoesToTemp
  <2>2. \A l \in Names : media'[l] # None =>
          \/ l = Temp(at) /\ media'[l] = media[Current.name]
          \/ l # Current.name /\ media'[l] = media[l]
    <3> SUFFICES ASSUME NEW l \in Names, media'[l] # None, l # Temp(at)
                 PROVE  l # Current.name /\ media'[l] = media[l]
      BY <2>1
    <3>1. l # Current.name
      BY <2>1
    <3> QED
      BY <2>1, <3>1
  <2> QED
    BY <1>a, <2>1, <2>2
<1>5. CASE Convert
  <2>1. /\ Temp(at) \in Names /\ Current.name \in Names /\ at' = at /\ Current' = Current
        /\ step # "original" /\ step' = "original" /\ media[Current.name] # None
        /\ media'[Temp(at)].of = media[Current.name].of
        /\ \A l \in Names : l # Temp(at) => media'[l] = media[l]
    BY <1>5, DoesConvert
  <2>2. CASE n = Temp(at)
    <3>1. m = Temp(at) \/ m = Current.name
      BY <1>a, <2>1, <2>2
    <3> QED
      BY <2>1, <2>2, <3>1
  <2>3. CASE m = Temp(at)
    <3>1. n = Temp(at) \/ n = Current.name
      BY <1>a, <2>1, <2>3
    <3> QED
      BY <2>1, <2>3, <3>1
  <2>4. CASE n # Temp(at) /\ m # Temp(at)
    BY <1>a, <2>1, <2>4
  <2> QED
    BY <2>2, <2>3, <2>4
<1>6. CASE RemoveOriginal
  <2>1. /\ media'[Current.name] = None
        /\ \A l \in Names : l # Current.name => media'[l] = media[l]
    BY <1>6, DoesRemove
  <2>2. n # Current.name /\ m # Current.name /\ media'[n] = media[n] /\ media'[m] = media[m]
    BY <2>1
  <2> QED
    BY <1>a, <2>2
<1>7. CASE ToFinal
  <2>1. /\ Final(at) \in Names /\ moved[at].temp \in Names
        /\ step # "original" /\ media[moved[at].temp] # None
        /\ media'[Final(at)] = media[moved[at].temp] /\ media'[moved[at].temp] = None
        /\ \A l \in Names : l # Final(at) /\ l # moved[at].temp => media'[l] = media[l]
    BY <1>7, DoesToFinal
  <2>2. \A l \in Names : media'[l] # None =>
          \/ l = Final(at) /\ media'[l] = media[moved[at].temp]
          \/ l # moved[at].temp /\ media'[l] = media[l]
    <3> SUFFICES ASSUME NEW l \in Names, media'[l] # None, l # Final(at)
                 PROVE  l # moved[at].temp /\ media'[l] = media[l]
      BY <2>1
    <3>1. l # moved[at].temp
      BY <2>1
    <3> QED
      BY <2>1, <3>1
  <2> QED
    BY <1>a, <2>1, <2>2
<1> QED
  <2>1. ASSUME NEW k \in Names, Toggle(k) PROVE UNCHANGED media /\ step # "original"
    BY <2>1 DEF Toggle, Idle, files
  <2>2. CASE Begin \/ Skip \/ SidecarsToTemp \/ SecondPass \/ SidecarsToFinal \/ Remap
    BY <1>1, <2>2 DEF Begin, Idle, Skip, SidecarsToTemp, SecondPass, SidecarsToFinal, Remap, files
  <2>3. CASE Rescan \/ Scan \/ Persist \/ Restart
    BY <1>1, <2>3, Uncut DEF Rescan, Idle, Scan, Persist, Restart, files, PassOne
  <2>4. CASE UNCHANGED vars
    <3>1. UNCHANGED <<media, step, at, pairs>> /\ Current' = Current /\ at' = at
      BY <2>4 DEF vars, files, task, Current
    <3> QED
      BY <3>1 DEF Unique
  <2> QED
    BY <1>1, <1>2, <1>3, <1>4, <1>5, <1>6, <1>7, <2>1, <2>2, <2>3, <2>4, Uncut
    DEF Next, Users, Uploads, Passes

-----------------------------------------------------------------------------
(* Captions.                                                               *)

\* What caption a file should have next to it, and the names where the file
\* was renamed and its caption was not yet.
Own(f, having) == IF f # None /\ f.of \in having THEN f.of ELSE None

Lags(n) ==
  \/ step \in {"original", "sidecars"} /\ n = Temp(at)
  \/ step = "sidecars" /\ n = Current.name
  \/ step = "finalSidecars" /\ (n = Final(at) \/ n = moved[at].temp)

CaptionsPlaced == \A n \in Names : Lags(n) \/ caption[n] = Own(media[n], captioned)

\* There the caption is still at the old name.
CaptionsBehind ==
  /\ step \in {"original", "sidecars"} => caption[Temp(at)] = None
  /\ step = "sidecars" =>
       media[Current.name] = None /\ caption[Current.name] = Own(media[Temp(at)], captioned)
  /\ step = "finalSidecars" =>
       /\ caption[Final(at)] = None /\ media[moved[at].temp] = None
       /\ caption[moved[at].temp] = Own(media[Final(at)], captioned)

\* The flags in the listing and in temp_map tell the truth.
FlagsTell ==
  /\ PassOne => \A j \in 1 .. Len(pairs) : j >= at =>
       (pairs[j].captioned <=> caption[pairs[j].name] # None)
  /\ \A i \in 1 .. Len(moved) : PassOne \/ (PassTwo /\ i >= at) =>
       (moved[i].captioned <=> caption[moved[i].temp] # None)

Captions == CaptionsPlaced /\ CaptionsBehind /\ FlagsTell

LEMMA UploadCaptions ==
  ASSUME Base, TempsClean, NewUnseen, Captions, clean', [Next]_vars,
         NEW p \in Pictures, NEW k \in UserNames, Upload(p, k)
  PROVE  Captions'
<1>0. TypeOK /\ Shape
  BY DEF Base
<1>1. /\ UNCHANGED <<step, at, pairs, moved>> /\ k \in Names
      /\ media[k] = None /\ life[p] = "new"
      /\ \A m \in Names : m # k => media'[m] = media[m] /\ caption'[m] = caption[m]
      /\ Current' = Current
  BY <1>0 DEF Upload, TypeOK, Names, task, Current
<1>2. PICK c \in BOOLEAN, kind \in Kinds :
        /\ media'[k] = [of |-> p, kind |-> kind]
        /\ caption' = IF c THEN [caption EXCEPT ![k] = p] ELSE caption
        /\ captioned' = IF c THEN captioned \cup {p} ELSE captioned
  BY <1>0, <1>1 DEF Upload, TypeOK
<1>3. p \notin captioned /\ \A n \in Names : media[n] # None => media[n].of # p
  BY <1>1 DEF NewUnseen
<1>4. \A m \in Names : m # k => Own(media'[m], captioned') = Own(media[m], captioned)
  BY <1>1, <1>2, <1>3 DEF Own
<1>5. /\ \A i \in 1 .. Len(pairs) : pairs[i].name # k /\ pairs[i].name \in Names
      /\ \A i \in 1 .. Len(moved) : moved[i].temp # k /\ moved[i].temp \in Names
  <2>1. \A i \in 1 .. Len(moved) : moved[i].temp \in Temps /\ moved[i].temp \in Names
    BY <1>0, Listings, TempsFacts DEF Move
  <2>2. \A i \in 1 .. Len(pairs) : pairs[i].name \in Names
    BY <1>0, Listings DEF Listing
  <2> QED
    BY <2>1, <2>2, Uncut, TempsFacts
<1>6. step \in {"original", "sidecars"} =>
        Temp(at) # k /\ Temp(at) \in Names /\ Current.name # k /\ Current.name \in Names
  <2>1. step \in {"original", "sidecars"} => at <= Len(pairs)
    BY <1>0 DEF Shape
  <2> QED
    BY <1>0, <1>5, <2>1, Here, TempsFacts DEF Current
<1>7. step = "finalSidecars" =>
        /\ Final(at) # k /\ Final(at) \in Names
        /\ moved[at].temp # k /\ moved[at].temp \in Names
  <2>1. step = "finalSidecars" => at <= Len(moved)
    BY <1>0 DEF Shape
  <2> QED
    BY <1>0, <1>5, <2>1, HereMoved, FinalsFacts
<1>8. caption[k] = None
  <2>1. ~ Lags(k)
    BY <1>6, <1>7 DEF Lags
  <2> QED
    BY <1>1, <2>1 DEF Captions, CaptionsPlaced, Own
<1>9. caption'[k] = Own(media'[k], captioned')
  <2>1. CASE c
    BY <1>0, <1>1, <1>2, <2>1, NoneApart DEF TypeOK, Own, Files
  <2>2. CASE ~ c
    BY <1>2, <1>3, <1>8, <2>2 DEF Own
  <2> QED
    BY <2>1, <2>2
<1>10. CaptionsPlaced'
  <2> SUFFICES ASSUME NEW n \in Names, ~ Lags(n)' PROVE caption'[n] = Own(media'[n], captioned')
    BY DEF CaptionsPlaced
  <2>1. ~ Lags(n)
    BY <1>1 DEF Lags
  <2> QED
    BY <1>1, <1>4, <1>9, <2>1 DEF Captions, CaptionsPlaced
<1>11. CaptionsBehind'
  BY <1>1, <1>4, <1>6, <1>7 DEF Captions, CaptionsBehind
<1>12. FlagsTell'
  BY <1>1, <1>5 DEF Captions, FlagsTell, PassOne, PassTwo
<1> QED
  BY <1>10, <1>11, <1>12 DEF Captions

LEMMA NextCaptions ==
  Base /\ FinalsAhead /\ TempsClean /\ NewUnseen /\ Captions /\ [Next]_vars /\ clean' => Captions'
<1> SUFFICES ASSUME Base, FinalsAhead, TempsClean, NewUnseen, Captions, [Next]_vars, clean'
             PROVE  Captions'
  OBVIOUS
<1>0. TypeOK /\ Shape /\ Len(pairs) \in Nat /\ Len(moved) \in Nat /\ at \in Nat
  BY Listings DEF Base
<1>a. \A n \in Names : ~ Lags(n) => caption[n] = Own(media[n], captioned)
  BY DEF Captions, CaptionsPlaced
<1>n. \A having : Own(None, having) = None
  BY DEF Own
<1>1. CASE UNCHANGED <<step, pairs, at, moved, media, caption, captioned>>
  <2>1. \A n : Lags(n)' <=> Lags(n)
    BY <1>1 DEF Lags, Current
  <2>2. CaptionsPlaced'
    BY <1>1, <2>1 DEF Captions, CaptionsPlaced
  <2>3. CaptionsBehind' /\ FlagsTell'
    BY <1>1 DEF Captions, CaptionsBehind, FlagsTell, PassOne, PassTwo, Current
  <2> QED
    BY <2>2, <2>3 DEF Captions
<1>2. ASSUME step \notin {"original", "sidecars", "finalSidecars"},
             step' \in {"idle", "scan", "persist"},
             UNCHANGED <<media, caption, captioned>>
      PROVE  Captions'
  <2>1. \A n : ~ Lags(n)
    BY <1>2 DEF Lags
  <2> QED
    BY <1>2, <1>a, <2>1 DEF Captions, CaptionsPlaced, CaptionsBehind, FlagsTell, PassOne, PassTwo
<1>3. ASSUME NEW n \in Names, Delete(n) PROVE Captions'
  <2>1. step = "idle" /\ step' = "idle" /\ captioned' = captioned
        /\ media'[n] = None /\ caption'[n] = None
        /\ \A m \in Names : m # n => media'[m] = media[m] /\ caption'[m] = caption[m]
    BY <1>0, <1>3 DEF Delete, Idle, task, TypeOK
  <2>2. \A m : ~ Lags(m)
    BY <2>1 DEF Lags
  <2>3. CaptionsPlaced'
    BY <1>a, <1>n, <2>1, <2>2 DEF CaptionsPlaced
  <2> QED
    BY <2>1, <2>3 DEF Captions, CaptionsBehind, FlagsTell, PassOne, PassTwo
<1>4. CASE Begin
  <2>1. step = "idle" /\ step' = "toTemp" /\ moved' = <<>>
            /\ UNCHANGED <<media, caption, captioned>>
    BY <1>4 DEF Begin, Idle, files, user
  <2>2. PICK names \in Listed : pairs' = [i \in DOMAIN names |-> Pair(names[i])]
    BY <1>4 DEF Begin
  <2>3. /\ Len(pairs') = Cardinality(Visual)
        /\ \A i \in 1 .. Cardinality(Visual) : pairs'[i] = Pair(names[i])
    BY <2>1, <2>2, BeginLists DEF Idle
  <2>4. \A i \in 1 .. Len(pairs') : pairs'[i].captioned <=> caption[pairs'[i].name] # None
    <3>1. \A n : Pair(n).name = n /\ (Pair(n).captioned <=> caption[n] # None)
      BY DEF Pair
    <3> QED
      BY <2>3, <3>1
  <2>5. \A n : ~ Lags(n) /\ ~ Lags(n)'
    BY <2>1 DEF Lags
  <2>6. CaptionsPlaced' /\ CaptionsBehind'
    BY <1>a, <2>1, <2>5 DEF CaptionsPlaced, CaptionsBehind
  <2>7. FlagsTell'
    BY <2>1, <2>4 DEF FlagsTell, PassTwo
  <2> QED
    BY <2>6, <2>7 DEF Captions
<1>5. CASE ToTemp
  <2>1. /\ step = "toTemp" /\ step' = "sidecars" /\ PassOne /\ Current' = Current
        /\ UNCHANGED <<caption, pairs, at, moved, user>>
        /\ Temp(at) \in Names /\ Current.name \in Names /\ Current.name # Temp(at)
        /\ media[Temp(at)] = None /\ media'[Temp(at)] = media[Current.name]
        /\ media'[Current.name] = None
        /\ \A n \in Names : n # Temp(at) /\ n # Current.name => media'[n] = media[n]
    BY <1>5, DoesToTemp
  <2>2. captioned' = captioned
    BY <2>1 DEF user
  <2>3. \A n : ~ Lags(n) /\ (Lags(n)' <=> n = Temp(at) \/ n = Current.name)
    BY <2>1 DEF Lags
  <2>4. CaptionsPlaced'
    BY <1>a, <2>1, <2>2, <2>3 DEF CaptionsPlaced
  <2>5. CaptionsBehind'
    BY <1>a, <1>n, <2>1, <2>2, <2>3 DEF CaptionsBehind
  <2>6. FlagsTell'
    BY <2>1 DEF Captions, FlagsTell, PassOne, PassTwo
  <2> QED
    BY <2>4, <2>5, <2>6 DEF Captions
<1>6. CASE Convert
  <2>1. /\ step = "toTemp" /\ step' = "original" /\ PassOne /\ Current' = Current
        /\ UNCHANGED <<caption, pairs, at, moved, user>>
        /\ Temp(at) \in Names /\ media[Temp(at)] = None
        /\ \A n \in Names : n # Temp(at) => media'[n] = media[n]
    BY <1>6, DoesConvert
  <2>2. captioned' = captioned
    BY <2>1 DEF user
  <2>3. \A n : ~ Lags(n) /\ (Lags(n)' <=> n = Temp(at))
    BY <2>1 DEF Lags
  <2>4. CaptionsPlaced'
    BY <1>a, <2>1, <2>2, <2>3 DEF CaptionsPlaced
  <2>5. CaptionsBehind'
    BY <1>a, <1>n, <2>1, <2>2, <2>3 DEF CaptionsBehind
  <2>6. FlagsTell'
    BY <2>1 DEF Captions, FlagsTell, PassOne, PassTwo
  <2> QED
    BY <2>4, <2>5, <2>6 DEF Captions
<1>7. CASE RemoveOriginal
  <2>1. /\ step = "original" /\ step' = "sidecars" /\ PassOne /\ Current' = Current
        /\ UNCHANGED <<caption, pairs, at, moved, user>>
        /\ Temp(at) \in Names /\ Current.name \in Names /\ Current.name # Temp(at)
        /\ media[Current.name] # None /\ media[Temp(at)] # None
        /\ media[Temp(at)].of = media[Current.name].of /\ media'[Current.name] = None
        /\ \A n \in Names : n # Current.name => media'[n] = media[n]
    BY <1>7, DoesRemove
  <2>2. captioned' = captioned
    BY <2>1 DEF user
  <2>3. \A n : (Lags(n) <=> n = Temp(at)) /\ (Lags(n)' <=> n = Temp(at) \/ n = Current.name)
    BY <2>1 DEF Lags
  <2>4. CaptionsPlaced'
    BY <1>a, <2>1, <2>2, <2>3 DEF CaptionsPlaced
  <2>5. caption[Current.name] = Own(media[Temp(at)], captioned) /\ caption[Temp(at)] = None
    <3>1. caption[Current.name] = Own(media[Current.name], captioned)
      BY <1>a, <2>1, <2>3
    <3>2. Own(media[Current.name], captioned) = Own(media[Temp(at)], captioned)
      BY <2>1 DEF Own
    <3> QED
      BY <2>1, <3>1, <3>2 DEF Captions, CaptionsBehind
  <2>6. CaptionsBehind'
    BY <2>1, <2>2, <2>5 DEF CaptionsBehind
  <2>7. FlagsTell'
    BY <2>1 DEF Captions, FlagsTell, PassOne, PassTwo
  <2> QED
    BY <2>4, <2>6, <2>7 DEF Captions
<1>8. CASE Skip
  <2>1. /\ step = "toTemp" /\ step' = "toTemp" /\ PassOne /\ at' = at + 1
        /\ UNCHANGED <<media, caption, captioned, pairs, moved>>
    BY <1>8 DEF Skip, PassOne, files, user
  <2>2. \A n : ~ Lags(n) /\ ~ Lags(n)'
    BY <2>1 DEF Lags
  <2>3. CaptionsPlaced' /\ CaptionsBehind'
    BY <1>a, <2>1, <2>2 DEF CaptionsPlaced, CaptionsBehind
  <2>4. FlagsTell'
    BY <1>0, <2>1 DEF Captions, FlagsTell, PassOne, PassTwo
  <2> QED
    BY <2>3, <2>4 DEF Captions
<1>9. CASE SidecarsToTemp
  <2>1. /\ step = "sidecars" /\ PassOne /\ step' = "toTemp" /\ at' = at + 1
        /\ UNCHANGED <<media, pairs, captioned>> /\ at <= Len(pairs)
    BY <1>0, <1>9 DEF SidecarsToTemp, PassOne, Shape, user
  <2>2. /\ at \in 1 .. Len(pairs) /\ Temp(at) \in Names /\ Temp(at) \in Temps
        /\ Current.name \in Names /\ Current.name \notin Temps /\ pairs[at] = Current
    BY <1>0, <2>1, Here, InPassOne DEF Current
  <2>3. Current.captioned <=> caption[Current.name] # None
    BY <1>0, <2>1, <2>2 DEF Captions, FlagsTell, Current
  <2>4. /\ caption[Current.name] # None => caption' = Rename(caption, Current.name, Temp(at))
        /\ caption[Current.name] = None => caption' = caption
        /\ moved' = Append(moved, [old |-> Current.name, temp |-> Temp(at),
                                   captioned |-> caption[Current.name] # None])
    BY <1>9, <2>3 DEF SidecarsToTemp
  <2>5. /\ caption[Temp(at)] = None /\ media[Current.name] = None
        /\ caption[Current.name] = Own(media[Temp(at)], captioned)
    BY <2>1 DEF Captions, CaptionsBehind
  <2>6. /\ caption'[Temp(at)] = caption[Current.name] /\ caption'[Current.name] = None
        /\ \A n \in Names : n # Temp(at) /\ n # Current.name => caption'[n] = caption[n]
    BY <1>0, <2>2, <2>4, <2>5, Moves
  <2>7. \A n : (Lags(n) <=> n = Temp(at) \/ n = Current.name) /\ ~ Lags(n)'
    BY <2>1 DEF Lags
  <2>8. CaptionsPlaced' /\ CaptionsBehind'
    BY <1>a, <1>n, <2>1, <2>5, <2>6, <2>7 DEF CaptionsPlaced, CaptionsBehind
  <2>9. \A j \in 1 .. Len(pairs) : j >= at + 1
            => (pairs[j].captioned <=> caption'[pairs[j].name] # None)
    <3> SUFFICES ASSUME NEW j \in 1 .. Len(pairs), j >= at + 1
                 PROVE  pairs[j].captioned <=> caption'[pairs[j].name] # None
      OBVIOUS
    <3>1. pairs[j].name # Current.name /\ pairs[j].name # Temp(at) /\ pairs[j].name \in Names
      BY <1>0, <2>1, <2>2, InPassOne DEF Shape
    <3> QED
      BY <1>0, <2>1, <2>6, <3>1 DEF Captions, FlagsTell
  <2>10. /\ Len(moved') = Len(moved) + 1
         /\ moved'[Len(moved) + 1].temp = Temp(at)
         /\ moved'[Len(moved) + 1].captioned <=> caption[Current.name] # None
         /\ \A i \in 1 .. Len(moved) : moved'[i] = moved[i]
    <3>1. PICK c \in BOOLEAN : c <=> caption[Current.name] # None
      OBVIOUS
    <3> DEFINE move == [old |-> Current.name, temp |-> Temp(at), captioned |-> c]
    <3>2. moved' = Append(moved, move)
      BY <2>4, <3>1
    <3>3. moved \in Seq(Move) /\ move \in Move /\ move.temp = Temp(at) /\ move.captioned = c
      BY <1>0, <2>2 DEF TypeOK, Move
    <3> HIDE DEF move
    <3>4. /\ Len(moved') = Len(moved) + 1 /\ moved'[Len(moved) + 1] = move
          /\ \A i \in 1 .. Len(moved) : moved'[i] = moved[i]
      BY <3>2, <3>3
    <3> QED
      BY <3>1, <3>3, <3>4
  <2>11. \A i \in 1 .. Len(moved') : moved'[i].captioned <=> caption'[moved'[i].temp] # None
    <3> SUFFICES ASSUME NEW i \in 1 .. Len(moved')
                 PROVE  moved'[i].captioned <=> caption'[moved'[i].temp] # None
      OBVIOUS
    <3>1. CASE i = Len(moved) + 1
      BY <2>6, <2>10, <3>1
    <3>2. CASE i \in 1 .. Len(moved)
      <4>1. moved[i].temp \in Temps /\ moved[i].temp # Temp(at) /\ moved[i].temp # Current.name
            /\ moved[i].temp \in Names
        BY <2>1, <2>2, <3>2, InPassOne, TempsFacts
      <4> QED
        BY <2>1, <2>6, <2>10, <3>2, <4>1 DEF Captions, FlagsTell
    <3> QED
      BY <1>0, <2>10, <3>1, <3>2
  <2>12. FlagsTell'
    BY <2>1, <2>9, <2>11 DEF FlagsTell
  <2> QED
    BY <2>8, <2>12 DEF Captions
<1>10. CASE SecondPass
  <2>1. /\ step = "toTemp" /\ step' = "toFinal" /\ PassOne /\ ~ PassOne'
        /\ UNCHANGED <<media, caption, captioned, moved>>
    BY <1>10 DEF SecondPass, PassOne, files, user
  <2>2. \A n : ~ Lags(n) /\ ~ Lags(n)'
    BY <2>1 DEF Lags
  <2>3. CaptionsPlaced' /\ CaptionsBehind'
    BY <1>a, <2>1, <2>2 DEF CaptionsPlaced, CaptionsBehind
  <2>4. FlagsTell'
    BY <2>1 DEF Captions, FlagsTell
  <2> QED
    BY <2>3, <2>4 DEF Captions
<1>11. CASE ToFinal
  <2>1. /\ step = "toFinal" /\ step' = "finalSidecars" /\ PassTwo
        /\ at \in 1 .. Len(moved) /\ UNCHANGED <<caption, pairs, at, moved, user>>
        /\ moved[at].temp \in Temps /\ moved[at].temp \in Names
        /\ Final(at) \in Names /\ Final(at) \notin Temps /\ media[Final(at)] = None
        /\ media'[Final(at)] = media[moved[at].temp] /\ media'[moved[at].temp] = None
        /\ \A n \in Names : n # Final(at) /\ n # moved[at].temp => media'[n] = media[n]
    BY <1>11, DoesToFinal
  <2>2. captioned' = captioned
    BY <2>1 DEF user
  <2>3. \A n : ~ Lags(n) /\ (Lags(n)' <=> n = Final(at) \/ n = moved[at].temp)
    BY <2>1 DEF Lags
  <2>4. CaptionsPlaced'
    BY <1>a, <2>1, <2>2, <2>3 DEF CaptionsPlaced
  <2>5. CaptionsBehind'
    BY <1>a, <1>n, <2>1, <2>2, <2>3 DEF CaptionsBehind
  <2>6. FlagsTell'
    BY <2>1 DEF Captions, FlagsTell, PassOne, PassTwo
  <2> QED
    BY <2>4, <2>5, <2>6 DEF Captions
<1>12. CASE SidecarsToFinal
  <2>1. /\ step = "finalSidecars" /\ step' = "toFinal" /\ PassTwo /\ ~ PassOne' /\ at' = at + 1
        /\ UNCHANGED <<media, captioned, moved>> /\ at <= Len(moved)
    BY <1>0, <1>12 DEF SidecarsToFinal, PassOne, PassTwo, Shape, user
  <2>2. /\ at \in 1 .. Len(moved) /\ moved[at].temp \in Temps /\ moved[at].temp \in Names
        /\ Final(at) \in Names /\ Final(at) # moved[at].temp /\ Final(at) \notin Temps
    BY <1>0, <2>1, HereMoved, FinalsFacts
  <2>3. moved[at].captioned <=> caption[moved[at].temp] # None
    BY <1>0, <2>1, <2>2 DEF Captions, FlagsTell
  <2>4. /\ caption[moved[at].temp] # None => caption' = Rename(caption, moved[at].temp, Final(at))
        /\ caption[moved[at].temp] = None => caption' = caption
    BY <1>12, <2>3 DEF SidecarsToFinal
  <2>5. /\ caption[Final(at)] = None /\ media[moved[at].temp] = None
        /\ caption[moved[at].temp] = Own(media[Final(at)], captioned)
    BY <2>1 DEF Captions, CaptionsBehind
  <2>6. /\ caption'[Final(at)] = caption[moved[at].temp] /\ caption'[moved[at].temp] = None
        /\ \A n \in Names : n # Final(at) /\ n # moved[at].temp => caption'[n] = caption[n]
    BY <1>0, <2>2, <2>4, <2>5, Moves
  <2>7. \A n : (Lags(n) <=> n = Final(at) \/ n = moved[at].temp) /\ ~ Lags(n)'
    BY <2>1 DEF Lags
  <2>8. CaptionsPlaced' /\ CaptionsBehind'
    BY <1>a, <1>n, <2>1, <2>5, <2>6, <2>7 DEF CaptionsPlaced, CaptionsBehind
  <2>9. \A i \in 1 .. Len(moved) : i >= at + 1
            => (moved[i].captioned <=> caption'[moved[i].temp] # None)
    <3> SUFFICES ASSUME NEW i \in 1 .. Len(moved), i >= at + 1
                 PROVE  moved[i].captioned <=> caption'[moved[i].temp] # None
      OBVIOUS
    <3>1. moved[i].temp \in Temps /\ moved[i].temp # moved[at].temp /\ moved[i].temp # Final(at)
          /\ moved[i].temp \in Names
      BY <1>0, <2>1, <2>2, InPassTwo
    <3> QED
      BY <1>0, <2>1, <2>6, <3>1 DEF Captions, FlagsTell
  <2>10. FlagsTell'
    BY <2>1, <2>9 DEF FlagsTell
  <2> QED
    BY <2>8, <2>10 DEF Captions
<1>13. CASE Remap \/ Rescan \/ Scan \/ Persist
  BY <1>2, <1>13 DEF Remap, Rescan, Scan, Persist, Idle, files, user
<1>14. CASE Restart
  <2>1. step' = "idle" /\ UNCHANGED <<media, caption, captioned>> /\ ~ PassOne /\ ~ PassTwo
    BY <1>14, Uncut DEF Restart, files, user
  <2> QED
    BY <1>2, <2>1 DEF PassOne, PassTwo
<1> QED
  <2>1. ASSUME NEW n \in Names, Toggle(n) PROVE Captions'
    BY <1>1, <2>1 DEF Toggle, files, task
  <2>2. CASE UNCHANGED vars
    BY <1>1, <2>2 DEF vars, files, task, user
  <2>3. CASE Uploads
    BY <2>3, UploadCaptions DEF Uploads
  <2> QED
    BY <1>3, <1>4, <1>5, <1>6, <1>7, <1>8, <1>9, <1>10, <1>11, <1>12, <1>13, <1>14, <2>1, <2>2,
       <2>3, Uncut
    DEF Next, Users, Passes

-----------------------------------------------------------------------------
(* Marks.                                                                  *)

\* What a mark says of a file: no mark is "on"; that of a file which is
\* skipped, or never listed, does not matter.
Read(mark) == IF mark = None THEN "on" ELSE mark
Tells(f, mark, want) == f # None /\ f.kind \in {"jpg", "png"} => Read(mark) = want[f.of]

\* Between the passes each file has its mark, and no other name has one.
MarksSettled ==
  ~ PassOne /\ ~ PassTwo => \A n \in Names :
    Tells(media[n], marks[n], wanted) /\ (marks[n] # None => media[n] # None)

\* In pass 1 the marks are at the old names; a file that is not listed any
\* more has none that is needed.
MarksListed ==
  PassOne =>
    /\ \A j \in 1 .. Len(pairs) : j >= Todo =>
         Tells(media[pairs[j].name], marks[pairs[j].name], wanted)
    /\ \A n \in Names : n \notin Temps =>
         \/ media[n] = None
         \/ \E j \in 1 .. Len(pairs) : j >= Todo /\ pairs[j].name = n
         \/ n \in UserNames /\ Tells(media[n], None, wanted)
    /\ \A i \in 1 .. Len(moved) : Tells(media[moved[i].temp], marks[moved[i].old], wanted)
    /\ step \in {"original", "sidecars"} => Tells(media[Temp(at)], marks[Current.name], wanted)

\* In pass 2 they still are.
MarksMoved ==
  PassTwo =>
    /\ \A n \in UserNames : Tells(media[n], None, wanted)
    /\ \A i \in 1 .. Len(moved) :
         IF i >= Ahead THEN Tells(media[moved[i].temp], marks[moved[i].old], wanted)
                       ELSE Tells(media[Final(i)], marks[moved[i].old], wanted)

MarksState == MarksSettled /\ MarksListed /\ MarksMoved

\* The rows are what a restart would read.
RowsState ==
  /\ step = "idle" => rows = marks
  /\ pairs = <<>> => \A n \in Names :
       Tells(media[n], rows[n], wanted) /\ (rows[n] # None => media[n] # None)
  /\ step = "persist" /\ pairs = <<>> => \A n \in Names : rows[n] # None => marks[n] # None
  /\ step = "persist" /\ pairs # <<>> => \E n \in Names : marks[n] # None

LEMMA UploadMarks ==
  ASSUME Base, NewUnseen, MarksState, RowsState, clean', [Next]_vars,
         NEW p \in Pictures, NEW k \in UserNames, Upload(p, k)
  PROVE  MarksState' /\ RowsState'
<1>0. TypeOK /\ Shape
  BY DEF Base
<1>1. /\ UNCHANGED <<step, at, pairs, moved, marks, rows, wanted>> /\ k \in Names
      /\ media[k] = None /\ life[p] = "new" /\ Current' = Current
      /\ \A m \in Names : m # k => media'[m] = media[m]
      /\ \E kind \in Kinds : media'[k] = [of |-> p, kind |-> kind]
  BY <1>0 DEF Upload, TypeOK, Names, task, Current
<1>2. media'[k].of = p /\ media'[k] # None /\ wanted[p] = "on"
  BY <1>1, NoneApart DEF NewUnseen, Files
<1>3. Tells(media'[k], None, wanted)
  BY <1>2 DEF Tells, Read
<1>4. /\ \A i \in 1 .. Len(pairs) : pairs[i].name # k /\ pairs[i].name \in Names
      /\ \A i \in 1 .. Len(moved) : /\ moved[i].temp # k /\ moved[i].temp \in Names
                                    /\ Final(i) # k /\ Final(i) \in Names
  <2>1. \A i \in 1 .. Len(moved) : /\ moved[i].temp \in Temps /\ moved[i].temp \in Names
                                   /\ Final(i) \in Finals /\ Final(i) \in Names
    BY <1>0, Listings, TempsFacts, FinalsFacts DEF Move
  <2>2. \A i \in 1 .. Len(pairs) : pairs[i].name \in Names
    BY <1>0, Listings DEF Listing
  <2> QED
    BY <2>1, <2>2, Uncut, TempsFacts, FinalsFacts
<1>5. step \in {"original", "sidecars"} => Temp(at) # k /\ Temp(at) \in Names
  <2>1. step \in {"original", "sidecars"} => at <= Len(pairs)
    BY <1>0 DEF Shape
  <2> QED
    BY <1>0, <2>1, Here, TempsFacts
<1>6. MarksSettled'
  <2> SUFFICES ASSUME ~ PassOne, ~ PassTwo, NEW n \in Names
               PROVE  Tells(media'[n], marks[n], wanted) /\ (marks[n] # None => media'[n] # None)
    BY <1>1 DEF MarksSettled, PassOne, PassTwo
  <2>1. Tells(media[n], marks[n], wanted) /\ (marks[n] # None => media[n] # None)
    BY DEF MarksState, MarksSettled
  <2> QED
    BY <1>1, <1>2, <1>3, <2>1
<1>7. MarksListed'
  <2> SUFFICES ASSUME PassOne
               PROVE  /\ \A j \in 1 .. Len(pairs) : j >= Todo =>
                           Tells(media'[pairs[j].name], marks[pairs[j].name], wanted)
                      /\ \A n \in Names : n \notin Temps =>
                           \/ media'[n] = None
                           \/ \E j \in 1 .. Len(pairs) : j >= Todo /\ pairs[j].name = n
                           \/ n \in UserNames /\ Tells(media'[n], None, wanted)
                      /\ \A i \in 1 .. Len(moved) :
                           Tells(media'[moved[i].temp], marks[moved[i].old], wanted)
                      /\ step \in {"original", "sidecars"}
                             => Tells(media'[Temp(at)], marks[Current.name], wanted)
    BY <1>1 DEF MarksListed, PassOne, Todo
  <2> QED
    BY <1>1, <1>3, <1>4, <1>5 DEF MarksState, MarksListed
<1>8. MarksMoved'
  BY <1>1, <1>3, <1>4 DEF MarksState, MarksMoved, PassTwo, Ahead, Names
<1>9. RowsState'
  <2>1. ASSUME pairs = <<>>, NEW n \in Names
        PROVE  Tells(media'[n], rows[n], wanted) /\ (rows[n] # None => media'[n] # None)
    <3>1. Tells(media[n], rows[n], wanted) /\ (rows[n] # None => media[n] # None)
      BY <2>1 DEF RowsState
    <3> QED
      BY <1>1, <1>2, <1>3, <3>1
  <2> QED
    BY <1>1, <2>1 DEF RowsState
<1> QED
  BY <1>6, <1>7, <1>8, <1>9 DEF MarksState

\* A user sets or deletes a mark only where there is one or a file.
LEMMA UserMarks ==
  ASSUME Base, Unique, MarksState, RowsState, NEW n \in Names, Toggle(n) \/ Delete(n)
  PROVE  MarksState' /\ RowsState'
<1>0. /\ TypeOK /\ step = "idle" /\ step' = "idle" /\ pairs = <<>> /\ pairs' = <<>>
  BY DEF Base, Shape, Toggle, Delete, Idle, task
<1>1. /\ rows = marks
      /\ \A m \in Names : Tells(media[m], marks[m], wanted)
             /\ (marks[m] # None => media[m] # None)
  BY <1>0 DEF MarksState, MarksSettled, RowsState, PassOne, PassTwo
<1>2. /\ rows' = marks'
      /\ \A m \in Names : Tells(media'[m], marks'[m], wanted')
             /\ (marks'[m] # None => media'[m] # None)
  <2>1. CASE Toggle(n)
    <3>1. PICK mark \in {"on", "off"} :
            /\ marks' = [marks EXCEPT ![n] = mark]
            /\ rows' = IF rows[n] = None THEN rows ELSE [rows EXCEPT ![n] = mark]
            /\ wanted' = IF media[n] = None THEN wanted ELSE [wanted EXCEPT ![media[n].of] = mark]
      BY <2>1 DEF Toggle
    <3>2. marks[n] # None /\ media[n] # None /\ media' = media /\ media[n].of \in Pictures
      BY <1>0, <1>1, <2>1, MediaType DEF Toggle, files
    <3>3. marks' = [marks EXCEPT ![n] = mark] /\ rows' = marks'
      BY <1>1, <3>1, <3>2
    <3>4. /\ marks'[n] = mark /\ \A m \in Names : m # n => marks'[m] = marks[m]
          /\ wanted'[media[n].of] = mark
          /\ \A q \in Pictures : q # media[n].of => wanted'[q] = wanted[q]
      BY <1>0, <3>1, <3>2, <3>3 DEF TypeOK
    <3>5. Tells(media'[n], marks'[n], wanted')
      BY <3>2, <3>4, NoneApart DEF Tells, Read
    <3>6. ASSUME NEW m \in Names, m # n, media[m] # None PROVE Tells(media[m], marks[m], wanted')
      <4>1. media[m].of # media[n].of /\ media[m].of \in Pictures
        BY <1>0, <3>2, <3>6, MediaType DEF Unique
      <4> QED
        BY <1>1, <3>4, <4>1 DEF Tells
    <3>7. ASSUME NEW m \in Names, m # n, media[m] = None PROVE Tells(media[m], marks[m], wanted')
      BY <3>7 DEF Tells
    <3> QED
      BY <1>1, <3>2, <3>3, <3>4, <3>5, <3>6, <3>7
  <2>2. CASE Delete(n)
    <3>1. /\ marks' = [marks EXCEPT ![n] = None] /\ rows' = [rows EXCEPT ![n] = None]
          /\ wanted' = wanted
          /\ media'[n] = None /\ \A m \in Names : m # n => media'[m] = media[m]
      BY <1>0, <2>2 DEF Delete, TypeOK
    <3>2. marks'[n] = None /\ \A m \in Names : m # n => marks'[m] = marks[m]
      BY <1>0, <3>1 DEF TypeOK
    <3>3. Tells(media'[n], marks'[n], wanted')
      BY <3>1 DEF Tells
    <3> QED
      BY <1>1, <3>1, <3>2, <3>3
  <2> QED
    BY <2>1, <2>2
<1> QED
  BY <1>0, <1>2 DEF MarksState, MarksSettled, MarksListed, MarksMoved, RowsState, PassOne, PassTwo

LEMMA NextMarksState ==
  /\ Base /\ FinalsAhead /\ TempsClean /\ NewUnseen /\ Unique /\ MarksState /\ RowsState
  /\ [Next]_vars /\ clean'
  => MarksState'
<1> SUFFICES ASSUME Base, FinalsAhead, TempsClean, NewUnseen, Unique, MarksState, RowsState,
                    [Next]_vars, clean'
             PROVE  MarksState'
  OBVIOUS
<1>0. /\ TypeOK /\ Shape /\ JpgOnly /\ Len(pairs) \in Nat /\ Len(moved) \in Nat /\ at \in Nat
      /\ Todo \in Nat
  BY Listings DEF Base, Todo
<1>n. \A mark, want : Tells(None, mark, want)
  BY DEF Tells
<1>1. CASE UNCHANGED <<step, pairs, at, moved, media, marks, wanted>>
  BY <1>1
     DEF MarksState, MarksSettled, MarksListed, MarksMoved, PassOne, PassTwo, Todo, Ahead, Current
<1>2. ASSUME ~ PassOne', ~ PassTwo',
             \A n \in Names : Tells(media'[n], marks'[n], wanted')
                 /\ (marks'[n] # None => media'[n] # None)
      PROVE  MarksState'
  BY <1>2 DEF MarksState, MarksSettled, MarksListed, MarksMoved
<1>3. ASSUME ~ PassOne, ~ PassTwo
      PROVE  \A n \in Names : Tells(media[n], marks[n], wanted)
                 /\ (marks[n] # None => media[n] # None)
  BY <1>3 DEF MarksState, MarksSettled
<1>4. ASSUME PassOne
      PROVE  /\ \A j \in 1 .. Len(pairs) : j >= Todo =>
                  Tells(media[pairs[j].name], marks[pairs[j].name], wanted)
             /\ \A n \in Names : n \notin Temps =>
                  \/ media[n] = None
                  \/ \E j \in 1 .. Len(pairs) : j >= Todo /\ pairs[j].name = n
                  \/ n \in UserNames /\ Tells(media[n], None, wanted)
             /\ \A i \in 1 .. Len(moved) :
                  Tells(media[moved[i].temp], marks[moved[i].old], wanted)
             /\ step \in {"original", "sidecars"}
                    => Tells(media[Temp(at)], marks[Current.name], wanted)
  BY <1>4 DEF MarksState, MarksListed
<1>5. CASE Begin
  <2>1. /\ step = "idle" /\ step' = "toTemp" /\ moved' = <<>> /\ at' = 1 /\ Idle
        /\ UNCHANGED <<media, marks, wanted>>
    BY <1>5 DEF Begin, Idle, files, user
  <2>2. PICK names \in Listed : pairs' = [i \in DOMAIN names |-> Pair(names[i])]
    BY <1>5 DEF Begin
  <2>3. /\ Len(pairs') = Cardinality(Visual) /\ Cardinality(Visual) \in Nat
        /\ \A i \in 1 .. Cardinality(Visual) : pairs'[i] = Pair(names[i]) /\ names[i] \in Visual
        /\ \A n \in Visual : \E i \in 1 .. Cardinality(Visual) : names[i] = n
    BY <2>1, <2>2, BeginLists
  <2>4. \A i \in 1 .. Len(pairs') : pairs'[i].name = names[i]
    BY <2>3 DEF Pair
  <2>5. \A n \in Names : Tells(media[n], marks[n], wanted)
    BY <1>3, <2>1 DEF PassOne, PassTwo
  <2>6. Visual \subseteq Names
    BY DEF Visual
  <2>7. \A j \in 1 .. Len(pairs') : Tells(media[pairs'[j].name], marks[pairs'[j].name], wanted)
    BY <2>3, <2>4, <2>5, <2>6
  <2>8. ASSUME NEW n \in Names, media[n] # None, n \notin Visual
        PROVE  n \in UserNames /\ Tells(media[n], None, wanted)
    BY <1>0, <2>8 DEF Visual, JpgOnly, Tells
  <2>9. Todo' = 1
    BY <2>1 DEF Todo
  <2>10. \A n \in Names : \/ media[n] = None
                          \/ \E j \in 1 .. Len(pairs') : j >= Todo' /\ pairs'[j].name = n
                          \/ n \in UserNames /\ Tells(media[n], None, wanted)
    BY <2>3, <2>4, <2>8, <2>9
  <2> QED
    BY <2>1, <2>7, <2>10 DEF MarksState, MarksSettled, MarksListed, MarksMoved, PassOne, PassTwo
<1>6. CASE ToTemp
  <2>1. /\ PassOne /\ Todo = at /\ Todo' = at + 1 /\ step' = "sidecars"
        /\ at \in 1 .. Len(pairs) /\ Current' = Current
        /\ UNCHANGED <<marks, pairs, at, moved>>
        /\ Temp(at) \in Temps /\ Temp(at) \in Names
        /\ Current.name \in Names /\ Current.name \notin Temps /\ Current.name # Temp(at)
        /\ media'[Temp(at)] = media[Current.name] /\ media'[Current.name] = None
        /\ \A n \in Names : n # Temp(at) /\ n # Current.name => media'[n] = media[n]
    BY <1>6, DoesToTemp
  <2>2. wanted' = wanted
    BY <1>6 DEF ToTemp, user
  <2>3. \A i \in 1 .. Len(moved) : media'[moved[i].temp] = media[moved[i].temp]
    BY <2>1, InPassOne, TempsFacts
  <2>4. \A j \in 1 .. Len(pairs) : j >= at + 1 =>
          pairs[j].name # Current.name /\ media'[pairs[j].name] = media[pairs[j].name]
    BY <1>0, <2>1, InPassOne DEF Shape, Current
  <2>5. Tells(media'[Temp(at)], marks[Current.name], wanted)
    BY <1>0, <1>4, <2>1 DEF Current
  <2>6. ASSUME NEW n \in Names, n \notin Temps, media'[n] # None
        PROVE  \/ \E j \in 1 .. Len(pairs) : j >= at + 1 /\ pairs[j].name = n
               \/ n \in UserNames /\ Tells(media'[n], None, wanted)
    <3>1. n # Current.name /\ media'[n] = media[n]
      BY <2>1, <2>6
    <3>2. \/ \E j \in 1 .. Len(pairs) : j >= at /\ pairs[j].name = n
          \/ n \in UserNames /\ Tells(media[n], None, wanted)
      BY <1>4, <2>1, <2>6, <3>1
    <3>3. \A j \in 1 .. Len(pairs) : j >= at /\ pairs[j].name = n => j >= at + 1
      BY <1>0, <3>1 DEF Current
    <3> QED
      BY <3>1, <3>2, <3>3
  <2>7. \A j \in 1 .. Len(pairs) : j >= at + 1
            => Tells(media'[pairs[j].name], marks[pairs[j].name], wanted)
    BY <1>0, <1>4, <2>1, <2>4
  <2> QED
    BY <1>4, <2>1, <2>2, <2>3, <2>5, <2>6, <2>7
    DEF MarksState, MarksSettled, MarksListed, MarksMoved, PassOne, PassTwo
<1>7. CASE Convert
  <2>1. /\ PassOne /\ Todo = at /\ Todo' = at /\ step' = "original"
        /\ at \in 1 .. Len(pairs) /\ Current' = Current
        /\ UNCHANGED <<marks, pairs, at, moved>>
        /\ Temp(at) \in Temps /\ Current.name # Temp(at)
        /\ media[Current.name] # None /\ media[Current.name].kind = "png"
        /\ media'[Temp(at)].of = media[Current.name].of
        /\ \A n \in Names : n # Temp(at) => media'[n] = media[n]
    BY <1>7, DoesConvert
  <2>2. wanted' = wanted
    BY <1>7 DEF Convert, user
  <2>3. \A i \in 1 .. Len(moved) : media'[moved[i].temp] = media[moved[i].temp]
    BY <2>1, InPassOne, TempsFacts
  <2>4. \A j \in 1 .. Len(pairs) : media'[pairs[j].name] = media[pairs[j].name]
    BY <2>1, InPassOne
  <2>5. Tells(media'[Temp(at)], marks[Current.name], wanted)
    <3>1. Tells(media[Current.name], marks[Current.name], wanted)
      BY <1>0, <1>4, <2>1 DEF Current
    <3> QED
      BY <2>1, <3>1 DEF Tells
  <2>6. \A n \in Names : n \notin Temps => media'[n] = media[n]
    BY <2>1
  <2> QED
    BY <1>4, <2>1, <2>2, <2>3, <2>4, <2>5, <2>6
    DEF MarksState, MarksSettled, MarksListed, MarksMoved, PassOne, PassTwo
<1>8. CASE RemoveOriginal
  <2>1. /\ PassOne /\ Todo = at /\ Todo' = at + 1 /\ step = "original" /\ step' = "sidecars"
        /\ at \in 1 .. Len(pairs) /\ Current' = Current
        /\ UNCHANGED <<marks, pairs, at, moved>>
        /\ Temp(at) \in Temps /\ Temp(at) \in Names
        /\ Current.name \in Names /\ Current.name \notin Temps /\ Current.name # Temp(at)
        /\ media'[Current.name] = None
        /\ \A n \in Names : n # Current.name => media'[n] = media[n]
    BY <1>8, DoesRemove
  <2>2. wanted' = wanted
    BY <1>8 DEF RemoveOriginal, user
  <2>3. \A i \in 1 .. Len(moved) : media'[moved[i].temp] = media[moved[i].temp]
    BY <2>1, InPassOne, TempsFacts
  <2>4. \A j \in 1 .. Len(pairs) : j >= at + 1 =>
          pairs[j].name # Current.name /\ media'[pairs[j].name] = media[pairs[j].name]
    BY <1>0, <2>1, InPassOne DEF Shape, Current
  <2>5. Tells(media'[Temp(at)], marks[Current.name], wanted)
    BY <1>4, <2>1
  <2>6. ASSUME NEW n \in Names, n \notin Temps, media'[n] # None
        PROVE  \/ \E j \in 1 .. Len(pairs) : j >= at + 1 /\ pairs[j].name = n
               \/ n \in UserNames /\ Tells(media'[n], None, wanted)
    <3>1. n # Current.name /\ media'[n] = media[n]
      BY <2>1, <2>6
    <3>2. \/ \E j \in 1 .. Len(pairs) : j >= at /\ pairs[j].name = n
          \/ n \in UserNames /\ Tells(media[n], None, wanted)
      BY <1>4, <2>1, <2>6, <3>1
    <3>3. \A j \in 1 .. Len(pairs) : j >= at /\ pairs[j].name = n => j >= at + 1
      BY <1>0, <3>1 DEF Current
    <3> QED
      BY <3>1, <3>2, <3>3
  <2>7. \A j \in 1 .. Len(pairs) : j >= at + 1
            => Tells(media'[pairs[j].name], marks[pairs[j].name], wanted)
    BY <1>0, <1>4, <2>1, <2>4
  <2> QED
    BY <1>4, <2>1, <2>2, <2>3, <2>5, <2>6, <2>7
    DEF MarksState, MarksSettled, MarksListed, MarksMoved, PassOne, PassTwo
<1>9. CASE Skip
  <2>1. /\ at \in 1 .. Len(pairs) /\ Todo = at /\ PassOne /\ Current.name \in UserNames
    BY <1>9, LeftByUser
  <2>2. /\ step = "toTemp" /\ step' = "toTemp" /\ Todo' = at + 1 /\ Current.kind = "clip"
        /\ UNCHANGED <<media, marks, pairs, moved, wanted>>
    BY <1>9 DEF Skip, Todo, files, user
  <2>3. media[Current.name].kind = "clip"
    BY <1>0, <2>1, <2>2 DEF Base, Pending, Current
  <2>4. Tells(media[Current.name], None, wanted)
    BY <2>3 DEF Tells
  <2>5. ASSUME NEW n \in Names, n \notin Temps, media[n] # None
        PROVE  \/ \E j \in 1 .. Len(pairs) : j >= at + 1 /\ pairs[j].name = n
               \/ n \in UserNames /\ Tells(media[n], None, wanted)
    <3>1. \/ \E j \in 1 .. Len(pairs) : j >= at /\ pairs[j].name = n
          \/ n \in UserNames /\ Tells(media[n], None, wanted)
      BY <1>4, <2>1, <2>5
    <3>2. ASSUME NEW j \in 1 .. Len(pairs), j >= at, pairs[j].name = n
          PROVE  j >= at + 1 \/ n = Current.name
      BY <1>0, <3>2 DEF Current
    <3> QED
      BY <2>1, <2>4, <3>1, <3>2
  <2>6. \A j \in 1 .. Len(pairs) : j >= at + 1
            => Tells(media[pairs[j].name], marks[pairs[j].name], wanted)
    BY <1>0, <1>4, <2>1
  <2> QED
    BY <1>4, <2>1, <2>2, <2>5, <2>6
    DEF MarksState, MarksSettled, MarksListed, MarksMoved, PassOne, PassTwo
<1>10. CASE SidecarsToTemp
  <2>1. /\ step = "sidecars" /\ PassOne /\ step' = "toTemp" /\ Todo' = Todo
        /\ UNCHANGED <<media, marks, pairs, wanted>> /\ at <= Len(pairs)
    BY <1>0, <1>10 DEF SidecarsToTemp, PassOne, Todo, Shape, user
  <2>2. PICK c \in BOOLEAN :
               moved' = Append(moved, [old |-> Current.name, temp |-> Temp(at), captioned |-> c])
    BY <1>10 DEF SidecarsToTemp
  <2>3. /\ Len(moved') = Len(moved) + 1
        /\ moved'[Len(moved) + 1].temp = Temp(at) /\ moved'[Len(moved) + 1].old = Current.name
        /\ \A i \in 1 .. Len(moved) : moved'[i] = moved[i]
    BY <1>0, <2>1, <2>2, Here DEF TypeOK, Move
  <2>4. \A i \in 1 .. Len(moved') : Tells(media[moved'[i].temp], marks[moved'[i].old], wanted)
    <3> SUFFICES ASSUME NEW i \in 1 .. Len(moved')
                 PROVE  Tells(media[moved'[i].temp], marks[moved'[i].old], wanted)
      OBVIOUS
    <3>1. i = Len(moved) + 1 \/ i \in 1 .. Len(moved)
      BY <1>0, <2>3
    <3> QED
      BY <1>4, <2>1, <2>3, <3>1
  <2> QED
    BY <1>4, <2>1, <2>4 DEF MarksState, MarksSettled, MarksListed, MarksMoved, PassOne, PassTwo
<1>11. CASE SecondPass
  <2>1. /\ PassOne /\ Todo > Len(pairs) /\ step' = "toFinal" /\ Ahead' = 1
        /\ UNCHANGED <<media, marks, moved, wanted>>
    BY <1>11 DEF SecondPass, PassOne, Todo, Ahead, files, user
  <2>2. ASSUME NEW n \in UserNames PROVE Tells(media[n], None, wanted)
    <3>1. n \in Names /\ n \notin Temps
      BY TempsFacts DEF Names
    <3>2. ~ \E j \in 1 .. Len(pairs) : j >= Todo
      BY <1>0, <2>1
    <3> QED
      BY <1>4, <1>n, <2>1, <3>1, <3>2
  <2>3. \A i \in 1 .. Len(moved) : i >= 1
    OBVIOUS
  <2> QED
    BY <1>4, <2>1, <2>2, <2>3
       DEF MarksState, MarksSettled, MarksListed, MarksMoved, PassOne, PassTwo
<1>12. CASE ToFinal
  <2>1. /\ PassTwo /\ Ahead = at /\ Ahead' = at + 1 /\ step' = "finalSidecars"
        /\ at \in 1 .. Len(moved) /\ UNCHANGED <<marks, moved>>
        /\ moved[at].temp \in Temps /\ Final(at) \notin Temps /\ Final(at) \notin UserNames
        /\ media'[Final(at)] = media[moved[at].temp]
        /\ \A n \in Names : n # Final(at) /\ n # moved[at].temp => media'[n] = media[n]
    BY <1>12, DoesToFinal
  <2>2. wanted' = wanted
    BY <1>12 DEF ToFinal, user
  <2>3. \A n \in UserNames : media'[n] = media[n]
    BY <2>1, TempsFacts DEF Names
  <2>4. ASSUME NEW i \in 1 .. Len(moved)
        PROVE  IF i >= at + 1 THEN Tells(media'[moved[i].temp], marks[moved[i].old], wanted)
                              ELSE Tells(media'[Final(i)], marks[moved[i].old], wanted)
    <3>1. IF i >= at THEN Tells(media[moved[i].temp], marks[moved[i].old], wanted)
                     ELSE Tells(media[Final(i)], marks[moved[i].old], wanted)
      BY <2>1 DEF MarksState, MarksMoved
    <3>2. CASE i > at
      <4>1. media'[moved[i].temp] = media[moved[i].temp]
        BY <1>0, <2>1, <3>2, InPassTwo
      <4> QED
        BY <1>0, <3>1, <3>2, <4>1
    <3>3. CASE i = at
      BY <1>0, <2>1, <3>1, <3>3
    <3>4. CASE i < at
      <4>1. media'[Final(i)] = media[Final(i)]
        BY <1>0, <2>1, <3>4, InPassTwo
      <4> QED
        BY <1>0, <3>1, <3>4, <4>1
    <3> QED
      BY <1>0, <3>2, <3>3, <3>4
  <2>5. \A n \in UserNames : Tells(media'[n], None, wanted)
    BY <2>1, <2>3 DEF MarksState, MarksMoved
  <2> QED
    BY <2>1, <2>2, <2>4, <2>5
       DEF MarksState, MarksSettled, MarksListed, MarksMoved, PassOne, PassTwo
<1>13. CASE SidecarsToFinal
  <2>1. /\ PassTwo /\ step' = "toFinal" /\ Ahead' = Ahead
        /\ UNCHANGED <<media, marks, moved, wanted>>
    BY <1>13 DEF SidecarsToFinal, PassTwo, Ahead, user
  <2> QED
    BY <2>1 DEF MarksState, MarksSettled, MarksListed, MarksMoved, PassOne, PassTwo
<1>14. CASE Remap
  <2>1. /\ PassTwo /\ at > Len(moved) /\ step' = "scan" /\ Ahead = at /\ marks' = Remapped
        /\ UNCHANGED <<media, wanted>>
    BY <1>14 DEF Remap, PassTwo, Ahead, files, user
  <2>2. \A i \in 1 .. Len(moved) : Tells(media[Final(i)], marks[moved[i].old], wanted)
    BY <1>0, <2>1 DEF MarksState, MarksMoved
  <2>3. \A i \in 1 .. Len(moved) : media[Final(i)] # None /\ Final(i) - FirstFinal = i
    BY <1>0, <2>1, InPassTwo, NamesFacts DEF Final
  <2>4. ASSUME NEW n \in Names
        PROVE  Tells(media[n], Remapped[n], wanted) /\ (Remapped[n] # None => media[n] # None)
    <3>0. DOMAIN moved = 1 .. Len(moved)
      BY <1>0, Listings
    <3>1. CASE \E i \in 1 .. Len(moved) : n = Final(i)
      <4>1. PICK i \in 1 .. Len(moved) : n = Final(i)
        BY <3>1
      <4>2. Remapped[n] = marks[moved[i].old]
        BY <2>3, <3>0, <4>1 DEF Remapped
      <4> QED
        BY <2>2, <2>3, <4>1, <4>2
    <3>2. CASE ~ \E i \in 1 .. Len(moved) : n = Final(i)
      <4>1. Remapped[n] = None
        BY <3>0, <3>2 DEF Remapped
      <4>2. CASE n \in UserNames
        BY <2>1, <4>1, <4>2 DEF MarksState, MarksMoved
      <4>3. CASE n \in Temps
        <5>1. media[n] = None
          BY <1>0, <2>1, <4>3, InPassTwo
        <5> QED
          BY <1>n, <4>1, <5>1
      <4>4. CASE n \in Finals
        <5>1. PICK k \in 1 .. Slots : n = Final(k)
          BY <4>4, FinalsFacts
        <5>2. k > Len(moved)
          BY <1>0, <3>2, <5>1, NamesFacts
        <5>3. k >= Ahead
          BY <1>0, <2>1, <5>2, NamesFacts DEF Shape
        <5>4. media[n] = None
          BY <2>1, <5>1, <5>3 DEF FinalsAhead
        <5> QED
          BY <1>n, <4>1, <5>4
      <4> QED
        BY <4>2, <4>3, <4>4, NamesSplit
    <3> QED
      BY <3>1, <3>2
  <2> QED
    BY <1>2, <2>1, <2>4 DEF PassOne, PassTwo
<1>15. CASE Rescan \/ Persist
  <2>1. ~ PassOne /\ ~ PassTwo /\ ~ PassOne' /\ ~ PassTwo' /\ UNCHANGED <<media, marks, wanted>>
    BY <1>15 DEF Rescan, Persist, Idle, PassOne, PassTwo, files, user
  <2> QED
    BY <1>2, <1>3, <2>1
<1>16. CASE Scan
  <2>1. /\ ~ PassOne /\ ~ PassTwo /\ ~ PassOne' /\ ~ PassTwo' /\ UNCHANGED <<media, wanted>>
        /\ marks' = Scanned
    BY <1>16 DEF Scan, PassOne, PassTwo, files, user
  <2>2. ASSUME NEW n \in Names
        PROVE  Tells(media[n], Scanned[n], wanted) /\ (Scanned[n] # None => media[n] # None)
    <3>1. Tells(media[n], marks[n], wanted)
      BY <1>3, <2>1
    <3>2. Scanned[n] = IF media[n] = None THEN None ELSE IF marks[n] = None THEN "on" ELSE marks[n]
      BY DEF Scanned
    <3>3. "on" # None
      BY NoneApart
    <3> QED
      BY <3>1, <3>2, <3>3 DEF Tells, Read
  <2> QED
    BY <1>2, <2>1, <2>2
<1>17. CASE Restart
  <2>1. /\ pairs = <<>> /\ ~ PassOne' /\ ~ PassTwo' /\ UNCHANGED <<media, wanted>>
        /\ marks' = rows
    BY <1>17, Uncut DEF Restart, PassOne, PassTwo, files, user
  <2> QED
    BY <1>2, <2>1 DEF RowsState
<1> QED
  <2>1. CASE UNCHANGED vars
    BY <1>1, <2>1 DEF vars, files, task, user
  <2> QED
    BY <1>5, <1>6, <1>7, <1>8, <1>9, <1>10, <1>11, <1>12, <1>13, <1>14, <1>15, <1>16, <1>17, <2>1,
       Uncut, UploadMarks, UserMarks
    DEF Next, Users, Uploads, Passes

LEMMA NextRowsState ==
  /\ Base /\ FinalsAhead /\ TempsClean /\ NewUnseen /\ Unique /\ MarksState /\ RowsState
  /\ SomeFile
  /\ [Next]_vars /\ clean'
  => RowsState'
<1> SUFFICES ASSUME Base, FinalsAhead, TempsClean, NewUnseen, Unique, MarksState, RowsState,
                    SomeFile, [Next]_vars, clean'
             PROVE  RowsState'
  OBVIOUS
<1>0. TypeOK /\ Shape
  BY DEF Base
<1>1. CASE UNCHANGED <<step, pairs, media, marks, rows, wanted>>
  BY <1>1 DEF RowsState
<1>2. ASSUME pairs' # <<>>, step' \notin {"idle", "persist"} PROVE RowsState'
  BY <1>2 DEF RowsState
<1>3. CASE Begin
  <2>1. step' = "toTemp" /\ Idle /\ Visual # {}
    BY <1>3 DEF Begin
  <2>2. PICK names \in Listed : pairs' = [i \in DOMAIN names |-> Pair(names[i])]
    BY <1>3 DEF Begin
  <2>3. /\ Len(pairs') = Cardinality(Visual) /\ Cardinality(Visual) \in Nat
        /\ \A n \in Visual : \E i \in 1 .. Cardinality(Visual) : names[i] = n
    BY <2>1, <2>2, BeginLists
  <2>4. pairs' # <<>>
    <3>1. PICK n \in Visual : TRUE
      BY <2>1
    <3>2. PICK i \in 1 .. Cardinality(Visual) : names[i] = n
      BY <2>3
    <3>3. Len(pairs') # 0
      BY <2>3, <3>2
    <3> QED
      BY <3>3
  <2> QED
    BY <1>2, <2>1, <2>4
<1>4. CASE ToTemp \/ Convert \/ RemoveOriginal \/ Skip \/ SidecarsToTemp \/ SecondPass \/ ToFinal
           \/ SidecarsToFinal \/ Remap
  <2>1. PassOne \/ PassTwo
    BY <1>4 DEF ToTemp, Convert, RemoveOriginal, Skip, SidecarsToTemp, SecondPass, ToFinal,
                SidecarsToFinal, Remap, PassOne, PassTwo
  <2>2. pairs' = pairs /\ step' \notin {"idle", "persist"}
    BY <1>4 DEF ToTemp, Convert, RemoveOriginal, Skip, SidecarsToTemp, SecondPass, ToFinal,
                SidecarsToFinal, Remap
  <2> QED
    BY <1>0, <1>2, <2>1, <2>2 DEF Shape
<1>5. CASE Rescan
  BY <1>5 DEF Rescan, RowsState, files, user
<1>6. CASE Scan
  <2>1. /\ step' = "persist" /\ UNCHANGED <<media, rows, pairs, wanted>> /\ marks' = Scanned
    BY <1>6 DEF Scan, files, user
  <2>2. ASSUME NEW n \in Names, media[n] # None PROVE Scanned[n] # None
    BY <2>2, NoneApart DEF Scanned
  <2>3. pairs # <<>> => \E n \in Names : Scanned[n] # None
    BY <2>2 DEF SomeFile
  <2>4. pairs = <<>> => \A n \in Names : rows[n] # None => Scanned[n] # None
    BY <2>2 DEF RowsState
  <2> QED
    BY <2>1, <2>3, <2>4 DEF RowsState
<1>7. CASE Persist
  <2>1. /\ step = "persist" /\ step' = "idle" /\ pairs' = <<>>
        /\ UNCHANGED <<media, marks, wanted>>
        /\ rows' = IF \A n \in Names : marks[n] = None THEN rows ELSE marks
    BY <1>7 DEF Persist, files, user
  <2>2. rows' = marks
    <3>1. CASE \A n \in Names : marks[n] = None
      <4>1. \A n \in Names : rows[n] = None
        BY <2>1, <3>1 DEF RowsState
      <4>2. rows \in [Names -> Marks] /\ marks \in [Names -> Marks]
        BY <1>0 DEF TypeOK
      <4> QED
        BY <2>1, <3>1, <4>1, <4>2
    <3>2. CASE ~ \A n \in Names : marks[n] = None
      BY <2>1, <3>2
    <3> QED
      BY <3>1, <3>2
  <2>3. \A n \in Names : Tells(media[n], marks[n], wanted) /\ (marks[n] # None => media[n] # None)
    BY <2>1 DEF MarksState, MarksSettled, PassOne, PassTwo
  <2> QED
    BY <2>1, <2>2, <2>3 DEF RowsState
<1>8. CASE Restart
  <2>1. pairs = <<>> /\ pairs' = <<>> /\ step' = "idle" /\ marks' = rows
            /\ UNCHANGED <<media, rows, wanted>>
    BY <1>8, Uncut DEF Restart, files, user
  <2> QED
    BY <2>1 DEF RowsState
<1> QED
  <2>1. CASE UNCHANGED vars
    BY <1>1, <2>1 DEF vars, files, task, user
  <2> QED
    BY <1>3, <1>4, <1>5, <1>6, <1>7, <1>8, <2>1, Uncut, UploadMarks, UserMarks
    DEF Next, Users, Uploads, Passes

-----------------------------------------------------------------------------
(* Captions and marks stay with their pictures.                            *)

CleanInv ==
  /\ Base /\ FinalsAhead /\ NewUnseen /\ SomeFile
  /\ clean => TempsClean /\ Unique /\ Captions /\ MarksState /\ RowsState

LEMMA InitCleanInv == Init => CleanInv
<1> SUFFICES ASSUME Init PROVE CleanInv
  OBVIOUS
<1>1. /\ step = "idle" /\ pairs = <<>> /\ moved = <<>> /\ captioned = {} /\ rows = marks
      /\ \A n \in Names : media[n] = None /\ caption[n] = None /\ marks[n] = None
      /\ \A p \in Pictures : wanted[p] = "on"
  BY DEF Init
<1>2. NewUnseen /\ SomeFile /\ Unique
  BY <1>1 DEF NewUnseen, SomeFile, Unique
<1>3. Captions
  BY <1>1 DEF Captions, CaptionsPlaced, CaptionsBehind, FlagsTell, PassOne, PassTwo, Own
<1>4. MarksState /\ RowsState
  BY <1>1
     DEF MarksState, MarksSettled, MarksListed, MarksMoved, RowsState, PassOne, PassTwo, Tells
<1> QED
  BY <1>2, <1>3, <1>4, InitBase, InitNothingLost, InitTempsClean DEF CleanInv

LEMMA NextCleanInv == CleanInv /\ [Next]_vars => CleanInv'
<1> SUFFICES ASSUME CleanInv, [Next]_vars PROVE CleanInv'
  OBVIOUS
<1>1. Base' /\ FinalsAhead' /\ NewUnseen' /\ SomeFile'
  BY NextBase, NextFinalsAhead, NextNewUnseen, NextSomeFile DEF CleanInv
<1>2. ASSUME clean' PROVE TempsClean' /\ Unique' /\ Captions' /\ MarksState' /\ RowsState'
  <2>1. clean
    BY <1>2, Uncut DEF CleanInv
  <2> QED
    BY <1>2, <2>1, NextTempsClean, NextUnique, NextCaptions, NextMarksState, NextRowsState
       DEF CleanInv
<1> QED
  BY <1>1, <1>2 DEF CleanInv

LEMMA SpecCleanInv == Spec => []CleanInv
BY InitCleanInv, NextCleanInv, PTL DEF Spec

\* Whatever is uploaded, renamed, converted and scanned, and wherever the
\* backend restarts, each picture keeps its own caption.
THEOREM CaptionsOwn == Spec => []OwnCaption
<1>1. CleanInv => OwnCaption
  BY DEF CleanInv, OwnCaption, Idle, Captions, CaptionsPlaced, Lags, Own
<1> QED
  BY <1>1, SpecCleanInv, PTL

\* And the mark that the user set last, in memory, in the rows and back.
THEOREM MarksFollowed == Spec => []MarksFollow
<1>1. CleanInv => MarksFollow
  BY DEF CleanInv, MarksFollow, Idle, MarksState, MarksSettled, PassOne, PassTwo, Tells, Read
<1> QED
  BY <1>1, SpecCleanInv, PTL
=============================================================================

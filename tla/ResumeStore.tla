---------------------------- MODULE ResumeStore ----------------------------
(***************************************************************************)
(* What the checkpoint code promises a user: a set of steps from which the *)
(* run can be resumed, in which no step is ever lost unless a later one is *)
(* there, whatever is killed, locked or refused on the way, and a save     *)
(* that reported success has left itself or something later to resume     *)
(* from.  Only "Restart fresh" throws the steps away.                      *)
(***************************************************************************)
EXTENDS Integers

CONSTANT Marks   \* ranks of checkpoints

VARIABLES
  points,    \* the marks a resume can start from
  reported   \* the mark of the last save that reported success, -1: none

vars == <<points, reported>>

Init == points = {} /\ reported = -1

\* Saves move folders into place, retention and clean-up take some away.
Move ==
  /\ points' \in SUBSET Marks
  /\ \A m \in points \ points' : \E later \in points' : later > m
  /\ UNCHANGED reported

Report(m) ==
  /\ \E k \in points : k >= m
  /\ reported' = m /\ UNCHANGED points

Wipe == points' = {} /\ reported' = -1

Next == Move \/ (\E m \in Marks : Report(m)) \/ Wipe

Spec == Init /\ [][Next]_vars
=============================================================================

---------------------------- MODULE MCSelfUpdate ----------------------------
(* Values of the constants of SelfUpdate for TLC.                          *)
EXTENDS SelfUpdate

\* The gpu lane and the maintenance sibling of the background lane.
McLanes == {"gpu", "background"}
McKinds == {<<"gpu", TRUE>>, <<"background", FALSE>>}
=============================================================================

--------------------------- MODULE MCLiveSettings ---------------------------
(***************************************************************************)
(* LiveSettings for TLC: the modules of settings.json are interchangeable. *)
(***************************************************************************)
EXTENDS LiveSettings, TLC

ModuleSymmetry == Permutations(Modules)
=============================================================================

---------------------------- MODULE MCHarmonize ----------------------------
(* Harmonize for TLC: pictures are interchangeable.                        *)
EXTENDS Harmonize, TLC

PictureSymmetry == Permutations(Pictures)
=============================================================================

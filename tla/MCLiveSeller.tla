---------------------------- MODULE MCLiveSeller ----------------------------
(***************************************************************************)
(* LiveSeller for TLC.  Tasks of one kind are interchangeable; the runs    *)
(* that check liveness do not use the symmetry.                            *)
(***************************************************************************)
EXTENDS LiveSeller, TLC

Symmetry ==
    Permutations(Countersigns) \cup Permutations(Notices) \cup Permutations(Loops)
=============================================================================

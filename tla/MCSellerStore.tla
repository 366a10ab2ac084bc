---------------------------- MODULE MCSellerStore ----------------------------
(***************************************************************************)
(* SellerStore for TLC.  The terms documents are interchangeable.          *)
(***************************************************************************)
EXTENDS SellerStore, TLC

Symmetry == Permutations(Documents)
=============================================================================

------------------------- MODULE MCReverseReconcile -------------------------
(***************************************************************************)
(* Instances of ReverseReconcile for TLC.                                  *)
(***************************************************************************)
EXTENDS MCReconciler, ReverseReconcile
=============================================================================

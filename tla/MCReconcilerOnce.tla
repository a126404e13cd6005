-------------------------- MODULE MCReconcilerOnce --------------------------
(***************************************************************************)
(* Instances of Reconciler on which TLC also checks the invariants of the  *)
(* proofs about names registered once.                                     *)
(***************************************************************************)
EXTENDS MCReconciler, Reconciler_once_proof
=============================================================================

-------------------------- MODULE MCAddressLedger --------------------------
(***************************************************************************)
(* Instances of AddressLedger for TLC, which also checks the invariants of *)
(* the proof on them.                                                      *)
(***************************************************************************)
EXTENDS MCReconciler, AddressLedger_proof
=============================================================================

---------------------------- MODULE MCTagPaging ----------------------------
(***************************************************************************)
(* Instances of TagPaging for TLC, which also checks the invariant of the  *)
(* proofs on them.                                                         *)
(***************************************************************************)
EXTENDS TagPaging_proof

CONSTANTS r1, r2, r3, r4, r5

FiveRows == <<r1, r2, r3, r4, r5>>

\* The first rows, in the service's order; the rest may be added later.
FirstRows == Prefixes(FiveRows)
=============================================================================

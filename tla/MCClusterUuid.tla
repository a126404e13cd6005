---------------------------- MODULE MCClusterUuid ----------------------------
(***************************************************************************)
(* Instances of ClusterUuid for TLC.                                       *)
(***************************************************************************)
EXTENDS ClusterUuid

CONSTANTS r1, r2, r3, u1, u2

\* A first installation, an earlier one, or a config map without data.
AnyMap == {Absent, Empty, u1}
==============================================================================

---------------------------- MODULE UuidRegister ----------------------------
(***************************************************************************)
(* What GetOrCreateClusterUuidInCm promises to the replicas of the         *)
(* controller: the cluster has one uuid, chosen once and for ever, and     *)
(* whoever learns the uuid learns that one.                                *)
(***************************************************************************)
CONSTANTS
    Replicas,   \* pods of the deployment
    Uuids,      \* what uuid.NewUUID may return
    None        \* no uuid

VARIABLES
    chosen,     \* the uuid of the cluster, or None
    learned     \* learned[r]: the uuid replica r works with, or None

Init ==
    /\ chosen \in Uuids \cup {None}
    /\ learned = [r \in Replicas |-> None]

Choose(r, u) ==
    /\ chosen = None
    /\ chosen' = u
    /\ learned' \in {learned, [learned EXCEPT ![r] = u]}

Learn(r) ==
    /\ chosen # None
    /\ learned' = [learned EXCEPT ![r] = chosen]
    /\ UNCHANGED chosen

Forget(r) ==
    /\ learned' = [learned EXCEPT ![r] = None]
    /\ UNCHANGED chosen

Next == \E r \in Replicas : (\E u \in Uuids : Choose(r, u)) \/ Learn(r) \/ Forget(r)

Spec == Init /\ [][Next]_<<chosen, learned>>
=============================================================================

----------------------------- MODULE ClusterUuid -----------------------------
(***************************************************************************)
(* GetOrCreateClusterUuidInCm, run by every replica while it sets up its   *)
(* controller, before leader election: the replicas race for one config    *)
(* map in kube-system.  The uuid it holds is the tag by which all replicas *)
(* find the addresses of the cluster again.                                *)
(*                                                                         *)
(* RetryOnConflict retries on Conflict only, which neither Get nor Create  *)
(* returns; so any error, AlreadyExists included, ends the process, and    *)
(* the kubelet starts it again.  A Create may take effect although its     *)
(* reply is lost.  Nobody else writes the config map while replicas run,   *)
(* but it may be there before (an earlier installation, or a user).        *)
(***************************************************************************)
CONSTANTS
    Replicas,       \* pods of the deployment
    Uuids,          \* what uuid.NewUUID may return
    None,           \* no uuid
    Absent,         \* there is no config map
    Empty,          \* a config map without a uuid
    InitialMaps     \* what the first replica may find

ASSUME UuidAssumption ==
    /\ None \notin Uuids /\ Absent \notin Uuids /\ Empty \notin Uuids
    /\ Absent # Empty
    /\ InitialMaps \subseteq Uuids \cup {Absent, Empty}

VARIABLES
    uuidCm,         \* the config map
    pc,             \* pc[r]: where replica r is
    clusterUuid     \* clusterUuid[r]: MangerImp.clusterUuid of a running replica

vars == <<uuidCm, pc, clusterUuid>>

TypeOK ==
    /\ uuidCm \in Uuids \cup {Absent, Empty}
    /\ pc \in [Replicas -> {"get", "create", "running", "exited"}]
    /\ clusterUuid \in [Replicas -> Uuids \cup {None}]

Init ==
    /\ uuidCm \in InitialMaps
    /\ pc = [r \in Replicas |-> "get"]
    /\ clusterUuid = [r \in Replicas |-> None]

Run(r, u) ==
    /\ pc' = [pc EXCEPT ![r] = "running"]
    /\ clusterUuid' = [clusterUuid EXCEPT ![r] = u]

\* NewReconcile returns an error, Run returns it, the command exits.
Exit(r) ==
    /\ pc' = [pc EXCEPT ![r] = "exited"]
    /\ clusterUuid' = [clusterUuid EXCEPT ![r] = None]

\* Mutant: a config map that is not there is an error like any other.
GetCmOnly(r) ==
    /\ pc[r] = "get"
    /\ \/ uuidCm \in {Absent, Empty} /\ Exit(r)
       \/ uuidCm \in Uuids /\ Run(r, uuidCm)
    /\ UNCHANGED uuidCm

\* Get; an empty config map is an error.
GetCm(r) ==
    /\ pc[r] = "get"
    /\ \/ /\ uuidCm = Absent
          /\ pc' = [pc EXCEPT ![r] = "create"]
          /\ UNCHANGED clusterUuid
       \/ uuidCm = Empty /\ Exit(r)
       \/ uuidCm \in Uuids /\ Run(r, uuidCm)
    /\ UNCHANGED uuidCm

\* Mutant: AlreadyExists is taken for success.
CreateCmAnyway(r) ==
    /\ pc[r] = "create"
    /\ \E u \in Uuids :
          /\ uuidCm' = IF uuidCm = Absent THEN u ELSE uuidCm
          /\ Run(r, u) \/ Exit(r)

\* Mutant: the config map is written whether it exists or not.
CreateCmOverwrite(r) ==
    /\ pc[r] = "create"
    /\ \E u \in Uuids :
          /\ uuidCm' = u
          /\ Run(r, u) \/ Exit(r)

\* Create with a fresh uuid; the reply may be lost.
CreateCm(r) ==
    /\ pc[r] = "create"
    /\ uuidCm = Absent
    /\ \E u \in Uuids :
          /\ uuidCm' = u
          /\ Run(r, u) \/ Exit(r)

\* A call fails without effect: AlreadyExists, a timeout, a server error.
CallFails(r) ==
    /\ pc[r] \in {"get", "create"}
    /\ Exit(r)
    /\ UNCHANGED uuidCm

\* A running process dies, for instance because it lost the leader lock.
Stop(r) ==
    /\ pc[r] = "running"
    /\ Exit(r)
    /\ UNCHANGED uuidCm

Restart(r) ==
    /\ pc[r] = "exited"
    /\ pc' = [pc EXCEPT ![r] = "get"]
    /\ UNCHANGED <<uuidCm, clusterUuid>>

Next == \E r \in Replicas : GetCm(r) \/ CreateCm(r) \/ CallFails(r) \/ Stop(r) \/ Restart(r)

Spec == Init /\ [][Next]_vars

\* The kubelet restarts what exited; a call that is made again and again is in the
\* end answered.  A replica whose Create lost the race fails at once (AlreadyExists).
FairSpec ==
    /\ Spec
    /\ \A r \in Replicas :
          /\ WF_vars(Restart(r))
          /\ WF_vars(GetCm(r) \/ CreateCm(r) \/ CallFails(r))
          /\ SF_vars(GetCm(r)) /\ SF_vars(CreateCm(r))

\* All running replicas tag and look for addresses under one uuid, the one that the
\* next replica will find: otherwise a successor leader would not find the addresses
\* of its predecessor and would allocate them again.
Agreement == \A r \in Replicas : pc[r] = "running" => uuidCm \in Uuids /\ clusterUuid[r] = uuidCm

\* The strengthening that is inductive.
UuidInv == TypeOK /\ Agreement /\ \A r \in Replicas : pc[r] # "running" => clusterUuid[r] = None

\* Seen from the replicas, the race is a register that is written once.
Register == INSTANCE UuidRegister WITH
    chosen <- IF uuidCm \in Uuids THEN uuidCm ELSE None,
    learned <- clusterUuid

RegisterSpec == Register!Spec

\* A replica that keeps being restarted comes up again and again: it is not locked out
\* by a race it lost or a reply it did not get.  A config map without a uuid does lock it
\* out: the comment there says "create uuid, update successfully", the code returns an error.
EventuallyUp == \A r \in Replicas : []<>(pc[r] = "running" \/ uuidCm = Empty)
==============================================================================

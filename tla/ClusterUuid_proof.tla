-------------------------- MODULE ClusterUuid_proof --------------------------
(***************************************************************************)
(* Proofs about ClusterUuid, for any number of replicas and uuids and any  *)
(* initial config map: the invariant, and that the race implements a       *)
(* register that is written once.                                          *)
(***************************************************************************)
EXTENDS ClusterUuid, TLAPS

\* The invariant holds at the start.
LEMMA UuidInit == Init => UuidInv
BY UuidAssumption DEF Init, UuidInv, TypeOK, Agreement

\* Every step keeps the invariant.
LEMMA UuidNext == UuidInv /\ [Next]_vars => UuidInv'
<1> SUFFICES ASSUME UuidInv, [Next]_vars PROVE UuidInv'
  OBVIOUS
<1> USE DEF UuidInv, TypeOK, Agreement
<1>1. ASSUME NEW r \in Replicas, GetCm(r)
      PROVE  UuidInv'
  BY <1>1, UuidAssumption DEF GetCm, Run, Exit
<1>2. ASSUME NEW r \in Replicas, CreateCm(r)
      PROVE  UuidInv'
  \* Nobody runs while there is no config map, so nobody is left with another uuid.
  <2>1. \A q \in Replicas : pc[q] # "running"
    BY <1>2, UuidAssumption DEF CreateCm
  <2> QED BY <1>2, <2>1 DEF CreateCm, Run, Exit
<1>3. ASSUME NEW r \in Replicas, CallFails(r) \/ Stop(r)
      PROVE  UuidInv'
  BY <1>3 DEF CallFails, Stop, Exit
<1>4. ASSUME NEW r \in Replicas, Restart(r)
      PROVE  UuidInv'
  BY <1>4 DEF Restart
<1>5. CASE UNCHANGED vars
  BY <1>5 DEF vars
<1> QED BY <1>1, <1>2, <1>3, <1>4, <1>5 DEF Next

\* Types are kept, and running replicas agree with the config map and so with each other.
THEOREM UuidInvariant == Spec => []UuidInv
BY UuidInit, UuidNext, PTL DEF Spec

\* A step of the race is a step of the register, or none.
LEMMA RegisterStep ==
    ASSUME UuidInv, [Next]_vars
    PROVE  [Register!Next]_<<IF uuidCm \in Uuids THEN uuidCm ELSE None, clusterUuid>>
<1> USE DEF UuidInv, TypeOK
<1> DEFINE chosen == IF uuidCm \in Uuids THEN uuidCm ELSE None
<1>1. ASSUME NEW r \in Replicas, GetCm(r)
      PROVE  \/ Register!Learn(r) \/ Register!Forget(r)
             \/ UNCHANGED <<chosen, clusterUuid>>
  BY <1>1, UuidAssumption DEF GetCm, Run, Exit, Register!Learn, Register!Forget
<1>2. ASSUME NEW r \in Replicas, CreateCm(r)
      PROVE  \E u \in Uuids : Register!Choose(r, u)
  <2>1. PICK u \in Uuids : uuidCm' = u /\ (Run(r, u) \/ Exit(r))
    BY <1>2 DEF CreateCm
  <2>2. chosen = None /\ chosen' = u
    BY <1>2, <2>1, UuidAssumption DEF CreateCm
  <2>3. clusterUuid[r] = None
    BY <1>2 DEF CreateCm
  <2>4. clusterUuid' \in {clusterUuid, [clusterUuid EXCEPT ![r] = u]}
    BY <2>1, <2>3 DEF Run, Exit
  <2> QED BY <2>2, <2>4 DEF Register!Choose
<1>3. ASSUME NEW r \in Replicas, CallFails(r) \/ Stop(r)
      PROVE  Register!Forget(r)
  BY <1>3 DEF CallFails, Stop, Exit, Register!Forget
<1>4. ASSUME NEW r \in Replicas, Restart(r)
      PROVE  UNCHANGED <<chosen, clusterUuid>>
  BY <1>4 DEF Restart
<1>5. CASE UNCHANGED vars
  BY <1>5 DEF vars
<1> QED BY <1>1, <1>2, <1>3, <1>4, <1>5 DEF Next, Register!Next

\* To the replicas, the race for the config map is a register that is written once:
\* the cluster has one uuid for ever, and a replica works with that one or with none.
THEOREM RaceIsRegister == Spec => RegisterSpec
<1>1. Init => Register!Init
  BY UuidAssumption DEF Init, Register!Init
<1> QED BY <1>1, UuidInvariant, RegisterStep, PTL DEF Spec, RegisterSpec, Register!Spec
==============================================================================

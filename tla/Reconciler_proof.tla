--------------------------- MODULE Reconciler_proof ---------------------------
(***************************************************************************)
(* Proofs about Reconciler, for every number of nodes, instances,          *)
(* addresses, workers, registrations and crashes:                          *)
(*   TypeCorrect       Spec => []TypeOK                                    *)
(* It rests on TypeInv: the types, and what the workqueue guarantees to a  *)
(* worker.  The second part says what a step can do to one address         *)
(* (AddressStep) and to one node (NodeStep), whoever takes it, and that a  *)
(* step moves one worker only; the proofs in the modules that extend this  *)
(* one reason with these instead of with the actions.                      *)
(***************************************************************************)
EXTENDS Reconciler, TLAPS

\* The parts of TypeOK, grouped by who changes them.
NodesType ==
    /\ api \in [Nodes -> NodeObject \cup {None}]
    /\ cache \in [Nodes -> NodeObject \cup {None}]
    /\ born \in [Nodes -> Nat]
    /\ unseen \in SUBSET Nodes

QueueInv ==
    /\ dirty \in SUBSET Nodes
    /\ processing \in SUBSET Nodes
    /\ pc \in [Workers -> Calls \cup {"idle"}]
    /\ key \in [Workers -> Nodes \cup {None}]
    /\ node \in [Workers -> NodeObject \cup {None}]
    /\ cur \in [Workers -> Eips \cup {None}]
    /\ WorkersOK
    /\ KeysExclusive

TypeInv == CloudTypeOK /\ NodesType /\ QueueInv /\ crashes \in Nat

\* The calls that are about the address in hand.
Holding == {"describeGone", "disassociate", "release", "describeEip", "associate"}

\* The grouped parts and the invariant of the model say the same.
LEMMA TypeInvParts == TypeInv <=> TypeOK /\ WorkersOK /\ KeysExclusive
BY DEF TypeInv, NodesType, QueueInv, TypeOK, WatchTypeOK

-----------------------------------------------------------------------------
(***************************************************************************)
(* What the control operators do to the queue and the workers.             *)
(***************************************************************************)

\* Going on to a call keeps the queue sound if the worker has what the call needs.
LEMMA GotoQueue ==
    ASSUME QueueInv, NEW w \in Workers, Busy(w),
           NEW call \in Calls, NEW e \in Eips \cup {None}, Goto(w, call, e),
           call \in NodeCalls => node[w] \in NodeObject,
           call \in Holding => e \in Eips
    PROVE  QueueInv'
<1>1. dirty' = dirty /\ processing' = processing /\ key' = key /\ node' = node
  BY DEF Goto
<1>2. pc' \in [Workers -> Calls \cup {"idle"}] /\ cur' \in [Workers -> Eips \cup {None}]
  BY DEF Goto, QueueInv
<1>3. \A v \in Workers : v # w => pc'[v] = pc[v] /\ cur'[v] = cur[v]
  BY DEF Goto, QueueInv
<1>4. pc'[w] = call /\ cur'[w] = e
  BY DEF Goto, QueueInv
<1>5. WorkersOK'
  BY <1>1, <1>3, <1>4 DEF WorkersOK, QueueInv, Busy, Holding
<1>6. KeysExclusive'
  BY <1>1, <1>3, <1>4 DEF KeysExclusive, QueueInv, Busy
<1> QED BY <1>1, <1>2, <1>5, <1>6 DEF QueueInv

\* Ending a reconcile, with or without putting the key back, keeps the queue sound.
LEMMA EndQueue ==
    ASSUME QueueInv, NEW w \in Workers, Busy(w), Finish(w) \/ Retry(w)
    PROVE  QueueInv'
<1>1. EndReconcile(w) /\ (dirty' = dirty \/ dirty' = dirty \cup {key[w]})
  BY DEF Finish, Retry
<1>2. key[w] \in Nodes
  BY DEF QueueInv, WorkersOK, Busy
<1>3. dirty' \in SUBSET Nodes /\ processing' \in SUBSET Nodes
  BY <1>1, <1>2 DEF QueueInv, EndReconcile
<1>4. /\ pc' \in [Workers -> Calls \cup {"idle"}]
      /\ key' \in [Workers -> Nodes \cup {None}]
      /\ node' \in [Workers -> NodeObject \cup {None}]
      /\ cur' \in [Workers -> Eips \cup {None}]
  BY <1>1 DEF QueueInv, EndReconcile
<1>5. ~Busy(w)'
  BY <1>1 DEF EndReconcile, QueueInv, Busy
<1>6. ASSUME NEW v \in Workers, v # w
      PROVE  pc'[v] = pc[v] /\ key'[v] = key[v] /\ node'[v] = node[v] /\ cur'[v] = cur[v]
  BY <1>1, <1>6 DEF EndReconcile, QueueInv
<1>7. ASSUME NEW v \in Workers, Busy(v)'
      PROVE  v # w /\ Busy(v) /\ key[v] \in processing'
  <2>1. v # w /\ Busy(v)
    BY <1>5, <1>6, <1>7 DEF Busy
  <2>2. key[v] # key[w]
    BY <2>1 DEF QueueInv, KeysExclusive
  <2> QED BY <1>1, <2>1, <2>2 DEF EndReconcile, QueueInv, WorkersOK
<1>8. WorkersOK'
  BY <1>6, <1>7 DEF WorkersOK, QueueInv, Busy
<1>9. KeysExclusive'
  BY <1>6, <1>7 DEF KeysExclusive, QueueInv, Busy
<1> QED BY <1>3, <1>4, <1>8, <1>9 DEF QueueInv

\* A step that leaves the workers alone and only adds keys keeps the queue sound.
LEMMA OthersQueue ==
    ASSUME QueueInv, UNCHANGED <<workerVars, processing>>,
           dirty' \in SUBSET Nodes
    PROVE  QueueInv'
BY DEF QueueInv, WorkersOK, KeysExclusive, Busy, workerVars

-----------------------------------------------------------------------------
(***************************************************************************)
(* Every action preserves TypeInv.                                         *)
(***************************************************************************)

\* Taking a key gives the worker its copy of the node, and no one else has the key.
LEMMA StartType ==
    ASSUME TypeInv, NEW w \in Workers, NEW n \in Nodes, Start(w, n)
    PROVE  TypeInv'
<1>1. CloudTypeOK' /\ NodesType' /\ crashes' \in Nat
  BY DEF TypeInv, Start, KeepCloud, KeepApi, CloudTypeOK, NodesType, cloudVars
<1>2. dirty' \in SUBSET Nodes /\ processing' \in SUBSET Nodes
  BY DEF TypeInv, QueueInv, Start
<1>3. FirstCall(cache[n]) \in Calls
  BY DEF FirstCall, Calls, GoneCalls, NodeCalls
<1>4. /\ pc' \in [Workers -> Calls \cup {"idle"}]
      /\ key' \in [Workers -> Nodes \cup {None}]
      /\ node' \in [Workers -> NodeObject \cup {None}]
      /\ cur' \in [Workers -> Eips \cup {None}]
  BY <1>3 DEF TypeInv, QueueInv, NodesType, Start
<1>5. ASSUME NEW v \in Workers, v # w
      PROVE  pc'[v] = pc[v] /\ key'[v] = key[v] /\ node'[v] = node[v] /\ cur'[v] = cur[v]
  BY <1>5 DEF TypeInv, QueueInv, Start
<1>6. key'[w] = n /\ node'[w] = cache[n] /\ pc'[w] = FirstCall(cache[n]) /\ ~Busy(w)
  BY DEF TypeInv, QueueInv, Start, Busy
<1>7. pc'[w] \in NodeCalls => node'[w] \in NodeObject
  BY <1>6 DEF FirstCall, NodeCalls, TypeInv, NodesType
<1>8. pc'[w] \notin Holding
  BY <1>6 DEF FirstCall, Holding
<1>9. WorkersOK'
  BY <1>5, <1>6, <1>7, <1>8 DEF WorkersOK, Holding, TypeInv, QueueInv, Busy, Start
<1>10. ASSUME NEW v \in Workers, v # w, Busy(v)'
       PROVE  key'[v] # n
  BY <1>5, <1>10 DEF TypeInv, QueueInv, WorkersOK, Busy, Start
<1>11. KeysExclusive'
  BY <1>5, <1>6, <1>10 DEF TypeInv, QueueInv, KeysExclusive, Busy
<1> QED BY <1>1, <1>2, <1>4, <1>9, <1>11 DEF TypeInv, QueueInv

\* What a worker in the middle of a reconcile can rely on.
LEMMA WorkerHas ==
    ASSUME TypeInv, NEW w \in Workers, pc[w] \in Calls
    PROVE  /\ Busy(w)
           /\ key[w] \in Nodes
           /\ key[w] \in processing
           /\ pc[w] \in NodeCalls => node[w] \in NodeObject
           /\ pc[w] \in Holding => cur[w] \in Eips
<1>1. Busy(w)
  BY DEF Busy, Calls, GoneCalls, NodeCalls
<1> QED BY <1>1 DEF TypeInv, QueueInv, WorkersOK, Holding

\* A step that asks without changing cloud or nodes, and goes on or ends.
LEMMA AskType ==
    ASSUME TypeInv, KeepCloud, KeepApi, QueueInv'
    PROVE  TypeInv'
BY DEF TypeInv, KeepCloud, KeepApi, CloudTypeOK, NodesType, cloudVars

\* A call to the cloud by a worker.
LEMMA CallType ==
    ASSUME TypeInv, CloudTypeOK', KeepApi, UNCHANGED crashes, QueueInv'
    PROVE  TypeInv'
BY DEF TypeInv, KeepApi, NodesType

\* The cloud's answers keep its types.
LEMMA CloudCallsType ==
    ASSUME CloudTypeOK, NEW e \in Eips, NEW n \in Nodes, NEW i \in Instances \cup {None},
           \/ AllocateAddresses(e, n, i) \/ AssociateAddress(e, i)
           \/ DisassociateAddress(e) \/ ReleaseAddresses(e) \/ CreateTags(n, i)
    PROVE  CloudTypeOK'
<1> USE DEF CloudTypeOK, Address, Status
<1>1. CASE AllocateAddresses(e, n, i)
  BY <1>1 DEF AllocateAddresses
<1>2. CASE AssociateAddress(e, i)
  BY <1>2 DEF AssociateAddress
<1>3. CASE DisassociateAddress(e)
  BY <1>3 DEF DisassociateAddress
<1>4. CASE ReleaseAddresses(e)
  BY <1>4 DEF ReleaseAddresses
<1>5. CASE CreateTags(n, i)
  BY <1>5 DEF CreateTags
<1> QED BY <1>1, <1>2, <1>3, <1>4, <1>5

\* The cloud's own tasks keep its types.
LEMMA TasksType ==
    ASSUME CloudTypeOK, NEW e \in Eips, BindingDone(e) \/ UnbindingDone(e) \/ TagIndexUpdated(e)
    PROVE  CloudTypeOK'
<1> USE DEF CloudTypeOK
<1>1. CASE BindingDone(e)
  <2>1. /\ [eip[e] EXCEPT !.status = "UNBIND", !.ins = None] \in Address
        /\ [eip[e] EXCEPT !.status = "BIND"] \in Address
    BY DEF Address, Status
  <2> QED BY <1>1, <2>1 DEF BindingDone
<1>2. CASE UnbindingDone(e)
  BY <1>2 DEF UnbindingDone, Address, Status
<1>3. CASE TagIndexUpdated(e)
  BY <1>3 DEF TagIndexUpdated
<1> QED BY <1>1, <1>2, <1>3

\* A destroyed instance lets go of its addresses, which stay addresses.
LEMMA DestroyedType ==
    ASSUME CloudTypeOK, NEW i \in Instances, InstanceDestroyed(i)
    PROVE  CloudTypeOK'
<1>1. \A e \in Eips : [eip[e] EXCEPT !.status = "UNBIND", !.ins = None] \in Address
  BY DEF CloudTypeOK, Address, Status
<1> QED BY <1>1 DEF CloudTypeOK, InstanceDestroyed

\* The reconcile of a name whose node is gone.
LEMMA GoneType ==
    ASSUME TypeInv, NEW w \in Workers,
           FindLegacy(w) \/ DescribeLegacy(w) \/ Disassociate(w) \/ Release(w)
    PROVE  TypeInv'
<1>1. CASE FindLegacy(w)
  <2>1. pc[w] \in Calls /\ KeepCloud /\ KeepApi
    BY <1>1 DEF FindLegacy, Calls, GoneCalls
  <2>2. \A e \in RowsByTags(key[w]) : e \in Eips
    BY DEF RowsByTags, TypeInv, CloudTypeOK
  <2>3. QueueInv'
    BY <1>1, <2>1, <2>2, WorkerHas, GotoQueue, EndQueue
       DEF FindLegacy, Calls, GoneCalls, NodeCalls, TypeInv
  <2> QED BY <2>1, <2>3, AskType
<1>2. CASE DescribeLegacy(w)
  <2>1. pc[w] \in Calls /\ pc[w] \in Holding /\ KeepCloud /\ KeepApi
    BY <1>2 DEF DescribeLegacy, Calls, GoneCalls, Holding
  <2>2. \/ Goto(w, "release", cur[w]) \/ Goto(w, "disassociate", cur[w]) \/ Retry(w)
    BY <1>2 DEF DescribeLegacy
  <2>3. QueueInv'
    BY <2>1, <2>2, WorkerHas, GotoQueue, EndQueue DEF Calls, GoneCalls, NodeCalls, TypeInv
  <2> QED BY <2>1, <2>3, AskType
<1>3. CASE Disassociate(w)
  <2>1. pc[w] \in Calls /\ pc[w] \in Holding /\ KeepApi /\ UNCHANGED crashes
    BY <1>3 DEF Disassociate, Calls, GoneCalls, Holding
  <2>2. QueueInv'
    BY <1>3, <2>1, WorkerHas, GotoQueue, EndQueue
       DEF Disassociate, Calls, GoneCalls, NodeCalls, TypeInv
  <2>3. CloudTypeOK'
    BY <1>3, <2>1, WorkerHas, CloudCallsType DEF Disassociate, TypeInv
  <2> QED BY <2>1, <2>2, <2>3, CallType
<1>4. CASE Release(w)
  <2>1. pc[w] \in Calls /\ pc[w] \in Holding /\ KeepApi /\ UNCHANGED crashes
    BY <1>4 DEF Release, Calls, GoneCalls, Holding
  <2>2. QueueInv'
    BY <1>4, <2>1, WorkerHas, EndQueue DEF Release, TypeInv
  <2>3. CloudTypeOK'
    BY <1>4, <2>1, WorkerHas, CloudCallsType DEF Release, TypeInv
  <2> QED BY <2>1, <2>2, <2>3, CallType
<1> QED BY <1>1, <1>2, <1>3, <1>4

\* The rest of a reconcile after the instance was looked at: go on or end.
LEMMA JudgeQueue ==
    ASSUME TypeInv, NEW w \in Workers, pc[w] \in NodeCalls, NEW type, NEW e \in Eips \cup {None},
           \/ JudgeType(w, type, e)
           \/ TaintFirst(w, "taint", Goto(w, "tags", None))
           \/ Settle(w, e)
    PROVE  QueueInv'
<1>1. pc[w] \in Calls
  BY DEF Calls
<1>2. Busy(w) /\ node[w] \in NodeObject /\ QueueInv
  BY <1>1, WorkerHas DEF TypeInv
<1>3. \/ Finish(w)
      \/ Goto(w, "untaint", e) \/ Goto(w, "taint", None) \/ Goto(w, "taintStop", None)
      \/ Goto(w, "tags", None)
  BY DEF JudgeType, TaintFirst, Settle
<1>4. /\ {"untaint", "taint", "taintStop", "tags"} \subseteq Calls
      /\ {"untaint", "taint", "taintStop", "tags"} \cap Holding = {}
  BY DEF Calls, NodeCalls, Holding
<1> QED BY <1>2, <1>3, <1>4, GotoQueue, EndQueue

\* A patch replaces a node object by a node object.
LEMMA PatchType ==
    ASSUME TypeInv, NEW w \in Workers, key[w] \in Nodes,
           NEW t \in BOOLEAN, NEW a \in Eips \cup {None}, PatchApi(w, t, a), QueueInv'
    PROVE  TypeInv'
<1>1. api[key[w]] \in NodeObject
  BY DEF TypeInv, NodesType, PatchApi
<1>2. [api[key[w]] EXCEPT !.taint = t, !.anno = a] \in NodeObject
  BY <1>1 DEF NodeObject
<1>3. api' \in [Nodes -> NodeObject \cup {None}]
  <2>1. api' = [api EXCEPT ![key[w]] = [api[key[w]] EXCEPT !.taint = t, !.anno = a]]
    BY <1>1 DEF PatchApi, TypeInv, NodesType, NodeObject
  <2> QED BY <1>2, <2>1 DEF TypeInv, NodesType
<1> QED BY <1>3 DEF TypeInv, PatchApi, KeepCloud, NodesType, CloudTypeOK, cloudVars

\* The annotation and the instance id of a node object are what they should be.
LEMMA AnnoType ==
    ASSUME TypeInv, NEW o \in NodeObject
    PROVE  o.anno \in Eips \cup {None} /\ o.ins \in Instances \cup {None}
BY DEF NodeObject

\* The reconcile of a node that exists, up to the decision to allocate.
LEMMA ServeType ==
    ASSUME TypeInv, NEW w \in Workers,
           RejectTerminating(w) \/ DescribeInstance(w) \/ AddTaint(w)
           \/ AddTaintAndStop(w) \/ RemoveTaint(w)
    PROVE  TypeInv'
<1>1. pc[w] \in NodeCalls /\ pc[w] \in Calls
  BY DEF RejectTerminating, DescribeInstance, AddTaint, AddTaintAndStop, RemoveTaint, Calls, NodeCalls
<1>2. Busy(w) /\ key[w] \in Nodes /\ node[w] \in NodeObject /\ QueueInv
  BY <1>1, WorkerHas DEF TypeInv
<1>3. CASE RejectTerminating(w)
  BY <1>2, <1>3, EndQueue, AskType DEF RejectTerminating
<1>4. CASE DescribeInstance(w)
  <2>1. KeepCloud /\ KeepApi
    BY <1>4 DEF DescribeInstance
  <2>2. \A e \in BoundTo(node[w].ins) : e \in Eips
    BY DEF BoundTo
  <2>3. QueueInv'
    BY <1>1, <1>4, <2>2, JudgeQueue DEF DescribeInstance
  <2> QED BY <2>1, <2>3, AskType
<1>5. CASE AddTaint(w)
  <2>1. PatchApi(w, TRUE, api[key[w]].anno)
    BY <1>5 DEF AddTaint
  <2>2. api[key[w]] \in NodeObject
    BY <1>2, <2>1 DEF PatchApi, TypeInv, NodesType
  <2>3. [api[key[w]] EXCEPT !.taint = TRUE, !.anno = api[key[w]].anno] \in NodeObject
    BY <2>2 DEF NodeObject
  <2>4. api'[key[w]] \in NodeObject
    <3>1. api'[key[w]] = [api[key[w]] EXCEPT !.taint = TRUE, !.anno = api[key[w]].anno]
      BY <1>2, <2>1, <2>2 DEF PatchApi, TypeInv, NodesType, NodeObject
    <3> QED BY <2>3, <3>1
  <2>5. QueueInv'
    <3>1. CASE Retry(w)
      BY <1>2, <3>1, EndQueue
    <3>2. CASE /\ pc' = [pc EXCEPT ![w] = "tags"]
               /\ node' = [node EXCEPT ![w] = api'[key[w]]]
               /\ UNCHANGED <<key, cur, dirty, processing>>
      BY <1>2, <2>4, <3>2
         DEF QueueInv, WorkersOK, KeysExclusive, Busy, Calls, GoneCalls, NodeCalls
    <3> QED BY <1>5, <3>1, <3>2 DEF AddTaint
  <2> QED BY <1>2, <2>1, <2>2, <2>5, AnnoType, PatchType
<1>6. CASE AddTaintAndStop(w)
  <2>1. PatchApi(w, TRUE, api[key[w]].anno) /\ (Finish(w) \/ Retry(w))
    BY <1>6 DEF AddTaintAndStop
  <2>2. api[key[w]] \in NodeObject
    BY <1>2, <2>1 DEF PatchApi, TypeInv, NodesType
  <2> QED BY <1>2, <2>1, <2>2, AnnoType, EndQueue, PatchType
<1>7. CASE RemoveTaint(w)
  <2>1. cur[w] \in Eips \cup {None}
    BY DEF TypeInv, QueueInv
  <2> QED BY <1>2, <1>7, <2>1, AnnoType, EndQueue, PatchType DEF RemoveTaint
<1> QED BY <1>3, <1>4, <1>5, <1>6, <1>7

\* AllocateAnycastIp and AssociateAnycastIp.
LEMMA AllocateType ==
    ASSUME TypeInv, NEW w \in Workers,
           FindByTags(w) \/ Allocate(w) \/ CreateMissingTags(w) \/ DescribeAddress(w) \/ Associate(w)
    PROVE  TypeInv'
<1>1. pc[w] \in NodeCalls /\ pc[w] \in Calls
  BY DEF FindByTags, Allocate, CreateMissingTags, DescribeAddress, Associate, Calls, NodeCalls
<1>2. Busy(w) /\ key[w] \in Nodes /\ node[w] \in NodeObject /\ QueueInv
  BY <1>1, WorkerHas DEF TypeInv
<1>3. node[w].ins \in Instances \cup {None}
  BY <1>2, AnnoType
<1>4. CASE FindByTags(w)
  <2>1. KeepCloud /\ KeepApi
    BY <1>4 DEF FindByTags
  <2>2. \A e \in RowsByTags(key[w]) : e \in Eips
    BY DEF RowsByTags, TypeInv, CloudTypeOK
  <2>3. QueueInv'
    BY <1>2, <1>4, <2>2, GotoQueue DEF FindByTags, Calls, NodeCalls, Holding
  <2> QED BY <2>1, <2>3, AskType
<1>5. CASE Allocate(w)
  <2>1. PICK e \in Eips : /\ AllocateAddresses(e, key[w], node[w].ins)
                         /\ \/ Goto(w, "describeEip", e) \/ Goto(w, "createTags", None) \/ Retry(w)
    BY <1>5 DEF Allocate
  <2>2. CloudTypeOK'
    BY <1>2, <1>3, <2>1, CloudCallsType DEF TypeInv
  <2>3. QueueInv'
    BY <1>2, <2>1, GotoQueue, EndQueue DEF Calls, NodeCalls, Holding
  <2> QED BY <1>5, <2>2, <2>3, CallType DEF Allocate
<1>6. CASE CreateMissingTags(w)
  <2>1. CASE Eips = {}
    BY <1>2, <1>3, <1>6, <2>1, EndQueue, CallType DEF CreateMissingTags, CreateTags, TypeInv, CloudTypeOK
  <2>2. CASE Eips # {}
    BY <1>2, <1>3, <1>6, <2>2, EndQueue, CallType, CloudCallsType DEF CreateMissingTags, TypeInv
  <2> QED BY <2>1, <2>2
<1>7. CASE DescribeAddress(w)
  <2>1. KeepCloud /\ KeepApi /\ pc[w] \in Holding
    BY <1>7 DEF DescribeAddress, Holding
  <2>2. cur[w] \in Eips
    BY <1>1, <2>1, WorkerHas
  <2>3. Settle(w, cur[w]) \/ Goto(w, "associate", cur[w]) \/ Retry(w)
    BY <1>7 DEF DescribeAddress
  <2>4. QueueInv'
    BY <1>1, <1>2, <2>2, <2>3, JudgeQueue, GotoQueue, EndQueue DEF Calls, NodeCalls
  <2> QED BY <2>1, <2>4, AskType
<1>8. CASE Associate(w)
  <2>1. cur[w] \in Eips
    BY <1>1, <1>8, WorkerHas DEF Associate, Holding
  <2> QED BY <1>2, <1>3, <1>8, <2>1, EndQueue, CallType, CloudCallsType DEF Associate, TypeInv
<1> QED BY <1>4, <1>5, <1>6, <1>7, <1>8

\* A call that fails ends the reconcile, or sends it to create tags.
LEMMA ErrorType ==
    ASSUME TypeInv, NEW w \in Workers, ApiError(w)
    PROVE  TypeInv'
<1>1. pc[w] \in Calls /\ KeepCloud /\ KeepApi
  BY DEF ApiError
<1>2. QueueInv'
  BY <1>1, WorkerHas, GotoQueue, EndQueue DEF ApiError, Calls, NodeCalls, Holding, TypeInv
<1> QED BY <1>1, <1>2, AskType

\* What users, the kubelet and the informer do to the nodes keeps the types.
LEMMA ClusterType ==
    ASSUME TypeInv, NEW n \in Nodes,
           \/ NodeRegistered(n) \/ NodeRelabelled(n) \/ NodeTerminating(n) \/ NodeDeleted(n)
           \/ Observe(n) \/ OtherLabelShown(n),
           UNCHANGED <<cloudVars, workerVars, crashes>>
    PROVE  TypeInv'
<1>1. CloudTypeOK' /\ crashes' \in Nat
  BY DEF TypeInv, CloudTypeOK, cloudVars
<1>2. NodesType' /\ dirty' \in SUBSET Nodes /\ processing' = processing
  <2> USE DEF NodesType
  <2>1. NodesType /\ dirty \in SUBSET Nodes
    BY DEF TypeInv, QueueInv
  <2>2. CASE NodeRegistered(n)
    <3>1. PICK i \in Instances \cup {None}, l \in BOOLEAN, t \in BOOLEAN :
             api' = [api EXCEPT ![n] = [ins |-> i, label |-> l, terminated |-> FALSE,
                                        taint |-> t, anno |-> None, uid |-> born[n] + 1]]
      BY <2>2, WatchAssumption DEF NodeRegistered
    <3>2. [ins |-> i, label |-> l, terminated |-> FALSE, taint |-> t, anno |-> None,
           uid |-> born[n] + 1] \in NodeObject
      BY <2>1 DEF NodeObject
    <3>3. api' \in [Nodes -> NodeObject \cup {None}]
      BY <2>1, <3>1, <3>2
    <3>4. born' \in [Nodes -> Nat] /\ UNCHANGED <<cache, dirty, processing, unseen>>
      BY <2>1, <2>2 DEF NodeRegistered
    <3> QED BY <2>1, <3>3, <3>4
  <2>3. CASE NodeRelabelled(n)
    <3>1. api[n] \in NodeObject
      BY <2>1, <2>3 DEF NodeRelabelled
    <3>2. \/ \E i \in Instances : api' = [api EXCEPT ![n] = [api[n] EXCEPT !.ins = i]]
          \/ \E l \in BOOLEAN : api' = [api EXCEPT ![n] = [api[n] EXCEPT !.label = l]]
      BY <2>3, WatchAssumption DEF NodeRelabelled
    <3>3. /\ \A i \in Instances : [api[n] EXCEPT !.ins = i] \in NodeObject
          /\ \A l \in BOOLEAN : [api[n] EXCEPT !.label = l] \in NodeObject
      BY <3>1 DEF NodeObject
    <3> QED BY <2>1, <2>3, <3>2, <3>3 DEF NodeRelabelled
  <2>4. CASE NodeTerminating(n)
    <3>1. [api[n] EXCEPT !.terminated = TRUE] \in NodeObject
      BY <2>1, <2>4 DEF NodeTerminating, NodeObject
    <3> QED BY <2>1, <2>4, <3>1 DEF NodeTerminating
  <2>5. CASE NodeDeleted(n)
    BY <2>1, <2>5 DEF NodeDeleted
  <2>6. CASE Observe(n)
    BY <2>1, <2>6 DEF Observe, ProcessNodeCreate, ProcessNodeUpdate, ProcessNodeDelete, Enqueue
  <2>7. CASE OtherLabelShown(n)
    BY <2>1, <2>7 DEF OtherLabelShown, Enqueue
  <2> QED BY <2>2, <2>3, <2>4, <2>5, <2>6, <2>7
<1>3. QueueInv'
  BY <1>2, OthersQueue DEF TypeInv
<1> QED BY <1>1, <1>2, <1>3 DEF TypeInv

\* What the cloud does by itself keeps the types.
LEMMA CloudType ==
    ASSUME TypeInv, CloudNext, UNCHANGED <<watchVars, workerVars, crashes>>
    PROVE  TypeInv'
<1>1. CloudTypeOK'
  <2>1. ASSUME NEW e \in Eips, BindingDone(e) \/ UnbindingDone(e) \/ TagIndexUpdated(e)
        PROVE  CloudTypeOK'
    BY <2>1, TasksType DEF TypeInv
  <2>2. ASSUME NEW i \in Instances, InstanceDestroyed(i)
        PROVE  CloudTypeOK'
    BY <2>2, DestroyedType DEF TypeInv
  <2> QED BY <2>1, <2>2 DEF CloudNext
<1>2. QueueInv'
  BY OthersQueue DEF TypeInv, QueueInv, watchVars
<1> QED BY <1>1, <1>2 DEF TypeInv, NodesType, watchVars

\* The next leader starts idle, with an empty queue and an empty cache.
LEMMA CrashType ==
    ASSUME TypeInv, Crash
    PROVE  TypeInv'
<1>1. CloudTypeOK'
  BY DEF TypeInv, Crash, CloudTypeOK, cloudVars
<1>2. NodesType' /\ crashes' \in Nat
  BY DEF TypeInv, Crash, NodesType
<1>3. QueueInv'
  BY DEF Crash, QueueInv, WorkersOK, KeysExclusive, Busy
<1> QED BY <1>1, <1>2, <1>3 DEF TypeInv

\* TypeInv holds at the start.
LEMMA TypeInit == Init => TypeInv
<1> SUFFICES ASSUME Init PROVE TypeInv
  OBVIOUS
<1>1. CloudTypeOK
  BY DEF Init, CloudInit, CloudTypeOK, Address, Status
<1>2. NodesType /\ QueueInv /\ crashes \in Nat
  BY DEF Init, WatchInit, NodesType, QueueInv, WorkersOK, KeysExclusive, Busy
<1> QED BY <1>1, <1>2 DEF TypeInv

\* TypeInv holds after every step.
LEMMA TypeNext == TypeInv /\ [Next]_vars => TypeInv'
<1> SUFFICES ASSUME TypeInv, [Next]_vars PROVE TypeInv'
  OBVIOUS
<1>1. ASSUME NEW w \in Workers, WorkerStep(w)
      PROVE  TypeInv'
  BY <1>1, StartType, GoneType, ServeType, AllocateType, ErrorType DEF WorkerStep
<1>2. CASE ClusterNext /\ UNCHANGED <<cloudVars, workerVars, crashes>>
  BY <1>2, ClusterType DEF ClusterNext
<1>3. CASE CloudNext /\ UNCHANGED <<watchVars, workerVars, crashes>>
  BY <1>3, CloudType
<1>4. CASE Crash
  BY <1>4, CrashType
<1>5. CASE UNCHANGED vars
  BY <1>5 DEF vars, cloudVars, watchVars, workerVars, TypeInv, CloudTypeOK, NodesType,
     QueueInv, WorkersOK, KeysExclusive, Busy
<1> QED BY <1>1, <1>2, <1>3, <1>4, <1>5 DEF Next

\* The workqueue gives each worker a key of its own, with all its next call needs.
THEOREM TypeInvariant == Spec => []TypeInv
BY TypeInit, TypeNext, PTL DEF Spec

\* Every variable keeps its type, whatever the constants.
THEOREM TypeCorrect == Spec => []TypeOK
BY TypeInvariant, TypeInvParts, PTL

-----------------------------------------------------------------------------
(***************************************************************************)
(* What a step can do to one address and to one node, whoever takes it.    *)
(***************************************************************************)
\* An address goes through its states by the calls of workers and the tasks of the cloud.
AddressStep(e) ==
    \/ eip'[e] = eip[e]
    \/ /\ eip[e].status = "UNUSED" /\ eip'[e].status = "UNBIND"
       /\ \E w \in Workers : pc[w] = "allocate" /\ eip'[e].name = key[w]
    \/ /\ eip'[e].name = eip[e].name
       /\ \/ /\ eip[e].status = "UNBIND" /\ eip'[e].status = "BINDING"
             /\ \E w \in Workers : /\ pc[w] = "associate" /\ cur[w] = e
                                   /\ eip'[e].ins = node[w].ins
                                   /\ node[w].ins \in Instances \ destroyed
          \/ eip[e].status = "BINDING" /\ eip'[e].status = "BIND" /\ eip'[e].ins = eip[e].ins
          \/ /\ eip[e].status = "BIND" /\ eip'[e].status = "UNBINDING"
             /\ \E w \in Workers : pc[w] = "disassociate" /\ cur[w] = e
          \/ eip[e].status = "BIND" /\ eip'[e].status = "UNBIND" /\ eip[e].ins \in destroyed'
          \/ eip[e].status \in {"BINDING", "UNBINDING"} /\ eip'[e].status = "UNBIND"
          \/ /\ eip[e].status = "UNBIND" /\ eip'[e].status = "RELEASED"
             /\ \E w \in Workers : pc[w] = "release" /\ cur[w] = e

\* Only addresses that have been allocated enter the index.
IndexNamed == \A e \in indexed' : e \in indexed \/ eip'[e].status # "UNUSED"

AddressSteps == (\A e \in Eips : AddressStep(e)) /\ IndexNamed /\ destroyed \subseteq destroyed'

\* A node is registered, relabelled, deleted, or patched by the worker that has its key.
NodeStep(n) ==
    \/ api'[n] = api[n] /\ born'[n] = born[n]
    \/ /\ api[n] = None /\ api'[n] \in NodeObject
       /\ born[n] < MaxIncarnations /\ born'[n] = born[n] + 1
       /\ api'[n].uid = born'[n] /\ api'[n].anno = None
       /\ api'[n].ins # None => NameOf[api'[n].ins] = n
    \/ api[n] # None /\ api'[n] = None /\ born'[n] = born[n]
    \/ /\ api[n] # None /\ api'[n] \in NodeObject /\ born'[n] = born[n]
       /\ api'[n].uid = api[n].uid
       /\ \/ /\ api'[n].taint = api[n].taint /\ api'[n].anno = api[n].anno
             /\ \/ api'[n].ins = api[n].ins
                \/ api[n].ins = None /\ api'[n].ins \in Instances /\ NameOf[api'[n].ins] = n
          \/ /\ api'[n].ins = api[n].ins
             /\ \E w \in Workers : /\ key[w] = n
                   /\ \/ /\ pc[w] \in {"taint", "taintStop"}
                         /\ api'[n].taint /\ api'[n].anno = api[n].anno
                      \/ /\ pc[w] = "untaint" /\ ~api'[n].taint
                         /\ api'[n].anno = IF node[w].anno = None THEN cur[w] ELSE node[w].anno

Queue == dirty \cup processing

\* The informer shows a change of a node, or it starts afresh with the replica.
CacheStep(n) ==
    \/ /\ cache'[n] = cache[n]
       /\ n \in Queue' => n \in Queue \/ (cache[n] # None /\ IsAiaNode(cache[n]))
    \/ /\ api[n] # None /\ api'[n] = api[n] /\ cache'[n] = api[n]
       /\ cache[n] # None => cache[n].uid = api[n].uid
       /\ n \in Queue' => n \in Queue \/ IsAiaNode(api[n])
    \/ /\ cache[n] # None /\ cache'[n] = None /\ api'[n] = api[n]
       /\ api[n] # None => api[n].uid # cache[n].uid
    \/ cache'[n] = None /\ n \notin Queue' /\ crashes' # crashes

NodeSteps == \A n \in Nodes : NodeStep(n) /\ CacheStep(n)

\* A call to the cloud by a worker.
LEMMA CallSteps ==
    ASSUME CloudTypeOK, NEW w \in Workers,
           Disassociate(w) \/ Release(w) \/ Allocate(w) \/ CreateMissingTags(w) \/ Associate(w)
    PROVE  AddressSteps
<1> USE DEF CloudTypeOK, Address, AddressSteps, AddressStep, IndexNamed
<1>1. CASE Disassociate(w)
  BY <1>1 DEF Disassociate, DisassociateAddress
<1>2. CASE Release(w)
  BY <1>2 DEF Release, ReleaseAddresses
<1>3. CASE Allocate(w)
  BY <1>3 DEF Allocate, AllocateAddresses
<1>4. CASE CreateMissingTags(w)
  BY <1>4 DEF CreateMissingTags, CreateTags
<1>5. CASE Associate(w)
  BY <1>5 DEF Associate, AssociateAddress
<1> QED BY <1>1, <1>2, <1>3, <1>4, <1>5

\* The cloud's own tasks.
LEMMA TaskSteps ==
    ASSUME CloudTypeOK, CloudNext
    PROVE  AddressSteps
<1> USE DEF CloudTypeOK, Address, AddressSteps, AddressStep, IndexNamed
<1>1. ASSUME NEW e \in Eips, BindingDone(e)
      PROVE  AddressSteps
  BY <1>1 DEF BindingDone
<1>2. ASSUME NEW e \in Eips, UnbindingDone(e)
      PROVE  AddressSteps
  BY <1>2 DEF UnbindingDone
<1>3. ASSUME NEW e \in Eips, TagIndexUpdated(e)
      PROVE  AddressSteps
  BY <1>3 DEF TagIndexUpdated, Live
<1>4. ASSUME NEW i \in Instances, InstanceDestroyed(i)
      PROVE  AddressSteps
  BY <1>4 DEF InstanceDestroyed
<1> QED BY <1>1, <1>2, <1>3, <1>4 DEF CloudNext

\* Every other step leaves the addresses as they are.
LEMMA NextAddresses ==
    ASSUME TypeInv, Next
    PROVE  AddressSteps
<1>1. CASE UNCHANGED cloudVars
  BY <1>1 DEF cloudVars, AddressSteps, AddressStep, IndexNamed
<1>2. ASSUME NEW w \in Workers, WorkerStep(w)
      PROVE  AddressSteps
  BY <1>1, <1>2, CallSteps DEF TypeInv, WorkerStep, Start, RejectTerminating, FindLegacy,
      DescribeLegacy, DescribeInstance, AddTaint, AddTaintAndStop, RemoveTaint, PatchApi,
      FindByTags, DescribeAddress, ApiError, KeepCloud
<1> QED BY <1>1, <1>2, TaskSteps DEF Next, Crash, TypeInv

\* A worker leaves the queue alone or ends its reconcile.
EndOrGo(w) == UNCHANGED <<dirty, processing>> \/ Finish(w) \/ Retry(w)

\* A worker puts back its key or drops it; it gets one that is queued.
LEMMA WorkerQueue ==
    ASSUME TypeInv, NEW w \in Workers, WorkerStep(w)
    PROVE  Queue' \subseteq Queue
<1>1. ASSUME NEW n \in Nodes, Start(w, n)
      PROVE  Queue' \subseteq Queue
  BY <1>1 DEF Start, Queue
<1>2. CASE pc[w] \in Calls
  <2>1. key[w] \in processing
    BY <1>2, WorkerHas
  <2>2. ASSUME DescribeInstance(w) \/ FindLegacy(w) \/ DescribeLegacy(w) \/ FindByTags(w) \/ DescribeAddress(w)
        PROVE  EndOrGo(w)
    BY <2>2 DEF DescribeInstance, JudgeType, TaintFirst, Settle, FindLegacy, DescribeLegacy, FindByTags,
        DescribeAddress, Goto, EndOrGo
  <2>3. ASSUME Disassociate(w) \/ Release(w) \/ Allocate(w) \/ CreateMissingTags(w) \/ Associate(w)
        PROVE  EndOrGo(w)
    BY <2>3 DEF Disassociate, Release, Allocate, CreateMissingTags, Associate, Goto, EndOrGo
  <2>4. ASSUME RejectTerminating(w) \/ AddTaint(w) \/ AddTaintAndStop(w) \/ RemoveTaint(w) \/ ApiError(w)
        PROVE  EndOrGo(w)
    BY <2>4 DEF RejectTerminating, AddTaint, AddTaintAndStop, RemoveTaint, ApiError, Goto, EndOrGo
  <2>5. EndOrGo(w) \/ \E n \in Nodes : Start(w, n)
    BY <2>2, <2>3, <2>4 DEF WorkerStep
  <2>6. CASE EndOrGo(w)
    BY <2>1, <2>6 DEF EndOrGo, Queue, Finish, Retry, EndReconcile
  <2> QED BY <1>1, <2>5, <2>6
<1>3. CASE pc[w] \notin Calls
  BY <1>1, <1>3 DEF WorkerStep, RejectTerminating, FindLegacy, DescribeLegacy, Disassociate, Release,
        DescribeInstance, AddTaint, AddTaintAndStop, RemoveTaint, FindByTags, Allocate,
        CreateMissingTags, DescribeAddress, Associate, ApiError, Calls, GoneCalls, NodeCalls
<1> QED BY <1>2, <1>3

\* A worker changes the node of its key by a patch, and no other.
LEMMA WorkerNodeSteps ==
    ASSUME TypeInv, NEW w \in Workers, WorkerStep(w)
    PROVE  NodeSteps
<1>1. CASE KeepApi
  BY <1>1, WorkerQueue DEF KeepApi, NodeSteps, NodeStep, CacheStep
<1>2. ASSUME NEW t \in BOOLEAN, NEW a \in Eips \cup {None}, PatchApi(w, t, a),
             NEW n \in Nodes
      PROVE  /\ cache' = cache /\ born' = born
             /\ \/ api'[n] = api[n]
                \/ /\ n = key[w] /\ api[n] # None /\ api'[n] \in NodeObject
                   /\ api'[n].taint = t /\ api'[n].anno = a
                   /\ api'[n].uid = api[n].uid /\ api'[n].ins = api[n].ins
  <2>1. api[n] # None => api[n] \in NodeObject
    BY DEF TypeInv, NodesType
  <2>2. api' = [api EXCEPT ![key[w]].taint = t, ![key[w]].anno = a]
    BY <1>2 DEF PatchApi
  <2>3. CASE n = key[w]
    <3>1. api[n] \in NodeObject
      BY <1>2, <2>1, <2>3 DEF PatchApi
    <3>2. api'[n] = [api[n] EXCEPT !.taint = t, !.anno = a]
      BY <2>2, <2>3, <3>1 DEF TypeInv, NodesType, NodeObject
    <3>3. /\ api'[n] \in NodeObject /\ api'[n].taint = t /\ api'[n].anno = a
          /\ api'[n].uid = api[n].uid /\ api'[n].ins = api[n].ins
      BY <3>1, <3>2 DEF NodeObject
    <3>4. api[n] # None
      BY <1>2, <2>3 DEF PatchApi
    <3> QED BY <1>2, <2>3, <3>3, <3>4 DEF PatchApi
  <2>4. CASE n # key[w]
    BY <1>2, <2>2, <2>4 DEF PatchApi, TypeInv, NodesType
  <2> QED BY <2>3, <2>4
<1>3. pc[w] \in NodeCalls =>
          /\ api[key[w]] # None => api[key[w]].anno \in Eips \cup {None}
          /\ node[w].anno \in Eips \cup {None} /\ cur[w] \in Eips \cup {None}
  <2>1. ASSUME NEW n \in Nodes, api[n] # None
        PROVE  api[n].anno \in Eips \cup {None}
    BY <2>1, AnnoType DEF TypeInv, NodesType
  <2> QED BY <2>1, WorkerHas, AnnoType DEF Calls, TypeInv, QueueInv
<1>4. CASE AddTaint(w) \/ AddTaintAndStop(w)
  <2>1. pc[w] \in {"taint", "taintStop"} /\ pc[w] \in NodeCalls
        /\ PatchApi(w, TRUE, api[key[w]].anno) /\ api[key[w]].anno \in Eips \cup {None}
    BY <1>3, <1>4 DEF AddTaint, AddTaintAndStop, NodeCalls, PatchApi
  <2>2. ASSUME NEW n \in Nodes
        PROVE  NodeStep(n) /\ CacheStep(n)
    <3>1. NodeStep(n)
      BY <1>2, <2>1 DEF NodeStep
    <3> QED BY <1>2, <2>1, <3>1, WorkerQueue DEF CacheStep
  <2> QED BY <2>2 DEF NodeSteps
<1>5. CASE RemoveTaint(w)
  <2> DEFINE a == IF node[w].anno = None THEN cur[w] ELSE node[w].anno
  <2>1. pc[w] = "untaint" /\ PatchApi(w, FALSE, a) /\ a \in Eips \cup {None}
    BY <1>3, <1>5 DEF RemoveTaint, NodeCalls
  <2> HIDE DEF a
  <2>2. ASSUME NEW n \in Nodes
        PROVE  NodeStep(n) /\ CacheStep(n)
    <3>1. NodeStep(n)
      BY <1>2, <2>1 DEF NodeStep, a
    <3> QED BY <1>2, <2>1, <3>1, WorkerQueue DEF CacheStep
  <2> QED BY <2>2 DEF NodeSteps
<1> QED BY <1>1, <1>4, <1>5 DEF WorkerStep, Start, RejectTerminating, FindLegacy, DescribeLegacy,
      Disassociate, Release, DescribeInstance, FindByTags, Allocate, CreateMissingTags,
      DescribeAddress, Associate, ApiError

\* The users and the informer.
LEMMA ClusterNodeSteps ==
    ASSUME TypeInv, NEW m \in Nodes,
           \/ NodeRegistered(m) \/ NodeRelabelled(m) \/ NodeTerminating(m) \/ NodeDeleted(m)
           \/ Observe(m) \/ OtherLabelShown(m),
           ClusterNext, UNCHANGED <<cloudVars, workerVars, crashes>>
    PROVE  NodeSteps
<1> SUFFICES ASSUME NEW n \in Nodes PROVE NodeStep(n) /\ CacheStep(n)
  BY DEF NodeSteps
<1>1. /\ api \in [Nodes -> NodeObject \cup {None}] /\ cache \in [Nodes -> NodeObject \cup {None}]
      /\ born \in [Nodes -> Nat]
      /\ api'[n] \in NodeObject \cup {None}
  BY TypeNext DEF TypeInv, NodesType, Next
<1>2. CASE NodeRegistered(m)
  <2>1. CacheStep(n) /\ (n # m => NodeStep(n))
    BY <1>1, <1>2 DEF NodeRegistered, CacheStep, NodeStep, Queue
  <2>2. CASE n = m
    <3>0. NodeRegistered(n)
      BY <1>2, <2>2
    <3>1. PICK i \in {j \in Instances : NameOf[j] = n /\ j \notin destroyed} \cup {None},
               l \in LabelChoices, t \in BOOLEAN :
               api' = [api EXCEPT ![n] = [ins |-> i, label |-> l, terminated |-> FALSE,
                                          taint |-> t, anno |-> None, uid |-> born[n] + 1]]
      BY <3>0 DEF NodeRegistered
    <3>2. api'[n] \in NodeObject
      BY <1>1, <3>1, WatchAssumption DEF NodeObject
    <3>3. api[n] = None /\ born[n] < MaxIncarnations /\ born'[n] = born[n] + 1
      BY <1>1, <1>2, <2>2 DEF NodeRegistered
    <3>4. api'[n].uid = born'[n] /\ api'[n].anno = None /\ (api'[n].ins # None => NameOf[api'[n].ins] = n)
      BY <1>1, <3>1, <3>3
    <3> QED BY <2>1, <3>2, <3>3, <3>4 DEF NodeStep
  <2> QED BY <2>1, <2>2
<1>3. CASE NodeRelabelled(m) \/ NodeTerminating(m)
  <2>1. CacheStep(n) /\ (n # m => NodeStep(n))
    BY <1>1, <1>3 DEF NodeRelabelled, NodeTerminating, CacheStep, NodeStep, Queue
  <2>2. CASE n = m
    <3>1. api[n] \in NodeObject /\ born'[n] = born[n]
      BY <1>1, <1>3, <2>2 DEF NodeRelabelled, NodeTerminating
    <3>2. \/ api[n].ins = None /\ \E i \in Instances : NameOf[i] = n /\ api'[n] = [api[n] EXCEPT !.ins = i]
          \/ \E l \in BOOLEAN : api'[n] = [api[n] EXCEPT !.label = l]
          \/ api'[n] = [api[n] EXCEPT !.terminated = TRUE]
      BY <1>1, <1>3, <2>2, WatchAssumption DEF NodeRelabelled, NodeTerminating
    <3>3. api'[n] \in NodeObject
      BY <3>1, <3>2 DEF NodeObject
    <3>4. /\ api'[n].taint = api[n].taint /\ api'[n].anno = api[n].anno /\ api'[n].uid = api[n].uid
          /\ \/ api'[n].ins = api[n].ins
             \/ api[n].ins = None /\ api'[n].ins \in Instances /\ NameOf[api'[n].ins] = n
      BY <3>1, <3>2 DEF NodeObject
    <3>5. api[n] # None
      BY <3>1, WatchAssumption
    <3> QED BY <2>1, <3>1, <3>3, <3>4, <3>5 DEF NodeStep
  <2> QED BY <2>1, <2>2
<1>4. CASE NodeDeleted(m)
  BY <1>1, <1>4 DEF NodeDeleted, NodeStep, CacheStep, Queue
<1>5. CASE Observe(m)
  <2>1. NodeStep(n) /\ (n # m => CacheStep(n))
    BY <1>1, <1>5 DEF Observe, ProcessNodeCreate, ProcessNodeUpdate, ProcessNodeDelete, Enqueue,
        NodeStep, CacheStep, Queue
  <2>2. CASE ProcessNodeCreate(n) \/ ProcessNodeUpdate(n)
    BY <1>1, <2>1, <2>2 DEF ProcessNodeCreate, ProcessNodeUpdate, Enqueue, CacheStep, Queue
  <2>3. CASE ProcessNodeDelete(n)
    BY <1>1, <2>1, <2>3 DEF ProcessNodeDelete, CacheStep
  <2> QED BY <1>5, <2>1, <2>2, <2>3 DEF Observe
<1>6. CASE OtherLabelShown(m)
  BY <1>1, <1>6 DEF OtherLabelShown, Enqueue, NodeStep, CacheStep, Queue
<1> QED BY <1>2, <1>3, <1>4, <1>5, <1>6

\* Every step.
LEMMA NextNodes ==
    ASSUME TypeInv, Next
    PROVE  NodeSteps
<1>1. CASE ClusterNext /\ UNCHANGED <<cloudVars, workerVars, crashes>>
  BY <1>1, ClusterNodeSteps DEF ClusterNext
<1>2. CASE CloudNext /\ UNCHANGED <<watchVars, workerVars, crashes>>
  BY <1>2 DEF watchVars, NodeSteps, NodeStep, CacheStep, Queue
<1>3. CASE Crash
  BY <1>3 DEF Crash, NodeSteps, NodeStep, CacheStep, Queue, TypeInv
<1> QED BY <1>1, <1>2, <1>3, WorkerNodeSteps DEF Next

\* An address that has been allocated keeps its name and is never fresh again.
NamesStay == \A e \in Eips : eip[e].status # "UNUSED" =>
                 eip'[e].status # "UNUSED" /\ eip'[e].name = eip[e].name

LEMMA NextNames ==
    ASSUME TypeInv, Next
    PROVE  NamesStay /\ IndexNamed
BY NextAddresses DEF AddressSteps, AddressStep, NamesStay

\* A step of one worker leaves the others where they are.
LEMMA OneWorker ==
    ASSUME TypeInv, NEW w \in Workers, WorkerStep(w), NEW v \in Workers, v # w
    PROVE  pc'[v] = pc[v] /\ key'[v] = key[v] /\ node'[v] = node[v] /\ cur'[v] = cur[v]
<1> DEFINE Same == pc'[v] = pc[v] /\ key'[v] = key[v] /\ node'[v] = node[v] /\ cur'[v] = cur[v]
<1>1. ASSUME NEW n \in Nodes, Start(w, n)
      PROVE  Same
  BY <1>1 DEF Start, TypeInv, QueueInv
<1>2. ASSUME NEW call, NEW e, Goto(w, call, e)
      PROVE  Same
  BY <1>2 DEF Goto, TypeInv, QueueInv
<1>3. ASSUME Finish(w) \/ Retry(w)
      PROVE  Same
  BY <1>3 DEF Finish, Retry, EndReconcile, TypeInv, QueueInv
<1>4. CASE RejectTerminating(w) \/ FindLegacy(w) \/ DescribeLegacy(w) \/ Disassociate(w) \/ Release(w)
  BY <1>2, <1>3, <1>4 DEF RejectTerminating, FindLegacy, DescribeLegacy, Disassociate, Release
<1>5. CASE DescribeInstance(w)
  BY <1>2, <1>3, <1>5 DEF DescribeInstance, JudgeType, TaintFirst, Settle
<1>6. CASE AddTaint(w)
  <2>1. CASE Retry(w)
    BY <1>3, <2>1
  <2>2. CASE /\ pc' = [pc EXCEPT ![w] = "tags"] /\ node' = [node EXCEPT ![w] = api'[key[w]]]
             /\ UNCHANGED <<key, cur, dirty, processing>>
    BY <2>2 DEF TypeInv, QueueInv
  <2> QED BY <1>6, <2>1, <2>2 DEF AddTaint
<1>7. CASE AddTaintAndStop(w) \/ RemoveTaint(w) \/ FindByTags(w) \/ Allocate(w)
  BY <1>2, <1>3, <1>7 DEF AddTaintAndStop, RemoveTaint, FindByTags, Allocate
<1>8. CASE CreateMissingTags(w) \/ DescribeAddress(w) \/ Associate(w) \/ ApiError(w)
  BY <1>2, <1>3, <1>8 DEF CreateMissingTags, DescribeAddress, Settle, Associate, ApiError
<1> QED BY <1>1, <1>4, <1>5, <1>6, <1>7, <1>8 DEF WorkerStep
=============================================================================

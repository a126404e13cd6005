------------------------ MODULE Reconciler_safety_proof ------------------------
(***************************************************************************)
(* What the controller promises about addresses, proved of Reconciler for  *)
(* all constants under which the tag index does not lag (TagLag = FALSE):  *)
(*   AddressesUnique   a node never owns two addresses                     *)
(*   NothingForgotten  no address is left behind while its deletion is     *)
(*                     known to the queue or still to be shown             *)
(* Both follow from IInv, which is inductive.                              *)
(***************************************************************************)
EXTENDS Reconciler_proof

Legacy == {"describeGone", "disassociate", "release"}

\* The part of IInv that the types do not give.
AddressInv ==
    /\ IndexExact /\ NamesKept /\ NothingAllocatedYet /\ OneAddressPerNode
    /\ LegacyOfKey /\ DeletionPending /\ NoSilentLeak

\* A step that neither allocates nor releases.
SameAddresses ==
    /\ indexed' = indexed
    /\ \A e \in Eips : /\ eip'[e].name = eip[e].name
                       /\ eip'[e].status = "UNUSED" <=> eip[e].status = "UNUSED"
                       /\ eip'[e].status = "RELEASED" <=> eip[e].status = "RELEASED"

\* A step after which the same nodes exist, and the cache is what it was.
SameNodes ==
    /\ UNCHANGED <<cache, unseen>>
    /\ \A n \in Nodes : api'[n] = None <=> api[n] = None

NoneOwned(n) == \A e \in Eips : Live(e) => eip[e].name # n

\* The invariant of the model is the type invariant and the part about addresses.
LEMMA IInvParts == IInv <=> TypeInv /\ AddressInv
BY TypeInvParts DEF IInv, AddressInv

\* Every live address carries the name of a node.
LEMMA LiveNamed ==
    ASSUME TypeInv, NamesKept, NEW e \in Eips, Live(e)
    PROVE  eip[e].name \in Nodes
BY DEF TypeInv, CloudTypeOK, Address, NamesKept, Live

\* The facts about addresses alone survive a step that neither allocates nor releases.
LEMMA SameKept ==
    ASSUME AddressInv, SameAddresses
    PROVE  IndexExact' /\ NamesKept' /\ OneAddressPerNode'
BY DEF AddressInv, SameAddresses, IndexExact, NamesKept, OneAddressPerNode, Live

-----------------------------------------------------------------------------
\* A worker goes on to its next call.
LEMMA GotoSafe ==
    ASSUME TypeInv, AddressInv, NEW w \in Workers, NEW call \in Calls, NEW e \in Eips \cup {None},
           pc' = [pc EXCEPT ![w] = call], cur' = [cur EXCEPT ![w] = e],
           UNCHANGED <<key, dirty, processing>>,
           SameAddresses, SameNodes,
           call = "allocate" => NoneOwned(key[w]),
           call \in Legacy => e \in Eips /\ eip[e].name = key[w],
           call \in NodeCalls => pc[w] \in NodeCalls
    PROVE  AddressInv'
<1>1. IndexExact' /\ NamesKept' /\ OneAddressPerNode'
  BY SameKept
<1>2. pc'[w] = call /\ cur'[w] = e
  BY DEF TypeInv, QueueInv
<1>3. \A v \in Workers : v # w => pc'[v] = pc[v] /\ cur'[v] = cur[v]
  BY DEF TypeInv, QueueInv
<1>4. NothingAllocatedYet'
  BY <1>2, <1>3 DEF AddressInv, NothingAllocatedYet, NoneOwned, SameAddresses, Live
<1>5. LegacyOfKey'
  <2>1. ASSUME NEW v \in Workers, pc'[v] \in Legacy
        PROVE  eip'[cur'[v]].name = key'[v]
    <3>1. CASE v = w
      BY <1>2, <2>1, <3>1 DEF SameAddresses
    <3>2. CASE v # w
      <4>1. cur[v] \in Eips
        BY <1>3, <2>1, <3>2 DEF TypeInv, QueueInv, WorkersOK, Busy, Legacy
      <4> QED BY <1>3, <2>1, <3>2, <4>1 DEF AddressInv, LegacyOfKey, SameAddresses, Legacy
    <3> QED BY <3>1, <3>2
  <2> QED BY <2>1 DEF LegacyOfKey, Legacy
<1>6. DeletionPending'
  BY <1>2, <1>3 DEF AddressInv, DeletionPending, SameNodes
<1>7. NoSilentLeak'
  BY LiveNamed DEF AddressInv, NoSilentLeak, SameAddresses, SameNodes, Live
<1> QED BY <1>1, <1>4, <1>5, <1>6, <1>7 DEF AddressInv

\* A worker ends its reconcile.  It may drop the key if it served a node, or if no
\* address carries that name.
LEMMA EndSafe ==
    ASSUME TypeInv, AddressInv, NEW w \in Workers, pc[w] \in Calls, SameAddresses, SameNodes,
           Retry(w) \/ (Finish(w) /\ (pc[w] \in NodeCalls \/ NoneOwned(key[w])))
    PROVE  AddressInv'
<1>1. IndexExact' /\ NamesKept' /\ OneAddressPerNode'
  BY SameKept
<1>2. /\ EndReconcile(w) /\ dirty \subseteq dirty'
      /\ key[w] \in dirty' \/ pc[w] \in NodeCalls \/ NoneOwned(key[w])
  BY DEF Finish, Retry
<1>3. pc'[w] = "idle"
  BY <1>2 DEF EndReconcile, TypeInv, QueueInv
<1>4. \A v \in Workers : v # w => pc'[v] = pc[v] /\ cur'[v] = cur[v] /\ key'[v] = key[v]
  BY <1>2 DEF EndReconcile, TypeInv, QueueInv
<1>5. NothingAllocatedYet'
  BY <1>3, <1>4 DEF AddressInv, NothingAllocatedYet, SameAddresses, Live
<1>6. LegacyOfKey'
  <2>1. ASSUME NEW v \in Workers, pc'[v] \in Legacy
        PROVE  eip'[cur'[v]].name = key'[v]
    <3>1. v # w
      BY <1>3, <2>1 DEF Legacy
    <3>2. cur[v] \in Eips
      BY <1>4, <2>1, <3>1 DEF TypeInv, QueueInv, WorkersOK, Busy, Legacy
    <3> QED BY <1>4, <2>1, <3>1, <3>2 DEF AddressInv, LegacyOfKey, SameAddresses, Legacy
  <2> QED BY <2>1 DEF LegacyOfKey, Legacy
<1>7. DeletionPending'
  BY <1>2, <1>3, <1>4 DEF AddressInv, DeletionPending, SameNodes, NodeCalls
<1>8. NoSilentLeak'
  <2>1. SUFFICES ASSUME NEW e \in Eips, Live(e)'
                 PROVE  \/ api'[eip'[e].name] # None \/ cache'[eip'[e].name] # None
                        \/ eip'[e].name \in dirty' \cup processing' \cup unseen'
    BY DEF NoSilentLeak
  <2> DEFINE n == eip[e].name
  <2>2. Live(e) /\ eip'[e].name = n /\ n \in Nodes
    BY <2>1, LiveNamed DEF SameAddresses, Live, AddressInv
  <2>3. api[n] # None \/ cache[n] # None \/ n \in dirty \cup processing \cup unseen
    BY <2>2 DEF AddressInv, NoSilentLeak
  <2>4. CASE n = key[w]
    BY <1>2, <2>2, <2>3, <2>4 DEF AddressInv, DeletionPending, NoneOwned, SameNodes
  <2>5. CASE n # key[w]
    BY <1>2, <2>2, <2>3, <2>5 DEF EndReconcile, SameNodes
  <2> QED BY <2>4, <2>5
<1> QED BY <1>1, <1>5, <1>6, <1>7, <1>8 DEF AddressInv

\* A step that leaves the workers and the addresses alone.
LEMMA CloudTaskSafe ==
    ASSUME TypeInv, AddressInv, SameAddresses, UNCHANGED <<watchVars, workerVars>>
    PROVE  AddressInv'
<1>1. IndexExact' /\ NamesKept' /\ OneAddressPerNode'
  BY SameKept
<1>2. NothingAllocatedYet' /\ DeletionPending'
  BY DEF AddressInv, NothingAllocatedYet, DeletionPending, SameAddresses, Live, watchVars, workerVars
<1>3. LegacyOfKey'
  BY DEF AddressInv, LegacyOfKey, SameAddresses, workerVars, TypeInv, QueueInv, WorkersOK, Busy
<1>4. NoSilentLeak'
  BY DEF AddressInv, NoSilentLeak, SameAddresses, Live, watchVars
<1> QED BY <1>1, <1>2, <1>3, <1>4 DEF AddressInv

-----------------------------------------------------------------------------
(***************************************************************************)
(* The steps that change which addresses there are, or which keys are      *)
(* known, one lemma each.                                                  *)
(***************************************************************************)

\* Calls that ask, and calls that bind or unbind, keep the same addresses.
LEMMA QuietCalls ==
    ASSUME TypeInv, NEW e \in Eips, NEW i,
           \/ UNCHANGED cloudVars \/ AssociateAddress(e, i) \/ DisassociateAddress(e)
           \/ BindingDone(e) \/ UnbindingDone(e)
    PROVE  SameAddresses
<1> USE DEF SameAddresses, TypeInv, CloudTypeOK, Address
<1>1. CASE UNCHANGED cloudVars
  BY <1>1 DEF cloudVars
<1>2. CASE AssociateAddress(e, i)
  BY <1>2 DEF AssociateAddress
<1>3. CASE DisassociateAddress(e)
  BY <1>3 DEF DisassociateAddress
<1>4. CASE BindingDone(e)
  BY <1>4 DEF BindingDone
<1>5. CASE UnbindingDone(e)
  BY <1>5 DEF UnbindingDone
<1> QED BY <1>1, <1>2, <1>3, <1>4, <1>5

\* An allocation for a key that has no address, whatever the worker then does.
LEMMA AllocateSafe ==
    ASSUME TagLag = FALSE, TypeInv, AddressInv, NEW w \in Workers, Allocate(w)
    PROVE  AddressInv'
<1>1. PICK e \in Eips : /\ AllocateAddresses(e, key[w], node[w].ins)
                       /\ \/ Goto(w, "describeEip", e) \/ Goto(w, "createTags", None) \/ Retry(w)
  BY DEF Allocate
<1>2. pc[w] \in Calls /\ pc[w] \in NodeCalls /\ pc[w] = "allocate" /\ Busy(w) /\ key[w] \in Nodes
  BY WorkerHas DEF Allocate, Calls, NodeCalls
<1>3. NoneOwned(key[w])
  BY <1>2 DEF AddressInv, NothingAllocatedYet, NoneOwned
<1>4. /\ eip'[e].name = key[w] /\ eip'[e].status = "UNBIND"
      /\ eip[e].status = "UNUSED"
      /\ \A f \in Eips : f # e => eip'[f] = eip[f]
      /\ indexed' = indexed \cup {e}
  BY <1>1 DEF AllocateAddresses, TypeInv, CloudTypeOK
<1>5. cache' = cache /\ api' = api /\ unseen' = unseen
  BY DEF Allocate, KeepApi
<1>6. /\ \A v \in Workers : v # w => pc'[v] = pc[v] /\ cur'[v] = cur[v] /\ key'[v] = key[v]
      /\ pc'[w] \in {"describeEip", "createTags", "idle"}
      /\ pc'[w] # "idle" => key'[w] = key[w] /\ key[w] \in processing'
      /\ processing \ {key[w]} \subseteq processing'
      /\ dirty \subseteq dirty'
      /\ key[w] \in dirty' \cup processing'
  BY <1>1, <1>2, WorkerHas DEF Goto, Retry, EndReconcile, TypeInv, QueueInv
<1>7. IndexExact' /\ NamesKept'
  BY <1>2, <1>4, CloudAssumption DEF AddressInv, IndexExact, NamesKept, Live
<1>8. OneAddressPerNode'
  BY <1>3, <1>4 DEF AddressInv, OneAddressPerNode, NoneOwned, Live
<1>9. NothingAllocatedYet'
  <2>1. ASSUME NEW v \in Workers, pc'[v] = "allocate"
        PROVE  v # w /\ pc[v] = "allocate" /\ key'[v] = key[v] /\ key[v] # key[w]
    BY <1>2, <1>6, <2>1 DEF TypeInv, QueueInv, KeysExclusive, Busy
  <2> QED BY <1>4, <2>1 DEF AddressInv, NothingAllocatedYet, Live
<1>10. LegacyOfKey'
  <2>1. ASSUME NEW v \in Workers, pc'[v] \in Legacy
        PROVE  eip'[cur'[v]].name = key'[v]
    <3>1. v # w /\ pc[v] \in Legacy
      BY <1>6, <2>1 DEF Legacy
    <3>2. cur[v] \in Eips /\ key[v] \in Nodes /\ eip[cur[v]].name = key[v]
      BY <3>1 DEF TypeInv, QueueInv, WorkersOK, Busy, Legacy, AddressInv, LegacyOfKey
    <3>3. cur[v] # e
      BY <1>4, <3>2, CloudAssumption DEF AddressInv, NamesKept
    <3> QED BY <1>4, <1>6, <3>1, <3>2, <3>3
  <2> QED BY <2>1 DEF LegacyOfKey, Legacy
<1>11. DeletionPending'
  BY <1>2, <1>5, <1>6 DEF AddressInv, DeletionPending, NodeCalls
<1>12. NoSilentLeak'
  <2>1. SUFFICES ASSUME NEW f \in Eips, Live(f)'
                 PROVE  \/ api'[eip'[f].name] # None \/ cache'[eip'[f].name] # None
                        \/ eip'[f].name \in dirty' \cup processing' \cup unseen'
    BY DEF NoSilentLeak
  <2>2. CASE f = e
    BY <1>4, <1>6, <2>2
  <2>3. CASE f # e
    BY <1>4, <1>5, <1>6, <2>1, <2>3 DEF AddressInv, NoSilentLeak, Live
  <2> QED BY <2>2, <2>3
<1> QED BY <1>7, <1>8, <1>9, <1>10, <1>11, <1>12 DEF AddressInv

\* A release of the one address of the key, after which the key may be dropped.
LEMMA ReleaseSafe ==
    ASSUME TagLag = FALSE, TypeInv, AddressInv, NEW w \in Workers, Release(w)
    PROVE  AddressInv'
<1> DEFINE e == cur[w]
<1>1. pc[w] = "release" /\ ReleaseAddresses(e) /\ (Finish(w) \/ Retry(w))
  BY DEF Release
<1>2. Busy(w) /\ key[w] \in Nodes /\ e \in Eips /\ eip[e].name = key[w]
  BY <1>1, WorkerHas DEF Calls, GoneCalls, Holding, AddressInv, LegacyOfKey
<1>3. /\ eip'[e].name = key[w] /\ eip'[e].status = "RELEASED" /\ eip[e].status = "UNBIND"
      /\ \A f \in Eips : f # e => eip'[f] = eip[f]
      /\ indexed' = indexed \ {e}
  BY <1>1, <1>2 DEF ReleaseAddresses, TypeInv, CloudTypeOK, Address
<1>4. cache' = cache /\ api' = api /\ unseen' = unseen
  BY DEF Release, KeepApi
<1>5. /\ \A v \in Workers : v # w => pc'[v] = pc[v] /\ cur'[v] = cur[v] /\ key'[v] = key[v]
      /\ pc'[w] = "idle"
      /\ processing' = processing \ {key[w]}
      /\ dirty \subseteq dirty'
  BY <1>1 DEF Finish, Retry, EndReconcile, TypeInv, QueueInv
<1>6. IndexExact' /\ NamesKept' /\ OneAddressPerNode'
  BY <1>2, <1>3, CloudAssumption
     DEF AddressInv, IndexExact, NamesKept, OneAddressPerNode, Live
<1>7. NothingAllocatedYet'
  BY <1>3, <1>5 DEF AddressInv, NothingAllocatedYet, Live
<1>8. LegacyOfKey'
  <2>1. \A f \in Eips : eip'[f].name = eip[f].name
    BY <1>2, <1>3
  <2>2. \A v \in Workers : pc'[v] \in Legacy => v # w /\ cur[v] \in Eips
    BY <1>5 DEF TypeInv, QueueInv, WorkersOK, Busy, Legacy
  <2> QED BY <1>5, <2>1, <2>2 DEF AddressInv, LegacyOfKey, Legacy
<1>9. DeletionPending'
  BY <1>4, <1>5 DEF AddressInv, DeletionPending, NodeCalls
<1>10. NoSilentLeak'
  <2>1. SUFFICES ASSUME NEW f \in Eips, Live(f)'
                 PROVE  \/ api'[eip'[f].name] # None \/ cache'[eip'[f].name] # None
                        \/ eip'[f].name \in dirty' \cup processing' \cup unseen'
    BY DEF NoSilentLeak
  <2>2. f # e /\ Live(f) /\ eip'[f] = eip[f]
    BY <1>3, <2>1 DEF Live
  <2>3. eip[f].name # key[w]
    BY <1>2, <1>3, <2>2 DEF AddressInv, OneAddressPerNode, Live
  <2> QED BY <1>4, <1>5, <2>2, <2>3 DEF AddressInv, NoSilentLeak
<1> QED BY <1>6, <1>7, <1>8, <1>9, <1>10 DEF AddressInv

\* A key enters work: it leaves the queue, and the cache decides what is done for it.
LEMMA StartSafe ==
    ASSUME TypeInv, AddressInv, NEW w \in Workers, NEW n \in Nodes, Start(w, n)
    PROVE  AddressInv'
<1>1. UNCHANGED <<eip, indexed, api, cache, unseen, cur>>
  BY DEF Start, KeepCloud, KeepApi, cloudVars
<1>2. /\ key'[w] = n /\ pc'[w] = FirstCall(cache[n]) /\ ~Busy(w)
      /\ \A v \in Workers : v # w => pc'[v] = pc[v] /\ key'[v] = key[v]
      /\ dirty' = dirty \ {n} /\ processing' = processing \cup {n} /\ n \notin processing
  BY DEF Start, TypeInv, QueueInv, Busy
<1>3. pc'[w] \notin Legacy /\ pc'[w] # "allocate" /\ (pc'[w] \in NodeCalls => cache[n] # None)
  BY <1>2 DEF FirstCall, Legacy, NodeCalls
<1>4. IndexExact' /\ NamesKept' /\ OneAddressPerNode'
  BY <1>1 DEF AddressInv, IndexExact, NamesKept, OneAddressPerNode, Live
<1>5. NothingAllocatedYet'
  BY <1>1, <1>2, <1>3 DEF AddressInv, NothingAllocatedYet, Live
<1>6. LegacyOfKey'
  BY <1>1, <1>2, <1>3 DEF AddressInv, LegacyOfKey, Legacy
<1>7. DeletionPending'
  <2>1. ASSUME NEW v \in Workers, pc'[v] \in NodeCalls
        PROVE  cache'[key'[v]] # None \/ key'[v] \in dirty' \cup unseen'
    <3>1. CASE v = w
      BY <1>1, <1>2, <1>3, <2>1, <3>1
    <3>2. CASE v # w
      <4>1. key[v] # n
        BY <1>2, <2>1, <3>2 DEF TypeInv, QueueInv, WorkersOK, Busy, NodeCalls
      <4> QED BY <1>1, <1>2, <2>1, <3>2, <4>1 DEF AddressInv, DeletionPending
    <3> QED BY <3>1, <3>2
  <2> QED BY <2>1 DEF DeletionPending
<1>8. NoSilentLeak'
  BY <1>1, <1>2 DEF AddressInv, NoSilentLeak, Live
<1> QED BY <1>4, <1>5, <1>6, <1>7, <1>8 DEF AddressInv

\* The nodes change, or the informer shows a change: whatever drops a node from the
\* cache queues its key or records that its deletion was not seen.
LEMMA ClusterSafe ==
    ASSUME TypeInv, AddressInv, NEW n \in Nodes,
           \/ NodeRegistered(n) \/ NodeRelabelled(n) \/ NodeTerminating(n) \/ NodeDeleted(n)
           \/ Observe(n) \/ OtherLabelShown(n),
           UNCHANGED <<cloudVars, workerVars, crashes>>
    PROVE  AddressInv'
<1>1. UNCHANGED <<eip, indexed, pc, key, node, cur, processing>> /\ dirty \subseteq dirty'
  BY DEF cloudVars, workerVars, NodeRegistered, NodeRelabelled, NodeTerminating, NodeDeleted,
         Observe, ProcessNodeCreate, ProcessNodeUpdate, ProcessNodeDelete, OtherLabelShown, Enqueue
<1>2. ASSUME NEW m \in Nodes, m # n
      PROVE  /\ cache'[m] = cache[m] /\ api'[m] = api[m]
             /\ m \in unseen => m \in unseen'
  BY <1>2 DEF TypeInv, NodesType, NodeRegistered, NodeRelabelled, NodeTerminating, NodeDeleted,
     Observe, ProcessNodeCreate, ProcessNodeUpdate, ProcessNodeDelete, OtherLabelShown
<1>3. /\ cache[n] # None \/ n \in unseen => cache'[n] # None \/ n \in dirty' \cup unseen'
      /\ api[n] # None => \/ api'[n] # None \/ cache'[n] # None
                          \/ n \in dirty' \cup processing' \cup unseen'
  <2> USE DEF TypeInv, NodesType
  <2>1. CASE NodeRegistered(n)
    BY <2>1 DEF NodeRegistered
  <2>2. CASE NodeRelabelled(n)
    <3>1. api[n] # None /\ UNCHANGED <<cache, dirty, processing, unseen>>
      BY <2>2 DEF NodeRelabelled
    <3>2. \/ \E i \in Instances : api'[n] = [api[n] EXCEPT !.ins = i]
          \/ \E l \in BOOLEAN : api'[n] = [api[n] EXCEPT !.label = l]
      BY <2>2, WatchAssumption DEF NodeRelabelled
    <3>3. /\ \A i \in Instances : [api[n] EXCEPT !.ins = i] \in NodeObject
          /\ \A l \in BOOLEAN : [api[n] EXCEPT !.label = l] \in NodeObject
      BY <3>1 DEF NodeObject
    <3> QED BY <3>1, <3>2, <3>3, WatchAssumption
  <2>3. CASE NodeTerminating(n)
    <3>1. api'[n] = [api[n] EXCEPT !.terminated = TRUE] /\ api[n] \in NodeObject
      BY <2>3 DEF NodeTerminating
    <3>2. api'[n] \in NodeObject
      BY <3>1 DEF NodeObject
    <3> QED BY <2>3, <3>2, WatchAssumption DEF NodeTerminating
  <2>4. CASE NodeDeleted(n)
    BY <1>1, <2>4 DEF NodeDeleted
  <2>5. CASE ProcessNodeCreate(n)
    BY <2>5 DEF ProcessNodeCreate
  <2>6. CASE ProcessNodeUpdate(n)
    BY <2>6 DEF ProcessNodeUpdate
  <2>7. CASE ProcessNodeDelete(n)
    BY <2>7 DEF ProcessNodeDelete, Enqueue
  <2>8. CASE OtherLabelShown(n)
    BY <2>8 DEF OtherLabelShown
  <2> QED BY <2>1, <2>2, <2>3, <2>4, <2>5, <2>6, <2>7, <2>8 DEF Observe
<1>4. IndexExact' /\ NamesKept' /\ OneAddressPerNode' /\ NothingAllocatedYet' /\ LegacyOfKey'
  BY <1>1 DEF AddressInv, IndexExact, NamesKept, OneAddressPerNode, NothingAllocatedYet,
     LegacyOfKey, Live
<1>5. DeletionPending'
  BY <1>1, <1>2, <1>3 DEF AddressInv, DeletionPending, TypeInv, QueueInv, WorkersOK, Busy, NodeCalls
<1>6. NoSilentLeak'
  <2>1. SUFFICES ASSUME NEW e \in Eips, Live(e)
                 PROVE  \/ api'[eip[e].name] # None \/ cache'[eip[e].name] # None
                        \/ eip[e].name \in dirty' \cup processing' \cup unseen'
    BY <1>1 DEF NoSilentLeak, Live
  <2>2. eip[e].name \in Nodes
    BY <2>1, LiveNamed DEF AddressInv
  <2> QED BY <1>1, <1>2, <1>3, <2>1, <2>2 DEF AddressInv, NoSilentLeak
<1> QED BY <1>4, <1>5, <1>6 DEF AddressInv

\* A crash forgets queue and cache; names that are gone by then are recorded as unseen.
LEMMA CrashSafe ==
    ASSUME TypeInv, AddressInv, Crash
    PROVE  AddressInv'
<1>1. UNCHANGED <<eip, indexed, api>> /\ \A w \in Workers : pc'[w] = "idle"
  BY DEF Crash, cloudVars
<1>2. IndexExact' /\ NamesKept' /\ OneAddressPerNode'
  BY <1>1 DEF AddressInv, IndexExact, NamesKept, OneAddressPerNode, Live
<1>3. NothingAllocatedYet' /\ LegacyOfKey' /\ DeletionPending'
  BY <1>1 DEF NothingAllocatedYet, LegacyOfKey, DeletionPending, NodeCalls
<1>4. NoSilentLeak'
  <2>1. \A n \in Nodes : api'[n] # None \/ n \in unseen'
    BY <1>1 DEF Crash
  <2>2. \A e \in Eips : Live(e)' => eip'[e].name \in Nodes
    BY <1>1, LiveNamed DEF AddressInv, Live
  <2> QED BY <2>1, <2>2 DEF NoSilentLeak
<1> QED BY <1>2, <1>3, <1>4 DEF AddressInv

-----------------------------------------------------------------------------
\* The instance is destroyed, or tags are created: the addresses stay the same.
LEMMA QuietChanges ==
    ASSUME TypeInv, NEW i, NEW n, InstanceDestroyed(i) \/ CreateTags(n, i)
    PROVE  SameAddresses
<1>1. CASE InstanceDestroyed(i)
  BY <1>1 DEF InstanceDestroyed, SameAddresses, TypeInv, CloudTypeOK, Address
<1>2. CASE CreateTags(n, i)
  BY <1>2 DEF CreateTags, SameAddresses
<1> QED BY <1>1, <1>2

\* A step that leaves the nodes alone.
LEMMA NodesKept == KeepApi => SameNodes
BY DEF KeepApi, SameNodes

\* A patch leaves a node where there was one.
LEMMA PatchKeeps ==
    ASSUME TypeInv, NEW w \in Workers, key[w] \in Nodes, NEW t \in BOOLEAN,
           NEW a \in Eips \cup {None}, PatchApi(w, t, a)
    PROVE  SameNodes
<1>1. api[key[w]] \in NodeObject
  BY DEF TypeInv, NodesType, PatchApi
<1>2. api' = [api EXCEPT ![key[w]] = [api[key[w]] EXCEPT !.taint = t, !.anno = a]]
  BY <1>1 DEF PatchApi, TypeInv, NodesType, NodeObject
<1>3. [api[key[w]] EXCEPT !.taint = t, !.anno = a] # None
  <2>1. [api[key[w]] EXCEPT !.taint = t, !.anno = a] \in NodeObject
    BY <1>1 DEF NodeObject
  <2> QED BY <2>1, WatchAssumption
<1> QED BY <1>1, <1>2, <1>3 DEF SameNodes, PatchApi, TypeInv, NodesType

\* The reconcile of a name whose node is gone.
LEMMA GoneSafe ==
    ASSUME TagLag = FALSE, TypeInv, AddressInv, NEW w \in Workers,
           FindLegacy(w) \/ DescribeLegacy(w) \/ Disassociate(w) \/ Release(w)
    PROVE  AddressInv'
<1>1. pc[w] \in Calls /\ pc[w] \in GoneCalls /\ key[w] \in Nodes /\ Busy(w)
  <2>1. pc[w] \in Calls /\ pc[w] \in GoneCalls
    BY DEF FindLegacy, DescribeLegacy, Disassociate, Release, Calls, GoneCalls
  <2> QED BY <2>1, WorkerHas
<1>2. CASE FindLegacy(w)
  <2>1. SameAddresses /\ SameNodes
    BY <1>2, NodesKept DEF FindLegacy, KeepCloud, cloudVars, SameAddresses
  <2>2. CASE RowsByTags(key[w]) = {} /\ Finish(w)
    <3>1. NoneOwned(key[w])
      BY <2>2 DEF RowsByTags, AddressInv, IndexExact, NoneOwned
    <3> QED BY <1>1, <2>1, <2>2, <3>1, EndSafe
  <2>3. ASSUME NEW e \in RowsByTags(key[w]), Goto(w, "describeGone", e)
        PROVE  AddressInv'
    <3>1. e \in Eips /\ eip[e].name = key[w]
      BY DEF RowsByTags, TypeInv, CloudTypeOK
    <3> QED BY <1>1, <2>1, <2>3, <3>1, GotoSafe DEF Goto, Calls, GoneCalls, NodeCalls
  <2> QED BY <1>2, <2>2, <2>3 DEF FindLegacy
<1>3. CASE DescribeLegacy(w)
  <2>1. SameAddresses /\ SameNodes
    BY <1>3, NodesKept DEF DescribeLegacy, KeepCloud, cloudVars, SameAddresses
  <2>2. cur[w] \in Eips /\ eip[cur[w]].name = key[w]
    BY <1>1, <1>3, WorkerHas DEF DescribeLegacy, Holding, AddressInv, LegacyOfKey
  <2>3. \/ Goto(w, "release", cur[w]) \/ Goto(w, "disassociate", cur[w]) \/ Retry(w)
    BY <1>3 DEF DescribeLegacy
  <2>4. CASE Retry(w)
    BY <1>1, <2>1, <2>4, EndSafe
  <2>5. CASE Goto(w, "release", cur[w]) \/ Goto(w, "disassociate", cur[w])
    BY <1>1, <2>1, <2>2, <2>5, GotoSafe DEF Goto, Calls, GoneCalls, NodeCalls
  <2> QED BY <2>3, <2>4, <2>5
<1>4. CASE Disassociate(w)
  <2>1. cur[w] \in Eips /\ eip[cur[w]].name = key[w]
    BY <1>1, <1>4, WorkerHas DEF Disassociate, Holding, AddressInv, LegacyOfKey
  <2>2. SameAddresses /\ SameNodes
    BY <1>4, <2>1, QuietCalls, NodesKept DEF Disassociate
  <2>3. CASE Retry(w)
    BY <1>1, <2>2, <2>3, EndSafe
  <2>4. CASE Goto(w, "release", cur[w])
    BY <1>1, <2>1, <2>2, <2>4, GotoSafe DEF Goto, Calls, GoneCalls, NodeCalls
  <2> QED BY <1>4, <2>3, <2>4 DEF Disassociate
<1>5. CASE Release(w)
  BY <1>5, ReleaseSafe
<1> QED BY <1>2, <1>3, <1>4, <1>5

\* A worker that serves a node ends, or goes on to a call other than an allocation.
LEMMA ServeStep ==
    ASSUME TypeInv, AddressInv, NEW w \in Workers, pc[w] \in NodeCalls, SameAddresses, SameNodes,
           NEW call \in NodeCalls \ {"allocate"}, NEW e \in Eips \cup {None},
           Finish(w) \/ Retry(w) \/ Goto(w, call, e)
    PROVE  AddressInv'
<1>1. pc[w] \in Calls /\ call \in Calls /\ call \notin Legacy
  BY DEF Calls, NodeCalls, Legacy
<1>2. CASE Finish(w) \/ Retry(w)
  BY <1>1, <1>2, EndSafe
<1>3. CASE Goto(w, call, e)
  BY <1>1, <1>3, GotoSafe DEF Goto
<1> QED BY <1>2, <1>3

\* The reconcile of a node that exists, up to the decision to allocate.
LEMMA ServeSafe ==
    ASSUME TypeInv, AddressInv, NEW w \in Workers,
           RejectTerminating(w) \/ DescribeInstance(w) \/ AddTaint(w)
           \/ AddTaintAndStop(w) \/ RemoveTaint(w)
    PROVE  AddressInv'
<1>1. pc[w] \in NodeCalls /\ pc[w] \in Calls
  BY DEF RejectTerminating, DescribeInstance, AddTaint, AddTaintAndStop, RemoveTaint, Calls, NodeCalls
<1>2. key[w] \in Nodes /\ node[w] \in NodeObject /\ cur[w] \in Eips \cup {None}
  BY <1>1, WorkerHas DEF TypeInv, QueueInv
<1>3. {"untaint", "taint", "taintStop", "tags"} \subseteq NodeCalls \ {"allocate"}
  BY DEF NodeCalls
<1>4. SameAddresses
  BY DEF RejectTerminating, DescribeInstance, AddTaint, AddTaintAndStop, RemoveTaint,
         PatchApi, KeepCloud, cloudVars, SameAddresses
<1>5. CASE RejectTerminating(w)
  BY <1>1, <1>3, <1>4, <1>5, NodesKept, ServeStep DEF RejectTerminating
<1>6. CASE DescribeInstance(w)
  <2>1. SameNodes
    BY <1>6, NodesKept DEF DescribeInstance
  <2>2. \E e \in Eips \cup {None}, call \in NodeCalls \ {"allocate"} : Finish(w) \/ Goto(w, call, e)
    BY <1>3, <1>6 DEF DescribeInstance, JudgeType, TaintFirst, Settle, BoundTo
  <2> QED BY <1>1, <1>4, <2>1, <2>2, ServeStep
<1>7. CASE AddTaint(w)
  <2>1. SameNodes
    <3>1. api[key[w]] \in NodeObject
      BY <1>2, <1>7 DEF AddTaint, PatchApi, TypeInv, NodesType
    <3> QED BY <1>2, <1>7, <3>1, AnnoType, PatchKeeps DEF AddTaint
  <2>2. CASE Retry(w)
    BY <1>1, <1>3, <1>4, <2>1, <2>2, ServeStep
  <2>3. CASE pc' = [pc EXCEPT ![w] = "tags"] /\ UNCHANGED <<key, cur, dirty, processing>>
    <3>1. cur' = [cur EXCEPT ![w] = cur[w]]
      BY <2>3 DEF TypeInv, QueueInv
    <3>2. "tags" \in Calls /\ "tags" \notin Legacy
      BY DEF Calls, NodeCalls, Legacy
    <3> QED BY <1>1, <1>2, <1>4, <2>1, <2>3, <3>1, <3>2, GotoSafe
  <2> QED BY <1>7, <2>2, <2>3 DEF AddTaint
<1>8. CASE AddTaintAndStop(w)
  <2>1. api[key[w]] \in NodeObject
    BY <1>2, <1>8 DEF AddTaintAndStop, PatchApi, TypeInv, NodesType
  <2>2. SameNodes
    BY <1>2, <1>8, <2>1, AnnoType, PatchKeeps DEF AddTaintAndStop
  <2> QED BY <1>1, <1>3, <1>4, <1>8, <2>2, ServeStep DEF AddTaintAndStop
<1>9. CASE RemoveTaint(w)
  <2>1. SameNodes
    BY <1>2, <1>9, AnnoType, PatchKeeps DEF RemoveTaint
  <2> QED BY <1>1, <1>3, <1>4, <1>9, <2>1, ServeStep DEF RemoveTaint
<1> QED BY <1>5, <1>6, <1>7, <1>8, <1>9

\* AllocateAnycastIp and AssociateAnycastIp: a worker asks before it allocates.
LEMMA AllocationSafe ==
    ASSUME TagLag = FALSE, TypeInv, AddressInv, NEW w \in Workers,
           FindByTags(w) \/ Allocate(w) \/ CreateMissingTags(w) \/ DescribeAddress(w) \/ Associate(w)
    PROVE  AddressInv'
<1>1. pc[w] \in NodeCalls /\ pc[w] \in Calls
  BY DEF FindByTags, Allocate, CreateMissingTags, DescribeAddress, Associate, Calls, NodeCalls
<1>2. {"describeEip", "associate", "untaint", "createTags"} \subseteq NodeCalls \ {"allocate"}
  BY DEF NodeCalls
<1>3. CASE FindByTags(w)
  <2>1. SameAddresses /\ SameNodes
    BY <1>3, NodesKept DEF FindByTags, KeepCloud, cloudVars, SameAddresses
  <2>2. CASE RowsByTags(key[w]) = {} /\ Goto(w, "allocate", None)
    <3>1. NoneOwned(key[w])
      BY <2>2 DEF RowsByTags, AddressInv, IndexExact, NoneOwned
    <3>2. "allocate" \in Calls /\ "allocate" \notin Legacy
      BY DEF Calls, NodeCalls, Legacy
    <3> QED BY <1>1, <2>1, <2>2, <3>1, <3>2, GotoSafe DEF Goto
  <2>3. ASSUME NEW e \in RowsByTags(key[w]), Goto(w, "describeEip", e)
        PROVE  AddressInv'
    <3>1. e \in Eips
      BY DEF RowsByTags, TypeInv, CloudTypeOK
    <3> QED BY <1>1, <1>2, <2>1, <2>3, <3>1, ServeStep
  <2> QED BY <1>3, <2>2, <2>3 DEF FindByTags
<1>4. CASE Allocate(w)
  BY <1>4, AllocateSafe
<1>5. CASE CreateMissingTags(w)
  BY <1>1, <1>2, <1>5, QuietChanges, NodesKept, ServeStep DEF CreateMissingTags
<1>6. CASE DescribeAddress(w)
  <2>1. SameAddresses /\ SameNodes
    BY <1>6, NodesKept DEF DescribeAddress, KeepCloud, cloudVars, SameAddresses
  <2>2. cur[w] \in Eips
    BY <1>1, <1>6, WorkerHas DEF DescribeAddress, Holding
  <2>3. Finish(w) \/ Retry(w) \/ Goto(w, "untaint", cur[w]) \/ Goto(w, "associate", cur[w])
    BY <1>6 DEF DescribeAddress, Settle
  <2> QED BY <1>1, <1>2, <2>1, <2>2, <2>3, ServeStep
<1>7. CASE Associate(w)
  <2>1. cur[w] \in Eips
    BY <1>1, <1>7, WorkerHas DEF Associate, Holding
  <2> QED BY <1>1, <1>2, <1>7, <2>1, QuietCalls, NodesKept, ServeStep DEF Associate
<1> QED BY <1>3, <1>4, <1>5, <1>6, <1>7

\* A call that fails.
LEMMA ErrorSafe ==
    ASSUME TypeInv, AddressInv, NEW w \in Workers, ApiError(w)
    PROVE  AddressInv'
<1>1. SameAddresses /\ SameNodes /\ pc[w] \in Calls
  BY NodesKept DEF ApiError, KeepCloud, cloudVars, SameAddresses
<1>2. CASE Retry(w)
  BY <1>1, <1>2, EndSafe
<1>3. CASE pc[w] = "allocate" /\ Goto(w, "createTags", None)
  BY <1>1, <1>3, ServeStep DEF NodeCalls
<1> QED BY <1>2, <1>3 DEF ApiError

\* What the cloud does by itself, when the index is always exact.
LEMMA CloudSafe ==
    ASSUME TypeInv, AddressInv, CloudNext, UNCHANGED <<watchVars, workerVars, crashes>>
    PROVE  AddressInv'
<1>1. ~ \E e \in Eips : TagIndexUpdated(e)
  BY DEF TagIndexUpdated, AddressInv, IndexExact, Live
<1>2. SameAddresses
  <2>1. ASSUME NEW e \in Eips, BindingDone(e) \/ UnbindingDone(e)
        PROVE  SameAddresses
    BY <2>1, QuietCalls
  <2>2. ASSUME NEW i \in Instances, InstanceDestroyed(i)
        PROVE  SameAddresses
    BY <2>2, QuietChanges
  <2> QED BY <1>1, <2>1, <2>2 DEF CloudNext
<1> QED BY <1>2, CloudTaskSafe

-----------------------------------------------------------------------------
\* At the start there are no addresses and no work.
LEMMA AddressInit == Init => AddressInv
<1> SUFFICES ASSUME Init PROVE AddressInv
  OBVIOUS
<1>1. indexed = {} /\ \A e \in Eips : eip[e].status = "UNUSED" /\ eip[e].name = None
  BY DEF Init, CloudInit
<1>2. \A w \in Workers : pc[w] = "idle"
  BY DEF Init
<1>3. IndexExact /\ NamesKept /\ OneAddressPerNode /\ NoSilentLeak
  BY <1>1 DEF IndexExact, NamesKept, OneAddressPerNode, NoSilentLeak, Live
<1>4. NothingAllocatedYet /\ LegacyOfKey /\ DeletionPending
  BY <1>2 DEF NothingAllocatedYet, LegacyOfKey, DeletionPending, NodeCalls
<1> QED BY <1>3, <1>4 DEF AddressInv

\* Every step keeps the part of the invariant about addresses.
LEMMA AddressNext ==
    ASSUME TagLag = FALSE, TypeInv, AddressInv, [Next]_vars
    PROVE  AddressInv'
<1>1. ASSUME NEW w \in Workers, WorkerStep(w)
      PROVE  AddressInv'
  BY <1>1, StartSafe, GoneSafe, ServeSafe, AllocationSafe, ErrorSafe DEF WorkerStep
<1>2. CASE ClusterNext /\ UNCHANGED <<cloudVars, workerVars, crashes>>
  BY <1>2, ClusterSafe DEF ClusterNext
<1>3. CASE CloudNext /\ UNCHANGED <<watchVars, workerVars, crashes>>
  BY <1>3, CloudSafe
<1>4. CASE Crash
  BY <1>4, CrashSafe
<1>5. CASE UNCHANGED vars
  <2>1. SameAddresses /\ UNCHANGED <<watchVars, workerVars>>
    BY <1>5 DEF vars, cloudVars, SameAddresses
  <2> QED BY <2>1, CloudTaskSafe
<1> QED BY <1>1, <1>2, <1>3, <1>4, <1>5 DEF Next

\* The invariant holds of every behaviour in which the tag index does not lag.
THEOREM Inductive == ASSUME TagLag = FALSE PROVE Spec => []IInv
<1>1. Init => IInv
  BY TypeInit, AddressInit, IInvParts
<1>2. IInv /\ [Next]_vars => IInv'
  <2> SUFFICES ASSUME IInv, [Next]_vars PROVE IInv'
    OBVIOUS
  <2>1. TypeInv /\ AddressInv
    BY IInvParts
  <2>2. TypeInv' /\ AddressInv'
    BY <2>1, TypeNext, AddressNext
  <2>3. (TypeInv /\ AddressInv => IInv)'
    BY IInvParts, PTL
  <2> QED BY <2>2, <2>3
<1> QED BY <1>1, <1>2, PTL DEF Spec

\* A node never owns two addresses, however often its allocation is retried after
\* errors, lost replies and crashes.
THEOREM AddressesUnique == ASSUME TagLag = FALSE PROVE Spec => []OneAddressPerNode
<1>1. IInv => OneAddressPerNode
  BY DEF IInv
<1> QED BY <1>1, Inductive, PTL

\* The address of a node that went away is never forgotten while the controller
\* could know of the deletion.
THEOREM NothingForgotten == ASSUME TagLag = FALSE PROVE Spec => []NoSilentLeak
<1>1. IInv => NoSilentLeak
  BY DEF IInv
<1> QED BY <1>1, Inductive, PTL
===============================================================================

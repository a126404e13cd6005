------------------------- MODULE Reconciler_names_proof -------------------------
(***************************************************************************)
(* What holds of Reconciler however often a name is registered, and        *)
(* whether or not the tag index lags:                                      *)
(*   NeverMixedUp   Spec => []NoMixUp                                      *)
(* and, for names that are registered once,                                *)
(*   LivingAreKept  Spec => LivingKept                                     *)
(* Every copy of a node, and every address in hand, is about the key of    *)
(* its holder (NameInv); with one registration, a worker that cleans up    *)
(* is right that the node is gone (OnceRight).  The proofs rest on Moves,  *)
(* which says how a step takes a worker from one call to the next; no      *)
(* lemma below it looks at an action again.                                *)
(***************************************************************************)
EXTENDS Reconciler_proof

\* A copy of node n is about n: its instance registers under n, its annotation is of n.
CopyOf(o, n) ==
    /\ o.ins # None => NameOf[o.ins] = n
    /\ o.anno # None => eip[o.anno].name = n

\* A worker's copy and the address in its hand are of its key.
HoldsKey(w) ==
    /\ pc[w] \in NodeCalls => CopyOf(node[w], key[w])
    /\ pc[w] \in Holding \cup {"untaint"} => cur[w] \in Eips /\ eip[cur[w]].name = key[w]

BoundInName(e) ==
    eip[e].status \in {"BINDING", "BIND"} => eip[e].ins \in Instances /\ NameOf[eip[e].ins] = eip[e].name

NodeNamed(n) ==
    /\ api[n] # None => CopyOf(api[n], n)
    /\ cache[n] # None => CopyOf(cache[n], n)

NameInv ==
    /\ NamesKept
    /\ \A n \in Nodes : NodeNamed(n)
    /\ \A e \in Eips : BoundInName(e)
    /\ \A w \in Workers : HoldsKey(w)

-----------------------------------------------------------------------------
(***************************************************************************)
(* How a worker moves from one call to the next.                           *)
(***************************************************************************)

\* It takes a key, with the node the cache shows.
TakesKey(w) ==
    \E n \in dirty \ processing :
        pc[w] = "idle" /\ key'[w] = n /\ node'[w] = cache[n] /\ pc'[w] = FirstCall(cache[n])

\* It goes on with the clean-up.
GoneMove(w) ==
    \/ pc[w] = "tagsGone" /\ pc'[w] = "describeGone" /\ cur'[w] \in RowsByTags(key[w])
    \/ /\ pc[w] \in {"describeGone", "disassociate"} /\ pc'[w] \in {"disassociate", "release"}
       /\ cur'[w] = cur[w]

\* It goes on with the node it serves.
ServeMove(w) ==
    \/ pc[w] = "describeIns" /\ pc'[w] = "taintStop"
    \/ pc[w] = "describeIns" /\ pc'[w] \in {"taint", "tags"} /\ OthersOn(node[w].ins) = {}
    \/ pc[w] = "describeIns" /\ pc'[w] = "untaint" /\ cur'[w] \in BoundTo(node[w].ins)
    \/ pc[w] = "tags" /\ pc'[w] = "allocate"
    \/ pc[w] = "tags" /\ pc'[w] = "describeEip" /\ cur'[w] \in RowsByTags(key[w])
    \/ pc[w] = "allocate" /\ pc'[w] = "createTags"
    \/ pc[w] = "allocate" /\ pc'[w] = "describeEip" /\ cur'[w] \in Eips /\ eip'[cur'[w]].name = key[w]
    \/ pc[w] = "describeEip" /\ pc'[w] \in {"associate", "untaint"} /\ cur'[w] = cur[w]

\* The answer to the taint patch becomes its copy.
CopyMove(w) ==
    /\ pc[w] = "taint" /\ pc'[w] = "tags"
    /\ api'[key[w]] # None /\ node'[w] = api'[key[w]]

Moves(w) ==
    \/ pc'[w] = "idle"
    \/ TakesKey(w)
    \/ pc[w] \in Calls /\ key'[w] = key[w] /\ node'[w] = node[w] /\ (GoneMove(w) \/ ServeMove(w))
    \/ pc[w] \in Calls /\ key'[w] = key[w] /\ CopyMove(w)

LEMMA GotoMoves ==
    ASSUME TypeInv, NEW w \in Workers, NEW call, NEW e, Goto(w, call, e)
    PROVE  pc'[w] = call /\ cur'[w] = e /\ key'[w] = key[w] /\ node'[w] = node[w]
BY DEF Goto, TypeInv, QueueInv

LEMMA EndMoves ==
    ASSUME TypeInv, NEW w \in Workers, Finish(w) \/ Retry(w)
    PROVE  Moves(w)
BY DEF Finish, Retry, EndReconcile, TypeInv, QueueInv, Moves

\* The clean-up, one call after the other.
LEMMA GoneMoves ==
    ASSUME TypeInv, NEW w \in Workers,
           FindLegacy(w) \/ DescribeLegacy(w) \/ Disassociate(w) \/ Release(w)
    PROVE  Moves(w)
<1>1. pc[w] \in Calls
  BY DEF FindLegacy, DescribeLegacy, Disassociate, Release, Calls, GoneCalls
<1>2. CASE FindLegacy(w)
  BY <1>1, <1>2, EndMoves, GotoMoves DEF FindLegacy, Moves, GoneMove
<1>3. CASE DescribeLegacy(w)
  BY <1>1, <1>3, EndMoves, GotoMoves DEF DescribeLegacy, Moves, GoneMove
<1>4. CASE Disassociate(w)
  BY <1>1, <1>4, EndMoves, GotoMoves DEF Disassociate, Moves, GoneMove
<1>5. CASE Release(w)
  BY <1>5, EndMoves DEF Release
<1> QED BY <1>2, <1>3, <1>4, <1>5

\* The switch on the types of what the instance holds.
LEMMA DescribeMoves ==
    ASSUME TypeInv, NEW w \in Workers, DescribeInstance(w)
    PROVE  Moves(w)
<1>1. pc[w] = "describeIns" /\ pc[w] \in Calls /\ pc[w] \in NodeCalls
  BY DEF DescribeInstance, Calls, NodeCalls
<1>2. ASSUME TaintFirst(w, "taintStop", Finish(w))
      PROVE  Moves(w)
  BY <1>1, <1>2, EndMoves, GotoMoves DEF TaintFirst, Moves, ServeMove
<1>3. ASSUME NEW e \in BoundTo(node[w].ins), Settle(w, e)
      PROVE  Moves(w)
  BY <1>1, <1>3, EndMoves, GotoMoves DEF Settle, Moves, ServeMove
<1>4. ASSUME NEW e \in BoundTo(node[w].ins), JudgeType(w, ProcessingEipType, e)
      PROVE  Moves(w)
  BY <1>2, <1>3, <1>4, EndMoves DEF JudgeType
<1>5. ASSUME NEW type \in OthersOn(node[w].ins), JudgeType(w, type, None)
      PROVE  Moves(w)
  <2>1. node[w] \in NodeObject
    BY <1>1, WorkerHas
  <2>2. type # ProcessingEipType
    BY <1>5, <2>1, CloudAssumption DEF NodeObject, OthersOn
  <2> QED BY <1>2, <1>5, <2>2, EndMoves DEF JudgeType
<1>6. ASSUME OthersOn(node[w].ins) = {}, TaintFirst(w, "taint", Goto(w, "tags", None))
      PROVE  Moves(w)
  BY <1>1, <1>6, GotoMoves DEF TaintFirst, Moves, ServeMove
<1> QED BY <1>4, <1>5, <1>6 DEF DescribeInstance

\* From the tags to the association.
LEMMA BindMoves ==
    ASSUME TypeInv, NEW w \in Workers, FindByTags(w) \/ Allocate(w) \/ DescribeAddress(w)
    PROVE  Moves(w)
<1>1. pc[w] \in Calls
  BY DEF FindByTags, Allocate, DescribeAddress, Calls, NodeCalls
<1>2. CASE FindByTags(w)
  BY <1>1, <1>2, GotoMoves DEF FindByTags, Moves, ServeMove
<1>3. CASE Allocate(w)
  <2>1. PICK e \in Eips : /\ AllocateAddresses(e, key[w], node[w].ins)
                          /\ \/ Goto(w, "describeEip", e) \/ Goto(w, "createTags", None) \/ Retry(w)
    BY <1>3 DEF Allocate
  <2>2. eip'[e].name = key[w] /\ pc[w] = "allocate"
    BY <1>3, <2>1 DEF Allocate, AllocateAddresses, TypeInv, CloudTypeOK
  <2> QED BY <1>1, <2>1, <2>2, EndMoves, GotoMoves DEF Moves, ServeMove
<1>4. CASE DescribeAddress(w)
  <2>1. \/ Goto(w, "untaint", cur[w]) \/ Goto(w, "associate", cur[w]) \/ Finish(w) \/ Retry(w)
    BY <1>4 DEF DescribeAddress, Settle
  <2> QED BY <1>1, <1>4, <2>1, EndMoves, GotoMoves DEF DescribeAddress, Moves, ServeMove
<1> QED BY <1>2, <1>3, <1>4

\* A step of a worker is one of these moves.
LEMMA WorkerMoves ==
    ASSUME TypeInv, NEW w \in Workers, WorkerStep(w)
    PROVE  Moves(w)
<1>1. ASSUME NEW n \in Nodes, Start(w, n)
      PROVE  Moves(w)
  BY <1>1 DEF Start, TypeInv, QueueInv, Moves, TakesKey
<1>2. CASE AddTaint(w)
  <2>1. CASE Retry(w)
    BY <2>1, EndMoves
  <2>2. CASE /\ pc' = [pc EXCEPT ![w] = "tags"] /\ node' = [node EXCEPT ![w] = api'[key[w]]]
             /\ UNCHANGED <<key, cur, dirty, processing>>
    <3>1. pc[w] = "taint" /\ pc[w] \in Calls /\ pc[w] \in NodeCalls
      BY <1>2 DEF AddTaint, Calls, NodeCalls
    <3>2. key[w] \in Nodes
      BY <3>1, WorkerHas
    <3>3. api[key[w]] \in NodeObject
      BY <1>2, <3>2 DEF AddTaint, PatchApi, TypeInv, NodesType
    <3>4. api'[key[w]] \in NodeObject
      BY <1>2, <3>2, <3>3 DEF AddTaint, PatchApi, TypeInv, NodesType, NodeObject
    <3>5. api'[key[w]] # None
      BY <3>4, WatchAssumption
    <3> QED BY <2>2, <3>1, <3>5 DEF TypeInv, QueueInv, Moves, CopyMove
  <2> QED BY <1>2, <2>1, <2>2 DEF AddTaint
<1>3. CASE pc[w] = "allocate" /\ Goto(w, "createTags", None)
  BY <1>3, GotoMoves DEF Moves, ServeMove, Calls, NodeCalls
<1>4. CASE \/ RejectTerminating(w) \/ AddTaintAndStop(w) \/ RemoveTaint(w)
           \/ CreateMissingTags(w) \/ Associate(w) \/ ApiError(w)
  BY <1>3, <1>4, EndMoves DEF RejectTerminating, AddTaintAndStop, RemoveTaint, CreateMissingTags,
        Associate, ApiError
<1> QED BY <1>1, <1>2, <1>4, GoneMoves, DescribeMoves, BindMoves DEF WorkerStep

-----------------------------------------------------------------------------
(***************************************************************************)
(* NameInv is inductive.                                                   *)
(***************************************************************************)

\* A copy goes on being about its node.
LEMMA CopyKept ==
    ASSUME NamesKept, NamesStay, NEW n \in Nodes, NEW o \in NodeObject, CopyOf(o, n)
    PROVE  o.anno # None => eip'[o.anno].name = n
BY CloudAssumption DEF NodeObject, CopyOf, NamesKept, NamesStay

\* An address of a name stays one.
LEMMA NameKept ==
    ASSUME NamesKept, NamesStay, NEW n \in Nodes, NEW e \in Eips, eip[e].name = n
    PROVE  eip'[e].name = n
BY CloudAssumption DEF NamesKept, NamesStay

\* An address bound to the instance of a copy is of the same node.
LEMMA BoundOfCopy ==
    ASSUME NameInv, NEW n \in Nodes, NEW o \in NodeObject, CopyOf(o, n), NEW e \in BoundTo(o.ins)
    PROVE  e \in Eips /\ eip[e].name = n
BY DEF BoundTo, CopyOf, NameInv, BoundInName

\* Names are given with an allocation, to the key of the worker.
LEMMA NamesKeptNext ==
    ASSUME TypeInv, NamesKept, Next
    PROVE  NamesKept'
<1>1. (\A e \in Eips : AddressStep(e)) /\ NamesStay
  BY NextAddresses, NextNames DEF AddressSteps
<1>2. ASSUME NEW w \in Workers, pc[w] = "allocate"
      PROVE  key[w] # None
  BY <1>2, WorkerHas, CloudAssumption DEF Calls, NodeCalls
<1> QED BY <1>1, <1>2 DEF AddressStep, NamesKept

\* A node is annotated from a copy of it, or with the address in the hand of its worker.
LEMMA NodeNamedNext ==
    ASSUME TypeInv, NameInv, Next, NEW n \in Nodes
    PROVE  NodeNamed(n)'
<1>1. NodeStep(n) /\ CacheStep(n) /\ NamesStay /\ NamesKept /\ NodeNamed(n)
  BY NextNodes, NextNames DEF NodeSteps, NameInv
<1>2. api[n] \in NodeObject \cup {None} /\ cache[n] \in NodeObject \cup {None}
  BY DEF TypeInv, NodesType
<1>3. ASSUME api'[n] # None
      PROVE  /\ api'[n].ins # None => NameOf[api'[n].ins] = n
             /\ api'[n].anno # None => eip'[api'[n].anno].name = n
  <2>1. CASE api[n] = None
    BY <1>1, <1>3, <2>1 DEF NodeStep
  <2>2. CASE api[n] # None
    <3>1. /\ api[n].ins # None => NameOf[api[n].ins] = n
          /\ api[n].anno # None => eip'[api[n].anno].name = n
      BY <1>1, <1>2, <2>2, CopyKept DEF NodeNamed, CopyOf
    <3>2. ASSUME NEW w \in Workers, key[w] = n, pc[w] = "untaint"
          PROVE  /\ node[w].anno # None => eip'[node[w].anno].name = n
                 /\ eip'[cur[w]].name = n
      <4>1. node[w] \in NodeObject /\ HoldsKey(w)
        BY <3>2, WorkerHas DEF Calls, NodeCalls, NameInv
      <4> QED BY <1>1, <3>2, <4>1, CopyKept, NameKept DEF HoldsKey, NodeCalls
    <3> QED BY <1>1, <1>3, <2>2, <3>1, <3>2 DEF NodeStep
  <2> QED BY <2>1, <2>2
<1>4. ASSUME cache'[n] # None
      PROVE  /\ cache'[n].ins # None => NameOf[cache'[n].ins] = n
             /\ cache'[n].anno # None => eip'[cache'[n].anno].name = n
  <2>1. CASE cache'[n] = cache[n]
    BY <1>1, <1>2, <1>4, <2>1, CopyKept DEF NodeNamed, CopyOf
  <2>2. CASE cache'[n] = api'[n]
    BY <1>3, <1>4, <2>2
  <2> QED BY <1>1, <1>4, <2>1, <2>2 DEF CacheStep
<1> QED BY <1>3, <1>4 DEF NodeNamed, CopyOf

\* An association is sent for the instance of the worker's copy and the address in its hand.
LEMMA BoundInNameNext ==
    ASSUME TypeInv, NameInv, Next, NEW e \in Eips
    PROVE  BoundInName(e)'
<1>1. AddressStep(e) /\ BoundInName(e) /\ NamesStay
  BY NextAddresses, NextNames DEF AddressSteps, NameInv
<1>2. ASSUME NEW w \in Workers, pc[w] = "associate", cur[w] = e, node[w].ins \in Instances
      PROVE  NameOf[node[w].ins] = eip[e].name
  BY <1>2, CloudAssumption DEF NameInv, HoldsKey, CopyOf, Holding, NodeCalls
<1> QED BY <1>1, <1>2 DEF AddressStep, BoundInName, NamesStay

\* The addresses a worker takes in hand are of its key.
LEMMA HoldsKeyMoves ==
    ASSUME TypeInv, NameInv, Next, NEW w \in Workers, Moves(w)
    PROVE  HoldsKey(w)'
<1>1. NamesStay /\ NamesKept /\ HoldsKey(w)
  BY NextNames DEF NameInv
<1>2. CASE pc'[w] = "idle"
  BY <1>2 DEF HoldsKey, NodeCalls, Holding
<1>3. CASE TakesKey(w)
  <2>1. PICK n \in dirty \ processing : key'[w] = n /\ node'[w] = cache[n] /\ pc'[w] = FirstCall(cache[n])
    BY <1>3 DEF TakesKey
  <2>2. n \in Nodes /\ cache[n] \in NodeObject \cup {None}
    BY DEF TypeInv, QueueInv, NodesType
  <2>3. pc'[w] \notin Holding \cup {"untaint"} /\ (cache[n] = None => pc'[w] \notin NodeCalls)
    BY <2>1 DEF FirstCall, Holding, NodeCalls
  <2>4. cache[n] # None => /\ cache[n].ins # None => NameOf[cache[n].ins] = n
                           /\ cache[n].anno # None => eip'[cache[n].anno].name = n
    BY <1>1, <2>2, CopyKept DEF NameInv, NodeNamed, CopyOf
  <2> QED BY <2>1, <2>3, <2>4 DEF HoldsKey, CopyOf
<1>4. ASSUME pc[w] \in Calls, key'[w] = key[w], CopyMove(w)
      PROVE  HoldsKey(w)'
  <2>1. PICK n \in Nodes : key[w] = n
    BY <1>4, WorkerHas
  <2>2. NodeNamed(n)'
    BY NodeNamedNext
  <2> QED BY <1>4, <2>1, <2>2 DEF CopyMove, NodeNamed, HoldsKey, CopyOf, Holding
<1>5. ASSUME pc[w] \in Calls, key'[w] = key[w], node'[w] = node[w], GoneMove(w) \/ ServeMove(w)
      PROVE  HoldsKey(w)'
  <2>1. key[w] \in Nodes /\ (pc[w] \in NodeCalls => node[w] \in NodeObject)
    BY <1>5, WorkerHas
  <2>2. pc'[w] \in NodeCalls => pc[w] \in NodeCalls
    BY <1>5 DEF GoneMove, ServeMove, NodeCalls
  <2>3. pc'[w] \in NodeCalls => CopyOf(node[w], key[w])'
    BY <1>1, <1>5, <2>1, <2>2, CopyKept DEF HoldsKey, CopyOf
  <2>4. ASSUME pc'[w] \in Holding \cup {"untaint"}
        PROVE  cur'[w] \in Eips /\ eip'[cur'[w]].name = key[w]
    <3>1. CASE cur'[w] \in RowsByTags(key[w])
      BY <1>1, <2>1, <3>1, NameKept DEF RowsByTags, TypeInv, CloudTypeOK
    <3>2. CASE pc[w] \in Holding /\ cur'[w] = cur[w]
      BY <1>1, <2>1, <3>2, NameKept DEF HoldsKey
    <3>3. CASE pc[w] = "describeIns" /\ cur'[w] \in BoundTo(node[w].ins)
      BY <1>1, <2>1, <3>3, NameKept, BoundOfCopy DEF HoldsKey, NodeCalls
    <3> QED BY <1>5, <2>4, <3>1, <3>2, <3>3 DEF GoneMove, ServeMove, Holding
  <2> QED BY <1>5, <2>3, <2>4 DEF HoldsKey, CopyOf
<1> QED BY <1>2, <1>3, <1>4, <1>5 DEF Moves

\* What a worker has is of its key while it waits.
LEMMA HoldsKeyWaits ==
    ASSUME TypeInv, NameInv, Next, NEW v \in Workers,
           pc'[v] = pc[v], key'[v] = key[v], node'[v] = node[v], cur'[v] = cur[v]
    PROVE  HoldsKey(v)'
<1>1. NamesStay /\ NamesKept /\ HoldsKey(v)
  BY NextNames DEF NameInv
<1>2. pc[v] \in Calls => key[v] \in Nodes /\ (pc[v] \in NodeCalls => node[v] \in NodeObject)
  BY WorkerHas
<1> QED BY <1>1, <1>2, CopyKept, NameKept DEF HoldsKey, CopyOf, Calls, NodeCalls, GoneCalls, Holding

LEMMA NameInvInit == Init => NameInv
BY CloudAssumption DEF Init, CloudInit, WatchInit, NameInv, NamesKept, NodeNamed, BoundInName, HoldsKey,
   NodeCalls, Holding

LEMMA NameInvNext ==
    ASSUME TypeInv, NameInv, [Next]_vars
    PROVE  NameInv'
<1>1. CASE UNCHANGED vars
  BY <1>1 DEF vars, cloudVars, watchVars, workerVars, NameInv, NamesKept, NodeNamed, BoundInName,
      HoldsKey, CopyOf
<1>2. CASE Next
  <2>1. ASSUME NEW v \in Workers
        PROVE  HoldsKey(v)'
    <3>1. ASSUME NEW w \in Workers, WorkerStep(w)
          PROVE  HoldsKey(v)'
      <4>1. CASE v = w
        BY <1>2, <3>1, <4>1, WorkerMoves, HoldsKeyMoves
      <4>2. CASE v # w
        BY <1>2, <3>1, <4>2, OneWorker, HoldsKeyWaits
      <4> QED BY <4>1, <4>2
    <3>2. CASE UNCHANGED workerVars
      BY <1>2, <3>2, HoldsKeyWaits DEF workerVars
    <3>3. CASE Crash
      BY <3>3 DEF Crash, HoldsKey, NodeCalls, Holding
    <3> QED BY <1>2, <3>1, <3>2, <3>3 DEF Next
  <2> QED BY <1>2, <2>1, NamesKeptNext, NodeNamedNext, BoundInNameNext DEF NameInv
<1> QED BY <1>1, <1>2

LEMMA NameInvMeans == NameInv => NoMixUp
BY DEF NameInv, NodeNamed, CopyOf, BoundInName, NoMixUp

\* Nodes do not get each other's addresses, however often their names are registered and
\* whatever the tag index shows (Reconcile patches a node by name, and AllocateAnycastIp
\* finds an address by name).
THEOREM NeverMixedUp == Spec => []NoMixUp
<1>1. Init => TypeInv /\ NameInv
  BY TypeInit, NameInvInit
<1>2. TypeInv /\ NameInv /\ [Next]_vars => TypeInv' /\ NameInv'
  BY TypeNext, NameInvNext
<1> QED BY <1>1, <1>2, NameInvMeans, PTL DEF Spec

-----------------------------------------------------------------------------
(***************************************************************************)
(* Names that are registered once.  OnceRight says nothing of the cloud,   *)
(* so that whatever happens there, the workers go on being right about the *)
(* nodes.                                                                  *)
(***************************************************************************)

\* A name in use has been registered, for the first time.
FirstTime(n) ==
    /\ api[n] # None \/ cache[n] # None \/ n \in Queue => born[n] >= 1
    /\ api[n] # None => api[n].uid = 1
    /\ cache[n] # None => cache[n].uid = 1

\* The instance a copy of node n names is the node's.
ShowsIns(o, n) == o.ins # None /\ api[n] # None => api[n].ins = o.ins

\* A queued node that is there is in the cache, with its instance.
QueuedShown(n) ==
    /\ cache[n] # None => ShowsIns(cache[n], n)
    /\ n \in Queue => /\ api[n] # None => cache[n] # None
                      /\ cache[n] # None => cache[n].ins # None

\* The calls on the way to an association.
ToBind == {"taint", "tags", "allocate", "createTags", "describeEip", "associate"}

\* What a worker knows of the node of its key.
WorkerOnce(w) ==
    /\ pc[w] \in GoneCalls => api[key[w]] = None
    /\ pc[w] \in NodeCalls => node[w].ins # None /\ ShowsIns(node[w], key[w])
    /\ pc[w] \in ToBind => OtherEip[node[w].ins] = {}

OnceRight ==
    /\ \A n \in Nodes : FirstTime(n) /\ QueuedShown(n)
    /\ \A w \in Workers : WorkerOnce(w)

\* A node that is there was there, with its instance if it had one.
NodeLasts(n) ==
    api'[n] # None => api[n] # None /\ (api[n].ins # None => api'[n].ins = api[n].ins)

LEMMA OnceLasts ==
    ASSUME MaxIncarnations = 1, TypeInv, Next, NEW n \in Nodes, born[n] >= 1
    PROVE  NodeLasts(n)
BY NextNodes DEF NodeSteps, NodeStep, NodeLasts, TypeInv, NodesType

\* A copy goes on showing the instance of its node.
LEMMA ShowsStays ==
    ASSUME NEW n \in Nodes, NodeLasts(n), NEW o \in NodeObject, ShowsIns(o, n)
    PROVE  o.ins # None /\ api'[n] # None => api'[n].ins = o.ins
BY DEF NodeLasts, ShowsIns

\* A name is not registered a second time, and a queued node stays in the cache.
LEMMA NodeOnceNext ==
    ASSUME MaxIncarnations = 1, TypeInv, OnceRight, Next, NEW n \in Nodes
    PROVE  FirstTime(n)' /\ QueuedShown(n)'
<1>1. NodeStep(n) /\ CacheStep(n) /\ FirstTime(n) /\ QueuedShown(n) /\ born[n] \in Nat
  BY NextNodes DEF NodeSteps, OnceRight, TypeInv, NodesType
<1>2. born[n] >= 1 => NodeLasts(n)
  BY OnceLasts
<1>3. /\ born'[n] \in Nat /\ born'[n] >= born[n]
      /\ api'[n] # None => born'[n] >= 1 /\ api'[n].uid = 1
  BY <1>1 DEF NodeStep, FirstTime
<1>4. cache'[n] # None => (api[n] # None \/ cache[n] # None) /\ cache'[n].uid = 1
  BY <1>1 DEF CacheStep, FirstTime
<1>5. n \in Queue' => n \in Queue \/ api[n] # None \/ cache[n] # None
  BY <1>1 DEF CacheStep
<1>6. FirstTime(n)'
  BY <1>1, <1>3, <1>4, <1>5 DEF FirstTime
<1>7. cache'[n] # None => ShowsIns(cache[n], n)'
  BY <1>1, <1>2 DEF CacheStep, FirstTime, QueuedShown, NodeLasts, ShowsIns
<1>8. ASSUME n \in Queue'
      PROVE  (api'[n] # None => cache'[n] # None) /\ (cache'[n] # None => cache'[n].ins # None)
  BY <1>1, <1>2, <1>5, <1>8 DEF CacheStep, FirstTime, QueuedShown, NodeLasts, ShowsIns, IsAiaNode
<1> QED BY <1>6, <1>7, <1>8 DEF QueuedShown

\* The key of a worker has been registered.
LEMMA KeyOnce ==
    ASSUME TypeInv, OnceRight, NEW w \in Workers, pc[w] \in Calls
    PROVE  key[w] \in Nodes /\ born[key[w]] >= 1
BY WorkerHas DEF OnceRight, FirstTime, Queue

\* What a worker knows of its node stays true while it waits.
LEMMA OnceWaits ==
    ASSUME MaxIncarnations = 1, TypeInv, OnceRight, Next, NEW v \in Workers,
           pc'[v] = pc[v], key'[v] = key[v], node'[v] = node[v]
    PROVE  WorkerOnce(v)'
<1>1. WorkerOnce(v)
  BY DEF OnceRight
<1>2. CASE pc[v] \in Calls
  <2>1. PICK n \in Nodes : key[v] = n /\ NodeLasts(n) /\ (pc[v] \in NodeCalls => node[v] \in NodeObject)
    BY <1>2, KeyOnce, OnceLasts, WorkerHas
  <2> QED BY <1>1, <2>1, ShowsStays DEF WorkerOnce, ShowsIns, NodeLasts
<1>3. CASE pc[v] \notin Calls
  BY <1>3 DEF WorkerOnce, Calls, ToBind, NodeCalls
<1> QED BY <1>2, <1>3

\* And it stays true with every call: a worker cleans up when the cache does not show the
\* node, and goes on to bind when it has seen that the instance holds nothing else.
LEMMA OnceMoves ==
    ASSUME MaxIncarnations = 1, TypeInv, OnceRight, Next, NEW w \in Workers, Moves(w)
    PROVE  WorkerOnce(w)'
<1>1. WorkerOnce(w)
  BY DEF OnceRight
<1>2. CASE pc'[w] = "idle"
  BY <1>2 DEF WorkerOnce, GoneCalls, NodeCalls, ToBind
<1>3. CASE TakesKey(w)
  <2>1. PICK n \in dirty \ processing : key'[w] = n /\ node'[w] = cache[n] /\ pc'[w] = FirstCall(cache[n])
    BY <1>3 DEF TakesKey
  <2>2. /\ n \in Nodes /\ n \in Queue /\ (cache[n] # None => cache[n] \in NodeObject)
        /\ QueuedShown(n) /\ born[n] >= 1
    BY DEF TypeInv, QueueInv, NodesType, Queue, OnceRight, FirstTime
  <2>3. NodeLasts(n)
    BY <2>2, OnceLasts
  <2>4. CASE cache[n] = None
    BY <2>1, <2>2, <2>3, <2>4 DEF FirstCall, QueuedShown, NodeLasts, WorkerOnce, GoneCalls, NodeCalls, ToBind
  <2>5. CASE cache[n] # None
    <3>1. pc'[w] \in {"terminating", "describeIns"}
      BY <2>1, <2>5 DEF FirstCall
    <3>2. cache[n].ins # None /\ (api'[n] # None => api'[n].ins = cache[n].ins)
      BY <2>2, <2>3, <2>5, ShowsStays DEF QueuedShown
    <3> QED BY <2>1, <3>1, <3>2 DEF WorkerOnce, ShowsIns, GoneCalls, ToBind
  <2> QED BY <2>4, <2>5
<1>4. ASSUME pc[w] \in Calls, key'[w] = key[w], CopyMove(w)
      PROVE  WorkerOnce(w)'
  <2>1. PICK n \in Nodes : key[w] = n /\ NodeLasts(n)
    BY <1>4, KeyOnce, OnceLasts
  <2>2. pc[w] = "taint" /\ pc'[w] = "tags" /\ api'[n] # None /\ node'[w] = api'[n]
    BY <1>4, <2>1 DEF CopyMove
  <2>3. node[w].ins # None /\ api[n].ins = node[w].ins /\ OtherEip[node[w].ins] = {}
    BY <1>1, <2>1, <2>2 DEF WorkerOnce, NodeCalls, ToBind, ShowsIns, NodeLasts
  <2>4. node'[w].ins = node[w].ins
    BY <2>1, <2>2, <2>3 DEF NodeLasts
  <2> QED BY <1>4, <2>1, <2>2, <2>3, <2>4 DEF WorkerOnce, ShowsIns, GoneCalls
<1>5. ASSUME pc[w] \in Calls, key'[w] = key[w], node'[w] = node[w], GoneMove(w) \/ ServeMove(w)
      PROVE  WorkerOnce(w)'
  <2>1. PICK n \in Nodes : key[w] = n /\ NodeLasts(n) /\ (pc[w] \in NodeCalls => node[w] \in NodeObject)
    BY <1>5, KeyOnce, OnceLasts, WorkerHas
  <2>2. /\ pc'[w] \in GoneCalls => pc[w] \in GoneCalls
        /\ pc'[w] \in NodeCalls => pc[w] \in NodeCalls
    BY <1>5 DEF GoneMove, ServeMove, GoneCalls, NodeCalls
  <2>3. pc'[w] \in ToBind => pc[w] \in ToBind \/ (pc[w] = "describeIns" /\ OthersOn(node[w].ins) = {})
    BY <1>5 DEF GoneMove, ServeMove, ToBind
  <2>4. pc'[w] \in ToBind => OtherEip[node[w].ins] = {}
    BY <1>1, <2>3 DEF WorkerOnce, OthersOn, NodeCalls
  <2>5. pc'[w] \in NodeCalls => node[w].ins # None /\ (api'[n] # None => api'[n].ins = node[w].ins)
    BY <1>1, <2>1, <2>2, ShowsStays DEF WorkerOnce
  <2>6. pc'[w] \in GoneCalls => api'[n] = None
    BY <1>1, <2>1, <2>2 DEF WorkerOnce, NodeLasts
  <2> QED BY <1>5, <2>1, <2>4, <2>5, <2>6 DEF WorkerOnce, ShowsIns
<1> QED BY <1>2, <1>3, <1>4, <1>5 DEF Moves

LEMMA OnceRightInit == Init => OnceRight
BY DEF Init, WatchInit, OnceRight, FirstTime, QueuedShown, WorkerOnce, Queue, GoneCalls, NodeCalls, ToBind

LEMMA OnceRightNext ==
    ASSUME MaxIncarnations = 1, TypeInv, OnceRight, [Next]_vars
    PROVE  OnceRight'
<1>1. CASE UNCHANGED vars
  BY <1>1 DEF vars, watchVars, workerVars, OnceRight, FirstTime, QueuedShown, WorkerOnce, ShowsIns, Queue
<1>2. CASE Next
  <2>1. ASSUME NEW v \in Workers
        PROVE  WorkerOnce(v)'
    <3>1. ASSUME NEW w \in Workers, WorkerStep(w)
          PROVE  WorkerOnce(v)'
      <4>1. CASE v = w
        BY <1>2, <3>1, <4>1, WorkerMoves, OnceMoves
      <4>2. CASE v # w
        BY <1>2, <3>1, <4>2, OneWorker, OnceWaits
      <4> QED BY <4>1, <4>2
    <3>2. CASE UNCHANGED workerVars
      BY <1>2, <3>2, OnceWaits DEF workerVars
    <3>3. CASE Crash
      BY <3>3 DEF Crash, WorkerOnce, GoneCalls, NodeCalls, ToBind
    <3> QED BY <1>2, <3>1, <3>2, <3>3 DEF Next
  <2> QED BY <1>2, <2>1, NodeOnceNext DEF OnceRight
<1> QED BY <1>1, <1>2

\* An address that a worker takes away is of a name whose node is gone.
LEMMA TakenFromGone ==
    ASSUME TypeInv, NameInv, OnceRight, Next, NEW e \in Eips, TakenAway(e)
    PROVE  eip[e].name \in Nodes /\ api[eip[e].name] = None
<1>1. AddressStep(e)
  BY NextAddresses DEF AddressSteps
<1>2. PICK w \in Workers : pc[w] \in {"disassociate", "release"} /\ cur[w] = e
  BY <1>1 DEF AddressStep, TakenAway
<1>3. pc[w] \in GoneCalls /\ pc[w] \in Calls /\ pc[w] \in Holding
  BY <1>2 DEF GoneCalls, Calls, Holding
<1>4. key[w] \in Nodes
  BY <1>3, WorkerHas
<1> QED BY <1>2, <1>3, <1>4 DEF NameInv, HoldsKey, OnceRight, WorkerOnce

\* An address is bound only to an instance that a worker has found free of others.
LEMMA OthersNext ==
    ASSUME TypeInv, OnceRight, OthersRespected, [Next]_vars
    PROVE  OthersRespected'
<1>1. CASE UNCHANGED vars
  BY <1>1 DEF vars, cloudVars, OthersRespected
<1>2. CASE Next
  <2>1. \A e \in Eips : AddressStep(e)
    BY <1>2, NextAddresses DEF AddressSteps
  <2>2. \A w \in Workers : pc[w] = "associate" => OtherEip[node[w].ins] = {}
    BY DEF OnceRight, WorkerOnce, ToBind
  <2> QED BY <2>1, <2>2 DEF AddressStep, OthersRespected
<1> QED BY <1>1, <1>2

LEMMA OnceRightInvariant ==
    ASSUME MaxIncarnations = 1
    PROVE  Spec => [](TypeInv /\ NameInv /\ OnceRight)
<1>1. Init => TypeInv /\ NameInv /\ OnceRight
  BY TypeInit, NameInvInit, OnceRightInit
<1>2. TypeInv /\ NameInv /\ OnceRight /\ [Next]_vars => (TypeInv /\ NameInv /\ OnceRight)'
  BY TypeNext, NameInvNext, OnceRightNext
<1> QED BY <1>1, <1>2, PTL DEF Spec

\* Where a name is registered once, no reconcile takes an address away from a node that
\* exists, crashes, an empty cache and a tag index that lags notwithstanding (Reconcile
\* cleans up when the cache has no node of the name).
THEOREM LivingAreKept == ASSUME MaxIncarnations = 1 PROVE Spec => LivingKept
<1>1. TypeInv /\ NameInv /\ OnceRight /\ [Next]_vars
          => [\A e \in Eips : TakenAway(e) => api[eip[e].name] = None]_vars
  BY TakenFromGone
<1> QED BY <1>1, OnceRightInvariant, PTL DEF Spec, LivingKept
=============================================================================

----------------------------- MODULE Reconciler -----------------------------
(***************************************************************************)
(* reconciler.Reconcile and the MangerImp methods it calls, run by the     *)
(* workers of the one active replica.  Between two API calls a worker only *)
(* touches its own variables, so a step of a worker is one call, with the  *)
(* local code that follows its answer.  pc[w] names the call worker w is   *)
(* about to make.                                                          *)
(*                                                                         *)
(* Any call may fail without effect (ApiError); a call that changes        *)
(* something may also take effect and still be reported as failed (a lost  *)
(* reply).  An error ends the reconcile and puts the key back on the       *)
(* queue; the delay of the rate limiter is abstracted to the freedom of    *)
(* the scheduler.  The process may crash at any step: the next leader      *)
(* starts with an empty queue and an empty cache.                          *)
(***************************************************************************)
EXTENDS NodeWatch

CONSTANTS
    Workers,        \* MaxConcurrentReconciles goroutines
    MaxCrashes      \* bound: crashes of the active replica

ASSUME ReconcilerAssumption == MaxCrashes \in Nat

VARIABLES
    pc,         \* pc[w]: the next call of worker w
    key,        \* key[w]: the node name being reconciled
    node,       \* node[w]: the worker's copy of the Node object
    cur,        \* cur[w]: the address id in hand
    crashes     \* crashes so far

workerVars == <<pc, key, node, cur>>
vars == <<cloudVars, watchVars, workerVars, crashes>>

\* Reconcile of a name whose node is gone.
GoneCalls == {"tagsGone", "describeGone", "disassociate", "release"}
\* Reconcile of a node that exists.
NodeCalls == {"terminating", "describeIns", "taintStop", "taint", "tags", "allocate",
              "createTags", "describeEip", "associate", "untaint"}
Calls == GoneCalls \cup NodeCalls

TypeOK ==
    /\ CloudTypeOK
    /\ WatchTypeOK
    /\ pc \in [Workers -> Calls \cup {"idle"}]
    /\ key \in [Workers -> Nodes \cup {None}]
    /\ node \in [Workers -> NodeObject \cup {None}]
    /\ cur \in [Workers -> Eips \cup {None}]
    /\ crashes \in Nat

Init ==
    /\ CloudInit
    /\ WatchInit
    /\ pc = [w \in Workers |-> "idle"]
    /\ key = [w \in Workers |-> None]
    /\ node = [w \in Workers |-> None]
    /\ cur = [w \in Workers |-> None]
    /\ crashes = 0

-----------------------------------------------------------------------------
(***************************************************************************)
(* Control: go on to the next call, or end the reconcile.                  *)
(***************************************************************************)
Goto(w, call, e) ==
    /\ pc' = [pc EXCEPT ![w] = call]
    /\ cur' = [cur EXCEPT ![w] = e]
    /\ UNCHANGED <<key, node, dirty, processing>>

EndReconcile(w) ==
    /\ pc' = [pc EXCEPT ![w] = "idle"]
    /\ key' = [key EXCEPT ![w] = None]
    /\ node' = [node EXCEPT ![w] = None]
    /\ cur' = [cur EXCEPT ![w] = None]
    /\ processing' = processing \ {key[w]}

\* return reconcile.Result{}, nil
Finish(w) == EndReconcile(w) /\ UNCHANGED dirty

\* return reconcile.Result{}, err
Retry(w) == EndReconcile(w) /\ dirty' = dirty \cup {key[w]}

KeepCloud == UNCHANGED <<cloudVars, crashes>>
KeepApi == UNCHANGED <<api, cache, born, unseen>>

(***************************************************************************)
(* Reconcile takes a key and reads its node from the cache.                *)
(***************************************************************************)
\* Mutant: a terminating node is cleaned up like one that is gone.
FirstCallEager(o) == IF o = None \/ o.terminated THEN "tagsGone" ELSE "describeIns"

FirstCall(o) ==
    IF o = None THEN "tagsGone" ELSE IF o.terminated THEN "terminating" ELSE "describeIns"

Start(w, n) ==
    /\ pc[w] = "idle"
    /\ n \in dirty \ processing
    /\ dirty' = dirty \ {n}
    /\ processing' = processing \cup {n}
    /\ key' = [key EXCEPT ![w] = n]
    /\ node' = [node EXCEPT ![w] = cache[n]]
    /\ pc' = [pc EXCEPT ![w] = FirstCall(cache[n])]
    /\ UNCHANGED cur
    /\ KeepCloud /\ KeepApi

\* A terminating node is an error until it is removed.
RejectTerminating(w) ==
    /\ pc[w] = "terminating"
    /\ Retry(w)
    /\ KeepCloud /\ KeepApi

-----------------------------------------------------------------------------
(***************************************************************************)
(* The node is gone: find its address by tags, disassociate it, release it.*)
(***************************************************************************)
\* GetAnycastIpByTags: the first row is as good as any.
FindLegacy(w) ==
    /\ pc[w] = "tagsGone"
    /\ \/ /\ RowsByTags(key[w]) = {}
          /\ Finish(w)
       \/ \E e \in RowsByTags(key[w]) : Goto(w, "describeGone", e)
    /\ KeepCloud /\ KeepApi

\* Mutant: an address that is still changing is taken for dealt with.
DescribeLegacyImpatient(w) ==
    /\ pc[w] = "describeGone"
    /\ LET s == eip[cur[w]].status IN
       \/ (~Live(cur[w]) \/ s = "UNBIND") /\ Goto(w, "release", cur[w])
       \/ s = "BIND" /\ Goto(w, "disassociate", cur[w])
       \/ s \in {"BINDING", "UNBINDING"} /\ Finish(w)
    /\ KeepCloud /\ KeepApi

\* DisassociateAnycastIp, up to the switch on the status.
DescribeLegacy(w) ==
    /\ pc[w] = "describeGone"
    /\ LET s == eip[cur[w]].status IN
       \/ /\ ~Live(cur[w]) \/ s = "UNBIND"
          /\ Goto(w, "release", cur[w])
       \/ /\ s = "BIND"
          /\ Goto(w, "disassociate", cur[w])
       \/ /\ s \in {"BINDING", "UNBINDING"}
          /\ Retry(w)
    /\ KeepCloud /\ KeepApi

Disassociate(w) ==
    /\ pc[w] = "disassociate"
    /\ DisassociateAddress(cur[w])
    /\ Goto(w, "release", cur[w]) \/ Retry(w)
    /\ KeepApi /\ UNCHANGED crashes

\* ReleaseAnycastIp; refused until the address is UNBIND.
Release(w) ==
    /\ pc[w] = "release"
    /\ ReleaseAddresses(cur[w])
    /\ Finish(w) \/ Retry(w)
    /\ KeepApi /\ UNCHANGED crashes

-----------------------------------------------------------------------------
(***************************************************************************)
(* The node exists: IsCvmNeedToAllocateAnyCastIp.                          *)
(***************************************************************************)
\* removeNoAnycastTaintAndAddAnnotation, up to the patch.
Settle(w, e) ==
    IF ~node[w].taint /\ node[w].anno # None THEN Finish(w) ELSE Goto(w, "untaint", e)

\* Mutant: the node is not tainted.
TaintFirstNever(w, patch, ready) == ready

\* taintAiaToNodeIfNecessary, up to the patch; ready is the rest of the reconcile.
TaintFirst(w, patch, ready) ==
    \/ ~node[w].taint /\ Goto(w, patch, None)
    \/ node[w].taint /\ ready

\* Mutant: an address of the other accelerated kind does not end the reconcile.
JudgeTypeLenient(w, type, e) ==
    \/ type \in {"WanIP", "EIP"} /\ TaintFirst(w, "taintStop", Finish(w))
    \/ type \in {"AnycastEIP", "HighQualityEIP"} /\ type = ProcessingEipType /\ Settle(w, e)
    \/ type \in {"AnycastEIP", "HighQualityEIP"} /\ type # ProcessingEipType
       /\ TaintFirst(w, "taint", Goto(w, "tags", None))

\* The switch on the type of one address of the instance.
JudgeType(w, type, e) ==
    \/ type \in {"WanIP", "EIP"} /\ TaintFirst(w, "taintStop", Finish(w))
    \/ type \in {"AnycastEIP", "HighQualityEIP"} /\ type = ProcessingEipType /\ Settle(w, e)
    \/ type \in {"AnycastEIP", "HighQualityEIP"} /\ type # ProcessingEipType /\ Finish(w)

\* The first address listed decides.
DescribeInstance(w) ==
    /\ pc[w] = "describeIns"
    /\ \/ \E e \in BoundTo(node[w].ins) : JudgeType(w, ProcessingEipType, e)
       \/ \E type \in OthersOn(node[w].ins) : JudgeType(w, type, None)
       \/ /\ BoundTo(node[w].ins) = {} /\ OthersOn(node[w].ins) = {}
          /\ TaintFirst(w, "taint", Goto(w, "tags", None))
    /\ KeepCloud /\ KeepApi

(***************************************************************************)
(* The merge patches address the node by name only.  On success the copy   *)
(* the worker holds becomes the server's object.                           *)
(***************************************************************************)
PatchApi(w, taint, anno) ==
    /\ api[key[w]] # None
    /\ api' = [api EXCEPT ![key[w]].taint = taint, ![key[w]].anno = anno]
    /\ UNCHANGED <<cache, born, unseen>>
    /\ KeepCloud

AddTaint(w) ==
    /\ pc[w] = "taint"
    /\ PatchApi(w, TRUE, api[key[w]].anno)
    /\ \/ /\ pc' = [pc EXCEPT ![w] = "tags"]
          /\ node' = [node EXCEPT ![w] = api'[key[w]]]
          /\ UNCHANGED <<key, cur, dirty, processing>>
       \/ Retry(w)

\* The instance has an address of another kind: taint the node and leave it.
AddTaintAndStop(w) ==
    /\ pc[w] = "taintStop"
    /\ PatchApi(w, TRUE, api[key[w]].anno)
    /\ Finish(w) \/ Retry(w)

\* An annotation already there is written back as it was read.
RemoveTaint(w) ==
    /\ pc[w] = "untaint"
    /\ PatchApi(w, FALSE, IF node[w].anno = None THEN cur[w] ELSE node[w].anno)
    /\ Finish(w) \/ Retry(w)

-----------------------------------------------------------------------------
(***************************************************************************)
(* AllocateAnycastIp.                                                      *)
(***************************************************************************)
\* Mutant: allocate without looking for an address that is already there.
FindByTagsNever(w) == pc[w] = "tags" /\ Goto(w, "allocate", None) /\ KeepCloud /\ KeepApi

\* Mutant: the node name is left out of the tag filter.
FindByTagsAnyName(w) ==
    /\ pc[w] = "tags"
    /\ \/ indexed = {} /\ Goto(w, "allocate", None)
       \/ \E e \in indexed : Goto(w, "describeEip", e)
    /\ KeepCloud /\ KeepApi

FindByTags(w) ==
    /\ pc[w] = "tags"
    /\ \/ /\ RowsByTags(key[w]) = {}
          /\ Goto(w, "allocate", None)
       \/ \E e \in RowsByTags(key[w]) : Goto(w, "describeEip", e)
    /\ KeepCloud /\ KeepApi

\* A reply that is lost sends the worker to create tags; an incomplete one to a retry.
Allocate(w) ==
    /\ pc[w] = "allocate"
    /\ \E e \in Eips :
          /\ AllocateAddresses(e, key[w], node[w].ins)
          /\ \/ Goto(w, "describeEip", e)
             \/ Goto(w, "createTags", None)
             \/ Retry(w)
    /\ KeepApi /\ UNCHANGED crashes

\* Mutant: the two tag values are swapped.
CreateMissingTagsSwapped(w) ==
    /\ pc[w] = "createTags"
    /\ CreateTags(node[w].ins, key[w])
    /\ Retry(w)
    /\ KeepApi /\ UNCHANGED crashes

\* The loop over the tags creates what is missing, and the reconcile returns the error of
\* the allocation.  A loop that stops half-way ends the reconcile in the same way: it is this
\* step if every value is there by then, and ApiError if one still is not.
CreateMissingTags(w) ==
    /\ pc[w] = "createTags"
    /\ CreateTags(key[w], node[w].ins)
    /\ Retry(w)
    /\ KeepApi /\ UNCHANGED crashes

(***************************************************************************)
(* AssociateAnycastIp.                                                     *)
(***************************************************************************)
\* Mutant: an address that is on its way to the instance counts as bound.
DescribeAddressHasty(w) ==
    /\ pc[w] = "describeEip"
    /\ LET a == eip[cur[w]] IN
       \/ a.status \in {"BINDING", "BIND"} /\ a.ins = node[w].ins /\ Settle(w, cur[w])
       \/ a.status = "UNBIND" /\ Goto(w, "associate", cur[w])
       \/ /\ a.status \notin {"BINDING", "BIND", "UNBIND"} \/ (a.status = "BIND" /\ a.ins # node[w].ins)
          /\ Retry(w)
    /\ KeepCloud /\ KeepApi

DescribeAddress(w) ==
    /\ pc[w] = "describeEip"
    /\ LET a == eip[cur[w]] IN
       \/ /\ a.status = "BIND" /\ a.ins = node[w].ins
          /\ Settle(w, cur[w])
       \/ /\ a.status = "UNBIND"
          /\ Goto(w, "associate", cur[w])
       \/ /\ a.status \notin {"BIND", "UNBIND"} \/ (a.status = "BIND" /\ a.ins # node[w].ins)
          /\ Retry(w)
    /\ KeepCloud /\ KeepApi

\* Mutant: an accepted association is taken for a finished one.
AssociateTrusting(w) ==
    /\ pc[w] = "associate"
    /\ AssociateAddress(cur[w], node[w].ins)
    /\ Finish(w)
    /\ KeepApi /\ UNCHANGED crashes

\* Even a call that is accepted returns an error: the status must become BIND first.
Associate(w) ==
    /\ pc[w] = "associate"
    /\ AssociateAddress(cur[w], node[w].ins)
    /\ Retry(w)
    /\ KeepApi /\ UNCHANGED crashes

-----------------------------------------------------------------------------
(***************************************************************************)
(* Faults.                                                                 *)
(***************************************************************************)
\* Mutant: a release that fails is only logged.
ApiErrorLogged(w) ==
    /\ pc[w] \in Calls \ {"terminating"}
    /\ CASE pc[w] = "allocate" -> Goto(w, "createTags", None)
         [] pc[w] = "release" -> Finish(w)
         [] OTHER -> Retry(w)
    /\ KeepCloud /\ KeepApi

\* A call is refused or times out without effect.
ApiError(w) ==
    /\ pc[w] \in Calls \ {"terminating"}
    /\ IF pc[w] = "allocate" THEN Goto(w, "createTags", None) ELSE Retry(w)
    /\ KeepCloud /\ KeepApi

\* The active replica dies; queue, cache and workers of its successor are fresh.
Crash ==
    /\ crashes < MaxCrashes
    /\ crashes' = crashes + 1
    /\ pc' = [w \in Workers |-> "idle"]
    /\ key' = [w \in Workers |-> None]
    /\ node' = [w \in Workers |-> None]
    /\ cur' = [w \in Workers |-> None]
    /\ dirty' = {}
    /\ processing' = {}
    /\ cache' = [n \in Nodes |-> None]
    /\ unseen' = unseen \cup {n \in Nodes : api[n] = None}
    /\ UNCHANGED <<cloudVars, api, born>>

WorkerStep(w) ==
    \/ \E n \in Nodes : Start(w, n)
    \/ RejectTerminating(w)
    \/ FindLegacy(w) \/ DescribeLegacy(w) \/ Disassociate(w) \/ Release(w)
    \/ DescribeInstance(w) \/ AddTaint(w) \/ AddTaintAndStop(w) \/ RemoveTaint(w)
    \/ FindByTags(w) \/ Allocate(w) \/ CreateMissingTags(w)
    \/ DescribeAddress(w) \/ Associate(w)
    \/ ApiError(w)

Next ==
    \/ \E w \in Workers : WorkerStep(w)
    \/ ClusterNext /\ UNCHANGED <<cloudVars, workerVars, crashes>>
    \/ CloudNext /\ UNCHANGED <<watchVars, workerVars, crashes>>
    \/ Crash

Spec == Init /\ [][Next]_vars

(***************************************************************************)
(* Fairness.  The informer, the cloud's tasks and the workers keep going   *)
(* (goroutines that are never stopped); a call that is retried for ever is *)
(* in the end answered, which is what the unlimited rate-limited requeue   *)
(* relies on.  Users, crashes and errors are not fair.                     *)
(***************************************************************************)
CloudDone(e) == BindingDone(e) \/ UnbindingDone(e) \/ TagIndexUpdated(e)

Fairness ==
    /\ \A n \in Nodes : WF_vars(Observe(n) /\ UNCHANGED <<cloudVars, workerVars, crashes>>)
    /\ \A e \in Eips : WF_vars(CloudDone(e) /\ UNCHANGED <<watchVars, workerVars, crashes>>)
    /\ \A n \in Nodes : SF_vars(\E w \in Workers : Start(w, n))
    /\ \A w \in Workers :
          /\ WF_vars(WorkerStep(w))
          /\ SF_vars(FindLegacy(w)) /\ SF_vars(DescribeLegacy(w))
          /\ SF_vars(Disassociate(w)) /\ SF_vars(Release(w))
          /\ SF_vars(DescribeInstance(w)) /\ SF_vars(AddTaint(w))
          /\ SF_vars(AddTaintAndStop(w)) /\ SF_vars(RemoveTaint(w))
          /\ SF_vars(FindByTags(w)) /\ SF_vars(Allocate(w)) /\ SF_vars(CreateMissingTags(w))
          /\ SF_vars(DescribeAddress(w)) /\ SF_vars(Associate(w))

FairSpec == Spec /\ Fairness

-----------------------------------------------------------------------------
(***************************************************************************)
(* Properties.                                                             *)
(***************************************************************************)
\* A node never owns two addresses: however often allocation is retried after
\* errors, lost replies and crashes, the tags lead back to the first address
\* (AllocateAnycastIp: "call tag api to find existed anycast ip").
OneAddressPerNode ==
    \A e, f \in Eips : Live(e) /\ Live(f) /\ eip[e].name = eip[f].name => e = f

\* No address is forgotten: one whose node is gone is on its way to be released
\* (its key is queued or in work, or the delete event is still to come), unless
\* the deletion never passed the event filter (controller down, label removed).
NoSilentLeak ==
    \A e \in Eips : Live(e) =>
        LET n == eip[e].name IN
        api[n] # None \/ cache[n] # None \/ n \in dirty \cup processing \cup unseen

\* The parts of the strengthening IInv.
Busy(w) == pc[w] # "idle"

\* A worker holds what its next call needs, and the workqueue knows its key.
WorkersOK ==
    \A w \in Workers : Busy(w) =>
        /\ key[w] \in processing
        /\ pc[w] \in NodeCalls => node[w] \in NodeObject
        /\ pc[w] \in {"describeGone", "disassociate", "release", "describeEip", "associate"}
              => cur[w] \in Eips

\* The workqueue never hands a key to two workers.
KeysExclusive == \A v, w \in Workers : Busy(v) /\ Busy(w) /\ key[v] = key[w] => v = w

\* The tag index lists exactly the addresses that are alive.
IndexExact == indexed = {e \in Eips : Live(e)}

\* A name is given to an address when it is allocated, and kept.
NamesKept == \A e \in Eips : eip[e].name = None <=> eip[e].status = "UNUSED"

\* A worker about to allocate still has reason to: nobody else allocates for its key.
NothingAllocatedYet ==
    \A w \in Workers : pc[w] = "allocate" => \A e \in Eips : Live(e) => eip[e].name # key[w]

\* A worker that cleans up holds an address of its key.
LegacyOfKey ==
    \A w \in Workers :
        pc[w] \in {"describeGone", "disassociate", "release"} => eip[cur[w]].name = key[w]

\* A worker that serves a node may forget its key at any moment: if the node went
\* away meanwhile, its deletion is queued or is still to be shown.
DeletionPending ==
    \A w \in Workers :
        pc[w] \in NodeCalls => cache[key[w]] # None \/ key[w] \in dirty \cup unseen

\* What makes OneAddressPerNode and NoSilentLeak inductive when the tag index does not
\* lag: the exclusiveness of the workqueue and the accounting of every address, of which
\* Reconcile relies on each part without testing it.
IInv ==
    /\ TypeOK /\ WorkersOK /\ KeysExclusive
    /\ IndexExact /\ NamesKept /\ NothingAllocatedYet /\ OneAddressPerNode
    /\ LegacyOfKey /\ DeletionPending /\ NoSilentLeak

\* The taint guards the node: once the controller has annotated a node, the node
\* is free of the taint only while an address is bound to its instance.
OpenOnlyWhenBound ==
    \A n \in Nodes :
        api[n] # None /\ api[n].anno # None /\ ~api[n].taint /\ api[n].ins \notin destroyed
            => BoundTo(api[n].ins) # {}

\* While an address is being bound to the instance of a node, the node is tainted:
\* the taint was put before the allocation and is not lifted before the end.
TaintedWhileBinding ==
    \A e \in Eips, n \in Nodes :
        eip[e].status = "BINDING" /\ api[n] # None /\ api[n].ins = eip[e].ins => api[n].taint

\* An instance that holds an address of somebody else is never given another one.
OthersRespected ==
    \A e \in Eips : eip[e].status \in {"BINDING", "BIND"} => OtherEip[eip[e].ins] = {}

\* Nodes do not get each other's addresses, whoever holds which copy of which node: the
\* annotation of a node names an address that was allocated for its name, and an address
\* is bound, or on its way, only to an instance of the name it was allocated for.
NoMixUp ==
    /\ \A n \in Nodes : api[n] # None /\ api[n].anno # None => eip[api[n].anno].name = n
    /\ \A e \in Eips : eip[e].status \in {"BINDING", "BIND"} => NameOf[eip[e].ins] = eip[e].name

\* This step takes address e away: it unbinds it or gives it back.
TakenAway(e) ==
    \/ eip[e].status = "BIND" /\ eip'[e].status = "UNBINDING"
    \/ eip[e].status # "RELEASED" /\ eip'[e].status = "RELEASED"

\* No reconcile takes an address away from a node that exists (README: "Node deleted event
\* watched"), although it goes by what the cache showed several calls ago, and the cache may
\* have been empty because the replica had just started.
LivingKept == [][\A e \in Eips : TakenAway(e) => api[eip[e].name] = None]_vars

\* This step allocates address e.
AllocatedFor(e) == eip[e].status = "UNUSED" /\ eip'[e].status = "UNBIND"

\* An address is allocated only for a node that carries the configured labels in the
\* copy Reconcile has just read (README: "for nodes that has a special label").
OnlyLabelledServed ==
    [][\A e \in Eips, w \in Workers :
          AllocatedFor(e) /\ eip'[e].name = key[w] => IsAiaNode(node[w])]_vars

\* What users read in the annotation of a node is an address the account still has:
\* an address is not released while a node is annotated with it.
AnnotationCurrent ==
    \A n \in Nodes : api[n] # None /\ api[n].anno # None => Live(api[n].anno)

\* A labelled node with a living instance that holds no address of somebody else.
Wanted(n) ==
    /\ api[n] # None
    /\ IsAiaNode(api[n])
    /\ ~api[n].terminated
    /\ api[n].ins \notin destroyed
    /\ OtherEip[api[n].ins] = {}

Ready(n) ==
    /\ api[n] # None
    /\ ~api[n].taint
    /\ api[n].anno # None
    /\ BoundTo(api[n].ins) # {}

\* A node that stays wanted ends up bound, annotated and without the taint, and stays so,
\* although every accepted association is reported as an error and retried.
EventuallyServed == \A n \in Nodes : <>[]Wanted(n) => <>[]Ready(n)

\* An address whose node is gone, if the controller was shown the deletion.
Orphan(e) == Live(e) /\ api[eip[e].name] = None /\ eip[e].name \notin unseen

\* The address of a deleted node is released in the end, unless its name is registered
\* again: disassociating is asynchronous, and the release is refused until it is done.
EventuallyReclaimed == \A e \in Eips : Orphan(e) ~> ~Orphan(e)
=============================================================================

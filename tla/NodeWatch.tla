------------------------------ MODULE NodeWatch ------------------------------
(***************************************************************************)
(* The Kubernetes side: the Node objects held by the API server, the       *)
(* informer cache the controller reads them from, the event filters        *)
(* (ProcessNodeCreate, ProcessNodeUpdate, ProcessNodeDelete) and the       *)
(* workqueue they feed.                                                    *)
(*                                                                         *)
(* The informer may fall behind and may coalesce the changes of one        *)
(* incarnation of a node (a relist does), but it tells two incarnations    *)
(* apart: it shows the deletion of the first before the second.            *)
(* A Node object is reduced to what the controller reads or writes; all    *)
(* the labels the configuration asks for count as one boolean, and the     *)
(* others only through the events their changes cause (OtherLabelShown).   *)
(***************************************************************************)
EXTENDS AnycastCloud, Naturals

CONSTANTS
    MaxIncarnations,    \* bound: how many times a name may be registered
    LabelChoices,       \* values the configured labels may take: {TRUE} or {TRUE, FALSE}
    OtherLabels         \* bound: do labels that nobody configured change?

NodeObject == [ins        : Instances \cup {None},  \* label cloud.tencent.com/node-instance-id
               label      : BOOLEAN,                \* carries every label of Conf.Node.Labels
               terminated : BOOLEAN,                \* Status.Phase = NodeTerminated
               taint      : BOOLEAN,                \* has the taint no-aia-ip
               anno       : Eips \cup {None},       \* annotation anycast-ip-id
               uid        : Nat]                    \* incarnation

ASSUME WatchAssumption ==
    /\ MaxIncarnations \in Nat
    /\ LabelChoices \in SUBSET BOOLEAN
    /\ OtherLabels \in BOOLEAN
    /\ None \notin NodeObject

VARIABLES
    api,        \* api[n]: the object at the API server, or None
    cache,      \* cache[n]: the object in the informer cache, or None
    born,       \* born[n]: incarnations of n so far
    dirty,      \* workqueue: keys waiting to be reconciled
    processing, \* workqueue: keys being reconciled
    unseen      \* history: names whose node went away without a delete event reaching the queue

watchVars == <<api, cache, born, dirty, processing, unseen>>

WatchTypeOK ==
    /\ api \in [Nodes -> NodeObject \cup {None}]
    /\ cache \in [Nodes -> NodeObject \cup {None}]
    /\ born \in [Nodes -> Nat]
    /\ dirty \in SUBSET Nodes
    /\ processing \in SUBSET Nodes
    /\ unseen \in SUBSET Nodes

WatchInit ==
    /\ api = [n \in Nodes |-> None]
    /\ cache = [n \in Nodes |-> None]
    /\ born = [n \in Nodes |-> 0]
    /\ dirty = {}
    /\ processing = {}
    /\ unseen = {}

\* MangerImp.IsAiaNode
IsAiaNode(o) == o.ins # None /\ o.label

(***************************************************************************)
(* Changes made by users, the cluster autoscaler and the kubelet.          *)
(***************************************************************************)
\* A node joins, possibly before its instance-id label is set and possibly
\* with the taint of the node pool template.
NodeRegistered(n) ==
    /\ api[n] = None
    /\ born[n] < MaxIncarnations
    /\ born' = [born EXCEPT ![n] = @ + 1]
    /\ \E i \in {j \in Instances : NameOf[j] = n /\ j \notin destroyed} \cup {None},
          l \in LabelChoices, t \in BOOLEAN :
          api' = [api EXCEPT ![n] = [ins |-> i, label |-> l, terminated |-> FALSE,
                                     taint |-> t, anno |-> None, uid |-> born[n] + 1]]
    /\ UNCHANGED <<cache, dirty, processing, unseen>>

\* The instance id is filled in, or the user changes the labels.
NodeRelabelled(n) ==
    /\ api[n] # None
    /\ \/ /\ api[n].ins = None
          /\ \E i \in Instances \ destroyed :
                /\ NameOf[i] = n
                /\ api' = [api EXCEPT ![n].ins = i]
       \/ \E l \in LabelChoices :
             /\ api[n].label # l
             /\ api' = [api EXCEPT ![n].label = l]
    /\ UNCHANGED <<cache, born, dirty, processing, unseen>>

NodeTerminating(n) ==
    /\ api[n] # None
    /\ ~api[n].terminated
    /\ api' = [api EXCEPT ![n].terminated = TRUE]
    /\ UNCHANGED <<cache, born, dirty, processing, unseen>>

NodeDeleted(n) ==
    /\ api[n] # None
    /\ api' = [api EXCEPT ![n] = None]
    /\ unseen' = IF cache[n] # None \/ n \in dirty \cup processing
                   THEN unseen ELSE unseen \cup {n}
    /\ UNCHANGED <<cache, born, dirty, processing>>

(***************************************************************************)
(* The informer shows one change; the filter decides whether its key is    *)
(* queued.                                                                 *)
(***************************************************************************)
Enqueue(n, pass) == dirty' = IF pass THEN dirty \cup {n} ELSE dirty

\* ProcessNodeCreate
ProcessNodeCreate(n) ==
    /\ cache[n] = None
    /\ api[n] # None
    /\ cache' = [cache EXCEPT ![n] = api[n]]
    /\ Enqueue(n, IsAiaNode(api[n]))
    /\ unseen' = unseen \ {n}
    /\ UNCHANGED <<api, born, processing>>

\* ProcessNodeUpdate: a change that leaves the labels alone is dropped.  One that changes
\* labels nobody configured as well is this step followed by OtherLabelShown.
ProcessNodeUpdate(n) ==
    /\ cache[n] # None
    /\ api[n] # None
    /\ cache[n] # api[n]
    /\ cache[n].uid = api[n].uid
    /\ cache' = [cache EXCEPT ![n] = api[n]]
    /\ Enqueue(n, /\ <<cache[n].ins, cache[n].label>> # <<api[n].ins, api[n].label>>
                  /\ IsAiaNode(api[n]))
    /\ UNCHANGED <<api, born, processing, unseen>>

\* ProcessNodeUpdate compares all labels: a change of one the model leaves out, which may
\* be old when it is shown, queues a node that has the configured ones.
OtherLabelShown(n) ==
    /\ OtherLabels
    /\ cache[n] # None
    /\ Enqueue(n, IsAiaNode(cache[n]))
    /\ UNCHANGED <<api, cache, born, processing, unseen>>

\* ProcessNodeDelete: decided by the last state the cache held.
ProcessNodeDelete(n) ==
    /\ cache[n] # None
    /\ api[n] # None => api[n].uid # cache[n].uid
    /\ cache' = [cache EXCEPT ![n] = None]
    /\ Enqueue(n, IsAiaNode(cache[n]))
    /\ unseen' = IF IsAiaNode(cache[n]) THEN unseen ELSE unseen \cup {n}
    /\ UNCHANGED <<api, born, processing>>

Observe(n) == ProcessNodeCreate(n) \/ ProcessNodeUpdate(n) \/ ProcessNodeDelete(n)

ClusterNext ==
    \E n \in Nodes : \/ NodeRegistered(n) \/ NodeRelabelled(n)
                     \/ NodeTerminating(n) \/ NodeDeleted(n)
                     \/ Observe(n) \/ OtherLabelShown(n)
=============================================================================

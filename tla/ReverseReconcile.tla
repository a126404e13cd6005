-------------------------- MODULE ReverseReconcile --------------------------
(***************************************************************************)
(* ReverseReconcile, the sweep that looks for addresses whose node is gone,*)
(* composed with the workers: once a minute the active replica lists the   *)
(* nodes of its cache, asks the Tag API for the addresses of the cluster   *)
(* and for their node names, and disassociates and releases those whose    *)
(* node is not in the list.  Nothing locks it against the workers, the     *)
(* users or the informer, so they act between any two of its calls.        *)
(*                                                                         *)
(* The addresses of the cluster fit in one page of the Tag API, so its     *)
(* answer is complete; TagPaging is about more.                            *)
(***************************************************************************)
EXTENDS Reconciler

VARIABLES
    rpc,        \* the next call of the sweep
    nodeNames,  \* nodeNames
    ids,        \* anycastIds, then legacyAnycastIds
    todo,       \* legacy addresses still to be disassociated
    unbind,     \* unbindLegacyAnycastId
    bind,       \* needDisassociateAnycastId
    isLeader,   \* reconciler.isLeader
    unsynced,   \* informer: nodes of its first list that it has not shown yet
    settled     \* history: names whose node has been there since the replica started,
                \* or since a sweep listed it

sweepData == <<nodeNames, ids, todo, unbind, bind>>
sweepVars == <<rpc, sweepData, isLeader, unsynced, settled>>

SweepCalls == {"addresses", "keys", "describe", "disassociate", "releaseUnbind", "releaseBind"}

SweepTypeOK ==
    /\ TypeOK
    /\ rpc \in SweepCalls \cup {"idle"}
    /\ nodeNames \subseteq Nodes /\ unsynced \subseteq Nodes /\ settled \subseteq Nodes
    /\ ids \subseteq Eips /\ todo \subseteq bind /\ unbind \subseteq Eips /\ bind \subseteq Eips
    /\ isLeader \in BOOLEAN
    /\ rpc = "idle" => nodeNames = {} /\ ids = {} /\ unbind = {} /\ bind = {}

\* Mutant: the lists of the last sweep are kept.
SweepResetKeeping == rpc' = "idle" /\ nodeNames' = {} /\ ids' = {} /\ todo' = {} /\ UNCHANGED <<unbind, bind>>

SweepReset == rpc' = "idle" /\ nodeNames' = {} /\ ids' = {} /\ todo' = {} /\ unbind' = {} /\ bind' = {}

SweepInit ==
    /\ Init
    /\ rpc = "idle"
    /\ nodeNames = {} /\ ids = {} /\ todo = {} /\ unbind = {} /\ bind = {}
    /\ isLeader = FALSE
    /\ unsynced = {}
    /\ settled = {}

RestUnchanged == UNCHANGED <<watchVars, workerVars, crashes, isLeader, unsynced>>

-----------------------------------------------------------------------------
\* Mutant: the nodes are listed without waiting for the cache to be filled.
BeginSweepUnsynced ==
    /\ rpc = "idle"
    /\ isLeader
    /\ nodeNames' = {n \in Nodes : cache[n] # None}
    /\ rpc' = "addresses"
    /\ settled' = settled \cup {n \in Nodes : cache[n] # None /\ api[n] # None /\ cache[n].uid = api[n].uid}
    /\ UNCHANGED <<cloudVars, ids, todo, unbind, bind>>
    /\ RestUnchanged

\* The minute is over.  List reads the cache, and waits until it is filled.
BeginSweep ==
    /\ rpc = "idle"
    /\ isLeader
    /\ unsynced = {}
    /\ nodeNames' = {n \in Nodes : cache[n] # None}
    /\ rpc' = "addresses"
    /\ settled' = settled \cup {n \in Nodes : cache[n] # None /\ api[n] # None /\ cache[n].uid = api[n].uid}
    /\ UNCHANGED <<cloudVars, ids, todo, unbind, bind>>
    /\ RestUnchanged

\* getAllAnycastIpOfCluster
ListAddresses ==
    /\ rpc = "addresses"
    /\ IF indexed = {}
         THEN SweepReset
         ELSE rpc' = "keys" /\ ids' = indexed /\ UNCHANGED <<nodeNames, todo, unbind, bind>>
    /\ UNCHANGED <<cloudVars, settled>>
    /\ RestUnchanged

\* getLegacyAnycastIds
FindGone ==
    /\ rpc = "keys"
    /\ LET legacy == {e \in ids \cap indexed : eip[e].name \notin nodeNames} IN
       IF legacy = {}
         THEN SweepReset
         ELSE rpc' = "describe" /\ ids' = legacy /\ nodeNames' = {} /\ UNCHANGED <<todo, unbind, bind>>
    /\ UNCHANGED <<cloudVars, settled>>
    /\ RestUnchanged

\* The calls left: one for each address that is bound, then the two releases.
CallsLeft ==
    rpc' = CASE todo' # {} -> "disassociate"
             [] todo' = {} /\ unbind' # {} -> "releaseUnbind"
             [] todo' = {} /\ unbind' = {} /\ bind' # {} -> "releaseBind"
             [] OTHER -> "idle"

\* Mutant: an address that is already unbound is not collected.
DescribeGoneBoundOnly ==
    /\ rpc = "describe"
    /\ unbind' = {}
    /\ bind' = {e \in ids : eip[e].status = "BIND" /\ eip[e].insTag = eip[e].ins}
    /\ todo' = bind'
    /\ ids' = {}
    /\ CallsLeft
    /\ UNCHANGED <<cloudVars, nodeNames, settled>>
    /\ RestUnchanged

\* getUnBindAndNeedDisassociateLegacyAnycastIds: an address that is changing is left for
\* the next sweep; one that is bound must be bound to the instance it was allocated for.
DescribeGone ==
    /\ rpc = "describe"
    /\ unbind' = {e \in ids : eip[e].status = "UNBIND"}
    /\ bind' = {e \in ids : eip[e].status = "BIND" /\ eip[e].insTag = eip[e].ins}
    /\ todo' = bind'
    /\ ids' = {}
    /\ CallsLeft
    /\ UNCHANGED <<cloudVars, nodeNames, settled>>
    /\ RestUnchanged

\* No batch api for this call; one that is refused is logged like one that fails.
DisassociateGone ==
    /\ rpc = "disassociate"
    /\ \E e \in todo :
          /\ todo' = todo \ {e}
          /\ \/ DisassociateAddress(e)
             \/ eip[e].status # "BIND" /\ UNCHANGED cloudVars
    /\ UNCHANGED <<nodeNames, ids, unbind, bind, settled>>
    /\ CallsLeft
    /\ RestUnchanged

DisassociateFails ==
    /\ rpc = "disassociate"
    /\ \E e \in todo : todo' = todo \ {e}
    /\ UNCHANGED <<cloudVars, nodeNames, ids, unbind, bind, settled>>
    /\ CallsLeft
    /\ RestUnchanged

\* The call for the unbound addresses; the reply may be lost.
ReleaseUnbind ==
    /\ rpc = "releaseUnbind"
    /\ ReleaseAll(unbind)
    /\ \/ bind # {} /\ rpc' = "releaseBind" /\ UNCHANGED sweepData
       \/ SweepReset
    /\ UNCHANGED settled
    /\ RestUnchanged

\* Ten seconds later, the call for those that were disassociated.
ReleaseBind ==
    /\ rpc = "releaseBind"
    /\ ReleaseAll(bind)
    /\ SweepReset
    /\ UNCHANGED settled
    /\ RestUnchanged

\* An address that is not UNBIND, or not any more, has the whole call refused.
ReleaseRefused ==
    /\ \/ rpc = "releaseUnbind" /\ \E e \in unbind : eip[e].status # "UNBIND"
       \/ rpc = "releaseBind" /\ \E e \in bind : eip[e].status # "UNBIND"
    /\ SweepReset
    /\ UNCHANGED <<cloudVars, settled>>
    /\ RestUnchanged

\* A call that fails ends the sweep; the next one starts afresh.
SweepError ==
    /\ rpc \in SweepCalls \ {"disassociate"}
    /\ SweepReset
    /\ UNCHANGED <<cloudVars, settled>>
    /\ RestUnchanged

SweepStep ==
    \/ BeginSweep \/ ListAddresses \/ FindGone \/ DescribeGone
    \/ DisassociateGone \/ ReleaseUnbind \/ ReleaseBind \/ ReleaseRefused
    \/ DisassociateFails \/ SweepError

-----------------------------------------------------------------------------
(***************************************************************************)
(* A step of the others: the goroutine of the sweep dies with its replica, *)
(* and learns from events and reconciles that its replica is the leader.   *)
(***************************************************************************)
CreateShown == \E n \in Nodes : cache[n] = None /\ cache'[n] # None

ReconcileStarted == \E w \in Workers : pc[w] = "idle" /\ pc'[w] # "idle"

OthersStep ==
    /\ Next
    /\ IF crashes' # crashes
         THEN /\ SweepReset
              /\ isLeader' = FALSE
              /\ unsynced' = {n \in Nodes : api[n] # None}
              /\ settled' = {n \in Nodes : api[n] # None}
         ELSE /\ UNCHANGED <<rpc, sweepData>>
              /\ isLeader' = (isLeader \/ CreateShown \/ ReconcileStarted)
              /\ unsynced' = {n \in unsynced : api'[n] # None /\ cache'[n] = None}
              /\ settled' = {n \in settled : api'[n] # None}

\* The create event of a node the model leaves out, such as the controller's own.
OtherNodeShown ==
    /\ ~isLeader
    /\ isLeader' = TRUE
    /\ UNCHANGED <<vars, rpc, sweepData, unsynced, settled>>

SweepNext == SweepStep \/ OthersStep \/ OtherNodeShown

SweepSpec == SweepInit /\ [][SweepNext]_<<vars, sweepVars>>

(***************************************************************************)
(* Fairness.  The goroutine of the sweep is never stopped, the informer    *)
(* and the cloud keep going, the informer shows the controller's own node, *)
(* and in the end the calls of the sweep, repeated every minute, are       *)
(* answered.  Nothing is asked of the workers.                             *)
(***************************************************************************)
SweepGoesOn ==
    \/ BeginSweep \/ ListAddresses \/ FindGone \/ DescribeGone
    \/ DisassociateGone \/ ReleaseUnbind \/ ReleaseBind \/ ReleaseRefused

SweepFairness ==
    /\ \A n \in Nodes : WF_cache(Observe(n))
    /\ \A e \in Eips : WF_cloudVars(CloudDone(e))
    /\ WF_isLeader(OtherNodeShown)
    /\ WF_sweepVars(SweepGoesOn)
    /\ <>[][SweepError \/ DisassociateFails => SweepGoesOn]_sweepVars

SweepFairSpec == SweepSpec /\ SweepFairness

-----------------------------------------------------------------------------
\* The addresses the sweep is about to take away.
Targets == (IF rpc = "describe" THEN ids ELSE {}) \cup unbind \cup bind

\* A node that has been there since the replica started, or since a sweep listed it, does
\* not lose its address to a sweep: not even when the replica takes over while the nodes
\* are still being shown to it one by one.
SettledSpared == \A e \in Targets : eip[e].name \notin settled

\* And nobody else takes it away either: the worker that cleans up does so for a node that
\* is gone, and that node is not settled.
SettledKept == [][\A e \in Eips : TakenAway(e) => eip[e].name \notin settled]_<<vars, sweepVars>>

\* A sweep touches no address of a node that exists: it is there "to process the aia ip
\* associated with these deleted nodes" (README, Reverse Reconcile).
LivingSpared ==
    [][\A e \in Eips :
          SweepStep /\ eip'[e].status # eip[e].status => api[eip[e].name] = None]_<<vars, sweepVars>>

Swept(n) == api[n] # None \/ \A e \in Eips : Live(e) => eip[e].name # n

\* All addresses of a node whose name was registered once are released in the end after
\* it is gone, even if nobody was told of the deletion (no replica running, or an address
\* the tags did not show in time), unless the name is registered again.
EventuallySwept == \A n \in Nodes : (api[n] = None /\ born[n] = 1) ~> Swept(n)

\* The same for every name whose deletion nobody was told of: "if the Aia-ip-controller is
\* unavailable when the node's delete event occurs", the sweep is "to process the aia ip
\* associated with these deleted nodes" (README, Reverse Reconcile).  An address that went
\* to a second instance of its name keeps the tag of the first, and DescribeGone passes it by.
UntoldSwept == \A n \in Nodes : (api[n] = None /\ n \in unseen) ~> Swept(n)
=============================================================================

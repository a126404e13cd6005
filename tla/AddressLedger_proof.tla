-------------------------- MODULE AddressLedger_proof --------------------------
(***************************************************************************)
(* Proof that Reconciler implements AddressBook whenever the tag index does*)
(* not lag, for every number of nodes, instances, addresses, workers,      *)
(* registrations and crashes:                                              *)
(*   LedgerIsBook   LedgerSpec => BookSpec                                 *)
(* NodeRegistered is Join, NodeDeleted is Leave, Allocate is Enter, an     *)
(* association for the node that is shown is Renew, Release is Strike, and *)
(* every other step leaves the book alone.  IInv says that a worker that   *)
(* allocates finds no entry and that a worker that releases holds the      *)
(* entry of its key.  LedgerInv adds what Strike needs: a worker cleans up *)
(* only for a node that has left, although it decides from a cached copy   *)
(* and the name may have been registered again since.                      *)
(***************************************************************************)
EXTENDS AddressLedger, Reconciler_safety_proof

\* Only names that own an address are lapsed; an address that is not lapsed is for the
\* node that is there, and the cache shows that node or none.
LapsedRight(n) ==
    /\ n \in lapsed => Owned(n) # {}
    /\ Owned(n) # {} /\ n \notin lapsed =>
           /\ api[n] # None
           /\ cache[n] # None => cache[n].uid = api[n].uid
           /\ cache[n] = None => n \notin Queue

\* A worker that cleans up does it for a node that has left.
CleansLapsed(w) == pc[w] \in GoneCalls /\ Owned(key[w]) # {} => key[w] \in lapsed

\* A worker that serves a node holds an address of its key.
HoldsOwn(w) == pc[w] \in {"describeEip", "associate"} => eip[cur[w]].name = key[w]

LedgerInv ==
    /\ lapsed \subseteq Nodes
    /\ \A n \in Nodes : LapsedRight(n)
    /\ \A w \in Workers : CleansLapsed(w) /\ HoldsOwn(w)

-----------------------------------------------------------------------------
(***************************************************************************)
(* LedgerInv is inductive.                                                 *)
(***************************************************************************)

\* A worker that cleans up has been at it, or has just taken its key.
LEMMA CleaningOn ==
    ASSUME TypeInv, Next, NEW w \in Workers, pc'[w] \in GoneCalls
    PROVE  \/ pc[w] \in GoneCalls /\ key'[w] = key[w]
           \/ \E n \in Nodes : Start(w, n)
<1> DEFINE Same == pc[w] \in GoneCalls /\ key'[w] = key[w]
<1> HIDE DEF Same
<1>1. ASSUME NEW call, NEW e, Goto(w, call, e)
      PROVE  call \in GoneCalls /\ (pc[w] \in GoneCalls => Same)
  BY <1>1 DEF Goto, TypeInv, QueueInv, Same
<1>2. ~(Finish(w) \/ Retry(w))
  BY DEF Finish, Retry, EndReconcile, TypeInv, QueueInv, GoneCalls
<1>3. CASE \E v \in Workers : v # w /\ WorkerStep(v)
  BY <1>3, OneWorker DEF Same
<1>4. CASE FindLegacy(w) \/ DescribeLegacy(w) \/ Disassociate(w) \/ Release(w)
  <2>1. pc[w] \in GoneCalls
    BY <1>4 DEF FindLegacy, DescribeLegacy, Disassociate, Release, GoneCalls
  <2> QED BY <1>1, <1>2, <1>4, <2>1 DEF FindLegacy, DescribeLegacy, Disassociate, Release, Same
<1>5. ~(RejectTerminating(w) \/ AddTaintAndStop(w) \/ RemoveTaint(w) \/ CreateMissingTags(w)
        \/ Associate(w) \/ ApiError(w))
  <2>1. ~Goto(w, "createTags", None)
    BY <1>1 DEF GoneCalls
  <2> QED BY <1>2, <2>1 DEF RejectTerminating, AddTaintAndStop, RemoveTaint, CreateMissingTags,
        Associate, ApiError
<1>6. ~DescribeInstance(w)
  BY <1>1, <1>2 DEF DescribeInstance, JudgeType, TaintFirst, Settle, GoneCalls
<1>7. ~AddTaint(w)
  BY <1>2 DEF AddTaint, TypeInv, QueueInv, GoneCalls
<1>8. ~(FindByTags(w) \/ Allocate(w) \/ DescribeAddress(w))
  BY <1>1, <1>2 DEF FindByTags, Allocate, DescribeAddress, Settle, GoneCalls
<1>9. CASE UNCHANGED workerVars
  BY <1>9 DEF workerVars, Same
<1>10. ~Crash
  BY DEF Crash, GoneCalls
<1> QED BY <1>3, <1>4, <1>5, <1>6, <1>7, <1>8, <1>9, <1>10 DEF Next, WorkerStep, Same

\* The address a worker gets in hand while it serves a node is one of its key.
LEMMA HoldsOwnNext ==
    ASSUME TypeInv, NamesKept, LedgerInv, Next, NEW w \in Workers
    PROVE  HoldsOwn(w)'
<1>1. ASSUME NEW e \in Eips, eip[e].name = key[w], key[w] \in Nodes
      PROVE  eip'[e].name = key[w]
  BY <1>1, NextNames, CloudAssumption DEF NamesKept, NamesStay
<1>2. ASSUME pc'[w] = pc[w], key'[w] = key[w], cur'[w] = cur[w]
      PROVE  HoldsOwn(w)'
  <2>1. CASE pc[w] \in {"describeEip", "associate"}
    <3>1. key[w] \in Nodes /\ cur[w] \in Eips
      BY <2>1, WorkerHas DEF Calls, NodeCalls, Holding
    <3> QED BY <1>1, <1>2, <2>1, <3>1 DEF LedgerInv, HoldsOwn
  <2> QED BY <1>2, <2>1 DEF HoldsOwn
<1>3. ASSUME NEW call, NEW e, Goto(w, call, e),
             call \in {"describeEip", "associate"} => eip'[e].name = key[w]
      PROVE  HoldsOwn(w)'
  BY <1>3 DEF Goto, TypeInv, QueueInv, HoldsOwn
<1>4. ASSUME Finish(w) \/ Retry(w)
      PROVE  HoldsOwn(w)'
  BY <1>4 DEF Finish, Retry, EndReconcile, TypeInv, QueueInv, HoldsOwn
<1>5. ASSUME NEW n \in Nodes, Start(w, n)
      PROVE  HoldsOwn(w)'
  BY <1>5 DEF Start, FirstCall, TypeInv, QueueInv, HoldsOwn
<1>6. CASE FindLegacy(w) \/ DescribeLegacy(w) \/ Disassociate(w) \/ Release(w)
  BY <1>3, <1>4, <1>6 DEF FindLegacy, DescribeLegacy, Disassociate, Release
<1>7. CASE RejectTerminating(w) \/ AddTaintAndStop(w) \/ RemoveTaint(w) \/ CreateMissingTags(w)
           \/ Associate(w) \/ ApiError(w)
  BY <1>3, <1>4, <1>7 DEF RejectTerminating, AddTaintAndStop, RemoveTaint, CreateMissingTags,
        Associate, ApiError
<1>8. CASE DescribeInstance(w)
  BY <1>3, <1>4, <1>8 DEF DescribeInstance, JudgeType, TaintFirst, Settle
<1>9. CASE AddTaint(w)
  <2>1. CASE pc' = [pc EXCEPT ![w] = "tags"]
    BY <2>1 DEF TypeInv, QueueInv, HoldsOwn
  <2> QED BY <1>4, <1>9, <2>1 DEF AddTaint
<1>10. CASE FindByTags(w)
  <2>1. key[w] \in Nodes
    BY <1>10, WorkerHas DEF FindByTags, Calls, NodeCalls
  <2>2. \A e \in RowsByTags(key[w]) : eip'[e].name = key[w]
    BY <1>1, <2>1 DEF RowsByTags, TypeInv, CloudTypeOK
  <2> QED BY <1>3, <1>10, <2>2 DEF FindByTags
<1>11. CASE Allocate(w)
  <2>1. PICK e \in Eips : /\ AllocateAddresses(e, key[w], node[w].ins)
                          /\ \/ Goto(w, "describeEip", e) \/ Goto(w, "createTags", None) \/ Retry(w)
    BY <1>11 DEF Allocate
  <2>2. eip'[e].name = key[w]
    BY <2>1 DEF AllocateAddresses, TypeInv, CloudTypeOK
  <2> QED BY <1>3, <1>4, <2>1, <2>2
<1>12. CASE DescribeAddress(w)
  <2>1. key[w] \in Nodes /\ cur[w] \in Eips /\ pc[w] = "describeEip"
    BY <1>12, WorkerHas DEF DescribeAddress, Calls, NodeCalls, Holding
  <2>2. eip'[cur[w]].name = key[w]
    BY <1>1, <2>1 DEF LedgerInv, HoldsOwn
  <2> QED BY <1>3, <1>4, <1>12, <2>2 DEF DescribeAddress, Settle
<1>13. CASE Crash
  BY <1>13 DEF Crash, HoldsOwn
<1>14. CASE UNCHANGED workerVars
  BY <1>2, <1>14 DEF workerVars
<1>15. CASE \E v \in Workers : v # w /\ WorkerStep(v)
  BY <1>2, <1>15, OneWorker
<1> QED BY <1>5, <1>6, <1>7, <1>8, <1>9, <1>10, <1>11, <1>12, <1>13, <1>14, <1>15 DEF Next, WorkerStep

\* Nobody allocates or binds for a name while its old address is cleaned up.
LEMMA CleaningAlone ==
    ASSUME TypeInv, LedgerInv, Next, NEW w \in Workers, pc[w] \in GoneCalls, NEW n, n = key[w]
    PROVE  ~Given(n) /\ (Owned(n)' # {} => Owned(n) # {})
<1>1. n \in Nodes /\ n # None /\ pc[w] \in Calls
  BY WorkerHas, CloudAssumption DEF Calls
<1>2. ASSUME NEW v \in Workers, pc[v] \in {"allocate", "associate"}
      PROVE  key[v] # n
  BY <1>1, <1>2, WorkerHas DEF TypeInv, QueueInv, KeysExclusive, Calls, GoneCalls, NodeCalls
<1>3. ASSUME NEW v \in Workers, pc[v] = "associate"
      PROVE  eip[cur[v]].name # n
  BY <1>2, <1>3 DEF LedgerInv, HoldsOwn
<1>4. ASSUME NEW e \in Eips, eip'[e].name = n
      PROVE  /\ ~(eip[e].status = "UNUSED" /\ eip'[e].status = "UNBIND")
             /\ ~(eip[e].status = "UNBIND" /\ eip'[e].status = "BINDING")
             /\ eip'[e].status \notin {"UNUSED", "RELEASED"} =>
                    eip[e].name = n /\ eip[e].status \notin {"UNUSED", "RELEASED"}
  <2>1. AddressStep(e)
    BY NextAddresses DEF AddressSteps
  <2> QED BY <1>2, <1>3, <1>4, <2>1 DEF AddressStep
<1> QED BY <1>4 DEF Given, Owned, Live

\* A lapsed name stays lapsed until its address is struck out or given to the next node.
LEMMA CleansNext ==
    ASSUME TypeInv, LedgerInv, Next, lapsed' = {n \in Nodes : StillLapsed(n)}, NEW w \in Workers
    PROVE  CleansLapsed(w)'
<1> SUFFICES ASSUME pc'[w] \in GoneCalls, NEW n, n = key'[w], Owned(n)' # {}
             PROVE  n \in lapsed'
  BY DEF CleansLapsed, Owned
<1>1. CASE pc[w] \in GoneCalls /\ key'[w] = key[w]
  <2>1. n \in Nodes /\ ~Given(n) /\ Owned(n) # {}
    BY <1>1, CleaningAlone, WorkerHas DEF Calls
  <2>2. n \in lapsed
    BY <1>1, <2>1 DEF LedgerInv, CleansLapsed
  <2> QED BY <2>1, <2>2 DEF StillLapsed
<1>2. ASSUME NEW m \in Nodes, Start(w, m)
      PROVE  n \in lapsed'
  <2>1. n = m /\ cache[n] = None /\ n \in Queue /\ UNCHANGED eip
    BY <1>2 DEF Start, FirstCall, KeepCloud, cloudVars, Queue, TypeInv, QueueInv, GoneCalls
  <2>2. Owned(n) # {} /\ ~Given(n)
    BY <2>1 DEF Owned, Live, Given
  <2>3. n \in lapsed
    BY <2>1, <2>2 DEF LedgerInv, LapsedRight
  <2> QED BY <2>1, <2>2, <2>3 DEF StillLapsed
<1> QED BY <1>1, <1>2, CleaningOn

\* An address that is given to a node that is shown is not lapsed, and no other one ceases to be.
LEMMA LapsedNext ==
    ASSUME TypeInv, LedgerInv, Next, lapsed' = {n \in Nodes : StillLapsed(n)}, NEW n \in Nodes
    PROVE  LapsedRight(n)'
<1>1. NodeStep(n) /\ CacheStep(n) /\ LapsedRight(n)
  BY NextNodes DEF NodeSteps, LedgerInv
<1>2. n \in lapsed' => Owned(n)' # {}
  BY DEF StillLapsed
<1>3. SUFFICES ASSUME Owned(n)' # {}, ~StillLapsed(n)
               PROVE  /\ api'[n] # None
                      /\ cache'[n] # None => cache'[n].uid = api'[n].uid
                      /\ cache'[n] = None => n \notin Queue'
  BY <1>2 DEF LapsedRight, Owned, Queue
<1>4. api'[n] # None
  BY <1>3 DEF StillLapsed
<1>5. CASE ShownNow(n)
  <2>1. api'[n].uid = api[n].uid
    BY <1>1, <1>4, <1>5 DEF ShownNow, NodeStep
  <2> QED BY <1>1, <1>4, <1>5, <2>1 DEF ShownNow, CacheStep
<1>6. CASE ~ShownNow(n)
  <2>1. cache[n] = None /\ n \notin Queue
    BY <1>1, <1>3, <1>6 DEF StillLapsed, LapsedRight, ShownNow
  <2> QED BY <1>1, <1>4, <2>1 DEF CacheStep
<1> QED BY <1>5, <1>6

LEMMA LedgerNextInv ==
    ASSUME IInv, LedgerInv, [LedgerNext]_ledgerVars
    PROVE  LedgerInv'
<1>0. TypeInv /\ NamesKept
  BY IInvParts DEF AddressInv
<1>1. CASE LedgerNext
  <2>1. lapsed' \subseteq Nodes
    BY <1>1 DEF LedgerNext
  <2> QED BY <1>0, <1>1, <2>1, LapsedNext, CleansNext, HoldsOwnNext DEF LedgerNext, LedgerInv
<1>2. CASE UNCHANGED ledgerVars
  BY <1>2 DEF ledgerVars, vars, cloudVars, watchVars, workerVars, LedgerInv, LapsedRight, CleansLapsed,
        HoldsOwn, Owned, Live, Queue
<1> QED BY <1>1, <1>2

-----------------------------------------------------------------------------
(***************************************************************************)
(* Every step is a step of the book or leaves it alone.                    *)
(***************************************************************************)

\* A step that gives and takes no address.
Calm ==
    \A e \in Eips : /\ eip'[e].name = eip[e].name
                    /\ eip'[e].status = "UNUSED" <=> eip[e].status = "UNUSED"
                    /\ eip'[e].status = "RELEASED" <=> eip[e].status = "RELEASED"
                    /\ ~(eip[e].status = "UNBIND" /\ eip'[e].status = "BINDING")

\* A step after which the same nodes exist.
SamePresent == \A n \in Nodes : api'[n] = None <=> api[n] = None

LapsedStep == lapsed' = {n \in Nodes : StillLapsed(n)}

\* Names whose addresses stay keep their entry.
LEMMA EntryStays ==
    ASSUME NEW n, Owned(n)' = Owned(n)
    PROVE  Entry(n)' = Entry(n)
BY DEF Entry

LEMMA ChooseOnly ==
    ASSUME NEW S, NEW x, S = {x}
    PROVE  (CHOOSE y \in S : TRUE) = x
OBVIOUS

\* A calm step leaves the entries alone.
LEMMA CalmOwned ==
    ASSUME Calm, NEW n
    PROVE  Owned(n)' = Owned(n) /\ ~Given(n)
BY DEF Calm, Owned, Live, Given

\* A name whose addresses stay, and whose node does not leave, stays lapsed or not.
LEMMA LapsedStays ==
    ASSUME LedgerInv, LapsedStep, NEW n \in Nodes, Owned(n)' = Owned(n), ~Given(n),
           api'[n] = None => api[n] = None
    PROVE  n \in lapsed' <=> n \in lapsed
<1>1. LapsedRight(n)
  BY DEF LedgerInv
<1> QED BY <1>1 DEF LapsedRight, LapsedStep, StillLapsed

\* A step that is not about an address or the presence of a node is no step of the book.
LEMMA BookStutters ==
    ASSUME LedgerInv, LapsedStep, Calm, SamePresent
    PROVE  UNCHANGED Book!bookVars
<1>1. \A n \in Nodes : (api'[n] # None) <=> (api[n] # None)
  BY DEF SamePresent
<1>2. \A n \in Nodes : Entry(n)' = Entry(n)
  BY CalmOwned, EntryStays
<1>3. {e \in Eips : eip'[e].status # "UNUSED"} = {e \in Eips : eip[e].status # "UNUSED"}
  BY DEF Calm
<1>4. lapsed' = lapsed
  <2>1. lapsed' \subseteq Nodes /\ lapsed \subseteq Nodes
    BY DEF LapsedStep, LedgerInv
  <2>2. \A n \in Nodes : n \in lapsed' <=> n \in lapsed
    BY CalmOwned, LapsedStays DEF SamePresent
  <2> QED BY <2>1, <2>2
<1> QED BY <1>1, <1>2, <1>3, <1>4 DEF Book!bookVars

\* Allocation is an entry for a name that has none.
LEMMA EnterStep ==
    ASSUME TypeInv, AddressInv, LedgerInv, LapsedStep, NEW w \in Workers, Allocate(w)
    PROVE  \E n \in Nodes, a \in Eips : Book!Enter(n, a)
<1>1. PICK a \in Eips : AllocateAddresses(a, key[w], node[w].ins)
  BY DEF Allocate
<1>2. PICK n \in Nodes : n = key[w]
  BY WorkerHas DEF Allocate, Calls, NodeCalls
<1>3. /\ eip[a].status = "UNUSED" /\ eip'[a].status = "UNBIND" /\ eip'[a].name = n
      /\ \A e \in Eips : e # a => eip'[e] = eip[e]
      /\ api' = api
  BY <1>1, <1>2 DEF AllocateAddresses, TypeInv, CloudTypeOK, Allocate, KeepApi
<1>4. Owned(n) = {} /\ Owned(n)' = {a} /\ a # None
  BY <1>2, <1>3, CloudAssumption DEF Owned, Live, Allocate, AddressInv, NothingAllocatedYet
<1>5. Entry(n) = None /\ Entry(n)' = a
  BY <1>4, ChooseOnly DEF Entry
<1>6. ASSUME NEW m \in Nodes, m # n
      PROVE  Owned(m)' = Owned(m) /\ ~Given(m)
  <2>1. eip[a].name # m \/ ~Live(a)
    BY <1>3 DEF Live
  <2> QED BY <1>3, <1>6, <2>1 DEF Owned, Live, Given
<1>7. n \notin lapsed /\ (n \in lapsed' <=> ~ShownNow(n))
  BY <1>3, <1>4 DEF LedgerInv, LapsedRight, LapsedStep, StillLapsed, ShownNow
<1>8. \A m \in Nodes : m # n => (m \in lapsed' <=> m \in lapsed) /\ Entry(m)' = Entry(m)
  BY <1>3, <1>6, LapsedStays, EntryStays
<1>9. lapsed' \subseteq Nodes /\ lapsed \subseteq Nodes
  BY DEF LapsedStep, LedgerInv
<1>10. lapsed' = IF ShownNow(n) THEN lapsed ELSE lapsed \cup {n}
  BY <1>7, <1>8, <1>9
<1>11. (ShownNow(n) => n \in {m \in Nodes : api[m] # None} /\ lapsed' = lapsed)
       /\ (~ShownNow(n) => lapsed' = lapsed \cup {n})
  BY <1>10 DEF ShownNow
<1>12. [m \in Nodes |-> Entry(m)'] = [[m \in Nodes |-> Entry(m)] EXCEPT ![n] = a]
  BY <1>5, <1>8
<1>13. {e \in Eips : eip'[e].status # "UNUSED"} = {e \in Eips : eip[e].status # "UNUSED"} \cup {a}
  BY <1>3
<1>14. Book!Enter(n, a)
  BY <1>3, <1>5, <1>11, <1>12, <1>13 DEF Book!Enter
<1> QED BY <1>14

\* A release strikes out the entry of a node that has left.
LEMMA StrikeStep ==
    ASSUME TypeInv, AddressInv, LedgerInv, LapsedStep, NEW w \in Workers, Release(w)
    PROVE  \E n \in Nodes : Book!Strike(n)
<1>1. PICK a \in Eips : a = cur[w]
  BY WorkerHas DEF Release, Calls, GoneCalls, Holding
<1>2. PICK n \in Nodes : n = key[w]
  BY WorkerHas DEF Release, Calls, GoneCalls
<1>3. /\ eip[a].status = "UNBIND" /\ eip'[a].status = "RELEASED"
      /\ eip[a].name = n /\ eip'[a].name = n
      /\ \A e \in Eips : e # a => eip'[e] = eip[e]
      /\ api' = api
  <2>1. eip[a].name = n /\ ReleaseAddresses(a)
    BY <1>1, <1>2 DEF Release, AddressInv, LegacyOfKey
  <2>2. eip[a] \in Address
    BY DEF TypeInv, CloudTypeOK
  <2> QED BY <2>1, <2>2 DEF ReleaseAddresses, Address, TypeInv, CloudTypeOK, Release, KeepApi
<1>4. Owned(n) # {} /\ Owned(n)' = {}
  BY <1>3 DEF Owned, Live, AddressInv, OneAddressPerNode
<1>5. n \in lapsed /\ n \notin lapsed'
  BY <1>2, <1>4 DEF LedgerInv, CleansLapsed, Release, GoneCalls, LapsedStep, StillLapsed
<1>6. ASSUME NEW m \in Nodes, m # n
      PROVE  Owned(m)' = Owned(m) /\ ~Given(m)
  BY <1>3, <1>6 DEF Owned, Live, Given
<1>7. \A m \in Nodes : m # n => (m \in lapsed' <=> m \in lapsed) /\ Entry(m)' = Entry(m)
  BY <1>3, <1>6, LapsedStays, EntryStays
<1>8. lapsed' = lapsed \ {n}
  <2>1. lapsed' \subseteq Nodes /\ lapsed \subseteq Nodes
    BY DEF LapsedStep, LedgerInv
  <2> QED BY <1>5, <1>7, <2>1
<1>9. Entry(n)' = None
  BY <1>4 DEF Entry
<1>10. [m \in Nodes |-> Entry(m)'] = [[m \in Nodes |-> Entry(m)] EXCEPT ![n] = None]
  BY <1>7, <1>9
<1>11. {e \in Eips : eip'[e].status # "UNUSED"} = {e \in Eips : eip[e].status # "UNUSED"}
  BY <1>3
<1>12. Book!Strike(n)
  BY <1>3, <1>5, <1>8, <1>10, <1>11 DEF Book!Strike
<1> QED BY <1>12

\* An association renews the entry of its name if that was lapsed and the node is shown.
LEMMA RenewStep ==
    ASSUME TypeInv, LedgerInv, LapsedStep, NEW w \in Workers, Associate(w)
    PROVE  UNCHANGED Book!bookVars \/ \E n \in Nodes : Book!Renew(n)
<1>1. PICK a \in Eips : a = cur[w]
  BY WorkerHas DEF Associate, Calls, NodeCalls, Holding
<1>2. PICK n \in Nodes : n = key[w]
  BY WorkerHas DEF Associate, Calls, NodeCalls
<1>3. /\ eip[a].status = "UNBIND" /\ eip'[a].status = "BINDING"
      /\ eip[a].name = n /\ eip'[a].name = n
      /\ \A e \in Eips : e # a => eip'[e] = eip[e]
      /\ api' = api
  <2>1. eip[a].name = n /\ AssociateAddress(a, node[w].ins)
    BY <1>1, <1>2 DEF Associate, LedgerInv, HoldsOwn
  <2>2. eip[a] \in Address
    BY DEF TypeInv, CloudTypeOK
  <2> QED BY <2>1, <2>2 DEF AssociateAddress, Address, TypeInv, CloudTypeOK, Associate, KeepApi
<1>4. \A m \in Nodes : Owned(m)' = Owned(m) /\ Entry(m)' = Entry(m)
  <2>1. ASSUME NEW m \in Nodes PROVE Owned(m)' = Owned(m)
    BY <1>3 DEF Owned, Live
  <2> QED BY <2>1, EntryStays
<1>5. \A m \in Nodes : m # n => (m \in lapsed' <=> m \in lapsed)
  <2>1. \A m \in Nodes : m # n => ~Given(m)
    BY <1>3 DEF Given
  <2> QED BY <1>3, <1>4, <2>1, LapsedStays
<1>6. Given(n) /\ Owned(n) # {}
  BY <1>3 DEF Given, Owned, Live
<1>7. {e \in Eips : eip'[e].status # "UNUSED"} = {e \in Eips : eip[e].status # "UNUSED"}
  BY <1>3
<1>8. lapsed' \subseteq Nodes /\ lapsed \subseteq Nodes
  BY DEF LapsedStep, LedgerInv
<1>9. CASE n \in lapsed /\ ShownNow(n)
  <2>1. n \notin lapsed' /\ api[n] # None
    BY <1>3, <1>4, <1>6, <1>9 DEF LapsedStep, StillLapsed, ShownNow
  <2>2. lapsed' = lapsed \ {n}
    BY <1>5, <1>8, <2>1
  <2>3. Book!Renew(n)
    BY <1>3, <1>4, <1>7, <1>9, <2>1, <2>2 DEF Book!Renew
  <2> QED BY <2>3
<1>10. CASE ~(n \in lapsed /\ ShownNow(n))
  <2>1. n \in lapsed' <=> n \in lapsed
    BY <1>3, <1>4, <1>6, <1>10 DEF LapsedStep, StillLapsed, LedgerInv, LapsedRight, ShownNow
  <2>2. lapsed' = lapsed
    BY <1>5, <1>8, <2>1
  <2> QED BY <1>3, <1>4, <1>7, <2>2 DEF Book!bookVars
<1> QED BY <1>9, <1>10

\* A node joins; a node leaves, and its address lapses.
LEMMA JoinStep ==
    ASSUME TypeInv, LedgerInv, LapsedStep, NEW n \in Nodes, NodeRegistered(n), UNCHANGED cloudVars
    PROVE  Book!Join(n)
<1>1. Calm /\ UNCHANGED eip
  BY DEF cloudVars, Calm
<1>2. api[n] = None /\ api'[n] # None /\ \A m \in Nodes : m # n => api'[m] = api[m]
  <2>1. PICK i \in {j \in Instances : NameOf[j] = n /\ j \notin destroyed} \cup {None},
             l \in LabelChoices, t \in BOOLEAN :
             api' = [api EXCEPT ![n] = [ins |-> i, label |-> l, terminated |-> FALSE,
                                        taint |-> t, anno |-> None, uid |-> born[n] + 1]]
    BY DEF NodeRegistered
  <2>2. [ins |-> i, label |-> l, terminated |-> FALSE, taint |-> t, anno |-> None,
         uid |-> born[n] + 1] \in NodeObject
    BY WatchAssumption DEF NodeObject, TypeInv, NodesType
  <2> QED BY <2>1, <2>2, WatchAssumption DEF NodeRegistered, TypeInv, NodesType
<1>3. \A m \in Nodes : Entry(m)' = Entry(m) /\ (m \in lapsed' <=> m \in lapsed)
  BY <1>1, <1>2, CalmOwned, EntryStays, LapsedStays
<1>4. lapsed' = lapsed
  <2>1. lapsed' \subseteq Nodes /\ lapsed \subseteq Nodes
    BY DEF LapsedStep, LedgerInv
  <2> QED BY <1>3, <2>1
<1>5. {m \in Nodes : api'[m] # None} = {m \in Nodes : api[m] # None} \cup {n}
  BY <1>2
<1> QED BY <1>1, <1>2, <1>3, <1>4, <1>5 DEF Book!Join

LEMMA LeaveStep ==
    ASSUME TypeInv, LedgerInv, LapsedStep, NEW n \in Nodes, NodeDeleted(n), UNCHANGED cloudVars
    PROVE  Book!Leave(n)
<1>1. Calm /\ UNCHANGED eip
  BY DEF cloudVars, Calm
<1>2. api[n] # None /\ api'[n] = None /\ \A m \in Nodes : m # n => api'[m] = api[m]
  BY DEF NodeDeleted, TypeInv, NodesType
<1>3. \A m \in Nodes : Owned(m)' = Owned(m) /\ Entry(m)' = Entry(m) /\ ~Given(m)
  BY <1>1, CalmOwned, EntryStays
<1>4. \A m \in Nodes : m # n => (m \in lapsed' <=> m \in lapsed)
  BY <1>2, <1>3, LapsedStays
<1>5. n \in lapsed' <=> Owned(n) # {}
  BY <1>2, <1>3 DEF LapsedStep, StillLapsed
<1>6. (Entry(n) = None <=> Owned(n) = {}) /\ (n \in lapsed => Owned(n) # {})
  <2>1. ASSUME Owned(n) # {} PROVE Entry(n) \in Eips
    BY <2>1 DEF Entry, Owned
  <2> QED BY <2>1, CloudAssumption DEF Entry, LedgerInv, LapsedRight
<1>7. lapsed' = IF Entry(n) = None THEN lapsed ELSE lapsed \cup {n}
  <2>1. lapsed' \subseteq Nodes /\ lapsed \subseteq Nodes
    BY DEF LapsedStep, LedgerInv
  <2> QED BY <1>4, <1>5, <1>6, <2>1
<1>8. {m \in Nodes : api'[m] # None} = {m \in Nodes : api[m] # None} \ {n}
  BY <1>2
<1> QED BY <1>1, <1>2, <1>3, <1>7, <1>8 DEF Book!Leave

-----------------------------------------------------------------------------
(***************************************************************************)
(* The steps that leave the book alone.                                    *)
(***************************************************************************)
LEMMA CalmCalls ==
    ASSUME CloudTypeOK,
           \/ UNCHANGED eip
           \/ \E e \in Eips : DisassociateAddress(e) \/ BindingDone(e) \/ UnbindingDone(e)
           \/ \E i \in Instances : InstanceDestroyed(i)
    PROVE  Calm
<1> USE DEF CloudTypeOK, Address, Calm
<1>1. CASE UNCHANGED eip
  BY <1>1
<1>2. ASSUME NEW e \in Eips, DisassociateAddress(e)
      PROVE  Calm
  BY <1>2 DEF DisassociateAddress
<1>3. ASSUME NEW e \in Eips, BindingDone(e)
      PROVE  Calm
  BY <1>3 DEF BindingDone
<1>4. ASSUME NEW e \in Eips, UnbindingDone(e)
      PROVE  Calm
  BY <1>4 DEF UnbindingDone
<1>5. ASSUME NEW i \in Instances, InstanceDestroyed(i)
      PROVE  Calm
  <2>1. ASSUME NEW e \in Eips
        PROVE  \/ eip'[e] = eip[e]
               \/ /\ eip[e].status = "BIND"
                  /\ eip'[e] = [eip[e] EXCEPT !.status = "UNBIND", !.ins = None]
    BY <1>5 DEF InstanceDestroyed
  <2>2. ASSUME NEW e \in Eips, eip[e].status = "BIND",
               eip'[e] = [eip[e] EXCEPT !.status = "UNBIND", !.ins = None]
        PROVE  eip'[e].name = eip[e].name /\ eip'[e].status = "UNBIND"
    BY <2>2
  <2> QED BY <2>1, <2>2
<1> QED BY <1>1, <1>2, <1>3, <1>4, <1>5

\* A worker that neither allocates, releases nor associates.
LEMMA WorkerBook ==
    ASSUME TypeInv, LedgerInv, LapsedStep, NEW w \in Workers, WorkerStep(w),
           ~(Allocate(w) \/ Release(w) \/ Associate(w))
    PROVE  UNCHANGED Book!bookVars
<1>1. Calm
  <2>1. CASE Disassociate(w)
    BY <2>1, WorkerHas, CalmCalls DEF Disassociate, Calls, GoneCalls, Holding, TypeInv
  <2>2. CASE ~Disassociate(w)
    BY <2>2, CalmCalls DEF TypeInv, WorkerStep, Start, RejectTerminating, FindLegacy, DescribeLegacy,
        DescribeInstance, AddTaint, AddTaintAndStop, RemoveTaint, PatchApi, FindByTags,
        CreateMissingTags, CreateTags, DescribeAddress, ApiError, KeepCloud, cloudVars
  <2> QED BY <2>1, <2>2
<1>2. SamePresent
  <2>1. CASE KeepApi
    BY <2>1 DEF KeepApi, SamePresent
  <2>2. CASE AddTaint(w) \/ AddTaintAndStop(w) \/ RemoveTaint(w)
    <3>1. key[w] \in Nodes /\ node[w] \in NodeObject /\ cur[w] \in Eips \cup {None}
      BY <2>2, WorkerHas DEF AddTaint, AddTaintAndStop, RemoveTaint, Calls, NodeCalls, TypeInv, QueueInv
    <3>2. CASE AddTaint(w) \/ AddTaintAndStop(w)
      <4>1. PatchApi(w, TRUE, api[key[w]].anno) /\ api[key[w]] \in NodeObject
        BY <3>1, <3>2 DEF AddTaint, AddTaintAndStop, PatchApi, TypeInv, NodesType
      <4>2. SameNodes
        BY <3>1, <4>1, AnnoType, PatchKeeps
      <4> QED BY <4>2 DEF SameNodes, SamePresent
    <3>3. CASE RemoveTaint(w)
      <4>1. SameNodes
        BY <3>1, <3>3, AnnoType, PatchKeeps DEF RemoveTaint
      <4> QED BY <4>1 DEF SameNodes, SamePresent
    <3> QED BY <2>2, <3>2, <3>3
  <2> QED BY <2>1, <2>2 DEF WorkerStep, Start, RejectTerminating, FindLegacy, DescribeLegacy, Disassociate,
        DescribeInstance, FindByTags, CreateMissingTags, DescribeAddress, ApiError
<1> QED BY <1>1, <1>2, BookStutters

\* A node that changes stays; what the informer shows is no step of the book.
LEMMA ClusterBook ==
    ASSUME TypeInv, LedgerInv, LapsedStep, NEW n \in Nodes,
           NodeRelabelled(n) \/ NodeTerminating(n) \/ Observe(n) \/ OtherLabelShown(n),
           UNCHANGED cloudVars
    PROVE  UNCHANGED Book!bookVars
<1>1. Calm
  BY CalmCalls DEF cloudVars, TypeInv
<1>2. CASE Observe(n) \/ OtherLabelShown(n)
  BY <1>1, <1>2, BookStutters
     DEF Observe, ProcessNodeCreate, ProcessNodeUpdate, ProcessNodeDelete, OtherLabelShown, SamePresent
<1>3. CASE NodeRelabelled(n) \/ NodeTerminating(n)
  <2>1. api[n] \in NodeObject /\ api[n] # None /\ \A m \in Nodes : m # n => api'[m] = api[m]
    BY <1>3 DEF NodeRelabelled, NodeTerminating, TypeInv, NodesType
  <2>2. \/ \E i \in Instances : api'[n] = [api[n] EXCEPT !.ins = i]
        \/ \E l \in BOOLEAN : api'[n] = [api[n] EXCEPT !.label = l]
        \/ api'[n] = [api[n] EXCEPT !.terminated = TRUE]
    BY <1>3, WatchAssumption DEF NodeRelabelled, NodeTerminating, TypeInv, NodesType
  <2>3. api'[n] \in NodeObject
    BY <2>1, <2>2 DEF NodeObject
  <2>4. SamePresent
    BY <2>1, <2>3, WatchAssumption DEF SamePresent
  <2> QED BY <1>1, <2>4, BookStutters
<1> QED BY <1>2, <1>3

LEMMA LedgerBookStep ==
    ASSUME IInv, LedgerInv, LedgerNext
    PROVE  Book!BookNext \/ UNCHANGED Book!bookVars
<1>1. TypeInv /\ AddressInv /\ LapsedStep /\ Next
  BY IInvParts DEF LedgerNext, LapsedStep
<1>2. ASSUME NEW w \in Workers, WorkerStep(w)
      PROVE  Book!BookNext \/ UNCHANGED Book!bookVars
  BY <1>1, <1>2, WorkerBook, EnterStep, StrikeStep, RenewStep DEF Book!BookNext
<1>3. CASE ClusterNext /\ UNCHANGED <<cloudVars, workerVars, crashes>>
  BY <1>1, <1>3, ClusterBook, JoinStep, LeaveStep DEF ClusterNext, Book!BookNext
<1>4. CASE CloudNext /\ UNCHANGED <<watchVars, workerVars, crashes>>
  <2>1. Calm
    BY <1>1, <1>4, CalmCalls DEF CloudNext, TagIndexUpdated, TypeInv
  <2> QED BY <1>1, <1>4, <2>1, BookStutters DEF watchVars, SamePresent
<1>5. CASE Crash
  <2>1. Calm
    BY <1>1, <1>5, CalmCalls DEF Crash, cloudVars, TypeInv
  <2> QED BY <1>1, <1>5, <2>1, BookStutters DEF Crash, SamePresent
<1> QED BY <1>1, <1>2, <1>3, <1>4, <1>5 DEF Next

LEMMA LedgerInit ==
    ASSUME Init, lapsed = {}
    PROVE  LedgerInv /\ Book!BookInit
<1>1. \A n : Owned(n) = {} /\ Entry(n) = None
  BY DEF Init, CloudInit, Owned, Entry, Live
<1>2. LedgerInv
  BY <1>1 DEF Init, LedgerInv, LapsedRight, CleansLapsed, HoldsOwn
<1>3. Book!BookInit
  BY <1>1 DEF Init, CloudInit, WatchInit, Book!BookInit
<1> QED BY <1>2, <1>3

\* The history variable changes nothing of what Reconciler does.
LEMMA LedgerRuns == LedgerSpec => Spec
<1>1. [LedgerNext]_ledgerVars => [Next]_vars
  BY DEF LedgerNext, ledgerVars
<1> QED BY <1>1, PTL DEF LedgerSpec, Spec

\* "Not found" is only ever read of a node that has left: a worker that cleans up does it for
\* a lapsed name, although the cache may have been empty or the name registered again since
\* (Reconcile takes what the cache does not show for deleted).
THEOREM LedgerInvariant == ASSUME TagLag = FALSE PROVE LedgerSpec => []LedgerInv
<1>1. Init /\ lapsed = {} => LedgerInv
  BY LedgerInit
<1>2. IInv /\ LedgerInv /\ [LedgerNext]_ledgerVars => LedgerInv'
  BY LedgerNextInv
<1>3. LedgerSpec => []IInv
  BY LedgerRuns, Inductive, PTL
<1> QED BY <1>1, <1>2, <1>3, PTL DEF LedgerSpec

\* Reconciler keeps the abstract book: one address per name, none used twice, and none
\* released while the node it was given to stays, through retries, lost replies, crashes
\* and names that are registered again (AllocateAnycastIp finds the address it left by its
\* tags; ReleaseAnycastIp is reached only from a cache that no longer shows the node).
THEOREM LedgerIsBook == ASSUME TagLag = FALSE PROVE LedgerSpec => BookSpec
<1>1. Init /\ lapsed = {} => Book!BookInit
  BY LedgerInit
<1>2. IInv /\ LedgerInv /\ [LedgerNext]_ledgerVars => [Book!BookNext]_(Book!bookVars)
  <2> SUFFICES ASSUME IInv, LedgerInv, [LedgerNext]_ledgerVars
               PROVE  Book!BookNext \/ UNCHANGED Book!bookVars
    OBVIOUS
  <2>1. CASE UNCHANGED ledgerVars
    BY <2>1 DEF ledgerVars, vars, cloudVars, watchVars, Book!bookVars, Entry, Owned, Live
  <2> QED BY <2>1, LedgerBookStep
<1>3. LedgerSpec => []IInv
  BY LedgerRuns, Inductive, PTL
<1> QED BY <1>1, <1>2, <1>3, LedgerInvariant, PTL DEF LedgerSpec, BookSpec, Book!BookSpec
================================================================================

------------------------ MODULE ReverseReconcile_proof ------------------------
(***************************************************************************)
(* Proofs about ReverseReconcile, for every number of nodes, addresses,    *)
(* workers, registrations and crashes:                                     *)
(*   SweepTypeCorrect    SweepSpec => []SweepTypeOK                        *)
(*   NoSettledTarget     SweepSpec => []SettledSpared                      *)
(*   AccountingSurvives  SweepSpec => []IInv, if the tag index does not    *)
(*                       lag                                               *)
(*   NamesSurvive        SweepSpec => []NoMixUp                            *)
(* and, for names that are registered once,                                *)
(*   SettledAreKept      SweepSpec => SettledKept                          *)
(*   OthersSurvive       SweepSpec => []OthersRespected                    *)
(* The first two rest on SweepInv.  A settled node is either in the cache  *)
(* or still to be shown, so that a list made from a filled cache has it,   *)
(* and stays good enough: a node deleted after it was listed is settled no *)
(* more.  The others carry what is known of the workers over to the two    *)
(* together: the sweep only takes addresses away (SweepCalled), and the    *)
(* workers never rely on one being still there.                            *)
(***************************************************************************)
EXTENDS ReverseReconcile, Reconciler_safety_proof, Reconciler_names_proof

\* The types of the variables of the sweep.
SweepDataType ==
    /\ rpc \in SweepCalls \cup {"idle"}
    /\ nodeNames \subseteq Nodes /\ unsynced \subseteq Nodes /\ settled \subseteq Nodes
    /\ ids \subseteq Eips /\ todo \subseteq bind /\ unbind \subseteq Eips /\ bind \subseteq Eips
    /\ isLeader \in BOOLEAN
    /\ rpc = "idle" => nodeNames = {} /\ ids = {} /\ unbind = {} /\ bind = {}

\* The addresses are collected by the third call, which has no more use for the nodes.
CollectedLast ==
    /\ rpc \in {"addresses", "keys", "describe"} => unbind = {} /\ bind = {}
    /\ rpc = "describe" => nodeNames = {}

\* The cache has the node's present incarnation.
Shown(n) == cache[n] # None /\ cache[n].uid = api[n].uid

\* A settled node exists, and is in the cache unless its create event is still to come.
SettledShown == \A n \in settled : api[n] # None /\ (n \in unsynced \/ Shown(n))

UnsyncedHidden == \A n \in unsynced : cache[n] = None

\* The list of nodes has every settled node until it is used.
SettledListed == rpc \in {"addresses", "keys"} => settled \subseteq nodeNames

\* The sweep knows addresses that have been allocated, whose name stays what it is.
KnownNamed == \A e \in indexed \cup ids \cup unbind \cup bind : eip[e].status # "UNUSED"

SweepInv ==
    /\ TypeInv /\ SweepDataType /\ CollectedLast
    /\ SettledShown /\ UnsyncedHidden /\ SettledListed /\ KnownNamed /\ SettledSpared

LEMMA SweepInvTypes == SweepInv => SweepTypeOK
BY TypeInvParts DEF SweepInv, SweepDataType, SweepTypeOK

-----------------------------------------------------------------------------
\* A call of the sweep that releases several addresses, or none.
LEMMA ReleaseAllNames ==
    ASSUME CloudTypeOK, NEW s \in SUBSET Eips, ReleaseAll(s)
    PROVE  CloudTypeOK' /\ NamesStay /\ IndexNamed
<1>1. \A e \in Eips : [eip[e] EXCEPT !.status = "RELEASED"] \in Address
  BY DEF CloudTypeOK, Address, Status
<1> QED BY <1>1 DEF ReleaseAll, CloudTypeOK, Address, NamesStay, IndexNamed

-----------------------------------------------------------------------------
\* A node that stays keeps its incarnation, stays in the cache, and enters it as it is.
NodeStays(n) ==
    api[n] # None /\ api'[n] # None =>
        /\ api'[n].uid = api[n].uid
        /\ Shown(n) => Shown(n)'
        /\ cache[n] = None /\ cache'[n] # None => Shown(n)'

LEMMA OthersNodes ==
    ASSUME TypeInv, Next, crashes' = crashes, NEW n \in Nodes
    PROVE  NodeStays(n)
<1>1. NodeStep(n) /\ CacheStep(n)
  BY NextNodes DEF NodeSteps
<1>2. api[n] # None /\ api'[n] # None => api'[n].uid = api[n].uid
  BY <1>1 DEF NodeStep
<1> QED BY <1>1, <1>2 DEF CacheStep, NodeStays, Shown

-----------------------------------------------------------------------------
(***************************************************************************)
(* Every step preserves SweepInv.                                          *)
(***************************************************************************)

\* A step of the sweep that leaves nodes and cache alone keeps what is said of them.
LEMMA SweepNodes ==
    ASSUME SweepInv, RestUnchanged, CloudTypeOK'
    PROVE  TypeInv' /\ UnsyncedHidden' /\ (settled' = settled => SettledShown')
<1>1. TypeInv'
  BY DEF SweepInv, RestUnchanged, TypeInv, NodesType, QueueInv, WorkersOK, KeysExclusive, Busy,
         watchVars, workerVars
<1> QED BY <1>1 DEF SweepInv, RestUnchanged, watchVars, UnsyncedHidden, SettledShown, Shown

\* A call that only asks.
LEMMA CloudAsked ==
    ASSUME TypeInv, UNCHANGED cloudVars
    PROVE  CloudTypeOK' /\ NamesStay /\ IndexNamed
BY DEF TypeInv, CloudTypeOK, cloudVars, NamesStay, IndexNamed

\* The targets keep their names while no more become settled.
LEMMA KnownStay ==
    ASSUME SweepInv, CloudTypeOK', NamesStay, IndexNamed, settled' \subseteq settled,
           UNCHANGED <<ids, unbind, bind>>, rpc' = "describe" => rpc = "describe"
    PROVE  KnownNamed' /\ SettledSpared'
<1>1. indexed \subseteq Eips /\ indexed' \subseteq Eips
      /\ ids \subseteq Eips /\ unbind \subseteq Eips /\ bind \subseteq Eips
  BY DEF SweepInv, TypeInv, CloudTypeOK, SweepDataType
<1>2. KnownNamed'
  BY <1>1 DEF SweepInv, KnownNamed, NamesStay, IndexNamed
<1>3. ASSUME NEW e \in Targets'
      PROVE  eip'[e].name \notin settled'
  <2>1. e \in Targets /\ e \in ids \cup unbind \cup bind
    BY <1>3 DEF Targets
  <2> QED BY <1>1, <2>1 DEF SweepInv, SettledSpared, KnownNamed, NamesStay
<1> QED BY <1>2, <1>3 DEF SettledSpared

\* A sweep that ends leaves nothing behind.
LEMMA ResetInv ==
    ASSUME SweepInv, RestUnchanged, SweepReset, UNCHANGED settled, CloudTypeOK', NamesStay, IndexNamed
    PROVE  SweepInv'
<1>1. TypeInv' /\ UnsyncedHidden' /\ SettledShown'
  BY SweepNodes
<1>2. SweepDataType' /\ CollectedLast' /\ SettledListed'
  BY DEF SweepInv, RestUnchanged, SweepReset, SweepDataType, CollectedLast, SettledListed
<1>3. KnownNamed'
  <2>1. indexed \subseteq Eips /\ indexed' \subseteq Eips
    BY DEF SweepInv, TypeInv, CloudTypeOK
  <2> QED BY <2>1 DEF SweepInv, SweepReset, KnownNamed, NamesStay, IndexNamed
<1>4. SettledSpared'
  BY DEF SweepReset, SettledSpared, Targets
<1> QED BY <1>1, <1>2, <1>3, <1>4 DEF SweepInv

\* The nodes are listed when all have been shown: the settled ones, too.
LEMMA BeginInv ==
    ASSUME SweepInv, BeginSweep
    PROVE  SweepInv'
<1>1. UNCHANGED cloudVars /\ RestUnchanged /\ rpc = "idle" /\ rpc' = "addresses"
      /\ UNCHANGED <<ids, todo, unbind, bind>> /\ unsynced = {}
  BY DEF BeginSweep
<1>2. TypeInv' /\ UnsyncedHidden'
  BY <1>1, SweepNodes, CloudAsked DEF SweepInv
<1>3. \A n \in settled' : n \in Nodes /\ api[n] # None /\ Shown(n)
  BY DEF BeginSweep, SweepInv, SweepDataType, SettledShown, Shown
<1>4. SettledShown' /\ SettledListed'
  BY <1>1, <1>3 DEF BeginSweep, RestUnchanged, watchVars, SettledShown, SettledListed, Shown
<1>5. SweepDataType' /\ CollectedLast' /\ SettledSpared'
  BY <1>1, <1>3 DEF BeginSweep, RestUnchanged, SweepInv, SweepDataType, SweepCalls, CollectedLast,
                    SettledSpared, Targets
<1>6. KnownNamed'
  BY <1>1 DEF SweepInv, KnownNamed, cloudVars
<1> QED BY <1>2, <1>4, <1>5, <1>6 DEF SweepInv

\* The three questions to the cloud: the node names decide who is a target.
LEMMA QuestionsInv ==
    ASSUME SweepInv, ListAddresses \/ FindGone \/ DescribeGone
    PROVE  SweepInv'
<1>1. UNCHANGED <<cloudVars, settled>> /\ RestUnchanged /\ CloudTypeOK' /\ NamesStay /\ IndexNamed
  BY CloudAsked DEF SweepInv, ListAddresses, FindGone, DescribeGone
<1>2. TypeInv' /\ UnsyncedHidden' /\ SettledShown'
  BY <1>1, SweepNodes
<1>3. CASE SweepReset
  BY <1>1, <1>3, ResetInv
<1>4. indexed \subseteq Eips /\ eip' = eip /\ indexed' = indexed
  BY <1>1 DEF SweepInv, TypeInv, CloudTypeOK, cloudVars
<1>5. unsynced' = unsynced /\ isLeader' = isLeader /\ settled' = settled
  BY <1>1 DEF RestUnchanged
<1>6. ASSUME rpc = "addresses", rpc' = "keys", ids' = indexed, UNCHANGED <<nodeNames, todo, unbind, bind>>
      PROVE  SweepInv'
  <2>1. SweepDataType' /\ CollectedLast' /\ SettledListed'
    BY <1>4, <1>5, <1>6 DEF SweepInv, SweepDataType, SweepCalls, CollectedLast, SettledListed
  <2>2. KnownNamed' /\ SettledSpared'
    BY <1>4, <1>5, <1>6 DEF SweepInv, CollectedLast, KnownNamed, SettledSpared, Targets
  <2> QED BY <1>2, <2>1, <2>2 DEF SweepInv
<1>7. ASSUME rpc = "keys", rpc' = "describe", nodeNames' = {}, UNCHANGED <<todo, unbind, bind>>,
             ids' = {e \in ids \cap indexed : eip[e].name \notin nodeNames}
      PROVE  SweepInv'
  <2>1. SweepDataType' /\ CollectedLast' /\ SettledListed'
    BY <1>4, <1>5, <1>7 DEF SweepInv, SweepDataType, SweepCalls, CollectedLast, SettledListed
  <2>2. KnownNamed' /\ SettledSpared'
    BY <1>4, <1>5, <1>7 DEF SweepInv, CollectedLast, SettledListed, KnownNamed, SettledSpared, Targets
  <2> QED BY <1>2, <2>1, <2>2 DEF SweepInv
<1>8. CASE DescribeGone
  <2>1. /\ rpc = "describe" /\ unbind' \subseteq ids /\ bind' \subseteq ids /\ todo' = bind'
        /\ ids' = {} /\ nodeNames' = nodeNames
    BY <1>8 DEF DescribeGone
  <2>2. rpc' \in {"disassociate", "releaseUnbind", "releaseBind", "idle"}
        /\ (rpc' = "idle" => unbind' = {} /\ bind' = {})
    BY <1>8, <2>1 DEF DescribeGone, CallsLeft
  <2>3. SweepDataType' /\ CollectedLast' /\ SettledListed'
    BY <1>5, <2>1, <2>2 DEF SweepInv, SweepDataType, SweepCalls, CollectedLast, SettledListed
  <2>4. KnownNamed' /\ SettledSpared'
    BY <1>4, <1>5, <2>1, <2>2 DEF SweepInv, KnownNamed, SettledSpared, Targets
  <2> QED BY <1>2, <2>3, <2>4 DEF SweepInv
<1> QED BY <1>3, <1>6, <1>7, <1>8 DEF ListAddresses, FindGone

\* A call that disassociates, or fails to: the targets stay what they are.
LEMMA DisassociateInv ==
    ASSUME SweepInv, DisassociateGone \/ DisassociateFails
    PROVE  SweepInv'
<1>1. PICK e \in todo : todo' = todo \ {e} /\ (DisassociateAddress(e) \/ UNCHANGED cloudVars)
  BY DEF DisassociateGone, DisassociateFails
<1>2. /\ RestUnchanged /\ rpc = "disassociate" /\ CallsLeft
      /\ UNCHANGED <<nodeNames, ids, unbind, bind, settled>>
  BY DEF DisassociateGone, DisassociateFails
<1>3. CloudTypeOK /\ e \in Eips /\ e \in bind
  BY <1>1 DEF SweepInv, SweepDataType, TypeInv
<1>4. CloudTypeOK' /\ NamesStay /\ IndexNamed
  <2>1. CASE DisassociateAddress(e)
    BY <1>3, <2>1 DEF DisassociateAddress, CloudTypeOK, Address, Status, NamesStay, IndexNamed
  <2> QED BY <1>1, <2>1, CloudAsked DEF SweepInv
<1>5. TypeInv' /\ UnsyncedHidden' /\ SettledShown'
  BY <1>2, <1>4, SweepNodes
<1>6. rpc' \in {"disassociate", "releaseUnbind", "releaseBind"}
  BY <1>2, <1>3 DEF CallsLeft
<1>7. SweepDataType' /\ CollectedLast' /\ SettledListed'
  BY <1>1, <1>2, <1>6 DEF RestUnchanged, SweepInv, SweepDataType, SweepCalls, CollectedLast, SettledListed
<1>8. KnownNamed' /\ SettledSpared'
  BY <1>2, <1>4, <1>6, KnownStay
<1> QED BY <1>5, <1>7, <1>8 DEF SweepInv

\* The calls that release, refused and failed ones included.
LEMMA ReleaseInv ==
    ASSUME SweepInv, ReleaseUnbind \/ ReleaseBind \/ ReleaseRefused \/ SweepError
    PROVE  SweepInv'
<1>1. CloudTypeOK /\ unbind \in SUBSET Eips /\ bind \in SUBSET Eips
  BY DEF SweepInv, TypeInv, SweepDataType
<1>2. ReleaseAll(unbind) \/ ReleaseAll(bind) \/ UNCHANGED cloudVars
  BY DEF ReleaseUnbind, ReleaseBind, ReleaseRefused, SweepError
<1>3. CloudTypeOK' /\ NamesStay /\ IndexNamed
  BY <1>1, <1>2, ReleaseAllNames, CloudAsked DEF SweepInv
<1>4. RestUnchanged /\ UNCHANGED settled
  BY DEF ReleaseUnbind, ReleaseBind, ReleaseRefused, SweepError
<1>5. CASE SweepReset
  BY <1>3, <1>4, <1>5, ResetInv
<1>6. CASE rpc = "releaseUnbind" /\ rpc' = "releaseBind" /\ UNCHANGED sweepData
  <2>1. TypeInv' /\ UnsyncedHidden' /\ SettledShown'
    BY <1>3, <1>4, SweepNodes
  <2>2. SweepDataType' /\ CollectedLast' /\ SettledListed'
    BY <1>4, <1>6 DEF RestUnchanged, sweepData, SweepInv, SweepDataType, SweepCalls, CollectedLast, SettledListed
  <2>3. KnownNamed' /\ SettledSpared'
    BY <1>3, <1>4, <1>6, KnownStay DEF sweepData
  <2> QED BY <2>1, <2>2, <2>3 DEF SweepInv
<1> QED BY <1>5, <1>6 DEF ReleaseUnbind, ReleaseBind, ReleaseRefused, SweepError

\* A crash ends the sweep, and its successor has all the nodes still to be shown.
LEMMA SweepCrashInv ==
    ASSUME SweepInv, OthersStep, crashes' # crashes
    PROVE  SweepInv'
<1>1. TypeInv'
  BY TypeNext DEF OthersStep, SweepInv
<1>2. NamesStay /\ IndexNamed
  BY NextNames DEF OthersStep, SweepInv
<1>3. Crash
  BY DEF OthersStep, Next, WorkerStep, Start, RejectTerminating, FindLegacy, DescribeLegacy,
         Disassociate, Release, DescribeInstance, AddTaint, AddTaintAndStop, RemoveTaint, PatchApi,
         FindByTags, Allocate, CreateMissingTags, DescribeAddress, Associate, ApiError, KeepCloud
<1>4. /\ SweepReset /\ isLeader' = FALSE
      /\ unsynced' = {n \in Nodes : api[n] # None} /\ settled' = {n \in Nodes : api[n] # None}
  BY DEF OthersStep
<1>5. api' = api /\ cache' = [n \in Nodes |-> None]
  BY <1>3 DEF Crash
<1>6. SettledShown' /\ UnsyncedHidden'
  BY <1>4, <1>5 DEF SettledShown, UnsyncedHidden
<1>7. SweepDataType' /\ CollectedLast' /\ SettledListed' /\ SettledSpared'
  BY <1>4 DEF SweepReset, SweepInv, SweepDataType, CollectedLast, SettledListed, SettledSpared, Targets
<1>8. KnownNamed'
  <2>1. indexed \subseteq Eips /\ indexed' \subseteq Eips
    BY <1>1 DEF SweepInv, TypeInv, CloudTypeOK
  <2> QED BY <1>2, <1>4, <2>1 DEF SweepReset, SweepInv, KnownNamed, NamesStay, IndexNamed
<1> QED BY <1>1, <1>6, <1>7, <1>8 DEF SweepInv

\* The others: a node that goes away is settled no more, one that stays is shown in time.
LEMMA OthersInv ==
    ASSUME SweepInv, OthersStep, crashes' = crashes
    PROVE  SweepInv'
<1>1. TypeInv'
  BY TypeNext DEF OthersStep, SweepInv
<1>2. NamesStay /\ IndexNamed
  BY NextNames DEF OthersStep, SweepInv
<1>3. /\ UNCHANGED <<rpc, sweepData>> /\ isLeader' \in BOOLEAN
      /\ unsynced' = {n \in unsynced : api'[n] # None /\ cache'[n] = None}
      /\ settled' = {n \in settled : api'[n] # None}
  BY DEF OthersStep, SweepInv, SweepDataType
<1>4. SettledShown'
  <2> SUFFICES ASSUME NEW n \in settled' PROVE api'[n] # None /\ (n \in unsynced' \/ Shown(n)')
    BY DEF SettledShown
  <2>1. n \in Nodes /\ n \in settled /\ api[n] # None /\ api'[n] # None /\ NodeStays(n)
    BY <1>3, OthersNodes DEF SweepInv, SweepDataType, SettledShown, OthersStep
  <2>2. CASE Shown(n)
    BY <2>1, <2>2 DEF NodeStays
  <2>3. CASE n \in unsynced
    BY <1>3, <2>1, <2>3 DEF SweepInv, UnsyncedHidden, NodeStays
  <2> QED BY <2>1, <2>2, <2>3 DEF SweepInv, SettledShown
<1>5. UnsyncedHidden'
  BY <1>3 DEF UnsyncedHidden
<1>6. SweepDataType' /\ CollectedLast' /\ SettledListed'
  BY <1>3 DEF SweepInv, SweepDataType, sweepData, CollectedLast, SettledListed
<1>7. KnownNamed' /\ SettledSpared'
  BY <1>2, <1>3, <1>1, KnownStay DEF sweepData, TypeInv
<1> QED BY <1>1, <1>4, <1>5, <1>6, <1>7 DEF SweepInv

\* The initial state has nothing in hand.
LEMMA SweepInvInit == SweepInit => SweepInv
<1> SUFFICES ASSUME SweepInit PROVE SweepInv
  OBVIOUS
<1>1. TypeInv
  BY TypeInit DEF SweepInit
<1>2. indexed = {}
  BY DEF SweepInit, Init, CloudInit
<1> QED BY <1>1, <1>2 DEF SweepInit, SweepInv, SweepDataType, CollectedLast, SettledShown,
      UnsyncedHidden, SettledListed, KnownNamed, SettledSpared, Targets

\* Every step keeps the invariant.
LEMMA SweepInvNext == SweepInv /\ [SweepNext]_<<vars, sweepVars>> => SweepInv'
<1> SUFFICES ASSUME SweepInv, [SweepNext]_<<vars, sweepVars>> PROVE SweepInv'
  OBVIOUS
<1>1. CASE SweepStep
  BY <1>1, BeginInv, QuestionsInv, DisassociateInv, ReleaseInv DEF SweepStep
<1>2. CASE OthersStep
  BY <1>2, OthersInv, SweepCrashInv
<1>3. CASE UNCHANGED <<vars, rpc, sweepData, unsynced, settled>> /\ isLeader' \in BOOLEAN
  <2>1. TypeInv'
    BY <1>3, TypeNext DEF SweepInv
  <2>2. UNCHANGED <<eip, indexed, api, cache>>
    BY <1>3 DEF vars, cloudVars, watchVars
  <2> QED BY <1>3, <2>1, <2>2 DEF SweepInv, SweepDataType, sweepData, CollectedLast, SettledShown,
        Shown, UnsyncedHidden, SettledListed, KnownNamed, SettledSpared, Targets
<1>4. CASE OtherNodeShown
  BY <1>3, <1>4 DEF OtherNodeShown
<1>5. CASE UNCHANGED <<vars, sweepVars>>
  BY <1>3, <1>5 DEF sweepVars, SweepInv, SweepDataType
<1> QED BY <1>1, <1>2, <1>4, <1>5 DEF SweepNext

LEMMA SweepInvariant == SweepSpec => []SweepInv
BY SweepInvInit, SweepInvNext, PTL DEF SweepSpec

\* The variables of the sweep keep their types next to those of the workers.
THEOREM SweepTypeCorrect == SweepSpec => []SweepTypeOK
BY SweepInvariant, SweepInvTypes, PTL

\* A node that has been there since the replica started, or since a sweep listed it, keeps
\* its address from the sweep, whatever workers, users, informer and cloud do meanwhile.
THEOREM NoSettledTarget == SweepSpec => []SettledSpared
<1>1. SweepInv => SettledSpared
  BY DEF SweepInv
<1> QED BY <1>1, SweepInvariant, PTL
-----------------------------------------------------------------------------
(***************************************************************************)
(* The invariant of the workers, with the sweep next to them.              *)
(***************************************************************************)

\* Releasing several addresses at once leaves fewer of them, and their names as they were.
LEMMA ReleaseAllSafe ==
    ASSUME TagLag = FALSE, TypeInv, AddressInv, NEW s \in SUBSET Eips, ReleaseAll(s),
           UNCHANGED <<watchVars, workerVars>>
    PROVE  AddressInv'
<1>1. /\ indexed' = indexed \ s
      /\ \A e \in Eips : /\ eip'[e].name = eip[e].name
                         /\ Live(e)' <=> Live(e) /\ e \notin s
                         /\ eip'[e].status = "UNUSED" <=> eip[e].status = "UNUSED"
  BY DEF ReleaseAll, TypeInv, CloudTypeOK, Address, Live
<1>2. IndexExact' /\ NamesKept' /\ OneAddressPerNode'
  BY <1>1 DEF AddressInv, IndexExact, NamesKept, OneAddressPerNode
<1>3. NothingAllocatedYet' /\ DeletionPending'
  BY <1>1 DEF AddressInv, NothingAllocatedYet, DeletionPending, watchVars, workerVars
<1>4. LegacyOfKey'
  BY <1>1 DEF AddressInv, LegacyOfKey, workerVars, TypeInv, QueueInv, WorkersOK, Busy
<1>5. NoSilentLeak'
  BY <1>1 DEF AddressInv, NoSilentLeak, watchVars, workerVars
<1> QED BY <1>2, <1>3, <1>4, <1>5 DEF AddressInv

\* A step of the sweep asks, disassociates one address, or releases the unbound ones.
LEMMA SweepCalled ==
    ASSUME SweepInv, SweepStep
    PROVE  /\ UNCHANGED <<watchVars, workerVars>>
           /\ \/ UNCHANGED cloudVars
              \/ \E e \in todo : DisassociateAddress(e)
              \/ ReleaseAll(unbind) \/ ReleaseAll(bind)
BY DEF SweepStep, BeginSweep, ListAddresses, FindGone, DescribeGone, DisassociateGone,
       DisassociateFails, ReleaseUnbind, ReleaseBind, ReleaseRefused, SweepError, RestUnchanged

\* It keeps the invariant of the addresses.
LEMMA SweepSafe ==
    ASSUME TagLag = FALSE, SweepInv, AddressInv, SweepStep
    PROVE  AddressInv'
<1>1. TypeInv /\ unbind \in SUBSET Eips /\ bind \in SUBSET Eips /\ todo \in SUBSET Eips
  BY DEF SweepInv, SweepDataType
<1>2. UNCHANGED <<watchVars, workerVars>>
  BY SweepCalled
<1>3. \/ UNCHANGED cloudVars
      \/ \E e \in todo : DisassociateAddress(e)
      \/ ReleaseAll(unbind) \/ ReleaseAll(bind)
  BY SweepCalled
<1>4. CASE UNCHANGED cloudVars
  <2>1. SameAddresses
    BY <1>4 DEF cloudVars, SameAddresses
  <2> QED BY <1>1, <1>2, <2>1, CloudTaskSafe
<1>5. ASSUME NEW e \in todo, DisassociateAddress(e) PROVE AddressInv'
  <2>1. SameAddresses
    BY <1>1, <1>5, QuietCalls
  <2> QED BY <1>1, <1>2, <2>1, CloudTaskSafe
<1>6. CASE ReleaseAll(unbind) \/ ReleaseAll(bind)
  BY <1>1, <1>2, <1>6, ReleaseAllSafe
<1> QED BY <1>3, <1>4, <1>5, <1>6

\* Every step of the two together keeps the part of the invariant about addresses.
LEMMA SweepAddressNext ==
    ASSUME TagLag = FALSE, SweepInv, AddressInv, [SweepNext]_<<vars, sweepVars>>
    PROVE  AddressInv'
<1>1. CASE SweepStep
  BY <1>1, SweepSafe
<1>2. CASE [Next]_vars
  BY <1>2, AddressNext DEF SweepInv
<1>3. OthersStep \/ OtherNodeShown \/ UNCHANGED <<vars, sweepVars>> => [Next]_vars
  BY DEF OthersStep, OtherNodeShown
<1> QED BY <1>1, <1>2, <1>3 DEF SweepNext

\* The sweep takes no lock, and yet nothing the workers rely on is lost by it: a name still
\* has one address at most, the tag index is what it should be, and the address of a node
\* that is gone is released, or known to the queue, or still to be shown.
THEOREM AccountingSurvives == ASSUME TagLag = FALSE PROVE SweepSpec => []IInv
<1>1. SweepInit => SweepInv /\ AddressInv
  BY SweepInvInit, AddressInit DEF SweepInit
<1>2. SweepInv /\ AddressInv /\ [SweepNext]_<<vars, sweepVars>> => SweepInv' /\ AddressInv'
  BY SweepInvNext, SweepAddressNext
<1>3. SweepInv /\ AddressInv => IInv
  BY IInvParts DEF SweepInv
<1> QED BY <1>1, <1>2, <1>3, PTL DEF SweepSpec
-----------------------------------------------------------------------------
(***************************************************************************)
(* What is right for a name, with the sweep next to the workers.           *)
(***************************************************************************)

\* To one address, a step of the sweep does nothing, or it takes it away.
LEMMA SweepTakes ==
    ASSUME SweepInv, SweepStep, NEW e \in Eips
    PROVE  \/ eip'[e] = eip[e]
           \/ /\ e \in Targets
              /\ eip'[e].name = eip[e].name /\ eip'[e].ins = eip[e].ins
              /\ eip[e].status # "UNUSED" /\ eip'[e].status \in {"UNBINDING", "RELEASED"}
<1>1. eip \in [Eips -> Address] /\ todo \subseteq Targets /\ unbind \subseteq Targets /\ bind \subseteq Targets
  BY DEF SweepInv, TypeInv, CloudTypeOK, SweepDataType, Targets
<1>2. CASE UNCHANGED cloudVars
  BY <1>2 DEF cloudVars
<1>3. ASSUME NEW f \in todo, DisassociateAddress(f)
      PROVE  eip'[e] = IF e = f THEN [eip[e] EXCEPT !.status = "UNBINDING"] ELSE eip[e]
  BY <1>1, <1>3 DEF DisassociateAddress
<1>4. ASSUME NEW f \in todo, DisassociateAddress(f)
      PROVE  eip[f].status # "UNUSED"
  BY <1>4 DEF DisassociateAddress
<1>5. ASSUME NEW s \in SUBSET Targets, ReleaseAll(s)
      PROVE  \/ eip'[e] = eip[e]
             \/ /\ e \in Targets /\ eip[e].status # "UNUSED"
                /\ eip'[e] = [eip[e] EXCEPT !.status = "RELEASED"]
  BY <1>5 DEF ReleaseAll
<1> QED BY <1>1, <1>2, <1>3, <1>4, <1>5, SweepCalled DEF Address

\* The sweep neither binds an address nor gives it a name.
LEMMA SweepNames ==
    ASSUME SweepInv, NameInv, SweepStep
    PROVE  NameInv'
<1>1. UNCHANGED <<watchVars, workerVars>>
  BY SweepCalled
<1>2. \A e \in Eips : /\ eip'[e].name = eip[e].name
                      /\ eip[e].status = "UNUSED" <=> eip'[e].status = "UNUSED"
                      /\ eip'[e].status \in {"BINDING", "BIND"} => eip'[e] = eip[e]
  BY SweepTakes
<1>3. NamesKept' /\ \A e \in Eips : BoundInName(e)'
  BY <1>2 DEF NameInv, NamesKept, BoundInName
<1>4. ASSUME NEW n \in Nodes, NEW o \in NodeObject, CopyOf(o, n)
      PROVE  o.anno # None => eip'[o.anno].name = n
  BY <1>2, <1>4 DEF NodeObject, CopyOf
<1>5. \A n \in Nodes : NodeNamed(n)'
  BY <1>1, <1>4 DEF SweepInv, TypeInv, NodesType, NameInv, NodeNamed, CopyOf, watchVars
<1>6. ASSUME NEW w \in Workers
      PROVE  HoldsKey(w)'
  <2>1. HoldsKey(w) /\ (pc[w] \in NodeCalls => key[w] \in Nodes /\ node[w] \in NodeObject)
    BY WorkerHas DEF SweepInv, NameInv, Calls
  <2> QED BY <1>1, <1>2, <1>4, <2>1 DEF HoldsKey, CopyOf, workerVars
<1> QED BY <1>3, <1>5, <1>6 DEF NameInv

\* Every step of the two together.
LEMMA SweepNameNext ==
    ASSUME SweepInv, NameInv, [SweepNext]_<<vars, sweepVars>>
    PROVE  NameInv'
<1>1. CASE [Next]_vars
  BY <1>1, NameInvNext DEF SweepInv
<1>2. OthersStep \/ OtherNodeShown \/ UNCHANGED <<vars, sweepVars>> => [Next]_vars
  BY DEF OthersStep, OtherNodeShown
<1> QED BY <1>1, <1>2, SweepNames DEF SweepNext

LEMMA SweepOnceNext ==
    ASSUME MaxIncarnations = 1, SweepInv, OnceRight, [SweepNext]_<<vars, sweepVars>>
    PROVE  OnceRight'
<1>1. CASE SweepStep
  BY <1>1, SweepCalled DEF watchVars, workerVars, OnceRight, FirstTime, QueuedShown, WorkerOnce, ShowsIns, Queue
<1>2. CASE [Next]_vars
  BY <1>2, OnceRightNext DEF SweepInv
<1>3. OthersStep \/ OtherNodeShown \/ UNCHANGED <<vars, sweepVars>> => [Next]_vars
  BY DEF OthersStep, OtherNodeShown
<1> QED BY <1>1, <1>2, <1>3 DEF SweepNext

\* What the sweep takes away is a target of it, and what a worker takes away is of a node
\* that is gone: neither is of a settled node.
LEMMA TakenUnsettled ==
    ASSUME SweepInv, NameInv, OnceRight, SweepNext, NEW e \in Eips, TakenAway(e)
    PROVE  eip[e].name \notin settled
<1>1. CASE SweepStep
  BY <1>1, SweepTakes DEF TakenAway, SweepInv, SettledSpared
<1>2. CASE Next
  BY <1>2, TakenFromGone DEF SweepInv, SettledShown
<1>3. CASE UNCHANGED vars
  BY <1>3 DEF vars, cloudVars, TakenAway
<1> QED BY <1>1, <1>2, <1>3 DEF SweepNext, OthersStep, OtherNodeShown

\* An instance gets no second address by a sweep.
LEMMA SweepOthersNext ==
    ASSUME SweepInv, OnceRight, OthersRespected, [SweepNext]_<<vars, sweepVars>>
    PROVE  OthersRespected'
<1>1. CASE SweepStep
  BY <1>1, SweepTakes DEF OthersRespected
<1>2. CASE [Next]_vars
  BY <1>2, OthersNext DEF SweepInv
<1>3. OthersStep \/ OtherNodeShown \/ UNCHANGED <<vars, sweepVars>> => [Next]_vars
  BY DEF OthersStep, OtherNodeShown
<1> QED BY <1>1, <1>2, <1>3 DEF SweepNext

LEMMA SweepNameInvariant == SweepSpec => []NameInv
<1>1. SweepInit => NameInv
  BY NameInvInit DEF SweepInit
<1>2. SweepInv /\ NameInv /\ [SweepNext]_<<vars, sweepVars>> => NameInv'
  BY SweepNameNext
<1> QED BY <1>1, <1>2, SweepInvariant, PTL DEF SweepSpec

LEMMA SweepOnceInvariant == ASSUME MaxIncarnations = 1 PROVE SweepSpec => []OnceRight
<1>1. SweepInit => OnceRight
  BY OnceRightInit DEF SweepInit
<1>2. SweepInv /\ OnceRight /\ [SweepNext]_<<vars, sweepVars>> => OnceRight'
  BY SweepOnceNext
<1> QED BY <1>1, <1>2, SweepInvariant, PTL DEF SweepSpec

\* Nodes do not get each other's addresses, with a sweep at work or without
\* (getLegacyAnycastIds and Reconcile both go by the node name in the tags).
THEOREM NamesSurvive == SweepSpec => []NoMixUp
BY SweepNameInvariant, NameInvMeans, PTL

\* A node that has been there since the replica started, or since a sweep listed it, keeps
\* its address from everybody: from the sweep and from the workers, however their calls
\* interleave (Reconcile and ReverseReconcile share no lock).
THEOREM SettledAreKept == ASSUME MaxIncarnations = 1 PROVE SweepSpec => SettledKept
<1>1. SweepInv /\ NameInv /\ OnceRight /\ [SweepNext]_<<vars, sweepVars>>
          => [\A e \in Eips : TakenAway(e) => eip[e].name \notin settled]_<<vars, sweepVars>>
  BY TakenUnsettled
<1> QED BY <1>1, SweepInvariant, SweepNameInvariant, SweepOnceInvariant, PTL DEF SweepSpec, SettledKept

\* An instance that holds an address of somebody else is never given another one, although
\* the sweep frees addresses that a worker has in hand (the switch of
\* IsCvmNeedToAllocateAnyCastIp).
THEOREM OthersSurvive == ASSUME MaxIncarnations = 1 PROVE SweepSpec => []OthersRespected
<1>1. SweepInit => OthersRespected
  BY DEF SweepInit, Init, CloudInit, OthersRespected
<1>2. SweepInv /\ OnceRight /\ OthersRespected /\ [SweepNext]_<<vars, sweepVars>> => OthersRespected'
  BY SweepOthersNext
<1> QED BY <1>1, <1>2, SweepInvariant, SweepOnceInvariant, PTL DEF SweepSpec
=============================================================================

# A verification of aia-ip-controller in TLA+

aia-ip-controller is a Kubernetes controller. It gives every node that carries a
configured label a public ("anycast") address of Tencent Cloud, keeps the node tainted
until the address is bound, writes the address into the annotations of the node, and
releases the address when the node is gone. This directory holds TLA+ models of it, TLC
configurations that check them on small instances, and proofs, checked by TLAPS, of the
theorems that hold for every value of the constants.

Paths below are relative to the repository (`src/`); `manager.go`, `controller.go`, ...
are files of `pkg/controller/aia/`.

## 1. The system

| Component | State it keeps | Operations | Made hard by |
|---|---|---|---|
| **Node reconciler**: `Reconcile` (controller.go:93) and the methods of `MangerImp` it calls (manager.go) | none between reconciles; during one, a copy of the Node object and an address id | find the address of a name by tags, allocate, associate, disassociate, release; taint, untaint and annotate the node | every call may fail or lose its reply; binding is asynchronous; several workers; crashes; a name may be registered again while its old node is being served |
| **Node watch**: the event filters (create.go, update.go, delete.go) between informer and workqueue (`app/controller.go`:34-49) | the informer cache; the workqueue's dirty and processing sets | decide for a create, update or delete event whether the key is queued | the cache lags behind the API server; the filters judge a state that may have changed by the time of the reconcile |
| **Cluster uuid**: `GetOrCreateClusterUuidInCm` (manager.go:428) | a config map in kube-system; the uuid each replica works with | read or create the config map at start, before leader election | all replicas race; a reply may be lost; every error ends the process |
| **Cloud services** (external) | addresses with status, instance and tags; tag values; tag index | the VPC and Tag API calls | asynchronous tasks; the tag index may lag; instances are destroyed |
| **Reverse reconcile** (controller_reconcile.go), "the sweep", off by default | `isLeader`; within a sweep, the names listed and the addresses collected | once a minute: list the nodes, list the cluster's addresses by tag, ask for their node names, disassociate and release those whose node is gone | reads nodes before addresses; no lock against `Reconcile`; starts while the cache is being filled; paging on totals the service reports; several addresses in one call |
| **Leader election, command, options** (`cmd/`) | the lock, owned by controller-runtime | start, parse the configuration, stop when leadership is lost | start-up order |
| **Helm chart, deployment files, constants, `util`** | - | - | - |

How they interact: the informer shows changes of Node objects to the filters; the filters
queue names; a worker takes a name, reads the Node from the *cache*, asks and changes the
*cloud*, and patches the Node at the *API server*, which the informer will show later. The
sweep runs next to the workers and meets them in the cloud only. The
cloud is the only persistent record of which address belongs to which node: an address
carries the tags `aia-official-cluster-uuid`, `aia-node-name` and `aia-node-ins-id`. So the
correctness of allocation and of reclaiming rests on finding the address again by its tags,
and that rests on all replicas, now and later, working with one cluster uuid.

What makes each component correct:

* reconciler: a node name owns at most one address; no address is forgotten; a node is
  tainted while its address is being bound and open only when it is bound; addresses of
  other owners are respected; an annotation names an address that exists; labelled nodes
  are served and addresses of deleted nodes released in the end;
* node watch: a deletion that matters reaches the queue; only labelled nodes are served;
* cluster uuid: one uuid for ever, the same for all replicas; replicas come up;
* reverse reconcile: takes no address from a node that exists; finds all addresses whose
  node is gone, and gets rid of them however they changed meanwhile; every sweep ends.

## 2. The modules

| Module | Models |
|---|---|
| `AnycastCloud` | the cloud as the controller uses it: `eip[e]` is what `DescribeAddresses` reports (status, instance, tags), `indexed` what `DescribeResourcesByTags` finds, `tagReady` the tag values created |
| `NodeWatch` (extends `AnycastCloud`) | Node objects at the API server (`api`), in the informer cache (`cache`), the three filters, the workqueue (`dirty`, `processing`) |
| `Reconciler` (extends `NodeWatch`) | the composition: workers running `Reconcile`, faults, fairness, properties |
| `MCReconciler` | instances of `Reconciler` for TLC |
| `MCReconcilerOnce` | the same with the invariants of `Reconciler_once_proof` |
| `AddressBook` | abstract: at most one address per name, entered once, struck out only when its node has left |
| `AddressLedger` (extends `Reconciler`) | the refinement mapping from `Reconciler` to `AddressBook`, with a history variable |
| `MCAddressLedger` | its instances for TLC |
| `ReverseReconcile` (extends `Reconciler`) | the sweep composed with workers, informer, cloud and crashes |
| `MCReverseReconcile` | its instances for TLC |
| `TagPaging` | the two paging loops of the sweep over a tag index that changes |
| `MCTagPaging` | its instances for TLC |
| `UuidRegister` | abstract: a register that is written once |
| `ClusterUuid` | the replicas' race for the config map; implements `UuidRegister` |
| `MCClusterUuid` | instances of `ClusterUuid` for TLC |
| `Reconciler_proof` | type correctness of `Reconciler`; what a step can do to one address and to one node |
| `Reconciler_safety_proof` | the inductive invariant of `Reconciler` and its two main consequences |
| `Reconciler_names_proof` | that nodes do not get each other's addresses, and that no reconcile takes one from a living node; how a worker moves from call to call |
| `Reconciler_once_proof` | taint, annotation and other owners' addresses, for names registered once |
| `AddressLedger_proof` | the refinement of `AddressBook` |
| `ReverseReconcile_proof` | types of the sweep, that it spares settled nodes, and that it leaves the workers' invariants intact |
| `TagPaging_proof` | types of the paging loops, and how little they miss |
| `ClusterUuid_proof` | invariant and refinement of `ClusterUuid` |

### Correspondence with the code

**One step, one call.** Between two API calls a worker touches only its own variables, so a
step of a worker is one call together with the local code that follows its answer, up to
the next call. `pc[w]` names the call that comes next:

| `pc[w]` | action | code |
|---|---|---|
| `tagsGone` | `FindLegacy` | controller.go:105, `GetAnycastIpByTags` |
| `describeGone` | `DescribeLegacy` | manager.go:296-339 |
| `disassociate` | `Disassociate` | manager.go:325 |
| `release` | `Release` | manager.go:346 |
| `terminating` | `RejectTerminating` | controller.go:136 (no call: always an error) |
| `describeIns` | `DescribeInstance` (with `JudgeType`, `TaintFirst`, `Settle`) | manager.go:368-425 |
| `taint`, `taintStop` | `AddTaint`, `AddTaintAndStop` | manager.go:496, from lines 422 and 394/398 |
| `tags` | `FindByTags` | manager.go:151 |
| `allocate` | `Allocate` | manager.go:189 |
| `createTags` | `CreateMissingTags` | manager.go:199-213 |
| `describeEip` | `DescribeAddress` | manager.go:236-289 |
| `associate` | `Associate` | manager.go:278 |
| `untaint` | `RemoveTaint` | manager.go:548 |

`Start` is the workqueue's Get together with the read from the cache (controller.go:101);
the two are one step because the read is local and nothing else looks at a key that is in
work. `Finish` is `return Result{}, nil`, `Retry` is `return Result{}, err`: the key goes
back on the queue. The rate limiter's delay is abstracted to the freedom of the scheduler.
A key queued while it is in work stays in `dirty` and is handed out after it is done, as
the workqueue does it.

**Faults.** `ApiError`: any call fails without effect. Lost replies: a call that changes
something may take effect and still be followed by `Retry` (or by `createTags`, for an
allocation). `Crash`: the active replica dies at any point; the next one starts with empty
queue, empty cache and idle workers, and is shown every node as created.

**Data.** A Node object is reduced to its instance id label, one boolean for "carries all
configured labels", phase, the controller's own taint, the annotation with the address id,
and its incarnation. `ProcessNodeUpdate` compares all labels of a node, so a change of one
nobody configured queues it as well: such labels are no part of the object, the event is
`OtherLabelShown`. It may come at any time after the node was shown, and no fairness makes it
come. An address is reduced to status, instance, and the two tags that name
node and instance. `tagReady` counts a name and instance when all their tag values exist: the
loop that creates the values (manager.go:199-213) may stop half-way, but whether it does, or
runs to its end, the reconcile returns an error, and an allocation is refused while one value
is missing. So a loop that stops is `ApiError`, or `CreateMissingTags` if it created the last
value that was missing, and duplicates met by the next attempt are no errors. `unseen` is a history
variable: the names whose node went away without
the delete event passing the filter (no replica running, or label removed first). It guards
no action.

**ReverseReconcile.** The composition takes every step of `Reconciler` (`OthersStep`) and
adds the sweep. `rpc` names its next call:

| `rpc` | action | code (controller_reconcile.go) |
|---|---|---|
| `idle` | `BeginSweep` | 23-38: only the leader; `List` reads the informer's cache and waits until that is filled |
| `addresses` | `ListAddresses` | 41-50, one page of `getAllAnycastIpOfCluster` |
| `keys` | `FindGone` | 53-62, `getLegacyAnycastIds` |
| `describe` | `DescribeGone` | 221-249 |
| `disassociate` | `DisassociateGone`, `DisassociateFails` | 250-256, one call per bound address; an error is only logged |
| `releaseUnbind` | `ReleaseUnbind` | 72-80, all or nothing |
| `releaseBind` | `ReleaseBind` | 83-92, after the sleep of ten seconds |

`ReleaseRefused` is a call for several addresses of which one is not `UNBIND`, `SweepError`
any call that fails: both end the sweep, and the next minute begins a new one. The sleep and
the minute are abstracted to the freedom of the scheduler. `isLeader` is set by a create
event or a reconcile (create.go:12, controller.go:97); `OtherNodeShown` is the create event
of a node the model leaves out, such as the controller's own, so that the last node of the
model may go. `unsynced` is what the informer still has to show of its first list after a
start. `settled` is a history variable: names whose node has been there since the replica
started or since a sweep listed it. A crash ends the sweep and resets all this.

**TagPaging.** One state machine for `getAllAnycastIpOfCluster` (`pc = "list"`) and
`getLegacyAnycastIds` (`"batch"`, `"keys"`), a step per page. `rows` is the tag index in the
service's order; `RowAdded` puts a row anywhere, `RowRemoved` takes one out, between any two
pages. The total of an answer is right or one of `WrongTotals`; the total of the second call
may count addresses or tags (the comment at line 207 leaves it open). A missing response
ends the first loop without an error (`ListCutShort`, line 125) and is an error in the
second. `degraded` records that an answer was wrong or missing or that the rounds ran out.

**AddressLedger.** Adds to `Reconciler` the history variable `lapsed`: names whose address
is for a node that has left. An address is for the node the controller was shown when it
allocated the address, or began to bind it again, provided that this is the node that was
there. The mapping to `AddressBook`: `present` is the names with a node, `entry[n]` the live
address tagged with `n`, `used` the addresses ever allocated.

**ClusterUuid.** `GetCm`, `CreateCm`, `CallFails`: one call each. `RetryOnConflict` retries
only on Conflict, which neither Get nor Create returns, so any error ends the process
(`Exit`), and the kubelet restarts it (`Restart`).

### Assumptions about what is outside the repository

* An instance registers under one node name (`NameOf`); an address id is never given twice.
* `DescribeAddresses` filtered by instance lists addresses that are bound (`BIND`) only. The
  code does not look at the status there (manager.go:381-420): if an address on its way were
  listed too, the taint would be lifted early.
* A call takes effect before its caller goes on, or dies; late effects are not modelled.
* The informer may coalesce changes of one incarnation of a node, but shows the deletion of
  one before the creation of the next.
* Nodes have an annotations map; nobody but the replicas writes the config map while they
  run; at most one replica is active (leader election).
* Addresses of other owners on an instance do not change (`OtherEip`).
* A call of the sweep for released addresses answers for the others.
* The addresses of the cluster fit in one page when the sweep is composed with the workers;
  what is different with more is the subject of `TagPaging`.
* Other writers of a node's taints and annotations are not modelled.

## 3. What is checked

### Runs that pass

| Run | Instance | Shows |
|---|---|---|
| `reuse` | 1 name, 2 registrations by either of 2 instances, 2 addresses, 1 worker, 1 crash; exact tag index | `TypeOK`, `OneAddressPerNode`, `NoSilentLeak`, `BookSpec` (refinement), and the invariant of its proof `LedgerInv` |
| `two_nodes` | 2 names, 2 instances, 2 workers, 2 addresses, 1 crash | `TaintedWhileBinding`, `NoMixUp`, and the invariants of the proofs `IInv`, `OnceInv`, `TaintInv` |
| `lagging_tags` | 1 registration by either of 2 instances (the second with a WanIP and a HighQualityEIP of another owner), labels that change, 2 addresses, 1 crash, *lagging* tag index | `OpenOnlyWhenBound`, `AnnotationCurrent`, `OthersRespected`, `LivingKept` |
| `lifecycle` | 1 registration, 1 address, 1 crash, under `FairSpec` | `EventuallyServed`, `EventuallyReclaimed` |
| `sweep` | 1 name, 1 registration, 2 addresses, 1 crash, *lagging* tag index, the sweep next to 1 worker, under `SweepFairSpec` | `SweepTypeOK`, `SettledSpared`, `SettledKept`, `EventuallySwept` |
| `paging` | up to 5 rows, pages and batches of 2, 2 changes of the index, wrong totals | `TypeOK`, `BoundedLoss`, `Terminates`, and the invariant of the proof `PagingInv` |
| `uuid_race` | 3 replicas, 2 uuids; no map, an earlier one, or an empty one at first; under `FairSpec` | `UuidInv`, `RegisterSpec` (refinement), `EventuallyUp` |

* `OneAddressPerNode`: however often allocation is retried after errors, lost replies and
  crashes, a name owns at most one live address.
* `NoSilentLeak`: a live address belongs to a node that exists, or its name is still in the
  cache, queued, in work, or its deletion was never seen.
* `OpenOnlyWhenBound`: a node the controller has annotated is without the taint only while
  an address is bound to its instance. `TaintedWhileBinding`: a node is tainted while an
  address is on its way to its instance.
* `OthersRespected`: an instance with another owner's address gets none. Checked for names
  registered once: when a name is registered again during a reconcile, `AddTaint` replaces
  the worker's copy by the new object and skips the check of its instance.
* `IInv`, `OnceInv`, `TaintInv`, `LedgerInv`, `PagingInv`: the inductive invariants of
  section 4, checked before they were proved.
* `AnnotationCurrent`: an annotation names an address that has not been released.
* `NoMixUp`: the annotation of a node names an address that was allocated for its name, and
  an address is bound, or on its way, only to an instance of that name. Workers interleave,
  hold copies of nodes that have changed since, and find addresses by tags only; none of
  them compares a name again once it has an address in hand.
* `LivingKept`: no reconcile takes an address away from a node that exists, although it
  cleans up whatever the cache does not show, and decides so several calls before it acts.
  `SettledKept` is the same for sweep and workers together and for settled nodes, next to
  `SettledSpared`, which is about the addresses a sweep has collected.
* `EventuallyServed`: a node that stays labelled, alive and without other addresses ends up
  bound, annotated and open for good. `EventuallyReclaimed`: the address of a node that is
  gone is released, or the name is registered again.
* `BookSpec`: `Reconciler` implements `AddressBook`. Beyond uniqueness it says that an
  address is never used for a second name or again after its release, and that a node which
  stays keeps its address: what the worker takes for a deletion ("not found in the cache",
  controller.go:102) is one, although the cache of a new leader starts empty and events of an
  earlier node of the name may still be queued. The promise is for nodes the controller knew
  when it gave the address: a worker still busy with the earlier node of a name may allocate
  for a node it has not been shown, and the deletion event of the earlier one then takes that
  address away again.
* `SettledSpared`: a sweep does not pick the address of a node that has been there since the
  replica started or since a sweep listed it, not even during a take-over, when the events
  make the replica the leader while its cache is being filled.
* `EventuallySwept`: all addresses of a node that is gone, whose name was registered once, are
  released, or the name is registered again; also second addresses (allocated because the
  index lagged), and those nobody was told of. This needs the sweep, the informer and the cloud to go on, and nothing
  of the workers, which may be stuck or get in its way. It holds as well for one address
  with labels that change, configured ones (`LabelChoices = {TRUE, FALSE}`) and others
  (`OtherLabels = TRUE`). For names registered more often it is false (`sweep_reused`).
* `BoundedLoss`: of the addresses without a node that were there all along, a sweep whose
  answers were right misses fewer than one page plus one for each row removed while it was
  paging. The bound is tight: made smaller by one, TLC refutes it with five rows in pages of
  two and nothing changing, because the row of the last page is not asked for. `TypeOK` of
  `TagPaging` keeps offset and rounds within what the loops allow. `Terminates`: a sweep ends even when
  the service keeps reporting wrong totals, by the limit on the rounds.
* `UuidInv`: running replicas work with the uuid in the config map. `RegisterSpec`: the
  uuid never changes. `EventuallyUp`: a replica comes up again and again.

**Bounds.** `MaxIncarnations` (registrations per name), `MaxCrashes`, the number of names,
instances, addresses and workers. Errors and lost replies are unbounded. Two addresses are
enough to violate uniqueness; two registrations by two instances are enough for an old
reconcile to meet a new node; one crash is enough for every point of a reconcile, as a
second one starts from the same empty state; two workers on two names are enough for
workers to interleave, since the workqueue never gives them one name (proved:
`KeysExclusive`). For the sweep: two addresses make the calls for several addresses, one of
which may be refused, and the second address of a name happen; one name that joins or goes
at any point of the sweep is enough, since the sweep treats names independently. One
registration is what `EventuallySwept` is about, and all that its run has: with it, the
instance an address is bound to is always the one in its tag, so the test of
controller_reconcile.go:247 never fails. A second registration by another instance makes it
fail, and the address is never swept: that is the run `sweep_reused`. `SettledSpared` holds
for any number of registrations (proved: `NoSettledTarget`). `OtherLabels` says whether labels
nobody configured change. They do in the runs of `Reconciler` except `two_nodes`, where they
would triple the states; next to the sweep they do not. What `two_nodes` checks, and the safety
properties of `sweep`, are proved for both values. For the
paging: five rows in pages of two are two full pages and a rest, or one more after a removal;
`RetryTimeLimit` 4 and `RetryTimeLimit2` 3 (101 and 501 in the code) let the rounds run out;
`MaxChanges` bounds the rows added or removed during one sweep. `SYMMETRY` is used in safety
runs only, over addresses and workers, which no definition tells apart; in `two_nodes` also
over the two nodes, each changing places together with its instance, as `NameOf` and
`OtherEip` do not tell them apart. `CHECK_DEADLOCK FALSE` stands in the runs of `Reconciler`
because a controller with nothing to do stops.

**Fairness** (`FairSpec`). Weak fairness for the informer, for the cloud's tasks and for
"a worker in the middle of a reconcile goes on": goroutines and services that are never
stopped. Strong fairness for taking a queued key and for each call: the key of a failed
reconcile is queued again without limit (controller-runtime's rate-limited requeue), so a
call is made again and again and, unless the service is down for ever, is answered in the
end. Crashes, errors, users and destroyed instances are not fair. For the
sweep (`SweepFairness`): weak fairness for informer and cloud, for the create event of some
node, and for the sweep's next step (`wait.Until` with `NeverStop`), and the assumption that
from some point on its calls are answered; refused calls may go on for ever. In `TagPaging`
weak fairness of the goroutine is enough, errors are as good an end as any. In `ClusterUuid` the
kubelet's restart is weakly fair, and the two calls are strongly fair for the same reason.

### Disagreements between code and documentation

Each is a run that expects a violation.

| Run | Documented | What the code does |
|---|---|---|
| `unlabelled` | addresses are for "nodes that has a special label" (README.md:11) | the label is tested by the filters only; when it is removed while the key waits for a retry, `Reconcile` still allocates and binds (controller.go:140) |
| `common_type` | `addressType` may be `EIP` (chart README:23) | the bound address is taken for somebody else's (manager.go:395), and the node stays tainted for ever |
| `reopened` | the taint ensures "that the aia IP has been bound before the user's workload is started" (README.md:42) | the patch names the node only; it may land on a node registered later under the same name, and opens it without an address (manager.go:548) |
| `sweep_reused` | deletions that happen while the controller "is unavailable" are left to the sweep (README.md:67) | an address that went to a second instance of its name keeps the tag of the first (manager.go:151-157, 273-278), and the sweep unbinds only where tag and instance agree (controller_reconcile.go:247): it stays bound for ever |
| `sweep_living` | the sweep is to "process the aia ip associated with these deleted nodes" (README.md:67) | nodes are listed before addresses (controller_reconcile.go:30, 41): a node that joins and is served in between loses its address |

Two consequences and two divergences have no run of their own. After `reopened` the new node
keeps its predecessor's address in its annotation, although that address may be released and
another one bound: whether the annotations are there is tested, not what they say
(manager.go:516-521), so `AnnotationCurrent` fails for names registered again. After
`sweep_living` the node may stay open without an address until its key is queued for another
reason. The sweep is to "get all anycast ip from tag api" (controller_reconcile.go:100), but
its last page is not asked for unless it is full or the first (line 107): 250 addresses are
listed as 200. `BoundedLoss` allows for this, and its bound is reached. And a config map
without a uuid makes every replica exit for ever (manager.go:458), where the comment says
"create uuid, update successfully, and return": `EventuallyUp` excludes it.

`OpenOnlyWhenBound`, `AnnotationCurrent`, `OthersRespected` and `LivingKept` hold for names
registered once, even with a lagging index, and `TaintedWhileBinding` does with an exact one
(proved in section 4). With `MaxIncarnations = 2` TLC finds a counterexample to each of the
five and to `SettledKept`, and with a lagging index one to `TaintedWhileBinding`: two
addresses were allocated and are both on their way to the instance, and the taint is lifted
when the first has arrived. So the hypotheses of those theorems cannot be dropped. `NoMixUp`
needs none. `EventuallyServed` holds for the type `AnycastEIP` (`lifecycle`) and fails for `EIP`.

## 4. What is proved

The theorems of the eight modules with `_proof` in their names hold for every value
of the constants that satisfies the named assumptions (`CloudAssumption`,
`WatchAssumption`, `ReconcilerAssumption`, `UuidAssumption`, `PagingAssumption`), so for any
number of nodes, instances, addresses, workers, crashes and, unless a theorem says
otherwise, registrations. Hypotheses on the constants stand in the theorems:

| Theorem | States | Hypothesis |
|---|---|---|
| `TypeCorrect` | `Spec => []TypeOK` | |
| `AddressesUnique`, `NothingForgotten` | `OneAddressPerNode`, `NoSilentLeak` | `TagLag = FALSE` |
| `LedgerInvariant`, `LedgerIsBook` | `LedgerInv`, `LedgerSpec => BookSpec` | `TagLag = FALSE` |
| `NeverMixedUp` | `NoMixUp` | |
| `LivingAreKept` | `Spec => LivingKept` | `MaxIncarnations = 1` |
| `OthersLeftAlone`, `OpenMeansBound`, `AnnotationsLive` | `OthersRespected`, `OpenOnlyWhenBound`, `AnnotationCurrent` | `MaxIncarnations = 1` |
| `TaintInvariant`, `BindingTainted` | `TaintInv`, `TaintedWhileBinding` | `MaxIncarnations = 1`, `TagLag = FALSE` |
| `SweepTypeCorrect`, `NoSettledTarget` | `SweepTypeOK`, `SettledSpared` of `SweepSpec` | |
| `AccountingSurvives` | `SweepSpec => []IInv` | `TagLag = FALSE` |
| `NamesSurvive` | `SweepSpec => []NoMixUp` | |
| `SettledAreKept`, `OthersSurvive` | `SweepSpec => SettledKept`, `SweepSpec => []OthersRespected` | `MaxIncarnations = 1` |
| `PagingTyped`, `LittleIsMissed` | `TypeOK`, `BoundedLoss` of `TagPaging` | |
| `UuidInvariant`, `RaceIsRegister` | `UuidInv`, `Spec => RegisterSpec` | |

`TagLag = FALSE` is the tag service answering from its present state; with a lagging index
`OneAddressPerNode` is false, a second address being allocated for a name whose first one is
not listed yet. `MaxIncarnations = 1` is a cluster whose node names are not used again; where they
are, the run `reopened` shows what happens. The theorems about `Spec` are about the workers
without the sweep, which is off by default. `SweepSpec` is the two together: by
`AccountingSurvives` a name still owns one address at most and none is lost from view, by
`NamesSurvive` and `OthersSurvive` no address goes where it should not, `NoSettledTarget` and
`SettledAreKept` say whose address is left alone, and `sweep_living` whose is not. The
theorems about taint and annotation and `LedgerIsBook` do not carry over: `sweep_living` takes
the address of a node that is there. The arguments:

* `TypeCorrect == Spec => []TypeOK`. Types alone are not inductive: `processing` loses
  `key[w]` at the end of a reconcile, and a call uses `node[w]` and `cur[w]`, which are
  `None` in an idle worker. `TypeInv` adds `WorkersOK` (a busy worker holds what its next
  call needs) and `KeysExclusive` (no two workers hold one key).
* `Inductive == ASSUME TagLag = FALSE PROVE Spec => []IInv`, and from it
  `AddressesUnique` (`OneAddressPerNode`) and `NothingForgotten` (`NoSilentLeak`). The
  argument: a worker allocates only after a lookup by tags found nothing; with an exact
  index (`IndexExact`) nothing was there, and nothing comes before the allocation because
  nobody else works on the key (`NothingAllocatedYet`, `KeysExclusive`). A name is given at
  allocation and kept (`NamesKept`). For the leak: an address of a vanished node leaves the
  queue's sight only when the reconcile of its name ends. A clean-up reconcile ends without
  an error only if no address was found, or after it released the address of its key
  (`LegacyOfKey`), which by uniqueness was the only one. A reconcile that served a node may
  end at any time, since the deletion of that node is still to be shown, is queued, or is
  recorded as unseen (`DeletionPending`). With a lagging index uniqueness is false.
* `LedgerIsBook`, the refinement of `AddressBook`. Per action: `NodeRegistered` is Join,
  `NodeDeleted` Leave, `Allocate` Enter, an association for the node that is shown Renew,
  `Release` Strike; every other step leaves the book alone. By `IInv` a worker that allocates
  finds no entry, and one that releases holds the entry of its key. Strike also needs that
  the node of the entry has left, which `LedgerInv` gives: a worker that cleans up does so for
  a lapsed name (`CleansLapsed`), because an address that is not lapsed is for the node that
  is there, and then the cache shows that very node, or shows none and the key is not in the
  queue (`LapsedRight`), so that "not found" is not read for it.
* `OthersLeftAlone`, `OpenMeansBound`, `AnnotationsLive`, from `OnceInvariant == ... Spec =>
  []OnceInv`. The code never checks that the node it patches is the one it read. `OnceInv`
  says why that does no harm when names are not used again: a copy of a node, in the cache or
  in a worker's hands, names the instance of the node (`InsRight`) and an annotation that is
  an address of it, alive while the node is there (`AnnoRight`); a worker that cleans up
  has a key without a node; one on the way to an association serves an instance without
  addresses of other owners; one about to lift the taint has an address of its key, and an address is
  bound to its instance (`WorkerRight`). What others do in the meantime is `Evolves`: a node
  that is there keeps its instance, and an address of it stays alive, and bound if it was
  bound. These hold of a lagging index too, which may lead to a second address but not to a
  wrong one.
* `BindingTainted`, from `OnceInv`, `IInv` and `TaintInv`: a worker between the taint and the
  association serves a node that is tainted, and one about to lift the taint finds no address
  of its key on its way, since the only one is the bound one it read. A cached copy may show a
  taint that has been lifted since, but then the node has its annotation (`OpenedSince`),
  which is why the worker does not skip the taint for a node that still needs it.
* `NeverMixedUp == Spec => []NoMixUp`, for any number of registrations and a lagging index.
  The lemma `WorkerMoves` reduces the sixteen actions of a worker to `Moves`: it ends its
  reconcile, takes a key with what the cache shows, goes on with key and copy as they are, or
  has its copy replaced by the answer to a patch. The inductive `NameInv` says that a copy of
  a node is about that node, wherever it is (`NodeNamed`, `HoldsKey`), that an address in hand
  is of the worker's key, and that an address is bound in its name (`BoundInName`). It needs
  no copy to be current: a name stays with an address (`NamesStay`), and a name with an
  instance (`NameOf`).
* `LivingAreKept == ASSUME MaxIncarnations = 1 PROVE Spec => LivingKept`, from `NameInv` and
  `OnceRight`: a queued node that is there is in the cache (`QueuedShown`), so that a worker
  which finds none is right, and it stays right, as the name is not registered again
  (`FirstTime`). With names registered again "not found" may come true too late; what holds
  then is `LedgerIsBook`.
* `SweepTypeCorrect == SweepSpec => []SweepTypeOK` and `NoSettledTarget == SweepSpec =>
  []SettledSpared`, with an exact or a lagging index. `SettledSpared` speaks of the addresses
  collected, and `SweepInv` adds why they are the right ones: a settled node exists and the
  cache has its present incarnation, unless its create event is still to come
  (`SettledShown`), so a list made when no event is outstanding has it (`SettledListed`);
  the informer cannot take such a node out of the cache (`NodeStays`), and a node that is
  deleted after it was listed is settled no more. An address the sweep has read keeps the
  name it was read with (`KnownNamed`). Types come from `TypeInv`.
* `AccountingSurvives == ASSUME TagLag = FALSE PROVE SweepSpec => []IInv`. The steps of the
  others keep `AddressInv` as they did. A step of the sweep asks, disassociates an address
  (`SameAddresses`), or releases some of them (`ReleaseAllSafe`): it allocates nothing and
  renames nothing, and no part of `AddressInv` asks that an address be there, so that a
  worker with the lookup or the address of its key in hand is not led to a wrong step.
* `NamesSurvive`, `SettledAreKept`, `OthersSurvive`, from `NameInv`, `OnceRight` and
  `SweepInv`. `OnceRight` says nothing of the cloud, which is all a sweep changes, and a sweep
  does nothing to an address but take it away (`SweepTakes`), so both invariants of the workers
  go on. An address that a step takes away is then a target of the sweep, none of which is of
  a settled node, or in the hand of a worker whose node is gone, while settled nodes exist.
* `PagingTyped` and `LittleIsMissed`, from `PagingInvariant == Spec => []PagingInv`. A row
  passes the offset unread only when a removal moves it there, one row per removal
  (`PassedFound`: `Cardinality` of the old rows before the offset that were not found is at
  most `removed`); added rows move old ones away from the offset. After a right answer what
  else is missing lies behind the offset and is counted by the total (`RestCounted`), and the
  loop ends with less than a page of that (`FewMissed`). The second loop loses nothing
  (`BatchesKeep`): batches are cut without a gap, its first round always runs, and a batch fits
  in one page. `PagingAssumption` asks for what the code's numbers and the service give:
  positive limits, `2 * BatchSize <= Limit2` (20, 400), totals nobody reports that are larger
  than a page, finitely many rows, and a list that has each row once.
* `UuidInvariant == Spec => []UuidInv` and `RaceIsRegister == Spec => RegisterSpec`, the
  refinement of `UuidRegister`: the initial state maps to an initial state and each step to
  a step of the register or to none. The refinement needs the invariant: a replica that is
  not running must not hold a uuid, and one that runs must hold the one in the map.

Only model-checked: the liveness properties (`EventuallyServed`, `EventuallyReclaimed`,
`EventuallySwept`, `EventuallyUp`, `Terminates`), which rest on fairness and are beyond the
prover; every invariant, action property and refinement that a passing run checks is stated
by a theorem.

## 5. Not modelled

Logging, events, metrics, flag and file parsing, the chart; bandwidth, zone and additional
tags of an address; in `Reconcile`, the paging of `DescribeResourcesByTags` (it uses the
first row of the first page only); the panic on a nil annotations map (manager.go:529); taints and
annotations of other owners; rows without a resource id and addresses without a status,
which the sweep skips; the service's own limits on the ids and addresses of one call.

The command, its options and the configuration (`cmd/aia-ip-controller`) are start-up code
without branches of interest: flags are copied into a configuration, a file is read, a
manager is built, and any error ends the process. Leader election is controller-runtime's;
the models take from it that one replica is active. A replica that has lost its lease runs
on until its process has ended, a sweep included: like a call that takes effect late, that
is outside the models.

## 6. Plan

Done, in this order: `AnycastCloud`, `NodeWatch`, `Reconciler`, `ClusterUuid`, and their
proofs; `TagPaging`; `ReverseReconcile`; `AddressBook` with `AddressLedger`; the proofs about
names registered once, of the refinement, of the paging loops, and of the workers next to the
sweep; the proofs about whose address is whose, with workers and sweep. Next:

1. Proofs: what still holds of the taint when names are registered again (of addresses and
   annotations `NoMixUp` and `BookSpec` do).
2. `NodePatch`: merge patches that replace the whole list of taints, with a second writer.
3. Extensions of `AnycastCloud`: calls that take effect late (after a timeout or a crash);
   addresses listed for an instance before they are bound or while they are unbound.

# A verification of the Atomix operator in TLA+

The Atomix operator keeps clusters, partition groups and benchmarks of Atomix
running on Kubernetes. This directory holds TLA+ models of it, the TLC
configurations that check them on small instances, and proofs, checked by TLAPS,
for every instance. Paths are those of the repository; `reconciler.go` without a
directory means the one of each of the three controllers.

## 1. The system

### Components

| Component | State | Operations | Talks to |
|---|---|---|---|
| **Manager** (`cmd/manager/main.go`, `pkg/controller/manager.go`) | process | become the leader, register the types, add the controllers, start | API server, everything below |
| **Leader election** (vendored `operator-sdk/pkg/leader`) | a ConfigMap owned by the leader's pod | read own pod, check the lock, create it or wait | API server, garbage collector |
| **AtomixCluster controller** (`pkg/controller/cluster`) | none of its own | one pass: five steps, each "look up, create if missing" | cache (reads), API server (creates) |
| **PartitionGroup controller** (`pkg/controller/partitiongroup`) | none | five steps; the type of the group chooses configuration and StatefulSet | same |
| **AtomixBenchmark controller** (`pkg/controller/benchmark`) | none | eight steps, for the coordinator and for the workers | same |
| **Builders** (`pkg/controller/util`) | none | pure functions from a CR to an object | the controllers |
| **Defaults and types** (`pkg/apis/agent/v1alpha1`) | none | fill in what a manifest left out; find the type of a group | the controllers |
| **Informers, queue, workers** (vendored `client-go`, `controller-runtime`) | indexer, pending events and notices, set of queued names, the pass under way | list, watch, hand over, notify, resync, run one pass at a time | API server, controllers |
| **Kubernetes** (external) | all objects, pods | commit writes, tell watchers, collect garbage, restart containers | all |

There is no code in the operator that updates or deletes an object. A custom
resource (CR) is read from the cache; for each step the dependent object is looked
up in the cache by its name, and created in the API server if it is not there. The
first error ends the pass. Deletion is left to the garbage collector, by way of the
owner reference every object carries.

A controller is told of every event of its own CRs, and of events of *one* kind of
dependent: StatefulSets for clusters and groups, Pods for benchmarks. Other kinds
(ConfigMaps, services, budgets) are cached, because the cached client starts an
informer for whatever it reads, but no handler listens.

### What is hard here

* **Stale reads.** Every read is from the cache, every write goes to the API server.
  A pass may work on a CR that was edited, deleted or replaced by another of the
  same name, and may miss or find objects that are there or gone.
* **Wake-ups.** Nobody polls. If an object is missing and nothing is queued, in
  progress or on its way that leads to a pass, it stays missing until the ten-hourly
  resync.
* **Recreation.** A CR that is deleted and created under its name again races the
  garbage collector over objects of the same names.
* **No transactions.** A pass can stop between any two creations: an error, a crash, a
  lost reply.
* **Names.** The steps recognize objects by name only; names are shared between the
  coordinator and the workers of a benchmark, and between kinds of CR.
* **Broken watches.** A list takes the place of the events that were lost, and shows only what is
  there at that moment, or was a little earlier.
* **Several operators.** Pods of the operator overlap in a rolling update, and two of them may work
  on the same objects.
* **Agreement.** The nodes of a cluster, of its groups and of its benchmarks find each other by labels,
  selectors and scripts that three controllers write separately.

### What makes each component correct

* *Kube (informers):* pending events are exactly what the cache lacks
  (`CacheTracksStore`).
* *Operator (passes):* no needed wake-up is lost (`MissingIsNoticed`); objects come in
  the order of the steps (`CreatedInOrder`) and from a spec of their own owner
  (`BuiltFromOwnersSpec`); once left alone, all that should exist does, and nothing
  else (`Converges`, `WatchedConverges`).
  And as a whole: they do to the objects in the API server only what the abstract specification
  `Provisioning` allows (`Provisions`), also when there are two of them (`BothProvision`).
* *Builders:* what the objects say of each other is true, as seen by the pods that come of them:
  every node looks for its cluster by a service that leads to the node itself (`Discoverable`), and
  announces an address that does (`AnnouncesItself`); a protocol runs where it has the volumes it
  needs, and with all settings set (`ConfigFitsPods`); a budget is a majority of the nodes
  (`BudgetIsMajority`); the coordinator has its own script under the name it shares with the workers
  (`CoordinatorJoinsCluster`).
* *Leader election:* one pod is made the leader (`OneLeader`), a lock is not stolen
  (`LockNotStolen`) and not left behind (`SomeoneLeads`).

## 2. The modules

```
 Objects                names and keys                              LeaderElection
  |-- Kube              API server, watches, caches                       |
  |-- Deployments       the CRs, their steps and objects             LeaderProofs
  |     |-- Provisioning      what may be done to the objects (abstract)
  |     |-- Operator          the controllers (EXTENDS Kube as well);
  |     |                     Promised == INSTANCE Provisioning
  |     |     `-- TwoOperators      a second INSTANCE of Operator on the same store
  `-- Resources         what the builders share
        |-- ClusterResources, PartitionGroupResources, BenchmarkResources
        `-- Pods              what becomes of the objects

 Workload                                     Provisioning, all three kinds, and Pods

 MCCluster, MCPartitionGroup, MCBenchmark     Operator and one kind of resources
 MCOperator                                   Operator, clusters and groups together
 MCGroupPods                                  MCPartitionGroup and Pods
 MCWorkload                                   Workload, one CR of each kind
 MCTwoOperators                               TwoOperators and clusters

 KubeProofs -> OperatorProofs -> HistoryProofs -> NoticeProofs -> ProvisioningProofs
            -> TwoOperatorsProofs
 WorkloadProofs (of Workload)
```

**`Objects`**: the name of an object is the sequence of its dash-separated parts, so
`Sprintf("%s-%s", name, "init")` is `Append`. No suffix the operator uses holds a dash,
so two names are equal as strings exactly when they are equal as sequences.

**`Kube`**: `store` is the API server, `cache[k]` the indexer's entry for the object
`k`, `watch[k]` the events of `k` that were committed and not yet read. Events of one
object arrive in order. Those of different objects may overtake each other, also within
one kind, because the queue between the watch and the indexer (`DeltaFIFO`) hands over
all it has of one object at once. `Relist` is what a new process does; its list comes
from a cache of the API server ("fine for the List() to be served from cache",
`reflector.go`) and may be as late for any object as the old watch was.

`Rewatch` is what becomes of a watch that breaks while the process lives. `ListAndWatch` returns and
is called again; its list is as late for each object of the kind as any prefix of the events still
pending (`listed`), and `DeltaFIFO.Replace` turns it into events (`Resent`): what is listed comes as a
`Sync`, what is in the indexer and not in the list as a deletion, in the state the indexer knows; the
new watch goes on from there. So an object that was deleted and created again may appear to have been
updated, and one that was created and deleted never appear. Two assumptions are in this: the reflector
waits a second before it lists again, so what it had read before has left its queue by then; and there
is one API server, whose lists do not go back behind what the informer knew.

**`Deployments`** names what the next three modules have in common: the CRs there may be, the steps of
each controller, the object each step is about and how it is built, all as constants.

**`Provisioning`** is the abstract specification: only the objects, and what may be done to them. There
are no caches, queues or passes in it. An object may be created if there is none of its name, for a CR
that exists or existed, from a spec that very CR has or had, after the objects of the earlier steps.

**`Operator`**: the three controllers, which are one program up to their steps, the
objects these create and the kind they watch: its constants. Variables of the same names are what
`Provisioning` speaks of, so `Promised == INSTANCE Provisioning` needs no substitution: the refinement
mapping forgets the caches, the events, the queue and the passes. `queue` is the dirty set of
the work queue (the Go type keeps a name at most once, and a name that arrives while it
is being processed is kept for later: the same as a set from which `BeginPass` takes).
`notices[cr]` are the notifications between the indexer and the queue: the handler runs
in its own goroutine. `work[c]` is the pass of the single worker of a controller: the copy
of the CR it read, the step it is at, and whether the lookup of the step came back
NotFound.

| Action | Code |
|---|---|
| `BeginPass` | the `Get` at the start of `Reconcile`; NotFound ends the pass without an error |
| `ReadFails` | that `Get` fails in another way: the name goes back to the queue |
| `FindObject`, `MissObject`, `LookupFails` | the cached `Get` of a step, and its errors other than NotFound |
| `CreateObject`, `Conflict`, `Rejected`, `ReplyLost` | what `client.Create` may come back with |
| `FailToBuild` | a builder's error: an unknown type of group, a size that does not parse or that the API server refuses |
| `Advance`, `Fail` (parts of the above) | the next step or the end of the pass; back to the queue |
| `Deliver`, `Notify`, `Resync` | `HandleDeltas`, `processorListener.run`, the reflector's timer |
| `BrokenWatch` | `ListAndWatch` returns and is called again; see `Rewatch` |
| `Restart` | the process dies; a new one lists all kinds and announces what it finds |
| `CreateCR`, `EditCR`, `DeleteCR`, `GarbageCollect`, `OutsideDelete` | users, the garbage collector, others |

A cached read fails otherwise than by NotFound if the informer of its kind, which the first read creates,
cannot be created or synced, or if the indexer returns an error (`cache_reader.go`); the informers of CRs
are there already, so for `ReadFails` only the latter is left. The benchmark controller looks an object up twice, the second time just before it
creates (`benchmark/reconciler.go:171-182` and its siblings), and is done with the step if the object is
there by then. One lookup stands for both: finding the object at the second is what `FindObject` does when
it looks that much later, and an error of the second ends the pass as `Rejected` does.

The back-off of failed names is not modelled: a failed name is in `queue` at once, and
`BeginPass` may take it at any later time. A name that waits for its back-off and is
queued by an event too gets two passes in the program and one in the model; the second
is one more look at what the first left.

**`Resources`, `ClusterResources`, `PartitionGroupResources`, `BenchmarkResources`**: the
builders as operators from a CR's name, a step and a spec to the object's content,
defaults included. Only what differs between objects, or what one object says of another
by name, is kept. `Accepted` is the API server's part in building an object: negative replicas and
negative numbers of pods are refused, which to the pass is an error as any other. Which strings are
quantities is a constant, `Quantities`: the runs name a few, the theorems hold for any. What quantity a
string is makes no difference to the operator (a negative one parses too).

**`Pods`**: a StatefulSet, and the coordinator, starts a pod when both ConfigMaps its volumes name are
there and its init container succeeds. The pod keeps what it read until it stops. One pod stands for all
those of a StatefulSet. `Succeeds` is the `exit 1` of the script of clusters and groups in a pod whose
host name does not end in a number; `Discovers` and `Announces` are the service and the host the script
writes; `LeadsTo` is how a service selects pods.

**`Workload`** puts the three kinds of deployment and their pods together, over `Provisioning`: its
constants are those of the builders (`DeploymentsAssumption`), for any CRs whose objects do not collide
in their names (`NamesAssumption`) and any manifests the types allow. It states what must be true of the
objects as pods see them.

**`TwoOperators`**: two operators with caches, queues and workers of their own on one store. One has the
variables of `Operator`, the other is `Other`, an instance of `Operator` with its own. What one of them, a
user or the garbage collector does to the store reaches the other as an event (`Hear`). It is what is
left when leader election does not help: `main` went on after an error, or the pod of a leader was
deleted by force and runs on. The counters of bounds and the history variables are shared.

**`LeaderElection`**: pods of the operator, the lock, and where each `main` is in `Become`, or
that it is past it, as the leader or after an error it dropped.

**`MC*`** give the constants values, and state what only makes sense for certain kinds of CR, and where
they do that wake-ups are not lost at these values (`WakeUpsAssumption`, see the proofs).

In each module, operators commented "A mistake to detect" are wrong variants of the
definition that follows, one for every checked property: put in place of the right one they
violate the property, which shows that the property can see such a mistake.

## 3. The runs

Properties that hold:

| Run | Question | Distinct states |
|---|---|---|
| `ClusterRecreated` | types, caches, wake-ups, provenance, order, and that nothing is done to the objects which `Provisioning` does not allow: two incarnations, two sizes, informers two events behind and any one fault, a broken watch among them | 141 832 |
| `BenchmarkRecreated` | the controller that watches a pod, two of its steps with one name: wake-ups, and that the coordinator comes back by events and retries alone, under any two faults | 40 484 |
| `GroupConverges` | a negative size corrected or a good spec broken, two incarnations, an object deleted from outside: all settles | 71 893 |
| `TwoControllers` | wake-ups with two controllers on one informer; the group is served beside a cluster, by events alone | 38 975 |
| `Workload` | a cluster, a group and a benchmark with all steps, and their pods: everything fits together | 69 989 |
| `TwoOperators` | two operators on one cluster, two incarnations, two sizes, any one fault: only what one of them may do is done, and neither misses a wake-up | 273 254 |
| `Leader` | one leader, no lock stolen and none left behind, with failed calls and forced deletions | 12 340 |

Properties that do not hold, each stated by a comment or the README:

| Run | What it shows |
|---|---|
| `GroupOfLogs` | a group with `log:` in its manifest is never provisioned: the Go field's tag is `"log:omitempty"`, so its key is not `log` |
| `BenchmarkWorkers` | no service is ever labelled `benchmark-worker`: it has the name of the coordinator's, and is found to exist. The constants `BenchmarkSuffix` and `WorkerSuffix`, which would tell them apart, are used nowhere |
| `SameName` | a partition group with the name of a cluster gets no StatefulSet: the names are the same, and the group's steps find the cluster's objects |
| `LeaderErrors` | `main` drops the error of `leader.Become`: an API error there leads to an operator that works without the lock |
| `GroupRecreated` | a group deleted and created again with another protocol may start its pods on the protocol of the first: the old StatefulSet is collected, the old ConfigMaps are not yet, and a step takes any object of its name for its own. When the ConfigMaps go, the pods keep what they read |

`Workload` composes the three kinds of deployment over `Provisioning` instead of `Operator`. That is what
the refinement is for: whatever holds of every order of events `Provisioning` allows holds of the
controllers, and all eighteen steps of three CRs, seven group manifests and the pods fit into one run.
The manifests cover each protocol, two at once, none that is decoded, sizes left out, negative or not a
quantity, and a negative number of partitions: that one nobody refuses, neither the API server nor the
builder, so it ends up in the configuration as it is, and `ConfigFitsPods` asks only that there be one.

What `Workload` says is limited on purpose: users neither edit nor delete in it. After an edit, objects of
a CR stem from two specs, and nothing promises that these fit; after a deletion, `GroupRecreated` shows
what can happen, and `CoordinatorJoinsCluster` would fail in the same way, for the workers' step could
find the shared name free. Without deletions the coordinator's step always comes first, also when a pass
breaks off and is retried. `AnnouncesItself` leaves out the workers of a benchmark: they run the
coordinator's script, the name being taken, and so announce the coordinator's service (the run
`BenchmarkWorkers` is about the same cause). `BudgetIsMajority` says nothing of negative sizes, for no pods
run then: the budget of -1 is accepted, asks for one pod, and keeps that number when the size is corrected,
as any object does after an edit.

### Bounds

* **One or two CRs of one name, three in `Workload`.** Controllers do not interact except through
  names, labels and shared informers; `TwoControllers`, `SameName` and `Workload` cover these.
  `MaxUid = 2` gives two incarnations of a CR, enough for every race between an old one and a new one.
* **`MaxLag`** bounds the events an informer is behind for each object. Without it, a worker
  with a stale CR and the garbage collector could create and collect an object forever. With 1
  the cache can be wrong about everything; with 2 (`ClusterRecreated`) an object can be deleted and created behind its back, and a broken
  watch can lose both events.
* **`MaxNotices`** bounds the buffer between indexer and queue. Notices of a CR are
  indistinguishable and a set receives them, so more than one only delays.
* **Steps.** Fault-rich runs use some steps around the watched kind; `GroupRecreated` those without
  which there are no pods. `Workload` has all steps of everything, and the proofs of order,
  provenance and refinement are for any steps.
* **`MaxFaults`**: one crash, refusal, lost reply, failed read, broken watch or deletion anywhere, two of
  them in `BenchmarkRecreated`; the proofs have no bound.
* **`Quantities`**: a few strings, so that a manifest may have a size that is one of them, or none.
* **`MaxEdits = 1`** in `GroupConverges`, 0 elsewhere: an edit between any two steps of a pass, and a
  pass on the spec before it.
* **`MaxRestarts = 2`, three pods**: two rolling updates with restarts in between.

One thing lies just beyond these bounds. With `MaxLag = 2` *and* `MaxFaults = 2`, `MissingIsNoticed` fails
in one way: a pass creates the watched object, someone deletes it before the informer has heard of it, and
the informer's watch breaks just then. The list that follows does not have the object and neither does the
indexer, so the controller is told of nothing, and the object is missing until the next resync. That this
is the only way is what `MissingObjectsAreNoticed` proves: it assumes `LossesAreTold`, that one of the two
faults, the second fault or the second event cannot happen, and no more of the bounds. (The garbage
collector may be as quick as the someone, but then the CR is gone, or another one, whose own creation
wakes it.) Nothing in the repository promises more than the resync here, so it is recorded and not
counted among the properties that do not hold.

The runs do not check for deadlock, because the system really rests once users and faults
are used up and everything has settled.

### Fairness

`Fairness` is what the code's scheduling gives: each informer, handler and worker is a
goroutine that runs when it can. It is strong for `Deliver` and `GarbageCollect`, since the
model's bounds may disable them for a moment, which the program never does; and strong for
`BeginPass`, because the queue is first-in first-out and a queued name is not overtaken
forever (a worker with two names could else serve one only). `ResyncFairness` adds the
ten-hour resync (`cache.go:88`). There is none for users and faults: they happen or not.

`BenchmarkRecreated` and `TwoControllers` use `EventSpec`, without resyncs: events and
retries alone restore what the controller watches. `Converges`, about *all* objects, needs
`FairSpec`: an object of a kind that is not watched may be passed by when it still belonged to
the CR's predecessor, and nobody is told when it goes; up to ten hours pass until it is made
again. That is the exception `Repairable` in `MissingIsNoticed`.

For the leader, `WF` of `Become` is the retry loop, that of `CollectLock` the garbage
collector's.

## 4. The proofs

All are about the specifications the runs check, for any constants that satisfy the named
assumptions (TLC evaluates these on every run).

* `OperatorProofs!TypesHold`: `Spec => []TypeOK`. The type is inductive as it stands and says
  more than the shape of variables: an object's owner is a CR one of whose steps has its key,
  and the step of a pass exists for its controller.
* `OperatorProofs!CacheIsEventuallyRight`: `Spec => []CacheTracksStore`. `KubeProofs` shows that
  a write, a deletion, a read, a listing and a broken watch each keep every object tracked, `KubeStep` that each
  step of the operator is one of these or leaves all alone.
* `HistoryProofs!ObjectsAreCreatedInOrder`: `Spec => []CreatedInOrder`. Not inductive: a worker
  may pass a step because its *cache* holds the object. `OrderInv` adds that whatever anybody can
  be told of (`States(k)`: store, cache and pending events) existed (`ToldExisted`), and that the
  objects of the steps a worker has passed existed (`PassedExisted`). Only a write adds to
  `States(k)`, which is the lemma all cases rest on.
* `HistoryProofs!ObjectsAreBuiltFromTheirOwners`: `Spec => []BuiltFromOwnersSpec`. `ProvenanceInv`
  adds that uids are not reused (`UidsFresh`), and that every state of a CR anyone can be told,
  and every copy a worker holds, pairs a uid with a spec that uid had (`ToldGiven`,
  `WorkedGiven`).
* `NoticeProofs!MissingObjectsAreNoticed`: `WatchedUnshared /\ LossesAreTold` give
  `Spec => []MissingIsNoticed`. The inductive invariant is `NoticeInv`: beside `MissingIsNoticed`,
  * `StaleIsCalled`: a worker still at an incarnation of a CR that is gone leaves the next one to be
    called. Without it such a worker could pass the last step, and nobody be left to look again;
  * `UnseenIsNoticed`, for as long as a watch may still break (`CanBreak`): what the indexer does not have
    and the store does not have either, or will not have for long, is noticed *without* counting the
    pending events of that very object, since a list may take their place and show nothing.

  `Called` names the three forms a wake-up has on its way (a pending event of the CR, a notice, the
  queue), and `CalledStays`, `WorkingStays` and `NoticedStays` follow it through every step: it becomes
  the next form, then a pass, and ends only with a pass that comes to the object. `PendingStays` is the
  same for events of the object. `WatchedUnshared` says that a watched object is of one CR: the handler
  queues the *owner*, so where two CRs share one (`SameName` has such names) it may call the one that misses nothing.
* `ProvisioningProofs!ControllersProvision`: `Spec => Provisions`, the refinement, for any steps, CRs,
  specs, lags and faults. `StepMaps` is the simulation: steps of users map to the same steps
  (`UserMaps`), garbage collection and outside deletion to `Withdraw` (`RemovalMaps`), a creation, its
  reply lost or not, to `Provide` (`CreationMaps`), everything else to a stutter (`OthersMap`). A creation is
  where it is decided: that the earlier steps' objects existed is `PassedExisted` of `OrderInv`, that
  the spec is one the owner had is `WorkedGiven` of `ProvenanceInv`; neither can be seen from the cache
  alone, which is why the two invariants come first.
* `TwoOperatorsProofs!TwoOperatorsProvision`: `BothSpec => BothProvision`, and
  `TwoOperatorsProofs!TwoOperatorsNotice`: `BothSpec => []BothNotice` under the two conditions above. To
  one operator, what the other one does is done `Elsewhere`: an object is created as `Provisioning`
  allows and an event tells of it, or nothing happens that concerns it. `ProvisioningProofs` shows that
  all the invariants above outlive such steps (`NextKept`, `NoticeKept`), and that an operator's own steps
  are such steps to others (`StepElsewhere`). `Theirs`, an instance of that very module, turns all of it
  round for the other operator, so neither argument is made twice. That each needs nothing but its own
  invariants and the other one's promise is why two operators are safe at all, and nothing in it is about
  two in particular.
* `WorkloadProofs`: `EveryPodIsDiscoverable`, `EveryPodAnnouncesItself`, `EveryConfigFitsItsPods`,
  `EveryBudgetIsMajority`, `EveryCoordinatorJoins`, that is, `WorkloadSpec => []P` for the five properties of
  the run `Workload`, here for any number of CRs and any manifests. Each follows from two inductive
  invariants. `ObjectsInv`: an object is what the *first* step of its key makes of the only spec its CR
  ever has. A later step of the same key comes only after the first one's object existed, and nothing is
  lost: so a benchmark's workers never make the script they share with its coordinator. `PodsInv`: a
  pod that runs has read what is there. The rest is about the builders: that labels, selectors, names
  and settings made by three of them from different specs agree.
* `LeaderProofs!LeaderTypesHold`, `LocksAreNotStolen`: under all faults.
* `LeaderProofs!AtMostOneLeader`: `Spec => []OneLeader`, by `LeaderInv`: whom `Become` made the leader
  owns the lock for as long as the API server holds its pod, since the lock is collected only after
  the pod. It says nothing of a `main` that goes on after an error (`LeaderErrors`) or of one whose
  pod was deleted by force: these may work beside the leader.

Assumptions: `BoundsAssumption` and `FaultsAssumption` (what the bounds are), `KeysAssumption` (keys are the
CRs and their dependents, finitely many), `StepsAssumption` (every controller has a step, no dependent is of
a CR's kind, builders return an object or an error), `NoneAssumption`, `LeaderAssumption`; of the theorems
about wake-ups `WatchedUnshared` and `LossesAreTold`, which are hypotheses of theirs and evaluated in the
runs as `WakeUpsAssumption`; of those about `Workload` also `DeploymentsAssumption` (steps, keys and builders
are the controllers'), `NamesAssumption` (no two CRs lead to an object of the same name),
`ProtocolsAssumption` (`None` is none of the values it stands beside) and `ManifestsAssumption` (sizes are
integers; the service that a group or benchmark names is that of a cluster, if the operator deploys
anything of that name). `SameName` shows what becomes of names that do collide.

Only model-checked is liveness: `Converges`, `WatchedConverges`, `GroupsProvisioned` and `SomeoneLeads` rest on
fairness, hence on `ENABLED`, which is out of reach of the prover. `MissingIsNoticed` is the safety half of
`WatchedConverges`: it says that a pass will come, fairness that it does. The five properties that do not
hold are refuted by their runs. Every safety property that a passing run checks is a theorem.

## 5. What is not modelled

* **Lists that go back in time.** A list older than anything the informer had seen, by another replica of
  the API server, and a relist while events of the last watch are still in the informer's queue.
* **The first moments of an informer.** The informer of a kind is created by the first read of it, and the
  reader waits until it has synced; another controller that reads the kind meanwhile does not wait
  (`informers_map.go`, `Get`) and may see an empty cache. All that comes of it is a lookup that misses and a
  creation that ends in `Conflict`. (Informers of CRs and watched kinds have synced before any worker starts.)
* **Pods in detail**: the single pods of a StatefulSet, rolling updates, scheduling, evictions, the member
  list the init script writes, DNS. So some things the code does are only recorded here: the disruption
  budgets have no selector and guard no pod (`util/cluster.go:64`); the affinity of a deployment asks for
  pods with `app` equal to its own name, and no pod has such a label, `app` being `atomix` for all
  (`util/resources.go:58`; the README says `app: {clusterName}`); the README's service
  `example-atomixcluster-service` is named like the cluster in the code.
* **Two benchmarks of one cluster** have the same labels, so each one's service and StatefulSet select the
  other's pods too (`util/benchmark.go:29`). No doc says how many there may be.
* **Validation by the API server** other than of negative numbers: invalid names, selectors.
* **Edits.** A pass never compares an object that exists with the spec, so an edit of a CR has no effect
  on what it has already: this is modelled (`EditCR`, `FindObject`), but no property asks for more,
  since nothing in the repository promises it. `BuiltFromOwnersSpec` allows the mixture: each object follows
  some spec of its owner, not all of them the same.
* **The work queue's inside**: back-off, order, and the three sets it keeps; see `Operator` above.
* **More than two operators.** The run has two of them on one step, the proofs two on any steps.
* **Generated code, schemes, manifests, logging**: no behaviour of their own. `Become`'s way out when not
  in a cluster is for development only.

## 6. Plan

1. `Workqueue`: `Add`, `Get`, `Done` with the queue, dirty and processing sets and the back-off, refining
   the set `queue`.
2. Two benchmarks of one cluster, and StatefulSets that adopt pods by their selector.

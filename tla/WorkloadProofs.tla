--------------------------- MODULE WorkloadProofs ----------------------------
(***************************************************************************)
(* What the objects of clusters, groups and benchmarks say of each other   *)
(* is true, whatever their manifests are.                                  *)
(***************************************************************************)
EXTENDS Workload, TLAPS, SequenceTheorems

------------------------------------------------------------------------------
(* Names.                                                                  *)

\* Pods speak of the same names as the builders.
LEMMA SameNames ==
    /\ \A kind, name : Kubelet!Key(kind, name) = Key(kind, name)
    /\ Kubelet!PodDomain = PodDomain
    /\ Kubelet!PodKinds = {"StatefulSet", "Pod"}
  BY DEF Kubelet!Key, Key, Kubelet!PodDomain, PodDomain, Kubelet!PodKinds

\* Two names made with the same suffix, or of two suffixes.
LEMMA NameFacts ==
    ASSUME NEW name \in Seq(STRING), NEW s, NEW t
    PROVE  /\ ResourceName(name, s) # << >>
           /\ s # t => ResourceName(name, s) # ResourceName(name, t)
  <1> DEFINE T == STRING \cup {s, t}
  <1>1. name \in Seq(T)
    BY SeqMonotonic
  <1>2. /\ Append(name, s)[Len(name) + 1] = s /\ Append(name, s) # << >>
        /\ Append(name, t)[Len(name) + 1] = t
    BY <1>1, AppendProperties
  <1>3. ASSUME Append(name, s) = Append(name, t) PROVE s = t
    BY <1>2, <1>3
  <1> QED BY <1>2, <1>3 DEF ResourceName

\* The steps whose objects are theirs: those of a benchmark's workers that find the
\* coordinator's object in their place are not among them.
OwnSteps(kind) ==
    IF kind = AtomixBenchmark THEN ControllerSteps \cup {"WorkerStatefulSet"}
    ELSE {"InitScript", "SystemConfig", "DisruptionBudget", "StatefulSet", "Service"}

\* What is assumed of CRs, in parts.
LEMMA CRFacts ==
    ASSUME NEW cr \in CRs
    PROVE  /\ cr.kind \in Kind /\ cr.kind \in Controllers /\ cr.name \in Seq(STRING)
           /\ cr \in ObjectKeys /\ cr \notin Dependents
           /\ cr = Key(cr.kind, cr.name)
           /\ Steps[cr.kind] = DeploymentSteps(cr.kind)
           /\ \A i \in StepNumbers(cr.kind) :
                  /\ StepKey(cr, i) = DeploymentKey(cr, DeploymentSteps(cr.kind)[i])
                  /\ StepKey(cr, i) \in Dependents /\ StepKey(cr, i) \in ObjectKeys
                  /\ \A spec \in Specs[cr.kind] :
                         Build(cr, Steps[cr.kind][i], spec) =
                             BuildDeployment(cr, DeploymentSteps(cr.kind)[i], spec)
  <1>1. /\ cr.kind \in Kind /\ cr.name \in Seq(STRING) /\ cr = Key(cr.kind, cr.name)
        /\ Steps[cr.kind] = DeploymentSteps(cr.kind)
    BY DeploymentsAssumption
  <1>2. cr.kind \in Controllers /\ cr \in ObjectKeys
    BY DEF Controllers, ObjectKeys
  <1>3. cr \notin Dependents
    BY <1>2, StepsAssumption
  <1>4. ASSUME NEW i \in StepNumbers(cr.kind)
        PROVE  /\ StepKey(cr, i) = DeploymentKey(cr, DeploymentSteps(cr.kind)[i])
               /\ StepKey(cr, i) \in Dependents /\ StepKey(cr, i) \in ObjectKeys
               /\ \A spec \in Specs[cr.kind] :
                      Build(cr, Steps[cr.kind][i], spec) =
                          BuildDeployment(cr, DeploymentSteps(cr.kind)[i], spec)
    BY <1>1, DeploymentsAssumption DEF StepKey, Dependents, ObjectKeys
  <1> QED BY <1>1, <1>2, <1>3, <1>4

\* The two ConfigMaps of a CR have names of their own.
LEMMA SuffixFacts ==
    ASSUME NEW cr \in CRs
    PROVE  ResourceName(cr.name, InitSuffix) # ResourceName(cr.name, ConfigSuffix)
  <1>1. InitSuffix # ConfigSuffix
    BY DEF InitSuffix, ConfigSuffix
  <1>2. cr.name \in Seq(STRING)
    BY CRFacts
  <1> QED BY <1>1, <1>2, NameFacts

\* Clusters and groups have five steps, benchmarks eight.
LEMMA StepCounts ==
    ASSUME NEW cr \in CRs
    PROVE  /\ cr.kind \in {AtomixCluster, PartitionGroup} =>
                  DeploymentSteps(cr.kind) = ClusterSteps /\ StepNumbers(cr.kind) = 1..5
           /\ cr.kind = AtomixBenchmark =>
                  DeploymentSteps(cr.kind) = BenchmarkSteps /\ StepNumbers(cr.kind) = 1..8
  <1>1. Steps[cr.kind] = DeploymentSteps(cr.kind)
    BY CRFacts
  <1>2. Len(ClusterSteps) = 5 /\ Len(BenchmarkSteps) = 8 /\ GroupSteps = ClusterSteps
    BY DEF ClusterSteps, BenchmarkSteps, GroupSteps
  <1>3. /\ cr.kind \in {AtomixCluster, PartitionGroup} => DeploymentSteps(cr.kind) = ClusterSteps
        /\ cr.kind = AtomixBenchmark => DeploymentSteps(cr.kind) = BenchmarkSteps
    BY <1>2 DEF DeploymentSteps, AtomixCluster, PartitionGroup, AtomixBenchmark
  <1> QED BY <1>1, <1>2, <1>3 DEF StepNumbers

\* The keys of a cluster's objects, and of a group's, are all different.
LEMMA FiveKeys ==
    ASSUME NEW cr \in CRs, cr.kind \in {AtomixCluster, PartitionGroup},
           NEW s \in OwnSteps(cr.kind), NEW t \in OwnSteps(cr.kind),
           DeploymentKey(cr, s) = DeploymentKey(cr, t)
    PROVE  s = t
  <1>1. ResourceName(cr.name, InitSuffix) # ResourceName(cr.name, ConfigSuffix)
    BY SuffixFacts
  <1>2. CASE cr.kind = AtomixCluster
    BY <1>1, <1>2 DEF OwnSteps, DeploymentKey, ClusterKey, Key, AtomixCluster,
                      PartitionGroup, AtomixBenchmark
  <1>3. CASE cr.kind = PartitionGroup
    BY <1>1, <1>3 DEF OwnSteps, DeploymentKey, GroupKey, Key, AtomixCluster,
                      PartitionGroup, AtomixBenchmark
  <1> QED BY <1>2, <1>3

\* A benchmark's own steps have their key to themselves, or share it with a later one.
LEMMA BenchmarkKeys ==
    ASSUME NEW cr \in CRs, cr.kind = AtomixBenchmark,
           NEW i \in 1..8, BenchmarkSteps[i] \in OwnSteps(cr.kind), NEW j \in 1..(i - 1)
    PROVE  BenchmarkKey(cr, BenchmarkSteps[j]) # BenchmarkKey(cr, BenchmarkSteps[i])
  <1>1. ResourceName(cr.name, InitSuffix) # ResourceName(cr.name, ConfigSuffix)
    BY SuffixFacts
  <1>2. i \in {1, 2, 3, 4, 7}
    BY DEF BenchmarkSteps, OwnSteps, ControllerSteps
  <1>3. j \in {1, 2, 3, 4, 5, 6} /\ j < i
    BY <1>2
  <1> QED BY <1>1, <1>2, <1>3 DEF BenchmarkSteps, BenchmarkKey, Key

\* Each own step is the first of its CR that is about its object.
LEMMA OwnStepFacts ==
    ASSUME NEW cr \in CRs, NEW step \in OwnSteps(cr.kind)
    PROVE  /\ DeploymentKey(cr, step) \in Dependents
           /\ \E i \in StepNumbers(cr.kind) :
                  /\ DeploymentSteps(cr.kind)[i] = step
                  /\ StepKey(cr, i) = DeploymentKey(cr, step)
                  /\ \A j \in 1..(i - 1) : StepKey(cr, j) # StepKey(cr, i)
  <1>1. CASE cr.kind \in {AtomixCluster, PartitionGroup}
    <2>1. DeploymentSteps(cr.kind) = ClusterSteps
      BY <1>1, StepCounts
    <2>2. StepNumbers(cr.kind) = 1..5
      BY <1>1, StepCounts
    <2>3. PICK i \in 1..5 : ClusterSteps[i] = step
      BY <1>1 DEF OwnSteps, ClusterSteps, AtomixCluster, PartitionGroup, AtomixBenchmark
    <2>4. \A j \in 1..5 : ClusterSteps[j] \in OwnSteps(cr.kind)
                          /\ (ClusterSteps[j] = ClusterSteps[i] => j = i)
      BY <1>1 DEF OwnSteps, ClusterSteps, AtomixCluster, PartitionGroup, AtomixBenchmark
    <2>5. \A j \in 1..5 : StepKey(cr, j) = DeploymentKey(cr, ClusterSteps[j])
      BY <2>1, <2>2, CRFacts
    <2>6. \A j \in 1..(i - 1) : StepKey(cr, j) # StepKey(cr, i)
      BY <1>1, <2>4, <2>5, FiveKeys
    <2> QED BY <2>1, <2>2, <2>3, <2>5, <2>6, CRFacts
  <1>2. CASE cr.kind = AtomixBenchmark
    <2>1. DeploymentSteps(cr.kind) = BenchmarkSteps
      BY <1>2, StepCounts
    <2>2. StepNumbers(cr.kind) = 1..8
      BY <1>2, StepCounts
    <2>3. PICK i \in 1..8 : BenchmarkSteps[i] = step
      BY <1>2 DEF OwnSteps, BenchmarkSteps, ControllerSteps
    <2>4. \A j \in 1..8 : /\ StepKey(cr, j) = DeploymentKey(cr, BenchmarkSteps[j])
                          /\ StepKey(cr, j) = BenchmarkKey(cr, BenchmarkSteps[j])
      BY <1>2, <2>1, <2>2, CRFacts
         DEF DeploymentKey, AtomixCluster, PartitionGroup, AtomixBenchmark
    <2>5. \A j \in 1..(i - 1) : StepKey(cr, j) # StepKey(cr, i)
      BY <1>2, <2>3, <2>4, BenchmarkKeys
    <2> QED BY <2>1, <2>2, <2>3, <2>4, <2>5, CRFacts
  <1> QED BY <1>1, <1>2, CRFacts DEF Kind

\* What has pods is about one of three steps, each the first of its key.
LEMMA PodSteps ==
    ASSUME NEW k \in PodOwners
    PROVE  \E cr \in CRs :
               \/ /\ cr.kind \in {AtomixCluster, PartitionGroup}
                  /\ k = DeploymentKey(cr, "StatefulSet") /\ k.kind = "StatefulSet"
               \/ /\ cr.kind = AtomixBenchmark
                  /\ \/ k = DeploymentKey(cr, "ControllerPod") /\ k.kind = "Pod"
                     \/ k = DeploymentKey(cr, "WorkerStatefulSet") /\ k.kind = "StatefulSet"
  <1>1. k \in Dependents /\ k.kind \in {"StatefulSet", "Pod"}
    BY SameNames DEF PodOwners
  <1>2. PICK cr \in CRs : \E i \in StepNumbers(cr.kind) : k = StepKey(cr, i)
    BY <1>1 DEF Dependents
  <1>3. PICK i \in StepNumbers(cr.kind) : k = DeploymentKey(cr, DeploymentSteps(cr.kind)[i])
    BY <1>2, CRFacts
  <1>4. CASE cr.kind = AtomixCluster
    <2>1. DeploymentSteps(cr.kind) = ClusterSteps /\ i \in 1..5
      BY <1>4, StepCounts
    <2>3. k = ClusterKey(cr, ClusterSteps[i])
      BY <1>3, <1>4, <2>1 DEF DeploymentKey, AtomixCluster, PartitionGroup, AtomixBenchmark
    <2>4. i = 4
      BY <1>1, <2>1, <2>3 DEF ClusterSteps, ClusterKey, Key
    <2> QED BY <1>1, <1>3, <1>4, <2>1, <2>3, <2>4 DEF ClusterSteps, ClusterKey, Key
  <1>5. CASE cr.kind = PartitionGroup
    <2>1. DeploymentSteps(cr.kind) = GroupSteps
      BY <1>5, StepCounts DEF GroupSteps, ClusterSteps
    <2>2. i \in 1..5
      BY <1>5, StepCounts
    <2>3. k = GroupKey(cr, GroupSteps[i])
      BY <1>3, <1>5, <2>1 DEF DeploymentKey, AtomixCluster, PartitionGroup, AtomixBenchmark
    <2>4. i = 4
      BY <1>1, <2>2, <2>3 DEF GroupSteps, GroupKey, Key
    <2> QED BY <1>1, <1>3, <1>5, <2>1, <2>3, <2>4 DEF GroupSteps, GroupKey, Key
  <1>6. CASE cr.kind = AtomixBenchmark
    <2>1. DeploymentSteps(cr.kind) = BenchmarkSteps
      BY <1>6, StepCounts
    <2>2. i \in 1..8
      BY <1>6, StepCounts
    <2>3. k = BenchmarkKey(cr, BenchmarkSteps[i])
      BY <1>3, <1>6, <2>1 DEF DeploymentKey, AtomixCluster, PartitionGroup, AtomixBenchmark
    <2>4. i \in {3, 7}
      BY <1>1, <2>2, <2>3 DEF BenchmarkSteps, BenchmarkKey, Key
    <2> QED BY <1>3, <1>6, <2>1, <2>3, <2>4 DEF BenchmarkSteps, BenchmarkKey, Key
  <1> QED BY <1>4, <1>5, <1>6, CRFacts DEF Kind

------------------------------------------------------------------------------
(* The objects.                                                            *)

\* An object is what the first step of its key makes of the only spec its CR ever has.
Made(k) ==
    \E cr \in CRs : \E i \in StepNumbers(cr.kind) :
        /\ k = StepKey(cr, i)
        /\ \A j \in 1..(i - 1) : StepKey(cr, j) # k
        /\ store[cr] # None
        /\ store[k].owner.cr = cr
        /\ store[k].data = Build(cr, Steps[cr.kind][i], store[cr].spec)
        /\ store[k].data # None

ObjectsInv ==
    /\ DOMAIN store = ObjectKeys
    /\ nextUid \in Nat \ {0}
    /\ lost = {}
    /\ \A cr \in CRs : store[cr] # None => store[cr].spec \in Specs[cr.kind]
    /\ \A u \in Uids, cr \in CRs : \A spec \in Specs[cr.kind] :
           <<cr, spec>> \in given[u] => store[cr] # None /\ store[cr].spec = spec
    /\ \A k \in Dependents : store[k] # None => Made(k)

\* Nothing is made at the start.
LEMMA InitObjects == Init => ObjectsInv
  <1> SUFFICES ASSUME Init PROVE ObjectsInv
    OBVIOUS
  <1>1. store = [k \in ObjectKeys |-> None] /\ nextUid = 1 /\ lost = {}
        /\ given = [u \in Uids |-> {}]
    BY DEF Init
  <1>2. \A cr \in CRs : store[cr] = None
    BY <1>1, CRFacts
  <1>3. \A k \in Dependents : store[k] = None
    BY <1>1 DEF ObjectKeys
  <1> QED BY <1>1, <1>2, <1>3 DEF ObjectsInv

\* Nothing that is there changes.
LEMMA ObjectsStay ==
    ASSUME ObjectsInv, ObjectStep, NEW k \in ObjectKeys, store[k] # None
    PROVE  store'[k] = store[k]
  <1>0. DOMAIN store = ObjectKeys
    BY DEF ObjectsInv
  <1>1. ASSUME NEW cr \in CRs, NEW spec \in Specs[cr.kind], CreateCR(cr, spec)
        PROVE  store'[k] = store[k]
    BY <1>0, <1>1 DEF CreateCR
  <1>2. ASSUME NEW cr \in CRs, NEW uid \in Uids, NEW i \in StepNumbers(cr.kind),
               NEW spec \in Specs[cr.kind], Provide(cr, i, uid, spec)
        PROVE  store'[k] = store[k]
    BY <1>0, <1>2 DEF Provide
  <1> QED BY <1>1, <1>2 DEF ObjectStep, OperatorStep

\* So what is made stays what it was made as.
LEMMA MadeStays ==
    ASSUME ObjectsInv, ObjectStep, NEW k \in Dependents, store[k] # None
    PROVE  Made(k)'
  <1>1. PICK cr \in CRs : \E i \in StepNumbers(cr.kind) :
            /\ k = StepKey(cr, i)
            /\ \A j \in 1..(i - 1) : StepKey(cr, j) # k
            /\ store[cr] # None
            /\ store[k].owner.cr = cr
            /\ store[k].data = Build(cr, Steps[cr.kind][i], store[cr].spec)
            /\ store[k].data # None
    BY DEF ObjectsInv, Made
  <1>2. store'[k] = store[k] /\ store'[cr] = store[cr]
    BY <1>1, ObjectsStay, CRFacts DEF ObjectKeys
  <1> QED BY <1>1, <1>2 DEF Made, StepKey

\* A new CR has the one spec it was created with.
LEMMA CreateObjects ==
    ASSUME ObjectsInv, NEW cr \in CRs, NEW spec \in Specs[cr.kind], CreateCR(cr, spec)
    PROVE  ObjectsInv'
  <1> DEFINE new == [uid |-> nextUid, spec |-> spec]
  <1>0. /\ ObjectStep /\ cr \in ObjectKeys /\ cr \notin Dependents
        /\ DOMAIN store = ObjectKeys /\ store[cr] = None
        /\ store' = [store EXCEPT ![cr] = new]
        /\ given' = [given EXCEPT ![nextUid] = {<<cr, spec>>}]
        /\ nextUid' = nextUid + 1 /\ lost' = lost /\ nextUid \in Nat \ {0}
    BY CRFacts DEF ObjectsInv, CreateCR, ObjectStep
  <1>1. new # None
    <2>1. nextUid \in Uids
      BY <1>0, FaultsAssumption DEF CreateCR, Uids
    <2>2. ObjectValues[cr] = [uid : Uids, spec : Specs[cr.kind]]
      BY <1>0 DEF ObjectValues
    <2> QED BY <2>1, <2>2, DeploymentsAssumption
  <1>2. \A d \in CRs : store[d] # None => store'[d] = store[d]
    BY <1>0, ObjectsStay, CRFacts
  <1>3. \A d \in CRs : store'[d] # None => store'[d].spec \in Specs[d.kind]
    <2>1. \A d \in CRs : d # cr => store'[d] = store[d]
      BY <1>0, CRFacts
    <2> QED BY <1>0, <2>1 DEF ObjectsInv
  <1>4. ASSUME NEW u \in Uids, NEW d \in CRs, NEW s \in Specs[d.kind], <<d, s>> \in given'[u]
        PROVE  store'[d] # None /\ store'[d].spec = s
    <2>1. CASE <<d, s>> \in given[u]
      BY <1>2, <1>4, <2>1 DEF ObjectsInv
    <2>2. CASE <<d, s>> \notin given[u]
      <3>1. given'[u] = given[u] \/ given'[u] = {<<cr, spec>>}
        BY <1>0
      <3>2. d = cr /\ s = spec
        BY <1>4, <2>2, <3>1
      <3> QED BY <1>0, <1>1, <3>2
    <2> QED BY <2>1, <2>2
  <1>5. ASSUME NEW k \in Dependents, store'[k] # None PROVE Made(k)'
    <2>1. store'[k] = store[k]
      BY <1>0 DEF ObjectKeys
    <2> QED BY <1>0, <1>5, <2>1, MadeStays
  <1>6. DOMAIN store' = ObjectKeys /\ nextUid' \in Nat \ {0} /\ lost' = {}
    BY <1>0 DEF ObjectsInv
  <1> QED BY <1>3, <1>4, <1>5, <1>6 DEF ObjectsInv

\* An object is created by the first step of its key, since that step comes first and
\* nothing is ever lost.
LEMMA ProvideObjects ==
    ASSUME ObjectsInv, NEW cr \in CRs, NEW uid \in Uids, NEW i \in StepNumbers(cr.kind),
           NEW spec \in Specs[cr.kind], Provide(cr, i, uid, spec)
    PROVE  ObjectsInv'
  <1> DEFINE key == StepKey(cr, i)
             data == Build(cr, Steps[cr.kind][i], spec)
             new == [owner |-> [cr |-> cr, uid |-> uid], data |-> data]
  <1>0. /\ key \in Dependents /\ key \in ObjectKeys /\ DOMAIN store = ObjectKeys
        /\ \A d \in CRs : d \in ObjectKeys /\ d # key
    BY CRFacts DEF ObjectsInv
  <1>1. /\ ObjectStep /\ data # None /\ store[key] = None
        /\ store' = [store EXCEPT ![key] = new]
        /\ given' = given /\ nextUid' = nextUid /\ lost' = {}
        /\ <<cr, spec>> \in given[uid]
        /\ \A j \in 1..(i - 1) : store[StepKey(cr, j)] # None
    BY DEF Provide, ObjectStep, OperatorStep, ObjectsInv, Existed
  <1>2. \A d \in CRs : store'[d] = store[d]
    BY <1>0, <1>1
  <1>3. store[cr] # None /\ store[cr].spec = spec
    BY <1>1 DEF ObjectsInv
  <1>4. ASSUME NEW k \in Dependents, store'[k] # None PROVE Made(k)'
    <2>1. CASE k = key
      <3>1. store'[k] = new
        BY <1>0, <1>1, <2>1
      <3>2. store'[k].owner.cr = cr /\ store'[k].data = data
        BY <3>1
      <3>3. \A j \in 1..(i - 1) : StepKey(cr, j) # k
        BY <1>1, <2>1
      <3>4. store'[cr] # None /\ store'[cr].spec = spec
        BY <1>2, <1>3
      <3> QED BY <1>1, <2>1, <3>2, <3>3, <3>4 DEF Made, StepKey
    <2>2. CASE k # key
      <3>1. store'[k] = store[k]
        BY <1>0, <1>1, <2>2 DEF ObjectKeys
      <3> QED BY <1>1, <1>4, <3>1, MadeStays
    <2> QED BY <2>1, <2>2
  <1>5. DOMAIN store' = ObjectKeys
    BY <1>0, <1>1
  <1> QED BY <1>1, <1>2, <1>4, <1>5 DEF ObjectsInv

\* No step breaks it.
LEMMA ObjectsHold ==
    ASSUME ObjectsInv, [WorkloadNext]_<<vars, running>>
    PROVE  ObjectsInv'
  <1>1. CASE ObjectStep
    BY <1>1, CreateObjects, ProvideObjects DEF ObjectStep, OperatorStep
  <1>2. CASE ~ ObjectStep
    <2>1. UNCHANGED <<store, nextUid, given, lost>>
      BY <1>2 DEF WorkloadNext, PodStep, Kubelet!StartPod, Kubelet!StopPod, vars
    <2> QED BY <2>1 DEF ObjectsInv, Made
  <1> QED BY <1>1, <1>2

\* What there is under the key of an own step, and its CR.
LEMMA StoredObject ==
    ASSUME ObjectsInv, NEW cr \in CRs, NEW step \in OwnSteps(cr.kind),
           store[DeploymentKey(cr, step)] # None
    PROVE  LET o == store[DeploymentKey(cr, step)] IN
           /\ store[cr] # None /\ store[cr].spec \in Specs[cr.kind]
           /\ o.owner.cr = cr
           /\ o.data = BuildDeployment(cr, step, store[cr].spec) /\ o.data # None
  <1> DEFINE k == DeploymentKey(cr, step)
  <1>1. PICK i \in StepNumbers(cr.kind) :
            /\ DeploymentSteps(cr.kind)[i] = step
            /\ StepKey(cr, i) = k
            /\ \A j \in 1..(i - 1) : StepKey(cr, j) # k
    BY OwnStepFacts
  <1>2. Made(k)
    BY OwnStepFacts DEF ObjectsInv
  <1>3. PICK dr \in CRs : \E n \in StepNumbers(dr.kind) :
            /\ k = StepKey(dr, n)
            /\ \A j \in 1..(n - 1) : StepKey(dr, j) # k
            /\ store[dr] # None
            /\ store[k].owner.cr = dr
            /\ store[k].data = Build(dr, Steps[dr.kind][n], store[dr].spec)
            /\ store[k].data # None
    BY <1>2 DEF Made
  <1>4. dr = cr
    BY <1>1, <1>3, NamesAssumption
  <1>5. PICK n \in StepNumbers(cr.kind) :
            /\ k = StepKey(cr, n)
            /\ \A j \in 1..(n - 1) : StepKey(cr, j) # k
            /\ store[cr] # None
            /\ store[k].owner.cr = cr
            /\ store[k].data = Build(cr, Steps[cr.kind][n], store[cr].spec)
            /\ store[k].data # None
    BY <1>3, <1>4
  <1>6. n = i
    <2>1. i \in Nat \ {0} /\ n \in Nat \ {0}
      BY DEF StepNumbers
    <2>2. ~ (n < i) /\ ~ (i < n)
      BY <1>1, <1>5, <2>1
    <2> QED BY <2>1, <2>2
  <1>7. store[cr].spec \in Specs[cr.kind]
    BY <1>5 DEF ObjectsInv
  <1> QED BY <1>1, <1>6, <1>7, <1>5, CRFacts

------------------------------------------------------------------------------
(* What the builders put into the objects.                                 *)

\* A size that is left out is 1.
LEMMA SizeFacts ==
    ASSUME NEW size \in Int
    PROVE  Default(size, 0, 1) \in Int /\ Default(size, 0, 1) # 0
  BY DEF Default

\* What the StatefulSet of a cluster says.
LEMMA ClusterSet ==
    ASSUME NEW cr \in CRs, cr.kind = AtomixCluster, NEW spec \in Specs[cr.kind],
           BuildDeployment(cr, "StatefulSet", spec) # None
    PROVE  LET set == BuildDeployment(cr, "StatefulSet", spec)
               size == SetDefaultsCluster(spec).size
           IN  /\ size \in Int /\ size >= 1
               /\ set.serviceName = cr.name
               /\ set.template.labels = ManagementLabels(cr.name)
               /\ set.template.nodes = size
               /\ set.template.initScript = DeploymentKey(cr, "InitScript").name
               /\ set.template.config = DeploymentKey(cr, "SystemConfig").name
  <1> DEFINE full == SetDefaultsCluster(spec)
             set == BuildDeployment(cr, "StatefulSet", spec)
  <1>1. set = ManagementStatefulSet(cr, full)
    BY DEF BuildDeployment, BuildCluster, AtomixCluster, PartitionGroup, AtomixBenchmark
  <1>2. full.size \in Int /\ full.size # 0
    BY ManifestsAssumption, SizeFacts DEF SetDefaultsCluster
  <1>3. /\ DeploymentKey(cr, "InitScript") = ClusterKey(cr, "InitScript")
        /\ DeploymentKey(cr, "SystemConfig") = ClusterKey(cr, "SystemConfig")
    BY DEF DeploymentKey, AtomixCluster, PartitionGroup, AtomixBenchmark
  <1> HIDE DEF full
  <1>4. /\ ~ (full.size < 0)
        /\ set.serviceName = cr.name
        /\ set.template = PodTemplate(ManagementLabels(cr.name), AtomixImage(full.version),
                              full.size, ClusterKey(cr, "InitScript").name,
                              ClusterKey(cr, "SystemConfig").name)
    BY <1>1 DEF ManagementStatefulSet, Accepted
  <1>5. full.size >= 1
    BY <1>2, <1>4
  <1> QED BY <1>2, <1>3, <1>4, <1>5 DEF PodTemplate, full

\* What the defaults leave no room for in a group's spec.
LEMMA GroupDefaults ==
    ASSUME NEW cr \in CRs, cr.kind = PartitionGroup, NEW manifest \in Specs[cr.kind]
    PROVE  LET spec == SetDefaultsPartitionGroup(Decode(manifest)) IN
           /\ spec.size \in Int /\ spec.size # 0 /\ spec.partitions # 0
           /\ spec.cluster = manifest.cluster
           /\ GroupTypeOf(spec) \in {RaftType, PrimaryBackupType, LogType, None}
           /\ GroupTypeOf(spec) = RaftType =>
                  spec.raft.partitionSize # 0 /\ spec.raft.storage.level # ""
           /\ GroupTypeOf(spec) = PrimaryBackupType =>
                  spec.primaryBackup.memberGroupStrategy # ""
           /\ GroupTypeOf(spec) = LogType =>
                  spec.log.memberGroupStrategy # "" /\ spec.log.storage.level # ""
  <1> DEFINE d == Decode(manifest)
             spec == SetDefaultsPartitionGroup(d)
             size == Default(d.size, 0, 1)
             sized == [d EXCEPT !.version = Default(@, "", "3.1.0"), !.size = size,
                                !.partitions = Default(@, 0, size)]
  <1>1. /\ d = [cluster |-> manifest.cluster, version |-> manifest.version,
                size |-> manifest.size, partitions |-> manifest.partitions,
                raft |-> manifest.raft, primaryBackup |-> manifest.primaryBackup,
                log |-> manifest.logOmitempty]
        /\ manifest.size \in Int
    BY ManifestsAssumption DEF Decode
  <1>2. size \in Int /\ size # 0 /\ Default(d.partitions, 0, size) # 0
    BY <1>1, SizeFacts DEF Default
  <1>3. /\ d.raft # None => SetDefaultsRaft(d.raft) # None
        /\ d.primaryBackup # None => SetDefaultsPrimaryBackup(d.primaryBackup) # None
        /\ d.log # None => SetDefaultsLog(d.log) # None
    BY ProtocolsAssumption
  <1>4. \A x : Default(x, "", "mapped") # "" /\ Default(x, "", "node_aware") # ""
    BY DEF Default
  <1>5. \A x : Default(x, 0, 3) # 0
    BY DEF Default
  <1>6. None # RaftType /\ None # PrimaryBackupType /\ None # LogType
        /\ RaftType # PrimaryBackupType /\ RaftType # LogType /\ PrimaryBackupType # LogType
    BY ProtocolsAssumption DEF RaftType, PrimaryBackupType, LogType
  <1>7. spec = CASE GroupTypeOf(d) = RaftType -> [sized EXCEPT !.raft = SetDefaultsRaft(@)]
                 [] GroupTypeOf(d) = PrimaryBackupType ->
                      [sized EXCEPT !.primaryBackup = SetDefaultsPrimaryBackup(@)]
                 [] GroupTypeOf(d) = LogType -> [sized EXCEPT !.log = SetDefaultsLog(@)]
                 [] OTHER -> sized
    <2> HIDE DEF d
    <2> QED BY DEF SetDefaultsPartitionGroup
  <1>8. /\ DOMAIN sized = {"cluster", "version", "size", "partitions", "raft",
                            "primaryBackup", "log"}
        /\ sized.cluster = d.cluster /\ sized.size = size /\ sized.partitions # 0
        /\ sized.raft = d.raft /\ sized.primaryBackup = d.primaryBackup /\ sized.log = d.log
    BY <1>1, <1>2
  <1> DEFINE Fine ==
                 /\ spec.size \in Int /\ spec.size # 0 /\ spec.partitions # 0
                 /\ spec.cluster = d.cluster
                 /\ GroupTypeOf(spec) \in {RaftType, PrimaryBackupType, LogType, None}
                 /\ GroupTypeOf(spec) = RaftType =>
                        spec.raft.partitionSize # 0 /\ spec.raft.storage.level # ""
                 /\ GroupTypeOf(spec) = PrimaryBackupType =>
                        spec.primaryBackup.memberGroupStrategy # ""
                 /\ GroupTypeOf(spec) = LogType =>
                        spec.log.memberGroupStrategy # "" /\ spec.log.storage.level # ""
  <1> SUFFICES Fine
    BY <1>1 DEF Decode
  <1> HIDE DEF d, spec, size, sized
  <1>9. CASE d.raft # None
    <2>1. GroupTypeOf(d) = RaftType
      BY <1>9 DEF GroupTypeOf
    <2>2. spec = [sized EXCEPT !.raft = SetDefaultsRaft(d.raft)]
      BY <1>6, <1>7, <1>8, <2>1
    <2>3. spec.raft # None
      BY <1>3, <1>9, <1>8, <2>2
    <2>4. GroupTypeOf(spec) = RaftType
      BY <2>3 DEF GroupTypeOf
    <2>5. spec.raft.partitionSize # 0 /\ spec.raft.storage.level # ""
      BY <1>8, <1>4, <1>5, <2>2 DEF SetDefaultsRaft, SetDefaultsStorage
    <2>6. spec.size = size /\ spec.partitions = sized.partitions /\ spec.cluster = d.cluster
      BY <1>8, <2>2
    <2> QED BY <1>2, <1>6, <1>8, <2>4, <2>5, <2>6
  <1>10. CASE d.raft = None /\ d.primaryBackup # None
    <2>1. GroupTypeOf(d) = PrimaryBackupType
      BY <1>10 DEF GroupTypeOf
    <2>2. spec = [sized EXCEPT !.primaryBackup = SetDefaultsPrimaryBackup(d.primaryBackup)]
      BY <1>6, <1>7, <1>8, <2>1
    <2>3. spec.raft = None /\ spec.primaryBackup # None
      BY <1>3, <1>10, <1>8, <2>2
    <2>4. GroupTypeOf(spec) = PrimaryBackupType
      BY <2>3 DEF GroupTypeOf
    <2>5. spec.primaryBackup.memberGroupStrategy # ""
      BY <1>8, <1>4, <2>2 DEF SetDefaultsPrimaryBackup
    <2>6. spec.size = size /\ spec.partitions = sized.partitions /\ spec.cluster = d.cluster
      BY <1>8, <2>2
    <2> QED BY <1>2, <1>6, <1>8, <2>4, <2>5, <2>6
  <1>11. CASE d.raft = None /\ d.primaryBackup = None /\ d.log # None
    <2>1. GroupTypeOf(d) = LogType
      BY <1>11 DEF GroupTypeOf
    <2>2. spec = [sized EXCEPT !.log = SetDefaultsLog(d.log)]
      BY <1>6, <1>7, <1>8, <2>1
    <2>3. spec.raft = None /\ spec.primaryBackup = None /\ spec.log # None
      BY <1>3, <1>11, <1>8, <2>2
    <2>4. GroupTypeOf(spec) = LogType
      BY <2>3 DEF GroupTypeOf
    <2>5. spec.log.memberGroupStrategy # "" /\ spec.log.storage.level # ""
      BY <1>8, <1>4, <2>2 DEF SetDefaultsLog, SetDefaultsStorage
    <2>6. spec.size = size /\ spec.partitions = sized.partitions /\ spec.cluster = d.cluster
      BY <1>8, <2>2
    <2> QED BY <1>2, <1>6, <1>8, <2>4, <2>5, <2>6
  <1>12. CASE d.raft = None /\ d.primaryBackup = None /\ d.log = None
    <2>1. GroupTypeOf(d) = None
      BY <1>12 DEF GroupTypeOf
    <2>2. spec = sized
      BY <1>6, <1>7, <1>8, <2>1
    <2>3. GroupTypeOf(spec) = None
      BY <1>12, <1>8, <2>2 DEF GroupTypeOf
    <2> QED BY <1>2, <1>6, <1>8, <2>2, <2>3
  <1> QED BY <1>9, <1>10, <1>11, <1>12

\* What the StatefulSet of a group says, which depends on the protocol.
LEMMA GroupSet ==
    ASSUME NEW cr \in CRs, cr.kind = PartitionGroup, NEW manifest \in Specs[cr.kind],
           BuildDeployment(cr, "StatefulSet", manifest) # None
    PROVE  LET set == BuildDeployment(cr, "StatefulSet", manifest)
               spec == SetDefaultsPartitionGroup(Decode(manifest))
           IN  /\ spec.size >= 1
               /\ set.serviceName = cr.name
               /\ set.template.labels = GroupLabels(cr.name, spec)
               /\ set.template.nodes = spec.size
               /\ set.template.initScript = DeploymentKey(cr, "InitScript").name
               /\ set.template.config = DeploymentKey(cr, "SystemConfig").name
               /\ set.claims # << >> <=> GroupTypeOf(spec) \in {RaftType, LogType}
  <1> DEFINE spec == SetDefaultsPartitionGroup(Decode(manifest))
             set == BuildDeployment(cr, "StatefulSet", manifest)
             template == PodTemplate(GroupLabels(cr.name, spec), AtomixImage(spec.version),
                             spec.size, GroupKey(cr, "InitScript").name,
                             GroupKey(cr, "SystemConfig").name)
  <1>1. set = GroupStatefulSet(cr, spec)
    BY DEF BuildDeployment, BuildGroup, AtomixCluster, PartitionGroup, AtomixBenchmark
  <1>2. /\ spec.size \in Int /\ spec.size # 0
        /\ GroupTypeOf(spec) \in {RaftType, PrimaryBackupType, LogType, None}
    BY GroupDefaults
  <1>3. /\ DeploymentKey(cr, "InitScript") = GroupKey(cr, "InitScript")
        /\ DeploymentKey(cr, "SystemConfig") = GroupKey(cr, "SystemConfig")
    BY DEF DeploymentKey, AtomixCluster, PartitionGroup, AtomixBenchmark
  <1>4. RaftType # PrimaryBackupType /\ RaftType # LogType /\ PrimaryBackupType # LogType
        /\ None \notin {RaftType, PrimaryBackupType, LogType}
    BY ProtocolsAssumption DEF RaftType, PrimaryBackupType, LogType
  <1> HIDE DEF spec, set
  <1>5. ~ (spec.size < 0)
    BY <1>1 DEF GroupStatefulSet, Accepted, set
  <1>6. ASSUME NEW storage, set = PersistentStatefulSet(cr, spec, storage)
        PROVE  /\ set.serviceName = cr.name /\ set.template = template
               /\ set.claims # << >>
    <2>1. PersistentVolumeClaims(storage.size) = <<storage.size>>
      BY <1>6 DEF PersistentStatefulSet, PersistentVolumeClaims, set
    <2>2. set = [EphemeralStatefulSet(cr, spec) EXCEPT
                     !.claims = <<storage.size>>, !.affinity = Affinity(cr.name)]
      BY <1>6, <2>1 DEF PersistentStatefulSet, set
    <2> QED BY <2>2 DEF EphemeralStatefulSet
  <1>7. ASSUME set = EphemeralStatefulSet(cr, spec)
        PROVE  /\ set.serviceName = cr.name /\ set.template = template
               /\ set.claims = << >>
    BY <1>7 DEF EphemeralStatefulSet
  <1>8. /\ set.serviceName = cr.name /\ set.template = template
        /\ set.claims # << >> <=> GroupTypeOf(spec) \in {RaftType, LogType}
    <2>1. CASE GroupTypeOf(spec) = RaftType
      <3>1. set = PersistentStatefulSet(cr, spec, spec.raft.storage)
        BY <1>1, <1>4, <1>5, <2>1 DEF GroupStatefulSet, Accepted
      <3> QED BY <1>6, <2>1, <3>1
    <2>2. CASE GroupTypeOf(spec) = PrimaryBackupType
      <3>1. set = EphemeralStatefulSet(cr, spec)
        BY <1>1, <1>4, <1>5, <2>2 DEF GroupStatefulSet, Accepted
      <3> QED BY <1>4, <1>7, <2>2, <3>1
    <2>3. CASE GroupTypeOf(spec) = LogType
      <3>1. set = PersistentStatefulSet(cr, spec, spec.log.storage)
        BY <1>1, <1>4, <1>5, <2>3 DEF GroupStatefulSet, Accepted
      <3> QED BY <1>6, <2>3, <3>1
    <2>4. CASE GroupTypeOf(spec) = None
      <3>1. set = None
        BY <1>1, <1>4, <2>4 DEF GroupStatefulSet, Accepted
      <3> QED BY <3>1 DEF set
    <2> QED BY <1>2, <2>1, <2>2, <2>3, <2>4
  <1>9. spec.size >= 1
    BY <1>2, <1>5
  <1> QED BY <1>3, <1>8, <1>9 DEF PodTemplate, set, spec

\* The protocol a group is configured with is complete.
LEMMA GroupFile ==
    ASSUME NEW cr \in CRs, cr.kind = PartitionGroup, NEW manifest \in Specs[cr.kind],
           BuildDeployment(cr, "SystemConfig", manifest) # None
    PROVE  LET file == BuildDeployment(cr, "SystemConfig", manifest).file
               spec == SetDefaultsPartitionGroup(Decode(manifest))
           IN  /\ file.type = GroupTypeOf(spec)
               /\ \A setting \in DOMAIN file \cap {"partitions", "partitionSize"} :
                      file[setting] # 0
               /\ \A setting \in DOMAIN file \cap {"level", "strategy"} : file[setting] # ""
  <1> DEFINE spec == SetDefaultsPartitionGroup(Decode(manifest))
             map == BuildDeployment(cr, "SystemConfig", manifest)
  <1>1. map = GroupConfig(cr.name, spec)
    BY DEF BuildDeployment, BuildGroup, AtomixCluster, PartitionGroup, AtomixBenchmark
  <1>2. /\ spec.partitions # 0
        /\ GroupTypeOf(spec) \in {RaftType, PrimaryBackupType, LogType, None}
        /\ GroupTypeOf(spec) = RaftType =>
               spec.raft.partitionSize # 0 /\ spec.raft.storage.level # ""
        /\ GroupTypeOf(spec) = PrimaryBackupType =>
               spec.primaryBackup.memberGroupStrategy # ""
        /\ GroupTypeOf(spec) = LogType =>
               spec.log.memberGroupStrategy # "" /\ spec.log.storage.level # ""
    BY GroupDefaults
  <1>3. RaftType # PrimaryBackupType /\ RaftType # LogType /\ PrimaryBackupType # LogType
        /\ None \notin {RaftType, PrimaryBackupType, LogType}
    BY ProtocolsAssumption DEF RaftType, PrimaryBackupType, LogType
  <1> SUFFICES /\ map.file.type = GroupTypeOf(spec)
               /\ \A setting \in DOMAIN map.file \cap {"partitions", "partitionSize"} :
                      map.file[setting] # 0
               /\ \A setting \in DOMAIN map.file \cap {"level", "strategy"} :
                      map.file[setting] # ""
    OBVIOUS
  <1>4. map # None
    OBVIOUS
  <1> HIDE DEF spec, map
  <1>5. CASE GroupTypeOf(spec) = RaftType
    <2>1. map.file = RaftConfig(cr.name, spec)
      BY <1>1, <1>3, <1>5 DEF GroupConfig, GroupConfigMap
    <2>2. map.file.type = RaftType
      BY <2>1 DEF RaftConfig
    <2>3. DOMAIN map.file = {"group", "type", "partitions", "partitionSize", "level"}
      BY <2>1 DEF RaftConfig
    <2>4. /\ map.file.partitions # 0 /\ map.file.partitionSize # 0
          /\ map.file.level # ""
      <3>1. /\ map.file.partitions = spec.partitions
            /\ map.file.partitionSize = spec.raft.partitionSize
            /\ map.file.level = spec.raft.storage.level
        BY <2>1 DEF RaftConfig
      <3> QED BY <1>2, <1>5, <3>1
    <2>5. \A setting \in DOMAIN map.file \cap {"partitions", "partitionSize"} :
              map.file[setting] # 0
      BY <2>3, <2>4
    <2>6. \A setting \in DOMAIN map.file \cap {"level", "strategy"} : map.file[setting] # ""
      BY <2>3, <2>4
    <2> QED BY <1>5, <2>2, <2>5, <2>6
  <1>6. CASE GroupTypeOf(spec) = PrimaryBackupType
    <2>1. map.file = PrimaryBackupConfig(cr.name, spec)
      BY <1>1, <1>3, <1>6 DEF GroupConfig, GroupConfigMap
    <2>2. map.file.type = PrimaryBackupType
      BY <2>1 DEF PrimaryBackupConfig
    <2>3. DOMAIN map.file = {"group", "type", "partitions", "strategy"}
      BY <2>1 DEF PrimaryBackupConfig
    <2>4. map.file.partitions # 0 /\ map.file.strategy # ""
      <3>1. /\ map.file.partitions = spec.partitions
            /\ map.file.strategy = spec.primaryBackup.memberGroupStrategy
        BY <2>1 DEF PrimaryBackupConfig
      <3> QED BY <1>2, <1>6, <3>1
    <2>5. \A setting \in DOMAIN map.file \cap {"partitions", "partitionSize"} :
              map.file[setting] # 0
      BY <2>3, <2>4
    <2>6. \A setting \in DOMAIN map.file \cap {"level", "strategy"} : map.file[setting] # ""
      BY <2>3, <2>4
    <2> QED BY <1>6, <2>2, <2>5, <2>6
  <1>7. CASE GroupTypeOf(spec) = LogType
    <2>1. map.file = LogConfig(cr.name, spec)
      BY <1>1, <1>3, <1>7 DEF GroupConfig, GroupConfigMap
    <2>2. map.file.type = LogType
      BY <2>1 DEF LogConfig
    <2>3. DOMAIN map.file = {"group", "type", "partitions", "strategy", "level"}
      BY <2>1 DEF LogConfig
    <2>4. /\ map.file.partitions # 0 /\ map.file.strategy # ""
          /\ map.file.level # ""
      <3>1. /\ map.file.partitions = spec.partitions
            /\ map.file.strategy = spec.log.memberGroupStrategy
            /\ map.file.level = spec.log.storage.level
        BY <2>1 DEF LogConfig
      <3> QED BY <1>2, <1>7, <3>1
    <2>5. \A setting \in DOMAIN map.file \cap {"partitions", "partitionSize"} :
              map.file[setting] # 0
      BY <2>3, <2>4
    <2>6. \A setting \in DOMAIN map.file \cap {"level", "strategy"} : map.file[setting] # ""
      BY <2>3, <2>4
    <2> QED BY <1>7, <2>2, <2>5, <2>6
  <1>8. CASE GroupTypeOf(spec) = None
    <2>1. map = None
      BY <1>1, <1>3, <1>8 DEF GroupConfig
    <2> QED BY <1>4, <2>1
  <1> QED BY <1>2, <1>5, <1>6, <1>7, <1>8

\* A budget asks for a majority of any size that is accepted.
LEMMA MajorityFacts ==
    ASSUME NEW size \in Int, size >= 1
    PROVE  LET budget == DisruptionBudget(size) IN
           2 * budget.minAvailable > size /\ budget.minAvailable <= size
  <1> DEFINE half == size \div 2
  <1>1. half \in Int /\ 2 * half <= size /\ size < 2 * half + 2 /\ half >= 0
    OBVIOUS
  <1> HIDE DEF half
  <1>2. GoHalf(size) = half
    BY DEF GoHalf, half
  <1>3. DisruptionBudget(size) = [minAvailable |-> half + 1]
    BY <1>1, <1>2 DEF DisruptionBudget, Accepted
  <1> QED BY <1>1, <1>3

\* What the coordinator, the workers, their script and the service say.
LEMMA BenchmarkObjects ==
    ASSUME NEW cr \in CRs, cr.kind = AtomixBenchmark, NEW spec \in Specs[cr.kind]
    PROVE  LET pod == BuildDeployment(cr, "ControllerPod", spec)
               set == BuildDeployment(cr, "WorkerStatefulSet", spec)
               map == BuildDeployment(cr, "ControllerInitScript", spec)
               service == BuildDeployment(cr, "ControllerService", spec)
               script == DeploymentKey(cr, "ControllerInitScript").name
               config == DeploymentKey(cr, "ControllerSystemConfig").name
           IN  /\ pod.labels = ControllerLabels(spec)
               /\ pod.initScript = script /\ pod.config = config
               /\ set # None =>
                      /\ set.template.labels = WorkerLabels(spec)
                      /\ set.template.initScript = script
                      /\ set.template.config = config
               /\ map.file.service = spec.cluster
               /\ map.file.host = ResourceName(cr.name, ServiceSuffix)
               /\ service.selector = ControllerLabels(spec)
  <1> DEFINE full == SetDefaultsBenchmark(spec)
  <1>1. full.cluster = spec.cluster
    BY DEF SetDefaultsBenchmark
  <1>2. ControllerLabels(full) = ControllerLabels(spec) /\ WorkerLabels(full) = WorkerLabels(spec)
    BY <1>1 DEF ControllerLabels, WorkerLabels
  <1>3. \A step : DeploymentKey(cr, step) = BenchmarkKey(cr, step)
    BY DEF DeploymentKey, AtomixCluster, PartitionGroup, AtomixBenchmark
  <1>4. \A step : BuildDeployment(cr, step, spec) =
                      IF step \in ControllerSteps THEN BuildController(cr, step, full)
                                                  ELSE BuildWorkers(cr, step, full)
    BY DEF BuildDeployment, BuildBenchmark, AtomixCluster, PartitionGroup, AtomixBenchmark
  <1> HIDE DEF full
  <1>5. BuildDeployment(cr, "ControllerPod", spec) =
            PodTemplate(ControllerLabels(spec), BenchImage, 1,
                        BenchmarkKey(cr, "ControllerInitScript").name,
                        BenchmarkKey(cr, "ControllerSystemConfig").name)
    BY <1>2, <1>4 DEF ControllerSteps, BuildController, ControllerPod, BenchPodTemplate
  <1>6. BuildDeployment(cr, "WorkerStatefulSet", spec) = WorkerStatefulSet(cr, full)
    BY <1>4 DEF ControllerSteps, BuildWorkers
  <1>7. /\ BenchmarkKey(cr, "WorkerInitScript") = BenchmarkKey(cr, "ControllerInitScript")
        /\ BenchmarkKey(cr, "WorkerSystemConfig") = BenchmarkKey(cr, "ControllerSystemConfig")
    BY DEF BenchmarkKey
  <1>8. ASSUME WorkerStatefulSet(cr, full) # None
        PROVE  WorkerStatefulSet(cr, full).template =
                   PodTemplate(WorkerLabels(spec), BenchImage, full.workers,
                        BenchmarkKey(cr, "ControllerInitScript").name,
                        BenchmarkKey(cr, "ControllerSystemConfig").name)
    BY <1>2, <1>7, <1>8 DEF WorkerStatefulSet, Accepted, BenchPodTemplate
  <1>9. BuildDeployment(cr, "ControllerInitScript", spec).file = ControllerScript(cr, full)
    BY <1>4 DEF ControllerSteps, BuildController, ConfigMapOf
  <1>10. BuildDeployment(cr, "ControllerService", spec).selector = ControllerLabels(spec)
    BY <1>2, <1>4 DEF ControllerSteps, BuildController, ServiceOf
  <1>11. BenchmarkKey(cr, "ControllerService").name = ResourceName(cr.name, ServiceSuffix)
    BY DEF BenchmarkKey, Key
  <1>12. /\ ControllerScript(cr, full).service = spec.cluster
         /\ ControllerScript(cr, full).host = ResourceName(cr.name, ServiceSuffix)
    BY <1>1, <1>11 DEF ControllerScript
  <1> QED BY <1>3, <1>5, <1>6, <1>8, <1>9, <1>10, <1>12 DEF PodTemplate

\* Scripts and services of clusters and groups.
LEMMA ScriptsAndServices ==
    ASSUME NEW cr \in CRs, NEW spec \in Specs[cr.kind]
    PROVE  /\ cr.kind = AtomixCluster =>
                  /\ BuildDeployment(cr, "InitScript", spec).file = InitScript(cr.name)
                  /\ BuildDeployment(cr, "Service", spec) = ManagementService(cr.name)
                  /\ BuildDeployment(cr, "DisruptionBudget", spec) =
                         DisruptionBudget(SetDefaultsCluster(spec).size)
           /\ cr.kind = PartitionGroup =>
                  LET full == SetDefaultsPartitionGroup(Decode(spec)) IN
                  /\ BuildDeployment(cr, "InitScript", spec).file = InitScript(spec.cluster)
                  /\ BuildDeployment(cr, "Service", spec).selector = GroupLabels(cr.name, full)
                  /\ BuildDeployment(cr, "DisruptionBudget", spec) = DisruptionBudget(full.size)
  <1>1. ASSUME cr.kind = AtomixCluster
        PROVE  \A step : BuildDeployment(cr, step, spec) = BuildCluster(cr, step, spec)
    BY <1>1 DEF BuildDeployment, AtomixCluster, PartitionGroup, AtomixBenchmark
  <1>2. ASSUME cr.kind = PartitionGroup
        PROVE  \A step : BuildDeployment(cr, step, spec) = BuildGroup(cr, step, spec)
    BY <1>2 DEF BuildDeployment, AtomixCluster, PartitionGroup, AtomixBenchmark
  <1>3. ASSUME cr.kind = AtomixCluster
        PROVE  /\ BuildDeployment(cr, "InitScript", spec).file = InitScript(cr.name)
               /\ BuildDeployment(cr, "Service", spec) = ManagementService(cr.name)
               /\ BuildDeployment(cr, "DisruptionBudget", spec) =
                      DisruptionBudget(SetDefaultsCluster(spec).size)
    BY <1>1, <1>3 DEF BuildCluster, ManagementConfigMap
  <1>4. ASSUME cr.kind = PartitionGroup
        PROVE  LET full == SetDefaultsPartitionGroup(Decode(spec)) IN
               /\ BuildDeployment(cr, "InitScript", spec).file = InitScript(spec.cluster)
               /\ BuildDeployment(cr, "Service", spec).selector = GroupLabels(cr.name, full)
               /\ BuildDeployment(cr, "DisruptionBudget", spec) = DisruptionBudget(full.size)
    <2> DEFINE full == SetDefaultsPartitionGroup(Decode(spec))
    <2>1. full.cluster = spec.cluster
      BY <1>4, GroupDefaults
    <2>2. \A step : BuildGroup(cr, step, spec) =
             CASE step = "InitScript" ->
                      GroupConfigMap(cr.name, full, InitScript(full.cluster))
               [] step = "SystemConfig" -> GroupConfig(cr.name, full)
               [] step = "DisruptionBudget" -> DisruptionBudget(full.size)
               [] step = "StatefulSet" -> GroupStatefulSet(cr, full)
               [] step = "Service" -> GroupService(cr.name, full)
      BY DEF BuildGroup
    <2> HIDE DEF full
    <2>3. /\ BuildGroup(cr, "InitScript", spec) =
                 GroupConfigMap(cr.name, full, InitScript(full.cluster))
          /\ BuildGroup(cr, "DisruptionBudget", spec) = DisruptionBudget(full.size)
          /\ BuildGroup(cr, "Service", spec) = GroupService(cr.name, full)
      BY <2>2
    <2>4. /\ BuildDeployment(cr, "InitScript", spec).file = InitScript(spec.cluster)
          /\ BuildDeployment(cr, "Service", spec).selector = GroupLabels(cr.name, full)
          /\ BuildDeployment(cr, "DisruptionBudget", spec) = DisruptionBudget(full.size)
      BY <1>2, <1>4, <2>1, <2>3 DEF GroupConfigMap, GroupService
    <2> QED BY <2>4 DEF full
  <1> QED BY <1>3, <1>4

------------------------------------------------------------------------------
(* The pods.                                                               *)

\* The steps that make what has pods, and those that make what the pods read.
PodStepsOf(kind) ==
    IF kind = AtomixBenchmark THEN {"ControllerPod", "WorkerStatefulSet"} ELSE {"StatefulSet"}
ScriptStep(kind) ==
    IF kind = AtomixBenchmark THEN "ControllerInitScript" ELSE "InitScript"
ConfigStep(kind) ==
    IF kind = AtomixBenchmark THEN "ControllerSystemConfig" ELSE "SystemConfig"

\* What has pods comes of a step whose object is its own.
LEMMA PodOwnerSteps ==
    /\ \A k \in PodOwners : \E cr \in CRs :
           \E step \in PodStepsOf(cr.kind) : k = DeploymentKey(cr, step)
    /\ \A kind \in Kind : /\ PodStepsOf(kind) \subseteq OwnSteps(kind)
                           /\ ScriptStep(kind) \in OwnSteps(kind)
                           /\ ConfigStep(kind) \in OwnSteps(kind)
  <1>1. ASSUME NEW k \in PodOwners
        PROVE  \E cr \in CRs : \E step \in PodStepsOf(cr.kind) : k = DeploymentKey(cr, step)
    <2>1. PICK cr \in CRs :
               \/ /\ cr.kind \in {AtomixCluster, PartitionGroup}
                  /\ k = DeploymentKey(cr, "StatefulSet") /\ k.kind = "StatefulSet"
               \/ /\ cr.kind = AtomixBenchmark
                  /\ \/ k = DeploymentKey(cr, "ControllerPod") /\ k.kind = "Pod"
                     \/ k = DeploymentKey(cr, "WorkerStatefulSet") /\ k.kind = "StatefulSet"
      BY PodSteps
    <2>2. AtomixBenchmark \notin {AtomixCluster, PartitionGroup}
      BY DEF AtomixCluster, PartitionGroup, AtomixBenchmark
    <2>3. \E step \in PodStepsOf(cr.kind) : k = DeploymentKey(cr, step)
      BY <2>1, <2>2 DEF PodStepsOf
    <2> QED BY <2>3
  <1>2. ASSUME NEW kind \in Kind
        PROVE  /\ PodStepsOf(kind) \subseteq OwnSteps(kind)
               /\ ScriptStep(kind) \in OwnSteps(kind)
               /\ ConfigStep(kind) \in OwnSteps(kind)
    BY DEF PodStepsOf, ScriptStep, ConfigStep, OwnSteps, ControllerSteps
  <1> QED BY <1>1, <1>2

\* What has pods names, as the ConfigMaps to mount, those of its CR.
LEMMA Mounts ==
    ASSUME ObjectsInv, NEW cr \in CRs, NEW step \in PodStepsOf(cr.kind),
           NEW k, k = DeploymentKey(cr, step), store[k] # None
    PROVE  LET template == Kubelet!Template(store[k], k) IN
           /\ Key("ConfigMap", template.initScript) = DeploymentKey(cr, ScriptStep(cr.kind))
           /\ Key("ConfigMap", template.config) = DeploymentKey(cr, ConfigStep(cr.kind))
  <1> DEFINE spec == store[cr].spec
  <1>1. /\ cr.kind \in Kind /\ step \in OwnSteps(cr.kind)
        /\ spec \in Specs[cr.kind]
        /\ store[k].data = BuildDeployment(cr, step, spec) /\ store[k].data # None
    BY PodOwnerSteps, CRFacts, StoredObject
  <1> HIDE DEF spec
  <1>2. CASE cr.kind = AtomixCluster
    <2>1. step = "StatefulSet" /\ k.kind # "Pod"
      BY <1>2 DEF PodStepsOf, DeploymentKey, ClusterKey, Key, AtomixCluster,
                  PartitionGroup, AtomixBenchmark
    <2>2. /\ Kubelet!Template(store[k], k).initScript = DeploymentKey(cr, "InitScript").name
          /\ Kubelet!Template(store[k], k).config = DeploymentKey(cr, "SystemConfig").name
      BY <1>1, <1>2, <2>1, ClusterSet DEF Kubelet!Template
    <2>3. /\ ScriptStep(cr.kind) = "InitScript" /\ ConfigStep(cr.kind) = "SystemConfig"
          /\ DeploymentKey(cr, "InitScript") = ClusterKey(cr, "InitScript")
          /\ DeploymentKey(cr, "SystemConfig") = ClusterKey(cr, "SystemConfig")
      BY <1>2 DEF ScriptStep, ConfigStep, DeploymentKey, AtomixCluster, PartitionGroup,
                  AtomixBenchmark
    <2> QED BY <2>2, <2>3 DEF ClusterKey, Key
  <1>3. CASE cr.kind = PartitionGroup
    <2>1. step = "StatefulSet" /\ k.kind # "Pod"
      BY <1>3 DEF PodStepsOf, DeploymentKey, GroupKey, Key, AtomixCluster,
                  PartitionGroup, AtomixBenchmark
    <2>2. /\ Kubelet!Template(store[k], k).initScript = DeploymentKey(cr, "InitScript").name
          /\ Kubelet!Template(store[k], k).config = DeploymentKey(cr, "SystemConfig").name
      BY <1>1, <1>3, <2>1, GroupSet DEF Kubelet!Template
    <2>3. /\ ScriptStep(cr.kind) = "InitScript" /\ ConfigStep(cr.kind) = "SystemConfig"
          /\ DeploymentKey(cr, "InitScript") = GroupKey(cr, "InitScript")
          /\ DeploymentKey(cr, "SystemConfig") = GroupKey(cr, "SystemConfig")
      BY <1>3 DEF ScriptStep, ConfigStep, DeploymentKey, AtomixCluster, PartitionGroup,
                  AtomixBenchmark
    <2> QED BY <2>2, <2>3 DEF GroupKey, Key
  <1>4. CASE cr.kind = AtomixBenchmark
    <2>1. /\ ScriptStep(cr.kind) = "ControllerInitScript"
          /\ ConfigStep(cr.kind) = "ControllerSystemConfig"
          /\ \A s : DeploymentKey(cr, s) = BenchmarkKey(cr, s)
      BY <1>4 DEF ScriptStep, ConfigStep, DeploymentKey, AtomixCluster, PartitionGroup,
                  AtomixBenchmark
    <2>2. /\ Kubelet!Template(store[k], k).initScript =
                 DeploymentKey(cr, "ControllerInitScript").name
          /\ Kubelet!Template(store[k], k).config =
                 DeploymentKey(cr, "ControllerSystemConfig").name
      <3>1. CASE step = "ControllerPod"
        <4>1. k.kind = "Pod"
          BY <2>1, <3>1 DEF BenchmarkKey, Key
        <4> QED BY <1>1, <1>4, <3>1, <4>1, BenchmarkObjects DEF Kubelet!Template
      <3>2. CASE step = "WorkerStatefulSet"
        <4>1. k.kind # "Pod"
          BY <2>1, <3>2 DEF BenchmarkKey, Key
        <4> QED BY <1>1, <1>4, <3>2, <4>1, BenchmarkObjects DEF Kubelet!Template
      <3> QED BY <1>4, <3>1, <3>2 DEF PodStepsOf
    <2> QED BY <2>1, <2>2 DEF BenchmarkKey, Key
  <1> QED BY <1>1, <1>2, <1>3, <1>4 DEF Kind

\* A pod that runs has read what is there: its object and both ConfigMaps.
PodsInv ==
    /\ DOMAIN running = PodOwners
    /\ \A k \in PodOwners : running[k] # None =>
           LET template == Kubelet!Template(store[k], k) IN
           /\ store[k] # None
           /\ running[k].object = store[k]
           /\ running[k].script = store[Key("ConfigMap", template.initScript)]
           /\ running[k].config = store[Key("ConfigMap", template.config)]
           /\ running[k].script # None
           /\ running[k].config # None

\* Pods start from what is there, which stays.
LEMMA PodsHold ==
    ASSUME ObjectsInv, PodsInv, [WorkloadNext]_<<vars, running>>
    PROVE  PodsInv'
  <1> USE SameNames
  <1>1. CASE ObjectStep /\ UNCHANGED running
    <2> SUFFICES ASSUME NEW k \in PodOwners, running[k] # None
                 PROVE  LET template == Kubelet!Template(store[k], k)' IN
                        /\ store'[k] # None
                        /\ running[k].object = store'[k]
                        /\ running[k].script = store'[Key("ConfigMap", template.initScript)]
                        /\ running[k].config = store'[Key("ConfigMap", template.config)]
                        /\ running[k].script # None
                        /\ running[k].config # None
      BY <1>1 DEF PodsInv
    <2> DEFINE template == Kubelet!Template(store[k], k)
               script == Key("ConfigMap", template.initScript)
               config == Key("ConfigMap", template.config)
    <2>1. /\ store[k] # None /\ running[k].object = store[k]
          /\ running[k].script = store[script] /\ running[k].config = store[config]
          /\ running[k].script # None /\ running[k].config # None
      BY DEF PodsInv
    <2>2. PICK cr \in CRs : \E step \in PodStepsOf(cr.kind) : k = DeploymentKey(cr, step)
      BY PodOwnerSteps
    <2>3. script = DeploymentKey(cr, ScriptStep(cr.kind))
          /\ config = DeploymentKey(cr, ConfigStep(cr.kind))
      BY <2>1, <2>2, Mounts
    <2>4. {k, script, config} \subseteq ObjectKeys
      BY <2>3, PodOwnerSteps, CRFacts, OwnStepFacts DEF PodOwners, ObjectKeys
    <2>5. store'[k] = store[k] /\ store'[script] = store[script]
          /\ store'[config] = store[config]
      BY <1>1, <2>1, <2>4, ObjectsStay
    <2>6. Kubelet!Template(store[k], k)' = template
      BY <2>5 DEF Kubelet!Template
    <2> HIDE DEF template
    <2> QED BY <2>1, <2>5, <2>6
  <1>2. ASSUME NEW k \in PodOwners, Kubelet!StartPod(k) PROVE PodsInv'
    BY <1>2 DEF PodsInv, Kubelet!StartPod, Kubelet!Mounted, Kubelet!Template
  <1>3. ASSUME NEW k \in PodOwners, Kubelet!StopPod(k) PROVE PodsInv'
    BY <1>3 DEF PodsInv, Kubelet!StopPod, Kubelet!Template
  <1>4. CASE UNCHANGED <<vars, running>>
    BY <1>4 DEF PodsInv, vars, Kubelet!Template
  <1> QED BY <1>1, <1>2, <1>3, <1>4 DEF WorkloadNext, PodStep

\* What a pod runs on was built from the spec of one CR.
LEMMA RunningPod ==
    ASSUME ObjectsInv, PodsInv, NEW k \in PodOwners, Running(k)
    PROVE  \E cr \in CRs : \E step \in PodStepsOf(cr.kind) :
               LET spec == store[cr].spec IN
               /\ k = DeploymentKey(cr, step)
               /\ spec \in Specs[cr.kind]
               /\ running[k].object.owner.cr = cr
               /\ running[k].object.data = BuildDeployment(cr, step, spec)
               /\ running[k].object.data # None
               /\ running[k].script.data = BuildDeployment(cr, ScriptStep(cr.kind), spec)
               /\ running[k].config.data = BuildDeployment(cr, ConfigStep(cr.kind), spec)
               /\ running[k].config.data # None
  <1>1. PICK cr \in CRs : \E step \in PodStepsOf(cr.kind) : k = DeploymentKey(cr, step)
    BY PodOwnerSteps
  <1>2. PICK step \in PodStepsOf(cr.kind) : k = DeploymentKey(cr, step)
    BY <1>1
  <1> DEFINE template == Kubelet!Template(store[k], k)
             script == DeploymentKey(cr, ScriptStep(cr.kind))
             config == DeploymentKey(cr, ConfigStep(cr.kind))
             spec == store[cr].spec
  <1>3. /\ store[k] # None /\ running[k].object = store[k]
        /\ running[k].script = store[Key("ConfigMap", template.initScript)]
        /\ running[k].config = store[Key("ConfigMap", template.config)]
        /\ running[k].script # None /\ running[k].config # None
    BY DEF PodsInv, Running
  <1>4. Key("ConfigMap", template.initScript) = script
        /\ Key("ConfigMap", template.config) = config
    BY <1>2, <1>3, Mounts
  <1>5. /\ step \in OwnSteps(cr.kind) /\ ScriptStep(cr.kind) \in OwnSteps(cr.kind)
        /\ ConfigStep(cr.kind) \in OwnSteps(cr.kind)
    BY PodOwnerSteps, CRFacts
  <1> HIDE DEF template
  <1>6. /\ spec \in Specs[cr.kind] /\ store[k].owner.cr = cr
        /\ store[k].data = BuildDeployment(cr, step, spec) /\ store[k].data # None
    BY <1>2, <1>3, <1>5, StoredObject
  <1>7. store[script].data = BuildDeployment(cr, ScriptStep(cr.kind), spec)
    BY <1>3, <1>4, <1>5, StoredObject
  <1>8. /\ store[config].data = BuildDeployment(cr, ConfigStep(cr.kind), spec)
        /\ store[config].data # None
    BY <1>3, <1>4, <1>5, StoredObject
  <1>9. /\ running[k].object = store[k]
        /\ running[k].script = store[script] /\ running[k].config = store[config]
    BY <1>3, <1>4
  <1> QED BY <1>2, <1>6, <1>7, <1>8, <1>9

\* What is known of a pod of a cluster,
LEMMA ClusterPod ==
    ASSUME ObjectsInv, PodsInv, NEW k \in PodOwners, Running(k),
           running[k].object.owner.cr.kind = AtomixCluster
    PROVE  \E cr \in CRs :
               LET size == SetDefaultsCluster(store[cr].spec).size
                   template == running[k].object.data.template
               IN  /\ cr.kind = AtomixCluster /\ store[cr].spec \in Specs[cr.kind]
                   /\ running[k].object.owner.cr = cr
                   /\ Kubelet!Template(running[k].object, k) = template
                   /\ size \in Int /\ size >= 1
                   /\ running[k].object.data.serviceName = cr.name
                   /\ template.labels = ManagementLabels(cr.name) /\ template.nodes = size
                   /\ running[k].script.data.file = InitScript(cr.name)
  <1>1. PICK cr \in CRs : \E step \in PodStepsOf(cr.kind) :
               LET spec == store[cr].spec IN
               /\ k = DeploymentKey(cr, step)
               /\ spec \in Specs[cr.kind]
               /\ running[k].object.owner.cr = cr
               /\ running[k].object.data = BuildDeployment(cr, step, spec)
               /\ running[k].object.data # None
               /\ running[k].script.data = BuildDeployment(cr, ScriptStep(cr.kind), spec)
    BY RunningPod
  <1> DEFINE spec == store[cr].spec
             set == running[k].object.data
  <1>2. cr.kind = AtomixCluster /\ running[k].object.owner.cr = cr /\ spec \in Specs[cr.kind]
    BY <1>1
  <1>3. PodStepsOf(cr.kind) = {"StatefulSet"} /\ ScriptStep(cr.kind) = "InitScript"
    BY <1>2 DEF PodStepsOf, ScriptStep, AtomixCluster, AtomixBenchmark
  <1>4. /\ k = DeploymentKey(cr, "StatefulSet")
        /\ set = BuildDeployment(cr, "StatefulSet", spec) /\ set # None
        /\ running[k].script.data = BuildDeployment(cr, "InitScript", spec)
    BY <1>1, <1>3
  <1>5. k.kind # "Pod"
    BY <1>2, <1>4 DEF DeploymentKey, ClusterKey, Key, AtomixCluster, PartitionGroup,
                      AtomixBenchmark
  <1>6. Kubelet!Template(running[k].object, k) = set.template
    BY <1>5 DEF Kubelet!Template
  <1> HIDE DEF spec
  <1>7. LET size == SetDefaultsCluster(spec).size IN
        /\ size \in Int /\ size >= 1 /\ set.serviceName = cr.name
        /\ set.template.labels = ManagementLabels(cr.name) /\ set.template.nodes = size
    BY <1>2, <1>4, ClusterSet
  <1>8. running[k].script.data.file = InitScript(cr.name)
    BY <1>2, <1>4, ScriptsAndServices
  <1> QED BY <1>2, <1>6, <1>7, <1>8 DEF spec

\* of one of a group,
LEMMA GroupPod ==
    ASSUME ObjectsInv, PodsInv, NEW k \in PodOwners, Running(k),
           running[k].object.owner.cr.kind = PartitionGroup
    PROVE  \E cr \in CRs :
               LET manifest == store[cr].spec
                   spec == SetDefaultsPartitionGroup(Decode(manifest))
                   set == running[k].object.data
                   file == running[k].config.data.file
               IN  /\ cr.kind = PartitionGroup /\ manifest \in Specs[cr.kind]
                   /\ running[k].object.owner.cr = cr
                   /\ Kubelet!Template(running[k].object, k) = set.template
                   /\ spec.size \in Int /\ spec.size >= 1
                   /\ spec.cluster = manifest.cluster
                   /\ set.serviceName = cr.name
                   /\ set.template.labels = GroupLabels(cr.name, spec)
                   /\ set.template.nodes = spec.size
                   /\ set.claims # << >> <=> GroupTypeOf(spec) \in {RaftType, LogType}
                   /\ running[k].script.data.file = InitScript(manifest.cluster)
                   /\ running[k].config.data = BuildDeployment(cr, "SystemConfig", manifest)
                   /\ running[k].config.data # None
  <1>1. PICK cr \in CRs : \E step \in PodStepsOf(cr.kind) :
               LET spec == store[cr].spec IN
               /\ k = DeploymentKey(cr, step)
               /\ spec \in Specs[cr.kind]
               /\ running[k].object.owner.cr = cr
               /\ running[k].object.data = BuildDeployment(cr, step, spec)
               /\ running[k].object.data # None
               /\ running[k].script.data = BuildDeployment(cr, ScriptStep(cr.kind), spec)
               /\ running[k].config.data = BuildDeployment(cr, ConfigStep(cr.kind), spec)
               /\ running[k].config.data # None
    BY RunningPod
  <1> DEFINE manifest == store[cr].spec
             set == running[k].object.data
  <1>2. /\ cr.kind = PartitionGroup /\ running[k].object.owner.cr = cr
        /\ manifest \in Specs[cr.kind]
    BY <1>1
  <1>3. /\ PodStepsOf(cr.kind) = {"StatefulSet"} /\ ScriptStep(cr.kind) = "InitScript"
        /\ ConfigStep(cr.kind) = "SystemConfig"
    BY <1>2 DEF PodStepsOf, ScriptStep, ConfigStep, PartitionGroup, AtomixBenchmark
  <1>4. /\ k = DeploymentKey(cr, "StatefulSet")
        /\ set = BuildDeployment(cr, "StatefulSet", manifest) /\ set # None
        /\ running[k].script.data = BuildDeployment(cr, "InitScript", manifest)
        /\ running[k].config.data = BuildDeployment(cr, "SystemConfig", manifest)
        /\ running[k].config.data # None
    BY <1>1, <1>3
  <1>5. k.kind # "Pod"
    BY <1>2, <1>4 DEF DeploymentKey, GroupKey, Key, AtomixCluster, PartitionGroup,
                      AtomixBenchmark
  <1>6. Kubelet!Template(running[k].object, k) = set.template
    BY <1>5 DEF Kubelet!Template
  <1> HIDE DEF manifest
  <1>7. LET spec == SetDefaultsPartitionGroup(Decode(manifest)) IN
        /\ spec.size >= 1 /\ set.serviceName = cr.name
        /\ set.template.labels = GroupLabels(cr.name, spec)
        /\ set.template.nodes = spec.size
        /\ set.claims # << >> <=> GroupTypeOf(spec) \in {RaftType, LogType}
    BY <1>2, <1>4, GroupSet
  <1>8. LET spec == SetDefaultsPartitionGroup(Decode(manifest)) IN
        spec.size \in Int /\ spec.cluster = manifest.cluster
    BY <1>2, GroupDefaults
  <1>9. running[k].script.data.file = InitScript(manifest.cluster)
    BY <1>2, <1>4, ScriptsAndServices
  <1> QED BY <1>2, <1>4, <1>6, <1>7, <1>8, <1>9 DEF manifest

\* and of one of a benchmark.
LEMMA BenchmarkPod ==
    ASSUME ObjectsInv, PodsInv, NEW k \in PodOwners, Running(k),
           running[k].object.owner.cr.kind = AtomixBenchmark
    PROVE  \E cr \in CRs :
               LET spec == store[cr].spec
                   labels == Kubelet!Template(running[k].object, k).labels
                   file == running[k].script.data.file
               IN  /\ cr.kind = AtomixBenchmark /\ spec \in Specs[cr.kind]
                   /\ labels \in {ControllerLabels(spec), WorkerLabels(spec)}
                   /\ file.service = spec.cluster
                   /\ file.host = ResourceName(cr.name, ServiceSuffix)
  <1>1. PICK cr \in CRs : \E step \in PodStepsOf(cr.kind) :
               LET spec == store[cr].spec IN
               /\ k = DeploymentKey(cr, step)
               /\ spec \in Specs[cr.kind]
               /\ running[k].object.owner.cr = cr
               /\ running[k].object.data = BuildDeployment(cr, step, spec)
               /\ running[k].object.data # None
               /\ running[k].script.data = BuildDeployment(cr, ScriptStep(cr.kind), spec)
    BY RunningPod
  <1> DEFINE spec == store[cr].spec
             labels == Kubelet!Template(running[k].object, k).labels
  <1>2. cr.kind = AtomixBenchmark /\ spec \in Specs[cr.kind]
    BY <1>1
  <1>3. /\ PodStepsOf(cr.kind) = {"ControllerPod", "WorkerStatefulSet"}
        /\ ScriptStep(cr.kind) = "ControllerInitScript"
        /\ \A s : DeploymentKey(cr, s) = BenchmarkKey(cr, s)
    BY <1>2 DEF PodStepsOf, ScriptStep, DeploymentKey, AtomixCluster, PartitionGroup,
                AtomixBenchmark
  <1>4. labels \in {ControllerLabels(spec), WorkerLabels(spec)}
    <2>1. PICK step \in {"ControllerPod", "WorkerStatefulSet"} :
              /\ k = BenchmarkKey(cr, step)
              /\ running[k].object.data = BuildDeployment(cr, step, spec)
              /\ running[k].object.data # None
      BY <1>1, <1>3
    <2>2. k.kind = IF step = "ControllerPod" THEN "Pod" ELSE "StatefulSet"
      BY <2>1 DEF BenchmarkKey, Key
    <2> HIDE DEF spec
    <2>3. CASE step = "ControllerPod"
      BY <1>2, <2>1, <2>2, <2>3, BenchmarkObjects DEF Kubelet!Template
    <2>4. CASE step = "WorkerStatefulSet"
      BY <1>2, <2>1, <2>2, <2>4, BenchmarkObjects DEF Kubelet!Template
    <2> QED BY <2>3, <2>4
  <1>5. running[k].script.data = BuildDeployment(cr, "ControllerInitScript", spec)
    BY <1>1, <1>3
  <1> HIDE DEF spec, labels
  <1>6. /\ running[k].script.data.file.service = spec.cluster
        /\ running[k].script.data.file.host = ResourceName(cr.name, ServiceSuffix)
    BY <1>2, <1>5, BenchmarkObjects
  <1> QED BY <1>2, <1>4, <1>6 DEF spec, labels

\* Every pod belongs to a CR of one of the three kinds.
LEMMA PodKind ==
    ASSUME ObjectsInv, PodsInv, NEW k \in PodOwners, Running(k)
    PROVE  running[k].object.owner.cr.kind \in Kind
  <1>1. PICK cr \in CRs : \E step \in PodStepsOf(cr.kind) : running[k].object.owner.cr = cr
    BY RunningPod
  <1> QED BY <1>1, CRFacts

------------------------------------------------------------------------------
(* The services.                                                           *)

\* The service of a cluster or group is the one its spec leads to.
LEMMA SetServices ==
    ASSUME ObjectsInv, NEW cr \in CRs, cr.kind \in {AtomixCluster, PartitionGroup},
           store[Key("Service", cr.name)] # None
    PROVE  /\ store[cr].spec \in Specs[cr.kind]
           /\ store[Key("Service", cr.name)].data =
                  BuildDeployment(cr, "Service", store[cr].spec)
  <1>1. DeploymentKey(cr, "Service") = Key("Service", cr.name)
    <2>1. CASE cr.kind = AtomixCluster
      BY <2>1 DEF DeploymentKey, ClusterKey, AtomixCluster, PartitionGroup, AtomixBenchmark
    <2>2. CASE cr.kind = PartitionGroup
      BY <2>2 DEF DeploymentKey, GroupKey, AtomixCluster, PartitionGroup, AtomixBenchmark
    <2> QED BY <2>1, <2>2
  <1>2. "Service" \in OwnSteps(cr.kind)
    BY DEF OwnSteps, AtomixCluster, PartitionGroup, AtomixBenchmark
  <1> QED BY <1>1, <1>2, StoredObject

\* The service a group or a benchmark names is the cluster's, if there is one.
LEMMA NamedService ==
    ASSUME ObjectsInv, NEW name, Present(Key("Service", name)),
           \/ Key(AtomixCluster, name) \in CRs
           \/ \E cr \in CRs : /\ cr.kind \in {PartitionGroup, AtomixBenchmark}
                             /\ \E spec \in Specs[cr.kind] : spec.cluster = name
    PROVE  store[Key("Service", name)].data = ManagementService(name)
  <1>1. Key("Service", name) \in ObjectKeys /\ store[Key("Service", name)] # None
    BY DEF Present, ObjectsInv
  <1>2. Key("Service", name) \in Dependents
    <2>1. Key("Service", name).kind = "Service"
      BY DEF Key
    <2>2. Key("Service", name) \notin CRs
      BY <2>1, CRFacts DEF Kind, AtomixCluster, PartitionGroup, AtomixBenchmark
    <2> QED BY <1>1, <2>2 DEF ObjectKeys
  <1>3. Key(AtomixCluster, name) \in CRs
    BY <1>2, ManifestsAssumption
  <1> DEFINE cr == Key(AtomixCluster, name)
  <1>4. cr.kind = AtomixCluster /\ cr.name = name
    BY DEF Key
  <1>5. /\ store[cr].spec \in Specs[cr.kind]
        /\ store[Key("Service", name)].data = BuildDeployment(cr, "Service", store[cr].spec)
    BY <1>1, <1>3, <1>4, SetServices
  <1> HIDE DEF cr
  <1> QED BY <1>3, <1>4, <1>5, ScriptsAndServices DEF cr

\* It selects whatever belongs to the cluster.
LEMMA ManagementSelects ==
    ASSUME NEW k, NEW service, NEW name,
           store[service].data = ManagementService(name),
           LET labels == Kubelet!Template(running[k].object, k).labels IN
           /\ "app" \in DOMAIN labels /\ labels.app = AtomixApp
           /\ "cluster" \in DOMAIN labels /\ labels.cluster = name
    PROVE  Kubelet!LeadsTo(service, k)
  <1> DEFINE selector == store[service].data.selector
  <1>1. selector = [app |-> AtomixApp, cluster |-> name]
    BY DEF ManagementService
  <1>2. DOMAIN selector = {"app", "cluster"} /\ selector.app = AtomixApp
        /\ selector.cluster = name
    BY <1>1
  <1> HIDE DEF selector
  <1> QED BY <1>2 DEF Kubelet!LeadsTo, selector

\* Everyone's labels say whose they are.
LEMMA LabelFacts ==
    ASSUME NEW labels, NEW name,
           \/ labels = ManagementLabels(name)
           \/ \E group, spec : labels = GroupLabels(group, spec) /\ spec.cluster = name
           \/ \E spec : labels \in {ControllerLabels(spec), WorkerLabels(spec)}
                        /\ spec.cluster = name
    PROVE  /\ "app" \in DOMAIN labels /\ labels.app = AtomixApp
           /\ "cluster" \in DOMAIN labels /\ labels.cluster = name
  BY DEF ManagementLabels, GroupLabels, ControllerLabels, WorkerLabels

------------------------------------------------------------------------------
(* The properties follow from what the objects and the pods are.           *)

\* A pod's labels are those its service selects, be it the service of another CR.
LEMMA FindsItsCluster ==
    ASSUME ObjectsInv, PodsInv
    PROVE  Discoverable
  <1> SUFFICES ASSUME NEW k \in PodOwners, Running(k), Present(Kubelet!Discovers(k))
               PROVE  Kubelet!LeadsTo(Kubelet!Discovers(k), k)
    BY DEF Discoverable
  <1> DEFINE labels == Kubelet!Template(running[k].object, k).labels
             name == running[k].script.data.file.service
  <1>1. Kubelet!Discovers(k) = Key("Service", name)
    BY SameNames DEF Kubelet!Discovers
  <1>2. ASSUME store[Key("Service", name)].data = ManagementService(name),
               \/ labels = ManagementLabels(name)
               \/ \E group, spec : labels = GroupLabels(group, spec) /\ spec.cluster = name
               \/ \E spec : labels \in {ControllerLabels(spec), WorkerLabels(spec)}
                            /\ spec.cluster = name
        PROVE  Kubelet!LeadsTo(Kubelet!Discovers(k), k)
    <2>1. /\ "app" \in DOMAIN labels /\ labels.app = AtomixApp
          /\ "cluster" \in DOMAIN labels /\ labels.cluster = name
      BY <1>2, LabelFacts
    <2> QED BY <1>1, <1>2, <2>1, ManagementSelects
  <1> HIDE DEF labels, name
  <1>3. CASE running[k].object.owner.cr.kind = AtomixCluster
    <2>1. PICK cr \in CRs : /\ cr.kind = AtomixCluster
                           /\ labels = ManagementLabels(cr.name)
                           /\ running[k].script.data.file = InitScript(cr.name)
      BY <1>3, ClusterPod DEF labels
    <2>2. name = cr.name
      BY <2>1 DEF InitScript, name
    <2>3. Key(AtomixCluster, name) \in CRs
      BY <2>1, <2>2, CRFacts
    <2>4. store[Key("Service", name)].data = ManagementService(name)
      BY <1>1, <2>3, NamedService
    <2> QED BY <1>2, <2>1, <2>2, <2>4
  <1>4. CASE running[k].object.owner.cr.kind = PartitionGroup
    <2>1. PICK cr \in CRs :
              LET manifest == store[cr].spec
                  spec == SetDefaultsPartitionGroup(Decode(manifest))
              IN  /\ cr.kind = PartitionGroup /\ manifest \in Specs[cr.kind]
                  /\ labels = GroupLabels(cr.name, spec)
                  /\ spec.cluster = manifest.cluster
                  /\ running[k].script.data.file = InitScript(manifest.cluster)
      BY <1>4, GroupPod DEF labels
    <2>2. name = store[cr].spec.cluster
      BY <2>1 DEF InitScript, name
    <2>3. store[Key("Service", name)].data = ManagementService(name)
      BY <1>1, <2>1, <2>2, NamedService
    <2> QED BY <1>2, <2>1, <2>2, <2>3
  <1>5. CASE running[k].object.owner.cr.kind = AtomixBenchmark
    <2>1. PICK cr \in CRs :
              LET spec == store[cr].spec
              IN  /\ cr.kind = AtomixBenchmark /\ spec \in Specs[cr.kind]
                  /\ labels \in {ControllerLabels(spec), WorkerLabels(spec)}
                  /\ name = spec.cluster
      BY <1>5, BenchmarkPod DEF labels, name
    <2>2. store[Key("Service", name)].data = ManagementService(name)
      BY <1>1, <2>1, NamedService
    <2> QED BY <1>2, <2>1, <2>2
  <1> QED BY <1>3, <1>4, <1>5, PodKind DEF Kind

\* The service a pod announces is its own CR's, and selects it.
LEMMA FoundByItsAddress ==
    ASSUME ObjectsInv, PodsInv
    PROVE  AnnouncesItself
  <1> DEFINE labelsOf(k) == Kubelet!Template(running[k].object, k).labels
  <1> SUFFICES ASSUME NEW k \in PodOwners, Running(k), Present(Kubelet!Announces(k)),
                      labelsOf(k).type # BenchWorkerType
               PROVE  Kubelet!LeadsTo(Kubelet!Announces(k), k)
    BY DEF AnnouncesItself
  <1> DEFINE labels == labelsOf(k)
             host == running[k].script.data.file.host
             service == Kubelet!Announces(k)
  <1>1. service = Key("Service", IF host = PodDomain THEN running[k].object.data.serviceName
                                                     ELSE host)
    BY SameNames DEF Kubelet!Announces
  <1>2. store[service] # None
    BY DEF Present
  <1>3. ASSUME store[service].data.selector = labels
        PROVE  Kubelet!LeadsTo(service, k)
    BY <1>3 DEF Kubelet!LeadsTo
  <1> HIDE DEF service
  <1>4. CASE running[k].object.owner.cr.kind = AtomixCluster
    <2>1. PICK cr \in CRs : /\ cr.kind = AtomixCluster
                           /\ labels = ManagementLabels(cr.name)
                           /\ running[k].object.data.serviceName = cr.name
                           /\ running[k].script.data.file = InitScript(cr.name)
      BY <1>4, ClusterPod
    <2>2. service = Key("Service", cr.name)
      BY <1>1, <2>1 DEF InitScript
    <2>3. Key(AtomixCluster, cr.name) \in CRs /\ Present(service)
      BY <2>1, CRFacts DEF service
    <2>4. store[service].data = ManagementService(cr.name)
      BY <2>2, <2>3, NamedService
    <2> HIDE DEF labels
    <2>5. /\ "app" \in DOMAIN labels /\ labels.app = AtomixApp
          /\ "cluster" \in DOMAIN labels /\ labels.cluster = cr.name
      BY <2>1, LabelFacts
    <2>6. Kubelet!LeadsTo(service, k)
      BY <2>4, <2>5, ManagementSelects DEF labels
    <2> QED BY <2>6 DEF service
  <1>5. CASE running[k].object.owner.cr.kind = PartitionGroup
    <2>1. PICK cr \in CRs :
              LET manifest == store[cr].spec
                  spec == SetDefaultsPartitionGroup(Decode(manifest))
              IN  /\ cr.kind = PartitionGroup
                  /\ labels = GroupLabels(cr.name, spec)
                  /\ running[k].object.data.serviceName = cr.name
                  /\ running[k].script.data.file = InitScript(manifest.cluster)
      BY <1>5, GroupPod
    <2>2. service = Key("Service", cr.name)
      BY <1>1, <2>1 DEF InitScript
    <2>3. /\ store[cr].spec \in Specs[cr.kind]
          /\ store[service].data = BuildDeployment(cr, "Service", store[cr].spec)
      BY <1>2, <2>1, <2>2, SetServices
    <2>4. store[service].data.selector = labels
      BY <2>1, <2>3, ScriptsAndServices
    <2> QED BY <1>3, <2>4 DEF service
  <1>6. CASE running[k].object.owner.cr.kind = AtomixBenchmark
    <2>1. PICK cr \in CRs :
              LET spec == store[cr].spec
              IN  /\ cr.kind = AtomixBenchmark /\ spec \in Specs[cr.kind]
                  /\ labels \in {ControllerLabels(spec), WorkerLabels(spec)}
                  /\ host = ResourceName(cr.name, ServiceSuffix)
      BY <1>6, BenchmarkPod
    <2>2. labels = ControllerLabels(store[cr].spec)
      BY <2>1 DEF WorkerLabels
    <2>3. host # PodDomain
      BY <2>1, CRFacts, NameFacts DEF PodDomain
    <2>4. service = DeploymentKey(cr, "ControllerService")
      BY <1>1, <2>1, <2>3 DEF DeploymentKey, BenchmarkKey, AtomixCluster, PartitionGroup,
                              AtomixBenchmark
    <2>5. "ControllerService" \in OwnSteps(cr.kind)
      BY <2>1 DEF OwnSteps, ControllerSteps
    <2>6. store[service].data = BuildDeployment(cr, "ControllerService", store[cr].spec)
      BY <1>2, <2>4, <2>5, StoredObject
    <2>7. store[service].data.selector = labels
      BY <2>1, <2>2, <2>6, BenchmarkObjects
    <2> QED BY <1>3, <2>7 DEF service
  <1> QED BY <1>4, <1>5, <1>6, PodKind DEF Kind

\* The set and the configuration of a group are made from one spec, of one protocol.
LEMMA FitsItsProtocol ==
    ASSUME ObjectsInv, PodsInv
    PROVE  ConfigFitsPods
  <1> SUFFICES ASSUME NEW k \in PodOwners, Running(k),
                      running[k].object.owner.cr.kind = PartitionGroup
               PROVE  LET set == running[k].object.data
                          file == running[k].config.data.file
                      IN  /\ (set.claims # << >>) <=> file.type \in {RaftType, LogType}
                          /\ \A setting \in DOMAIN file \cap {"partitions", "partitionSize"} :
                                 file[setting] # 0
                          /\ \A setting \in DOMAIN file \cap {"level", "strategy"} :
                                 file[setting] # ""
    BY DEF ConfigFitsPods, PodsOf
  <1>1. PICK cr \in CRs :
            LET manifest == store[cr].spec
                spec == SetDefaultsPartitionGroup(Decode(manifest))
                set == running[k].object.data
            IN  /\ cr.kind = PartitionGroup /\ manifest \in Specs[cr.kind]
                /\ set.claims # << >> <=> GroupTypeOf(spec) \in {RaftType, LogType}
                /\ running[k].config.data = BuildDeployment(cr, "SystemConfig", manifest)
                /\ running[k].config.data # None
    BY GroupPod
  <1> DEFINE file == running[k].config.data.file
  <1>2. /\ file.type = GroupTypeOf(SetDefaultsPartitionGroup(Decode(store[cr].spec)))
        /\ \A setting \in DOMAIN file \cap {"partitions", "partitionSize"} :
               file[setting] # 0
        /\ \A setting \in DOMAIN file \cap {"level", "strategy"} : file[setting] # ""
    BY <1>1, GroupFile
  <1> HIDE DEF file
  <1> QED BY <1>1, <1>2 DEF file

\* Budget and pods are told the same size.
LEMMA GuardsAMajority ==
    ASSUME ObjectsInv, PodsInv
    PROVE  BudgetIsMajority
  <1> SUFFICES ASSUME NEW k \in PodOwners, Running(k),
                      running[k].object.owner.cr.kind \in {AtomixCluster, PartitionGroup},
                      store[DeploymentKey(running[k].object.owner.cr, "DisruptionBudget")] # None
               PROVE  LET budget == store[DeploymentKey(running[k].object.owner.cr,
                                                        "DisruptionBudget")]
                          nodes == running[k].object.data.template.nodes
                      IN  /\ 2 * budget.data.minAvailable > nodes
                          /\ budget.data.minAvailable <= nodes
    BY DEF BudgetIsMajority, PodsOf
  <1> DEFINE nodes == running[k].object.data.template.nodes
  <1>1. ASSUME NEW cr \in CRs, running[k].object.owner.cr = cr
        PROVE  /\ store[cr].spec \in Specs[cr.kind]
               /\ store[DeploymentKey(cr, "DisruptionBudget")].data =
                      BuildDeployment(cr, "DisruptionBudget", store[cr].spec)
    <2>1. "DisruptionBudget" \in OwnSteps(cr.kind)
      BY <1>1 DEF OwnSteps, AtomixCluster, PartitionGroup, AtomixBenchmark
    <2> QED BY <1>1, <2>1, StoredObject
  <1>2. CASE running[k].object.owner.cr.kind = AtomixCluster
    <2>1. PICK cr \in CRs :
              LET size == SetDefaultsCluster(store[cr].spec).size
              IN  /\ cr.kind = AtomixCluster /\ running[k].object.owner.cr = cr
                  /\ size \in Int /\ size >= 1 /\ nodes = size
      BY <1>2, ClusterPod
    <2>2. store[DeploymentKey(cr, "DisruptionBudget")].data = DisruptionBudget(nodes)
      BY <1>1, <2>1, ScriptsAndServices
    <2> HIDE DEF nodes
    <2>3. LET budget == DisruptionBudget(nodes) IN
          2 * budget.minAvailable > nodes /\ budget.minAvailable <= nodes
      BY <2>1, MajorityFacts
    <2> QED BY <2>1, <2>2, <2>3 DEF nodes
  <1>3. CASE running[k].object.owner.cr.kind = PartitionGroup
    <2>1. PICK cr \in CRs :
              LET size == SetDefaultsPartitionGroup(Decode(store[cr].spec)).size
              IN  /\ cr.kind = PartitionGroup /\ running[k].object.owner.cr = cr
                  /\ size \in Int /\ size >= 1 /\ nodes = size
      BY <1>3, GroupPod
    <2>2. store[DeploymentKey(cr, "DisruptionBudget")].data = DisruptionBudget(nodes)
      BY <1>1, <2>1, ScriptsAndServices
    <2> HIDE DEF nodes
    <2>3. LET budget == DisruptionBudget(nodes) IN
          2 * budget.minAvailable > nodes /\ budget.minAvailable <= nodes
      BY <2>1, MajorityFacts
    <2> QED BY <2>1, <2>2, <2>3 DEF nodes
  <1> QED BY <1>2, <1>3

\* The step of the coordinator comes before that of the workers, so it made the script.
LEMMA CoordinatorStarts ==
    ASSUME ObjectsInv, PodsInv
    PROVE  CoordinatorJoinsCluster
  <1> SUFFICES ASSUME NEW k \in PodOwners, k.kind = "Pod", store[k] # None,
                      Kubelet!Mounted(store[k].data.initScript) # None
               PROVE  LET script == Kubelet!Mounted(store[k].data.initScript)
                          service == BenchmarkKey(store[k].owner.cr, "ControllerService")
                      IN  /\ Kubelet!Succeeds(script, k)
                          /\ script.data.file.service = store[k].data.labels.cluster
                          /\ script.data.file.host = service.name
    BY DEF CoordinatorJoinsCluster
  <1>1. PICK cr \in CRs : cr.kind = AtomixBenchmark /\ k = DeploymentKey(cr, "ControllerPod")
    BY PodSteps
  <1> DEFINE spec == store[cr].spec
             script == Kubelet!Mounted(store[k].data.initScript)
             service == BenchmarkKey(cr, "ControllerService")
  <1>2. /\ "ControllerPod" \in OwnSteps(cr.kind)
        /\ "ControllerInitScript" \in OwnSteps(cr.kind)
        /\ "ControllerPod" \in PodStepsOf(cr.kind)
        /\ ScriptStep(cr.kind) = "ControllerInitScript"
    BY <1>1 DEF OwnSteps, ControllerSteps, PodStepsOf, ScriptStep
  <1>3. /\ spec \in Specs[cr.kind] /\ store[k].owner.cr = cr
        /\ store[k].data = BuildDeployment(cr, "ControllerPod", spec)
    BY <1>1, <1>2, StoredObject
  <1>4. Kubelet!Template(store[k], k) = store[k].data
    BY DEF Kubelet!Template
  <1>5. script = store[DeploymentKey(cr, "ControllerInitScript")]
    BY <1>1, <1>2, <1>4, Mounts, SameNames DEF Kubelet!Mounted
  <1>6. script.data = BuildDeployment(cr, "ControllerInitScript", spec)
    BY <1>2, <1>5, StoredObject
  <1> HIDE DEF spec, script
  <1>7. /\ store[k].data.labels = ControllerLabels(spec)
        /\ script.data.file.service = spec.cluster
        /\ script.data.file.host = ResourceName(cr.name, ServiceSuffix)
    BY <1>1, <1>3, <1>6, BenchmarkObjects
  <1>8. service.name = ResourceName(cr.name, ServiceSuffix)
    BY DEF BenchmarkKey, Key
  <1>9. script.data.file.host # PodDomain
    BY <1>7, CRFacts, NameFacts DEF PodDomain
  <1>10. Kubelet!Succeeds(script, k)
    BY <1>9, SameNames DEF Kubelet!Succeeds
  <1>11. store[k].data.labels.cluster = spec.cluster
    BY <1>7 DEF ControllerLabels
  <1> QED BY <1>3, <1>7, <1>8, <1>10, <1>11 DEF script

------------------------------------------------------------------------------
(* Both invariants hold throughout, and with them the properties.          *)

\* Objects and pods are what these invariants say they are.
LEMMA WorkloadInvariant == WorkloadSpec => [](ObjectsInv /\ PodsInv)
  <1>1. WorkloadInit => ObjectsInv /\ PodsInv
    <2> SUFFICES ASSUME WorkloadInit PROVE ObjectsInv /\ PodsInv
      OBVIOUS
    <2>1. ObjectsInv
      BY InitObjects DEF WorkloadInit
    <2>2. PodsInv
      BY DEF WorkloadInit, PodsInv
    <2> QED BY <2>1, <2>2
  <1>2. (ObjectsInv /\ PodsInv) /\ [WorkloadNext]_<<vars, running>>
            => (ObjectsInv /\ PodsInv)'
    BY ObjectsHold, PodsHold
  <1> QED BY <1>1, <1>2, PTL DEF WorkloadSpec

\* Discovery: whatever the manifests, every pod is among those that the service leads to
\* by which its script looks for the other nodes (labels and selectors of cluster.go,
\* partitiongroup.go and benchmark.go).
THEOREM EveryPodIsDiscoverable == WorkloadSpec => []Discoverable
  <1>1. ObjectsInv /\ PodsInv => Discoverable
    BY FindsItsCluster
  <1> QED BY <1>1, WorkloadInvariant, PTL

\* Addresses: the name that a pod of a cluster, a pod of a group or a coordinator
\* announces in its init script leads to it.
THEOREM EveryPodAnnouncesItself == WorkloadSpec => []AnnouncesItself
  <1>1. ObjectsInv /\ PodsInv => AnnouncesItself
    BY FoundByItsAddress
  <1> QED BY <1>1, WorkloadInvariant, PTL

\* Protocols: the StatefulSet of a group claims volumes exactly when its configuration
\* names a protocol that keeps its log on disk, although the two are told by switches
\* of their own, and the defaults leave none of the protocol's settings without a value.
THEOREM EveryConfigFitsItsPods == WorkloadSpec => []ConfigFitsPods
  <1>1. ObjectsInv /\ PodsInv => ConfigFitsPods
    BY FitsItsProtocol
  <1> QED BY <1>1, WorkloadInvariant, PTL

\* Budgets: for every size the API server accepts, the disruption budget asks for a
\* majority of the pods and for no more than all of them.
THEOREM EveryBudgetIsMajority == WorkloadSpec => []BudgetIsMajority
  <1>1. ObjectsInv /\ PodsInv => BudgetIsMajority
    BY GuardsAMajority
  <1> QED BY <1>1, WorkloadInvariant, PTL

\* Coordinators: the script a coordinator mounts is its own, not the workers', whose
\* step goes by the same name, and it leads to the cluster under test.
THEOREM EveryCoordinatorJoins == WorkloadSpec => []CoordinatorJoinsCluster
  <1>1. ObjectsInv /\ PodsInv => CoordinatorJoinsCluster
    BY CoordinatorStarts
  <1> QED BY <1>1, WorkloadInvariant, PTL

==============================================================================

------------------------------ MODULE Workload -------------------------------
(***************************************************************************)
(* Clusters, partition groups and benchmarks of them, and their pods.      *)
(*                                                                         *)
(* The objects come as Provisioning allows, which is all the controllers   *)
(* may do (Operator!Provisions); pods start and stop at any time.  Users   *)
(* edit nothing: after an edit the objects of a CR stem from two specs,    *)
(* and nobody promises that these fit each other.  Nor do they delete      *)
(* anything, or use a name again: see MCGroupPods for what comes of that.  *)
(***************************************************************************)
EXTENDS Provisioning, ClusterResources, PartitionGroupResources, BenchmarkResources

VARIABLE running        \* see Pods

Kubelet == INSTANCE Pods

------------------------------------------------------------------------------
(* What is deployed: the steps, keys and objects of all three controllers. *)

Kind == {AtomixCluster, PartitionGroup, AtomixBenchmark}

DeploymentSteps(kind) ==
    CASE kind = AtomixCluster -> ClusterSteps
      [] kind = PartitionGroup -> GroupSteps
      [] kind = AtomixBenchmark -> BenchmarkSteps

DeploymentKey(cr, step) ==
    CASE cr.kind = AtomixCluster -> ClusterKey(cr, step)
      [] cr.kind = PartitionGroup -> GroupKey(cr, step)
      [] cr.kind = AtomixBenchmark -> BenchmarkKey(cr, step)

BuildDeployment(cr, step, spec) ==
    CASE cr.kind = AtomixCluster -> BuildCluster(cr, step, spec)
      [] cr.kind = PartitionGroup -> BuildGroup(cr, step, spec)
      [] cr.kind = AtomixBenchmark -> BuildBenchmark(cr, step, spec)

ASSUME DeploymentsAssumption ==
    \A cr \in CRs :
        /\ cr.kind \in Kind /\ cr.name \in Seq(STRING) /\ cr = Key(cr.kind, cr.name)
        /\ None \notin ObjectValues[cr]
        /\ Steps[cr.kind] = DeploymentSteps(cr.kind)
        /\ \A i \in StepNumbers(cr.kind) :
               LET step == Steps[cr.kind][i] IN
               /\ KeyOf(cr, step) = DeploymentKey(cr, step)
               /\ \A spec \in Specs[cr.kind] :
                      Build(cr, step, spec) = BuildDeployment(cr, step, spec)

\* No two CRs have names that lead to an object of the same name.
ASSUME NamesAssumption ==
    \A cr \in CRs, dr \in CRs :
        \A i \in StepNumbers(cr.kind), j \in StepNumbers(dr.kind) :
            StepKey(cr, i) = StepKey(dr, j) => cr = dr

\* None is nothing else, neither a type of group nor what the defaults make of a protocol.
ASSUME ProtocolsAssumption ==
    /\ None \notin {RaftType, PrimaryBackupType, LogType}
    /\ \A cr \in CRs : cr.kind = PartitionGroup => \A manifest \in Specs[cr.kind] :
           LET spec == Decode(manifest) IN
           /\ spec.raft # None => SetDefaultsRaft(spec.raft) # None
           /\ spec.primaryBackup # None => SetDefaultsPrimaryBackup(spec.primaryBackup) # None
           /\ spec.log # None => SetDefaultsLog(spec.log) # None

\* Sizes are numbers.  The service that groups and benchmarks name is that of a
\* cluster, if anything of that name is deployed by the operator at all.
ASSUME ManifestsAssumption ==
    \A cr \in CRs : \A spec \in Specs[cr.kind] :
        /\ cr.kind \in {AtomixCluster, PartitionGroup} => spec.size \in Int
        /\ /\ cr.kind \in {PartitionGroup, AtomixBenchmark}
           /\ Key("Service", spec.cluster) \in Dependents
           => Key(AtomixCluster, spec.cluster) \in CRs

------------------------------------------------------------------------------
PodOwners == {k \in Dependents : k.kind \in Kubelet!PodKinds}

WorkloadInit ==
    /\ Init
    /\ running = [k \in PodOwners |-> None]

ObjectStep ==
    \/ \E cr \in CRs : \E spec \in Specs[cr.kind] : CreateCR(cr, spec)
    \/ OperatorStep

PodStep == \E k \in PodOwners : Kubelet!StartPod(k) \/ Kubelet!StopPod(k)

WorkloadNext ==
    \/ ObjectStep /\ UNCHANGED running
    \/ PodStep /\ UNCHANGED <<nextUid, given, lost>>

WorkloadSpec == WorkloadInit /\ [][WorkloadNext]_<<vars, running>>

------------------------------------------------------------------------------
Running(k) == running[k] # None

\* The pods of the CRs of a kind, and what there is of the objects.
PodsOf(kind) == {k \in PodOwners : Running(k) /\ running[k].object.owner.cr.kind = kind}
Present(k) == k \in DOMAIN store /\ store[k] # None

(***************************************************************************)
(* Discovery.  The service by which a pod looks for the other nodes leads  *)
(* to the pod itself: nodes of a cluster, of its groups and its benchmarks *)
(* find each other under one name, that of the service of the cluster,     *)
(* although they get their labels and their script from three controllers. *)
(***************************************************************************)
Discoverable ==
    \A k \in PodOwners : Running(k) /\ Present(Kubelet!Discovers(k)) =>
        Kubelet!LeadsTo(Kubelet!Discovers(k), k)

(***************************************************************************)
(* Addresses.  The address a pod announces is one that leads to it.  Not   *)
(* so for workers of a benchmark, which run the coordinator's script.      *)
(***************************************************************************)
AnnouncesItself ==
    \A k \in PodOwners :
        /\ Running(k) /\ Present(Kubelet!Announces(k))
        /\ Kubelet!Template(running[k].object, k).labels.type # BenchWorkerType
        => Kubelet!LeadsTo(Kubelet!Announces(k), k)

(***************************************************************************)
(* The protocol of a partition group fits the pods that run it: one that   *)
(* keeps its log on disk runs where there are volume claims and no other   *)
(* does, no setting of the protocol is left without a value.  (A negative  *)
(* number of partitions is a value: nobody objects to it.)                 *)
(***************************************************************************)
ConfigFitsPods ==
    \A k \in PodsOf(PartitionGroup) :
        LET set == running[k].object.data
            file == running[k].config.data.file
        IN  /\ (set.claims # << >>) <=> file.type \in {RaftType, LogType}
            /\ \A setting \in DOMAIN file \cap {"partitions", "partitionSize"} :
                   file[setting] # 0
            /\ \A setting \in DOMAIN file \cap {"level", "strategy"} : file[setting] # ""

(***************************************************************************)
(* The budget of a cluster or group asks for a majority of the nodes its   *)
(* pods were told of, and for no more than there are.                      *)
(***************************************************************************)
BudgetIsMajority ==
    \A k \in PodsOf(AtomixCluster) \cup PodsOf(PartitionGroup) :
        LET budget == store[DeploymentKey(running[k].object.owner.cr, "DisruptionBudget")]
            nodes == running[k].object.data.template.nodes
        IN  budget # None =>
                /\ 2 * budget.data.minAvailable > nodes
                /\ budget.data.minAvailable <= nodes

(***************************************************************************)
(* The coordinator of a benchmark starts, joins the cluster under test and *)
(* announces its own service, although the workers' script goes by the     *)
(* same name as its own: whichever step finds it missing makes it, and the *)
(* workers' script would exit with an error in the coordinator.            *)
(***************************************************************************)
CoordinatorJoinsCluster ==
    \A k \in PodOwners : k.kind = "Pod" /\ store[k] # None =>
        LET script == Kubelet!Mounted(store[k].data.initScript)
            service == BenchmarkKey(store[k].owner.cr, "ControllerService")
        IN  script # None =>
                /\ Kubelet!Succeeds(script, k)
                /\ script.data.file.service = store[k].data.labels.cluster
                /\ script.data.file.host = service.name

==============================================================================

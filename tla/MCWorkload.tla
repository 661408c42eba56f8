----------------------------- MODULE MCWorkload ------------------------------
(* A cluster, a partition group of it and a benchmark of it.               *)
EXTENDS Workload

ClusterC == Key(AtomixCluster, <<"c">>)
GroupG == Key(PartitionGroup, <<"g">>)
BenchmarkB == Key(AtomixBenchmark, <<"b">>)

MCCRs == {ClusterC, GroupG, BenchmarkB}
MCSteps == [c \in Kind |-> DeploymentSteps(c)]

ClusterSpec(size, storage) ==
    [version |-> "", size |-> size, storage |-> [size |-> storage, level |-> ""]]

StorageSpec(size) == [size |-> size, level |-> ""]
RaftSpec(size) == [partitionSize |-> 0, storage |-> StorageSpec(size)]
PrimaryBackupSpec == [memberGroupStrategy |-> ""]
LogSpec == [memberGroupStrategy |-> "rack_aware", storage |-> StorageSpec("64M")]

\* A group whose manifest configures no protocol.
Manifest(size) ==
    [cluster |-> ClusterC.name, version |-> "", size |-> size, partitions |-> 0,
     raft |-> None, primaryBackup |-> None, log |-> None, logOmitempty |-> None]

\* Every protocol, two at once, none that is known, sizes that are no quantity, left
\* out or negative, and a negative number of partitions.
GroupManifests ==
    {[Manifest(3) EXCEPT !.raft = RaftSpec("")],
     [Manifest(3) EXCEPT !.raft = RaftSpec("2 G")],
     [Manifest(0) EXCEPT !.primaryBackup = PrimaryBackupSpec],
     [Manifest(-2) EXCEPT !.primaryBackup = PrimaryBackupSpec],
     [Manifest(4) EXCEPT !.raft = RaftSpec("1G"), !.primaryBackup = PrimaryBackupSpec],
     [Manifest(2) EXCEPT !.log = LogSpec],
     [Manifest(2) EXCEPT !.logOmitempty = LogSpec, !.partitions = -1]}

MCSpecs == [c \in Kind |->
    CASE c = AtomixCluster -> {ClusterSpec(3, ""), ClusterSpec(-1, "")}
      [] c = PartitionGroup -> GroupManifests
      [] c = AtomixBenchmark ->
             {[cluster |-> ClusterC.name, version |-> "", workers |-> n] : n \in {0, 2}}]

MCData == UNION {{BuildDeployment(cr, Steps[cr.kind][i], s) :
                      i \in StepNumbers(cr.kind), s \in Specs[cr.kind]} : cr \in CRs} \ {None}

==============================================================================

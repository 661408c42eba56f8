----------------------------- MODULE MCOperator ------------------------------
(***************************************************************************)
(* The controllers of clusters and of partition groups side by side: both  *)
(* name their objects after the CR, keep them in the same informer caches  *)
(* and are told of StatefulSets by the same watch.                         *)
(***************************************************************************)
EXTENDS Operator, ClusterResources, PartitionGroupResources

Kind == {AtomixCluster, PartitionGroup}
ClusterA == Key(AtomixCluster, <<"a">>)
GroupA == Key(PartitionGroup, <<"a">>)
GroupB == Key(PartitionGroup, <<"b">>)

DistinctNames == {ClusterA, GroupB}
SameName == {ClusterA, GroupA}

MCWatchedKind == [c \in Kind |->
    IF c = AtomixCluster THEN ClusterWatches ELSE GroupWatches]
SetOnly == [c \in Kind |-> <<"StatefulSet">>]

MCSpecs == [c \in Kind |->
    IF c = AtomixCluster
    THEN {[version |-> "", size |-> 3, storage |-> [size |-> "", level |-> ""]]}
    ELSE {[cluster |-> <<"a">>, version |-> "", size |-> 2, partitions |-> 0,
           raft |-> None, primaryBackup |-> [memberGroupStrategy |-> ""],
           log |-> None, logOmitempty |-> None]}]

MCKeyOf(cr, step) ==
    IF cr.kind = AtomixCluster THEN ClusterKey(cr, step) ELSE GroupKey(cr, step)

MCBuild(cr, step, spec) ==
    IF cr.kind = AtomixCluster THEN BuildCluster(cr, step, spec)
                               ELSE BuildGroup(cr, step, spec)

MCData == UNION {{MCBuild(cr, Steps[cr.kind][i], s) :
                      i \in StepNumbers(cr.kind), s \in Specs[cr.kind]} : cr \in CRs}

(***************************************************************************)
(* "When a partition group is added, the operator will create a new        *)
(* StatefulSet and service for the partition group."                       *)
(***************************************************************************)
GroupHasItsOwn ==
    \A cr \in CRs : cr.kind = PartitionGroup /\ store[cr] # None =>
        LET set == store[GroupKey(cr, "StatefulSet")]
        IN  set # None /\ set.owner.cr = cr

GroupsProvisioned == <>[]GroupHasItsOwn

\* No wake-up is lost under these conditions (NoticeProofs).
ASSUME WakeUpsAssumption == CRs = DistinctNames => (WatchedUnshared /\ LossesAreTold)

==============================================================================

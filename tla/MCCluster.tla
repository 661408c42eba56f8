------------------------------ MODULE MCCluster ------------------------------
(* The AtomixCluster controller on its own, with one cluster name.         *)
EXTENDS Operator, ClusterResources

ClusterSpec(size, storage) ==
    [version |-> "", size |-> size, storage |-> [size |-> storage, level |-> ""]]

MCCRs == {Key(AtomixCluster, <<"a">>)}
MCWatchedKind == [c \in {AtomixCluster} |-> ClusterWatches]
\* A step whose result is not watched, and one whose result is.
BudgetAndSet == [c \in {AtomixCluster} |-> <<"DisruptionBudget", "StatefulSet">>]

TwoSizes == [c \in {AtomixCluster} |-> {ClusterSpec(3, ""), ClusterSpec(0, "1G")}]

MCData == {BuildCluster(cr, ClusterSteps[i], s) :
               cr \in MCCRs, i \in DOMAIN ClusterSteps, s \in AllSpecs} \ {None}

\* No wake-up is lost under these conditions (NoticeProofs).
ASSUME WakeUpsAssumption == WatchedUnshared /\ LossesAreTold

==============================================================================

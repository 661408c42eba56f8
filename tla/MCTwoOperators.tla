--------------------------- MODULE MCTwoOperators ----------------------------
(* Two operators and one cluster.                                          *)
EXTENDS TwoOperators, ClusterResources

MCCRs == {Key(AtomixCluster, <<"a">>)}
MCWatchedKind == [c \in {AtomixCluster} |-> ClusterWatches]
SetOnly == [c \in {AtomixCluster} |-> <<"StatefulSet">>]
TwoSizes == [c \in {AtomixCluster} |->
    {[version |-> "", size |-> n, storage |-> [size |-> "", level |-> ""]] : n \in {3, 5}}]

MCData == {BuildCluster(cr, ClusterSteps[i], s) :
               cr \in MCCRs, i \in DOMAIN ClusterSteps, s \in AllSpecs} \ {None}

\* No wake-up is lost under these conditions (NoticeProofs, TwoOperatorsProofs).
ASSUME WakeUpsAssumption == WatchedUnshared /\ LossesAreTold

==============================================================================

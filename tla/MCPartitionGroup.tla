--------------------------- MODULE MCPartitionGroup --------------------------
(* The PartitionGroup controller on its own, with one group of a cluster.  *)
EXTENDS Operator, PartitionGroupResources

MCCRs == {Key(PartitionGroup, <<"g">>)}
Cluster == <<"c">>

StorageSpec(size) == [size |-> size, level |-> ""]
RaftSpec(size) == [partitionSize |-> 0, storage |-> StorageSpec(size)]
PrimaryBackupSpec == [memberGroupStrategy |-> ""]
LogSpec == [memberGroupStrategy |-> "rack_aware", storage |-> StorageSpec("")]

\* A manifest that configures no protocol.
Manifest(size) ==
    [cluster |-> Cluster, version |-> "", size |-> size, partitions |-> 0,
     raft |-> None, primaryBackup |-> None, log |-> None, logOmitempty |-> None]

Raft == [Manifest(3) EXCEPT !.raft = RaftSpec("")]
RaftOfMinusTwo == [Raft EXCEPT !.size = -2]
PrimaryBackup == [Manifest(0) EXCEPT !.primaryBackup = PrimaryBackupSpec]
Log == [Manifest(2) EXCEPT !.log = LogSpec]

MCWatchedKind == [c \in {PartitionGroup} |-> GroupWatches]
\* The steps that depend on the protocol, and those without which there are no pods.
ProtocolSteps == [c \in {PartitionGroup} |-> <<"SystemConfig", "StatefulSet">>]
PodSteps == [c \in {PartitionGroup} |-> <<"InitScript", "SystemConfig", "StatefulSet">>]

TypoAndFix == [c \in {PartitionGroup} |-> {RaftOfMinusTwo, Raft}]
TwoTypes == [c \in {PartitionGroup} |-> {Raft, PrimaryBackup}]
YamlTypes == [c \in {PartitionGroup} |-> {Raft, PrimaryBackup, Log}]

MCData == {BuildGroup(cr, GroupSteps[i], s) :
               cr \in MCCRs, i \in DOMAIN GroupSteps, s \in AllSpecs} \ {None}

(***************************************************************************)
(* A partition group whose manifest configures one of the documented       *)
(* protocols gets its StatefulSet in the end.                              *)
(***************************************************************************)
Provisioned ==
    \A cr \in CRs : store[cr] # None =>
        LET set == store[GroupKey(cr, "StatefulSet")]
        IN  set # None /\ Alive(set.owner)

EveryGroupProvisioned == <>[]Provisioned

==============================================================================

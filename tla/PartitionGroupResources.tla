----------------------- MODULE PartitionGroupResources -----------------------
(***************************************************************************)
(* What the PartitionGroup controller creates for a partition group.       *)
(*                                                                         *)
(* A manifest configures the protocol of a group in one of the fields      *)
(* raft, primaryBackup and log.  The Go field for the last has the JSON    *)
(* key "log:omitempty"; Go clients write that key, here the field          *)
(* logOmitempty.                                                           *)
(***************************************************************************)
EXTENDS Resources

PartitionGroup == "PartitionGroup"

\* The kind of dependents the controller is told about.
GroupWatches == "StatefulSet"

RaftType == "raft"
PrimaryBackupType == "primary-backup"
LogType == "log"

\* What the operator decodes from a manifest: keys it has no field for are dropped.
Decode(manifest) ==
    [cluster |-> manifest.cluster, version |-> manifest.version,
     size |-> manifest.size, partitions |-> manifest.partitions,
     raft |-> manifest.raft, primaryBackup |-> manifest.primaryBackup,
     log |-> manifest.logOmitempty]

SetDefaultsRaft(group) ==
    [partitionSize |-> Default(group.partitionSize, 0, 3),
     storage |-> SetDefaultsStorage(group.storage)]

SetDefaultsPrimaryBackup(group) ==
    [memberGroupStrategy |-> Default(group.memberGroupStrategy, "", "node_aware")]

SetDefaultsLog(group) ==
    [memberGroupStrategy |-> Default(group.memberGroupStrategy, "", "node_aware"),
     storage |-> SetDefaultsStorage(group.storage)]

\* The first of the three protocols that is configured, None if none is.
GroupTypeOf(spec) ==
    CASE spec.raft # None -> RaftType
      [] spec.raft = None /\ spec.primaryBackup # None -> PrimaryBackupType
      [] spec.raft = None /\ spec.primaryBackup = None /\ spec.log # None -> LogType
      [] OTHER -> None

\* Only the protocol that will be used gets its defaults.
SetDefaultsPartitionGroup(spec) ==
    LET size == Default(spec.size, 0, 1)
        sized == [spec EXCEPT !.version = Default(@, "", "3.1.0"), !.size = size,
                              !.partitions = Default(@, 0, size)]
    IN  CASE GroupTypeOf(spec) = RaftType -> [sized EXCEPT !.raft = SetDefaultsRaft(@)]
          [] GroupTypeOf(spec) = PrimaryBackupType ->
                 [sized EXCEPT !.primaryBackup = SetDefaultsPrimaryBackup(@)]
          [] GroupTypeOf(spec) = LogType -> [sized EXCEPT !.log = SetDefaultsLog(@)]
          [] OTHER -> sized

GroupSteps ==
    <<"InitScript", "SystemConfig", "DisruptionBudget", "StatefulSet", "Service">>

GroupKey(group, step) ==
    LET name == group.name IN
    CASE step = "InitScript" -> Key("ConfigMap", ResourceName(name, InitSuffix))
      [] step = "SystemConfig" -> Key("ConfigMap", ResourceName(name, ConfigSuffix))
      [] step = "DisruptionBudget" ->
             Key("PodDisruptionBudget", ResourceName(name, DisruptionBudgetSuffix))
      [] step = "StatefulSet" -> Key("StatefulSet", name)
      [] step = "Service" -> Key("Service", name)

GroupLabels(name, spec) ==
    [app |-> AtomixApp, cluster |-> spec.cluster, type |-> GroupType, group |-> name]

GroupConfigMap(name, spec, file) == [labels |-> GroupLabels(name, spec), file |-> file]

RaftConfig(name, spec) ==
    [group |-> name, type |-> RaftType, partitions |-> spec.partitions,
     partitionSize |-> spec.raft.partitionSize, level |-> spec.raft.storage.level]

PrimaryBackupConfig(name, spec) ==
    [group |-> name, type |-> PrimaryBackupType, partitions |-> spec.partitions,
     strategy |-> spec.primaryBackup.memberGroupStrategy]

LogConfig(name, spec) ==
    [group |-> name, type |-> LogType, partitions |-> spec.partitions,
     strategy |-> spec.log.memberGroupStrategy, level |-> spec.log.storage.level]

\* None if the type of the group is unknown, which is an error.
GroupConfig(name, spec) ==
    CASE GroupTypeOf(spec) = RaftType -> GroupConfigMap(name, spec, RaftConfig(name, spec))
      [] GroupTypeOf(spec) = PrimaryBackupType ->
             GroupConfigMap(name, spec, PrimaryBackupConfig(name, spec))
      [] GroupTypeOf(spec) = LogType -> GroupConfigMap(name, spec, LogConfig(name, spec))
      [] OTHER -> None

\* A mistake to detect: the selector of a cluster's service, with the group's name.
GroupServiceAsOfCluster(name, spec) ==
    [labels |-> GroupLabels(name, spec), selector |-> [app |-> AtomixApp, cluster |-> name]]

GroupService(name, spec) ==
    [labels |-> GroupLabels(name, spec), selector |-> GroupLabels(name, spec)]

EphemeralStatefulSet(group, spec) ==
    LET labels == GroupLabels(group.name, spec) IN
    [labels |-> labels, selector |-> labels, replicas |-> spec.size,
     serviceName |-> group.name, claims |-> << >>, affinity |-> None,
     template |-> PodTemplate(labels, AtomixImage(spec.version), spec.size,
                      GroupKey(group, "InitScript").name,
                      GroupKey(group, "SystemConfig").name)]

PersistentStatefulSet(group, spec, storage) ==
    LET claims == PersistentVolumeClaims(storage.size) IN
    IF claims = None THEN None
    ELSE [EphemeralStatefulSet(group, spec) EXCEPT
              !.claims = claims, !.affinity = Affinity(group.name)]

\* A mistake to detect: to look at the protocols in another order than GroupTypeOf.
PrimaryBackupSetFirst(group, spec) ==
    LET set == CASE spec.primaryBackup # None -> EphemeralStatefulSet(group, spec)
                 [] spec.primaryBackup = None /\ spec.raft # None ->
                        PersistentStatefulSet(group, spec, spec.raft.storage)
                 [] spec.primaryBackup = None /\ spec.raft = None /\ spec.log # None ->
                        PersistentStatefulSet(group, spec, spec.log.storage)
                 [] OTHER -> None
    IN  Accepted(set, spec.size)

GroupStatefulSet(group, spec) ==
    LET type == GroupTypeOf(spec)
        set == CASE type = RaftType -> PersistentStatefulSet(group, spec, spec.raft.storage)
                 [] type = PrimaryBackupType -> EphemeralStatefulSet(group, spec)
                 [] type = LogType -> PersistentStatefulSet(group, spec, spec.log.storage)
                 [] OTHER -> None
    IN  Accepted(set, spec.size)

\* The init script names the service of the cluster the group belongs to.
BuildGroup(group, step, manifest) ==
    LET spec == SetDefaultsPartitionGroup(Decode(manifest)) IN
    CASE step = "InitScript" ->
             GroupConfigMap(group.name, spec, InitScript(spec.cluster))
      [] step = "SystemConfig" -> GroupConfig(group.name, spec)
      [] step = "DisruptionBudget" -> DisruptionBudget(spec.size)
      [] step = "StatefulSet" -> GroupStatefulSet(group, spec)
      [] step = "Service" -> GroupService(group.name, spec)

==============================================================================

--------------------------- MODULE ClusterResources --------------------------
(* What the AtomixCluster controller creates for a cluster.                *)
EXTENDS Resources

AtomixCluster == "AtomixCluster"

\* The kind of dependents the controller is told about.
ClusterWatches == "StatefulSet"

SetDefaultsCluster(spec) ==
    [version |-> Default(spec.version, "", "3.1.0"),
     size |-> Default(spec.size, 0, 1),
     storage |-> SetDefaultsStorage(spec.storage)]

\* The order of Reconcile.
ClusterSteps ==
    <<"InitScript", "SystemConfig", "DisruptionBudget", "StatefulSet", "Service">>

ClusterKey(cluster, step) ==
    LET name == cluster.name IN
    CASE step = "InitScript" -> Key("ConfigMap", ResourceName(name, InitSuffix))
      [] step = "SystemConfig" -> Key("ConfigMap", ResourceName(name, ConfigSuffix))
      [] step = "DisruptionBudget" ->
             Key("PodDisruptionBudget", ResourceName(name, DisruptionBudgetSuffix))
      [] step = "StatefulSet" -> Key("StatefulSet", name)
      [] step = "Service" -> Key("Service", name)

ManagementLabels(name) ==
    [app |-> AtomixApp, cluster |-> name, type |-> ManagementType]

ManagementConfigMap(name, script) ==
    [labels |-> ManagementLabels(name), file |-> script]

\* The group that holds the metadata of the cluster; ${atomix.members} in its file is
\* what the init script writes, as many members as there are nodes.
ManagementConfig == [managementGroup |-> "raft", partitions |-> 1, level |-> "disk"]

\* A mistake to detect: a service for the cluster's own nodes only.
ManagementServiceByType(name) ==
    [labels |-> ManagementLabels(name), selector |-> ManagementLabels(name)]

\* The service by which all pods of a cluster find each other: those of its groups
\* and benchmarks have the same app and cluster, and another type.
ManagementService(name) ==
    [labels |-> ManagementLabels(name),
     selector |-> [app |-> AtomixApp, cluster |-> name]]

ManagementStatefulSet(cluster, spec) ==
    LET labels == ManagementLabels(cluster.name)
        claims == PersistentVolumeClaims(spec.storage.size)
        set == [labels |-> labels, selector |-> labels, replicas |-> spec.size,
                serviceName |-> cluster.name, claims |-> claims,
                affinity |-> Affinity(cluster.name),
                template |-> PodTemplate(labels, AtomixImage(spec.version), spec.size,
                                 ClusterKey(cluster, "InitScript").name,
                                 ClusterKey(cluster, "SystemConfig").name)]
    IN  IF claims = None THEN None ELSE Accepted(set, spec.size)

BuildCluster(cluster, step, rawSpec) ==
    LET spec == SetDefaultsCluster(rawSpec) IN
    CASE step = "InitScript" ->
             ManagementConfigMap(cluster.name, InitScript(cluster.name))
      [] step = "SystemConfig" ->
             ManagementConfigMap(cluster.name, ManagementConfig)
      [] step = "DisruptionBudget" -> DisruptionBudget(spec.size)
      [] step = "StatefulSet" -> ManagementStatefulSet(cluster, spec)
      [] step = "Service" -> ManagementService(cluster.name)

==============================================================================

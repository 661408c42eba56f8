-------------------------- MODULE BenchmarkResources -------------------------
(***************************************************************************)
(* What the AtomixBenchmark controller creates for a benchmark: a          *)
(* coordinator pod ("controller" in the code) and a StatefulSet of         *)
(* workers, each with ConfigMaps and a service.  The names of the workers' *)
(* ConfigMaps and service are those of the coordinator's.                  *)
(***************************************************************************)
EXTENDS Resources

AtomixBenchmark == "AtomixBenchmark"

\* The kind of dependents the controller is told about: workers are not among them.
BenchmarkWatches == "Pod"

SetDefaultsBenchmark(spec) ==
    [cluster |-> spec.cluster, version |-> Default(spec.version, "", "3.1.0"),
     workers |-> Default(spec.workers, 0, 1)]

\* A mistake to detect: the workers first, with what is named as the coordinator's.
WorkersFirst ==
    <<"WorkerInitScript", "WorkerSystemConfig", "WorkerStatefulSet", "WorkerService",
      "ControllerInitScript", "ControllerSystemConfig", "ControllerPod",
      "ControllerService">>

BenchmarkSteps ==
    <<"ControllerInitScript", "ControllerSystemConfig", "ControllerPod",
      "ControllerService", "WorkerInitScript", "WorkerSystemConfig",
      "WorkerStatefulSet", "WorkerService">>

BenchmarkKey(benchmark, step) ==
    LET name == benchmark.name IN
    CASE step \in {"ControllerInitScript", "WorkerInitScript"} ->
             Key("ConfigMap", ResourceName(name, InitSuffix))
      [] step \in {"ControllerSystemConfig", "WorkerSystemConfig"} ->
             Key("ConfigMap", ResourceName(name, ConfigSuffix))
      [] step = "ControllerPod" -> Key("Pod", name)
      [] step = "WorkerStatefulSet" -> Key("StatefulSet", name)
      [] step \in {"ControllerService", "WorkerService"} ->
             Key("Service", ResourceName(name, ServiceSuffix))

ControllerLabels(spec) ==
    [app |-> AtomixApp, cluster |-> spec.cluster, type |-> BenchCoordinatorType]

WorkerLabels(spec) ==
    [app |-> AtomixApp, cluster |-> spec.cluster, type |-> BenchWorkerType]

\* The coordinator discovers the cluster under test; its host is its service.
ControllerScript(benchmark, spec) ==
    [service |-> spec.cluster, host |-> BenchmarkKey(benchmark, "ControllerService").name]

\* Both configurations say the same: discover the members by DNS.
DiscoveryConfig == [discovery |-> "dns"]

BenchPodTemplate(benchmark, labels, nodes, initScript, config) ==
    PodTemplate(labels, BenchImage, nodes, BenchmarkKey(benchmark, initScript).name,
                BenchmarkKey(benchmark, config).name)

ControllerPod(benchmark, spec) ==
    BenchPodTemplate(benchmark, ControllerLabels(spec), 1,
                     "ControllerInitScript", "ControllerSystemConfig")

WorkerStatefulSet(benchmark, spec) ==
    LET set == [labels |-> WorkerLabels(spec), selector |-> WorkerLabels(spec),
                replicas |-> spec.workers,
                serviceName |-> BenchmarkKey(benchmark, "WorkerService").name,
                claims |-> << >>, affinity |-> None,
                template |-> BenchPodTemplate(benchmark, WorkerLabels(spec), spec.workers,
                                              "WorkerInitScript", "WorkerSystemConfig")]
    IN  Accepted(set, spec.workers)

ConfigMapOf(labels, file) == [labels |-> labels, file |-> file]
ServiceOf(labels) == [labels |-> labels, selector |-> labels]
WorkerService(spec) == ServiceOf(WorkerLabels(spec))

ControllerSteps ==
    {"ControllerInitScript", "ControllerSystemConfig", "ControllerPod", "ControllerService"}

BuildController(benchmark, step, spec) ==
    CASE step = "ControllerInitScript" ->
             ConfigMapOf(ControllerLabels(spec), ControllerScript(benchmark, spec))
      [] step = "ControllerSystemConfig" ->
             ConfigMapOf(ControllerLabels(spec), DiscoveryConfig)
      [] step = "ControllerPod" -> ControllerPod(benchmark, spec)
      [] step = "ControllerService" -> ServiceOf(ControllerLabels(spec))

\* The workers' script names the benchmark where the coordinator's names the cluster.
BuildWorkers(benchmark, step, spec) ==
    CASE step = "WorkerInitScript" ->
             ConfigMapOf(WorkerLabels(spec), InitScript(benchmark.name))
      [] step = "WorkerSystemConfig" -> ConfigMapOf(WorkerLabels(spec), DiscoveryConfig)
      [] step = "WorkerStatefulSet" -> WorkerStatefulSet(benchmark, spec)
      [] step = "WorkerService" -> WorkerService(spec)

BuildBenchmark(benchmark, step, rawSpec) ==
    LET spec == SetDefaultsBenchmark(rawSpec) IN
    IF step \in ControllerSteps THEN BuildController(benchmark, step, spec)
                                ELSE BuildWorkers(benchmark, step, spec)

==============================================================================

----------------------------- MODULE MCBenchmark -----------------------------
(* The AtomixBenchmark controller on its own, with one benchmark.          *)
EXTENDS Operator, BenchmarkResources

MCCRs == {Key(AtomixBenchmark, <<"b">>)}
MCSpecs == [c \in {AtomixBenchmark} |->
               {[cluster |-> <<"c">>, version |-> "", workers |-> 0]}]
MCWatchedKind == [c \in {AtomixBenchmark} |-> BenchmarkWatches]
\* The coordinator, whose kind is watched, between two steps that share a name.
PodSteps == [c \in {AtomixBenchmark} |->
    <<"ControllerInitScript", "ControllerPod", "WorkerInitScript">>]

MCData == {BuildBenchmark(cr, BenchmarkSteps[i], s) :
               cr \in MCCRs, i \in DOMAIN BenchmarkSteps, s \in AllSpecs} \ {None}

\* The service both kinds of pod share, and the workers.
ServiceSteps == [c \in {AtomixBenchmark} |->
    <<"ControllerService", "WorkerStatefulSet", "WorkerService">>]

(***************************************************************************)
(* "Benchmark worker resources are labeled": the workers have a service    *)
(* with their own label, beside that of the coordinator.                   *)
(***************************************************************************)
WorkerServiceLabeled ==
    \A cr \in CRs : store[cr] # None =>
        LET service == store[BenchmarkKey(cr, "WorkerService")]
        IN  service # None /\ service.data.labels.type = BenchWorkerType

WorkersLabeled == <>[]WorkerServiceLabeled

\* No wake-up is lost under these conditions (NoticeProofs).
ASSUME WakeUpsAssumption == WatchedUnshared /\ LossesAreTold

==============================================================================

------------------------------ MODULE Resources ------------------------------
(***************************************************************************)
(* The parts the three kinds of deployment share: defaults of the storage, *)
(* label values, containers, volumes and volume claims.                    *)
(*                                                                         *)
(* Only what can differ between two objects, or what one object says of    *)
(* another by name, is kept; ports, probes, mount paths and command lines  *)
(* are the same for every pod and are left out.                            *)
(***************************************************************************)
EXTENDS Objects, Integers

CONSTANT Quantities     \* the strings that are a quantity, "1G" among them

AtomixApp == "atomix"
ManagementType == "management"
GroupType == "group"
BenchWorkerType == "benchmark-worker"
BenchCoordinatorType == "benchmark-coordinator"

\* Go's integer division truncates towards zero; TLA+'s rounds down.
GoHalf(n) == IF n < 0 THEN -((-n) \div 2) ELSE n \div 2

\* A field left out of a manifest is Go's zero value, which the defaults replace.
Default(value, zero, default) == IF value = zero THEN default ELSE value

SetDefaultsStorage(storage) ==
    [size |-> Default(storage.size, "", "2G"),
     level |-> Default(storage.level, "", "mapped")]

\* What is no quantity is an error; what quantity it is makes no difference here.
ParseQuantity(size) == size \in Quantities

\* The claims of a StatefulSet with persistent volumes, None on a parse error.
PersistentVolumeClaims(size) == IF ParseQuantity(size) THEN <<size>> ELSE None

\* The pods an affinity term keeps apart: app In [name], type In [management].
Affinity(name) == [app |-> name, type |-> ManagementType]

\* The pods of a deployment mount the init script and the Atomix configuration
\* from two ConfigMaps; an init container runs the script with a node count.
PodTemplate(labels, image, nodes, initScript, config) ==
    [labels |-> labels, image |-> image, nodes |-> nodes,
     initScript |-> initScript, config |-> config]

AtomixImage(version) == <<"atomix/atomix", version>>
BenchImage == <<"atomix/atomix-bench", "latest">>

\* No name of a host in a script: the pod's own below the domain it is in.
PodDomain == << >>

\* The init script writes the DNS name of a service for the node to discover
\* its cluster by, and the node's own address below that pod's domain.
InitScript(service) == [service |-> service, host |-> PodDomain]

\* The API server refuses a StatefulSet with a negative number of replicas, and a
\* disruption budget with a negative number of pods: to create it is an error.
Accepted(object, number) == IF number < 0 THEN None ELSE object

\* A mistake to detect: half of the nodes are no majority.
DisruptionBudgetOfHalf(size) ==
    LET half == GoHalf(size) IN Accepted([minAvailable |-> half], half)

DisruptionBudget(size) ==
    LET majority == GoHalf(size) + 1 IN Accepted([minAvailable |-> majority], majority)

==============================================================================

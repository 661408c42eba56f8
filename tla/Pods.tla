--------------------------------- MODULE Pods --------------------------------
(***************************************************************************)
(* What becomes of the objects the operator creates: the StatefulSet       *)
(* controller and the kubelets make pods of them.                          *)
(*                                                                         *)
(* A pod starts when the two ConfigMaps its volumes name are there and its *)
(* init container, the script of one of them, exits without an error.  It  *)
(* then runs on what it read, whatever becomes of the ConfigMaps, until it *)
(* stops.  The pods of a StatefulSet differ in their number only; one of   *)
(* them stands for all.                                                    *)
(***************************************************************************)
EXTENDS Resources

VARIABLES
    store,              \* store[k]: the object k in the API server, or None
    running             \* running[k]: a pod of k and what it read, or None

\* What has pods: StatefulSets, and the coordinator, which is one.
PodKinds == {"StatefulSet", "Pod"}

Template(object, k) == IF k.kind = "Pod" THEN object.data ELSE object.data.template

\* What the volumes of a template mount from a ConfigMap.
Mounted(name) == store[Key("ConfigMap", name)]

\* A script that has to find the pod's number in its host name exits with 1 in the
\* coordinator, whose host name is the name of the benchmark.
Succeeds(script, k) == script.data.file.host = PodDomain => k.kind = "StatefulSet"

StartPod(k) ==
    /\ store[k] # None
    /\ running[k] = None
    /\ LET template == Template(store[k], k)
           script == Mounted(template.initScript)
           config == Mounted(template.config)
       IN  /\ script # None
           /\ config # None
           /\ Succeeds(script, k)
           /\ running' = [running EXCEPT ![k] =
                              [object |-> store[k], script |-> script, config |-> config]]
    /\ UNCHANGED store

StopPod(k) ==
    /\ running[k] # None
    /\ running' = [running EXCEPT ![k] = None]
    /\ UNCHANGED store

------------------------------------------------------------------------------
\* The service a pod looks for its cluster by.
Discovers(k) == Key("Service", running[k].script.data.file.service)

\* The service under whose name a pod tells others to reach it: "$NAME-$ORD.$DOMAIN",
\* where the domain is that of the set's governing service, or a fixed name.
Announces(k) ==
    LET host == running[k].script.data.file.host IN
    Key("Service", IF host = PodDomain THEN running[k].object.data.serviceName
                                          ELSE host)

\* A service leads to the pods that have all the labels it selects by.
LeadsTo(service, k) ==
    LET selector == store[service].data.selector
        labels == Template(running[k].object, k).labels
    IN  \A label \in DOMAIN selector :
            label \in DOMAIN labels /\ labels[label] = selector[label]

==============================================================================

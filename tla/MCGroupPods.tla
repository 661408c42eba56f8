----------------------------- MODULE MCGroupPods -----------------------------
(* The PartitionGroup controller, and the pods of its one group.           *)
EXTENDS MCPartitionGroup

VARIABLE running        \* see Pods

Kubelet == INSTANCE Pods

PodOwners == {k \in Dependents : k.kind \in Kubelet!PodKinds}

GroupInit ==
    /\ Init
    /\ running = [k \in PodOwners |-> None]

PodStep == \E k \in PodOwners : Kubelet!StartPod(k) \/ Kubelet!StopPod(k)

GroupNext ==
    \/ Next /\ UNCHANGED running
    \/ PodStep /\ UNCHANGED <<cache, watch, workVars, boundVars, historyVars>>

GroupSpec == GroupInit /\ [][GroupNext]_<<vars, running>>

(***************************************************************************)
(* "Partition group types are configured by providing a protocol-specific  *)
(* configuration in the partition group specification": the pods of a      *)
(* group that is there and was never edited run the protocol of its spec.  *)
(***************************************************************************)
PodsRunTheirProtocol ==
    \A k \in PodOwners : running[k] # None =>
        LET group == running[k].object.owner IN
        Alive(group) /\ Cardinality(given[group.uid]) = 1 =>
            running[k].config.data.file.type = GroupTypeOf(Decode(store[group.cr].spec))

==============================================================================

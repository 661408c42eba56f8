---------------------------- MODULE LeaderElection ---------------------------
(***************************************************************************)
(* How one operator among several becomes the active one.                  *)
(*                                                                         *)
(* The operator runs in the pod of a Deployment.  A rolling update, or the *)
(* loss of a node, makes pods overlap; main calls leader.Become so that    *)
(* only one of them works.  The lock is a ConfigMap owned by the pod that  *)
(* created it; the garbage collector removes it once that pod is gone.     *)
(***************************************************************************)
EXTENDS Naturals

CONSTANTS
    Pods,               \* the operator's pods, each created at most once
    None,               \* no lock
    Faults,             \* the kinds of fault that may happen
    MaxRestarts         \* bound: how often a container is restarted

ASSUME LeaderAssumption ==
    /\ None \notin Pods
    /\ MaxRestarts \in Nat
    /\ Faults \subseteq {"api error", "force delete"}

VARIABLES
    pod,                \* pod[p]: the pod object in the API server
    main,               \* main[p]: where the operator's main of that pod is
    lock,               \* the pod that owns the lock ConfigMap, or None
    restarts            \* how often a container was restarted

vars == <<pod, main, lock, restarts>>

\* "owner": in myOwnerRef; "check": about to look for a lock of its own;
\* "create": in the loop that tries to create it; "leader": past Become; "error":
\* past it, though it returned an error.
Places == {"none", "owner", "check", "create", "leader", "error"}
Working(p) == main[p] \in {"leader", "error"}

TypeOK ==
    /\ pod \in [Pods -> {"new", "there", "gone"}]
    /\ main \in [Pods -> Places]
    /\ lock \in Pods \cup {None}
    /\ restarts \in 0..MaxRestarts

Init ==
    /\ pod = [p \in Pods |-> "new"]
    /\ main = [p \in Pods |-> "none"]
    /\ lock = None
    /\ restarts = 0

Goto(p, place) == main' = [main EXCEPT ![p] = place]

------------------------------------------------------------------------------
(* Kubernetes: pods come and go, containers are restarted.                 *)

StartPod(p) ==
    /\ pod[p] = "new"
    /\ pod' = [pod EXCEPT ![p] = "there"]
    /\ Goto(p, "owner")
    /\ UNCHANGED <<lock, restarts>>

\* main exits or is killed, and is started again in the same pod.
RestartContainer(p) ==
    /\ pod[p] = "there"
    /\ restarts < MaxRestarts
    /\ restarts' = restarts + 1
    /\ Goto(p, "owner")
    /\ UNCHANGED <<pod, lock>>

\* The pod object of a pod that is deleted stays until its containers stopped.
StopPod(p) ==
    /\ pod[p] = "there"
    /\ pod' = [pod EXCEPT ![p] = "gone"]
    /\ Goto(p, "none")
    /\ UNCHANGED <<lock, restarts>>

\* Unless it is deleted by force, as when its node is out of reach.
ForceDelete(p) ==
    /\ "force delete" \in Faults
    /\ pod[p] = "there"
    /\ pod' = [pod EXCEPT ![p] = "gone"]
    /\ UNCHANGED <<main, lock, restarts>>

CollectLock ==
    /\ lock # None
    /\ pod[lock] = "gone"
    /\ lock' = None
    /\ UNCHANGED <<pod, main, restarts>>

------------------------------------------------------------------------------
(* Become, called by main, which goes on whatever it returns.              *)

ReadOwnPod(p) ==
    /\ main[p] = "owner"
    /\ Goto(p, IF pod[p] = "there" THEN "check" ELSE "error")
    /\ UNCHANGED <<pod, lock, restarts>>

\* Mistakes to detect: to take any lock for one's own, or to know none as one's own.
CheckAnyLock(p) ==
    /\ main[p] = "check"
    /\ Goto(p, IF lock # None THEN "leader" ELSE "create")
    /\ UNCHANGED <<pod, lock, restarts>>

CheckNoLock(p) ==
    /\ main[p] = "check"
    /\ Goto(p, "create")
    /\ UNCHANGED <<pod, lock, restarts>>

\* A lock with this pod's name is from before a restart of the container.
CheckLock(p) ==
    /\ main[p] = "check"
    /\ Goto(p, IF lock = p THEN "leader" ELSE "create")
    /\ UNCHANGED <<pod, lock, restarts>>

\* A mistake to detect: to update the lock instead of creating it.
UpdateLock(p) ==
    /\ main[p] = "create"
    /\ lock' = p
    /\ Goto(p, "leader")
    /\ UNCHANGED <<pod, restarts>>

\* A mistake to detect: a lock that names no pod as its owner.
OwnerlessLock(p) ==
    /\ main[p] = "create"
    /\ lock = None
    /\ lock' = "nobody"
    /\ Goto(p, "leader")
    /\ UNCHANGED <<pod, restarts>>

\* Create fails with AlreadyExists, and is tried again, while there is a lock.
CreateLock(p) ==
    /\ main[p] = "create"
    /\ lock = None
    /\ lock' = p
    /\ Goto(p, "leader")
    /\ UNCHANGED <<pod, restarts>>

\* Any other error of the API server makes Become return it, and main drops it.
\* The error may hide that the lock was created.
BecomeFails(p) ==
    /\ "api error" \in Faults
    /\ main[p] \in {"owner", "check", "create"}
    /\ Goto(p, "error")
    /\ \/ UNCHANGED lock
       \/ main[p] = "create" /\ lock = None /\ lock' = p
    /\ UNCHANGED <<pod, restarts>>

Become(p) == ReadOwnPod(p) \/ CheckLock(p) \/ CreateLock(p)

Next ==
    \/ \E p \in Pods :
           \/ StartPod(p) \/ RestartContainer(p) \/ StopPod(p) \/ ForceDelete(p)
           \/ Become(p) \/ BecomeFails(p)
    \/ CollectLock

\* The API server answers and the garbage collector runs.
Spec == Init /\ [][Next]_vars
FairSpec == Spec /\ WF_vars(CollectLock) /\ \A p \in Pods : WF_vars(Become(p))

------------------------------------------------------------------------------
(***************************************************************************)
(* "Become the leader before proceeding": whoever has gone past Become is  *)
(* the owner of the lock.                                                  *)
(***************************************************************************)
LeaderBeforeProceeding == \A p \in Pods : Working(p) => lock = p

(***************************************************************************)
(* Of the pods the API server holds, Become makes at most one the leader:  *)
(* at the change from one pod to the next, after restarts, and whatever    *)
(* calls of others fail.                                                   *)
(***************************************************************************)
Leads(p) == main[p] = "leader" /\ pod[p] = "there"

OneLeader == \A p, q \in Pods : Leads(p) /\ Leads(q) => p = q

(***************************************************************************)
(* Whatever else goes wrong, a lock stays with its owner for as long as    *)
(* the API server holds the owner's pod.                                   *)
(***************************************************************************)
LockNotStolen ==
    [][lock # None /\ lock' # lock => pod[lock] = "gone" /\ lock' = None]_vars

(***************************************************************************)
(* The lock is not left behind by an operator that is gone: a pod that     *)
(* waits for it waits for one that works, or it stops waiting.             *)
(***************************************************************************)
SomeoneLeads ==
    \A p \in Pods :
        main[p] = "create" ~> (main[p] # "create" \/ \E q \in Pods : Working(q))

==============================================================================

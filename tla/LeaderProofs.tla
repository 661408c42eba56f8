---------------------------- MODULE LeaderProofs -----------------------------
(* Leader election, for any number of pods and of container restarts.      *)
EXTENDS LeaderElection, TLAPS

\* Every variable has its type at the start.
LEMMA InitTyped == Init => TypeOK
  <1> SUFFICES ASSUME Init PROVE TypeOK
    OBVIOUS
  <1>1. restarts \in 0..MaxRestarts
    <2>1. MaxRestarts \in Nat
      BY LeaderAssumption
    <2>2. restarts = 0
      BY DEF Init
    <2> QED BY <2>1, <2>2
  <1>2. pod \in [Pods -> {"new", "there", "gone"}] /\ main \in [Pods -> Places]
    BY DEF Init, Places
  <1> QED BY <1>1, <1>2 DEF Init, TypeOK

\* Every step keeps the types.
LEMMA NextTyped ==
    ASSUME TypeOK, [Next]_vars
    PROVE  TypeOK'
  <1>1. ASSUME NEW p \in Pods, StartPod(p) PROVE TypeOK'
    BY <1>1 DEF TypeOK, StartPod, Goto, Places
  <1>2. ASSUME NEW p \in Pods, RestartContainer(p) PROVE TypeOK'
    <2>1. restarts' \in 0..MaxRestarts
      <3>1. MaxRestarts \in Nat
        BY LeaderAssumption
      <3>2. restarts \in 0..MaxRestarts /\ restarts < MaxRestarts /\ restarts' = restarts + 1
        BY <1>2 DEF TypeOK, RestartContainer
      <3> QED BY <3>1, <3>2
    <2> QED BY <1>2, <2>1 DEF TypeOK, RestartContainer, Goto, Places
  <1>3. ASSUME NEW p \in Pods, StopPod(p) PROVE TypeOK'
    BY <1>3 DEF TypeOK, StopPod, Goto, Places
  <1>4. ASSUME NEW p \in Pods, ForceDelete(p) PROVE TypeOK'
    BY <1>4 DEF TypeOK, ForceDelete
  <1>5. ASSUME NEW p \in Pods, Become(p) PROVE TypeOK'
    BY <1>5 DEF TypeOK, Become, ReadOwnPod, CheckLock, CreateLock, Goto, Places
  <1>6. ASSUME NEW p \in Pods, BecomeFails(p) PROVE TypeOK'
    BY <1>6 DEF TypeOK, BecomeFails, Goto, Places
  <1>7. CASE CollectLock
    BY <1>7 DEF TypeOK, CollectLock
  <1>8. CASE UNCHANGED vars
    BY <1>8 DEF TypeOK, vars
  <1> QED BY <1>1, <1>2, <1>3, <1>4, <1>5, <1>6, <1>7, <1>8 DEF Next

\* Every variable of the election keeps its type.
THEOREM LeaderTypesHold == Spec => []TypeOK
  BY InitTyped, NextTyped, PTL DEF Spec

\* A lock, once created, is given up only by the garbage collector, and only when
\* the pod that owns it is gone: no fault of the API server or of a node makes one
\* operator take the lock of another whose pod is still there.
THEOREM LocksAreNotStolen == Spec => LockNotStolen
  <1>1. TypeOK /\ [Next]_vars =>
            [lock # None /\ lock' # lock => pod[lock] = "gone" /\ lock' = None]_vars
    <2> SUFFICES ASSUME TypeOK, Next, lock # None, lock' # lock
                 PROVE  pod[lock] = "gone" /\ lock' = None
      OBVIOUS
    <2> QED BY DEF Next, StartPod, RestartContainer, StopPod, ForceDelete, CollectLock,
                   Become, ReadOwnPod, CheckLock, CreateLock, BecomeFails
  <1> QED BY LeaderTypesHold, <1>1, PTL DEF Spec, LockNotStolen

------------------------------------------------------------------------------
(* Whom Become makes the leader owns the lock, until its pod is gone.      *)

LeadersOwnTheLock == \A p \in Pods : Leads(p) => lock = p

LeaderInv == TypeOK /\ LeadersOwnTheLock

\* No main runs and there is no lock at the start.
LEMMA InitLeader == Init => LeaderInv
  BY InitTyped DEF Init, LeaderInv, LeadersOwnTheLock, Leads

\* Every step keeps the invariant.
LEMMA NextLeader ==
    ASSUME LeaderInv, [Next]_vars
    PROVE  LeaderInv'
  <1> USE DEF LeaderInv, LeadersOwnTheLock, Leads, TypeOK
  <1>1. ASSUME NEW p \in Pods, StartPod(p) PROVE LeadersOwnTheLock'
    BY <1>1 DEF StartPod, Goto
  <1>2. ASSUME NEW p \in Pods, RestartContainer(p) PROVE LeadersOwnTheLock'
    BY <1>2 DEF RestartContainer, Goto
  <1>3. ASSUME NEW p \in Pods, StopPod(p) PROVE LeadersOwnTheLock'
    BY <1>3 DEF StopPod, Goto
  <1>4. ASSUME NEW p \in Pods, ForceDelete(p) PROVE LeadersOwnTheLock'
    BY <1>4 DEF ForceDelete
  <1>5. ASSUME NEW p \in Pods, ReadOwnPod(p) PROVE LeadersOwnTheLock'
    BY <1>5 DEF ReadOwnPod, Goto
  <1>6. ASSUME NEW p \in Pods, CheckLock(p) PROVE LeadersOwnTheLock'
    BY <1>6 DEF CheckLock, Goto
  <1>7. ASSUME NEW p \in Pods, CreateLock(p) PROVE LeadersOwnTheLock'
    BY <1>7, LeaderAssumption DEF CreateLock, Goto
  <1>8. ASSUME NEW p \in Pods, BecomeFails(p) PROVE LeadersOwnTheLock'
    BY <1>8, LeaderAssumption DEF BecomeFails, Goto
  <1>9. CASE CollectLock
    BY <1>9, LeaderAssumption DEF CollectLock
  <1>10. CASE UNCHANGED vars
    BY <1>10 DEF vars
  <1> QED BY <1>1, <1>2, <1>3, <1>4, <1>5, <1>6, <1>7, <1>8, <1>9, <1>10, NextTyped
          DEF Next, Become

\* Of the pods the API server holds, at most one is ever made the leader, through
\* any number of rolling updates, restarts, failed calls and forced deletions.
THEOREM AtMostOneLeader == Spec => []OneLeader
  <1>1. LeaderInv /\ [Next]_vars => LeaderInv'
    BY NextLeader
  <1>2. LeaderInv => OneLeader
    BY DEF LeaderInv, LeadersOwnTheLock, OneLeader
  <1> QED BY InitLeader, <1>1, <1>2, PTL DEF Spec

==============================================================================

------------------------- MODULE ProvisioningProofs --------------------------
(***************************************************************************)
(* The controllers implement Provisioning: seen from the API server, every *)
(* step of Operator is one that module allows, or none at all.             *)
(*                                                                         *)
(* The invariants of HistoryProofs carry the weight.  A worker creates     *)
(* from what it once read in a cache, when the store had long moved on; by *)
(* ProvenanceInv what it read was a spec that very CR had, and by OrderInv *)
(* what it took for existing at earlier steps did exist.                   *)
(*                                                                         *)
(* The second part is about an operator beside another one: what it knows  *)
(* and what it proves of itself outlives what the other one creates.       *)
(***************************************************************************)
EXTENDS NoticeProofs

providedVars == <<store, nextUid, given, lost>>

\* Both modules are about the same CRs, steps and objects.
LEMMA SameDeployments ==
    /\ Promised!Uids = Uids
    /\ Promised!Dependents = Dependents
    /\ Promised!ObjectKeys = Keys
    /\ \A c : Promised!StepNumbers(c) = StepNumbers(c)
    /\ \A cr, i : Promised!StepKey(cr, i) = StepKey(cr, i)
    /\ \A owner : Promised!Alive(owner) <=> Alive(owner)
    /\ \A k : Promised!Existed(k) <=> Existed(k)
  BY KeysAssumption
     DEF Promised!Uids, Uids, Promised!ObjectKeys, ObjectKeys, Promised!Dependents, Dependents,
         Promised!StepNumbers, StepNumbers, Promised!StepKey, StepKey, Promised!Alive, Alive,
         Promised!Existed, Existed

\* Nothing is provided at the start.
LEMMA InitMaps == Init => Promised!Init
  BY SameDeployments DEF Init, KubeInit, Promised!Init

\* What users do to CRs is the same in both.
LEMMA UserMaps ==
    ASSUME UserStep
    PROVE  Promised!UserStep
  <1>1. ASSUME NEW cr \in CRs, NEW spec \in Specs[cr.kind], CreateCR(cr, spec)
        PROVE  Promised!CreateCR(cr, spec)
    BY <1>1 DEF CreateCR, Write, Promised!CreateCR
  <1>2. ASSUME NEW cr \in CRs, NEW spec \in Specs[cr.kind], EditCR(cr, spec)
        PROVE  Promised!EditCR(cr, spec)
    BY <1>2 DEF EditCR, Write, Promised!EditCR
  <1>3. ASSUME NEW cr \in CRs, DeleteCR(cr)
        PROVE  Promised!DeleteCR(cr)
    BY <1>3 DEF DeleteCR, Remove, boundVars, historyVars, Promised!DeleteCR
  <1> QED BY <1>1, <1>2, <1>3 DEF UserStep, Promised!UserStep

\* Objects go because their owner did, or because someone deletes them.
LEMMA RemovalMaps ==
    ASSUME NEW k \in Dependents, GarbageCollect(k) \/ OutsideDelete(k)
    PROVE  Promised!Withdraw(k)
  <1>1. CASE GarbageCollect(k)
    BY <1>1, SameDeployments DEF GarbageCollect, Remove, boundVars, Promised!Withdraw
  <1>2. CASE OutsideDelete(k)
    BY <1>2 DEF OutsideDelete, Fault, Remove, Promised!Withdraw
  <1> QED BY <1>1, <1>2

\* A worker creates an object that its CR may have: from a spec of this CR, under
\* the uid of this CR, and after the objects of the steps before.
LEMMA CreationMaps ==
    ASSUME TypeOK, OrderInv, ProvenanceInv, NEW c \in Controllers,
           CreateObject(c) \/ ReplyLost(c)
    PROVE  Promised!OperatorStep
  <1> DEFINE cr == work[c].cr
             i == work[c].step
             uid == work[c].uid
             spec == work[c].spec
  <1>1. work[c] # None /\ Built(c) # None /\ store[Target(c)] = None
    BY DEF CreateObject, ReplyLost, Creating
  <1>2. /\ cr \in CRs /\ cr.kind = c /\ uid \in Uids /\ spec \in Specs[c]
        /\ i \in StepNumbers(c)
    BY <1>1, WorkTyped
  <1>3. Target(c) = StepKey(cr, i)
    BY DEF Target
  <1>4. <<cr, spec>> \in given[uid]
    BY <1>1 DEF ProvenanceInv, WorkedGiven
  <1>5. ASSUME NEW j \in 1..(i - 1) PROVE Existed(StepKey(cr, j))
    <2>1. j \in StepNumbers(c)
      BY <1>2, StepFacts DEF StepNumbers
    <2>2. StepKey(cr, j) \in Dependents
      BY <1>2, <2>1, KeyFacts
    <2> QED BY <1>1, <2>2 DEF OrderInv, PassedExisted
  <1>6. /\ store' = [store EXCEPT ![Target(c)] = Owned(c)]
        /\ lost' = lost \ {Target(c)} /\ UNCHANGED <<nextUid, given>>
    BY DEF CreateObject, ReplyLost, Write, boundVars
  <1>7. Built(c) = Build(cr, Steps[cr.kind][i], spec)
    BY <1>2 DEF Built
  <1>8. Owned(c) = [owner |-> [cr |-> cr, uid |-> uid], data |-> Built(c)]
    BY DEF Owned
  <1> HIDE DEF cr, i, uid, spec
  <1>9. Promised!Provide(cr, i, uid, spec)
    BY <1>1, <1>3, <1>4, <1>5, <1>6, <1>7, <1>8, SameDeployments DEF Promised!Provide
  <1> QED BY <1>2, <1>9, SameDeployments DEF Promised!OperatorStep

\* Nothing else a process does touches an object in the API server.
LEMMA OthersMap ==
    ASSUME InformerStep \/ WorkerStep \/ Restart,
           \A c \in Controllers : ~ (CreateObject(c) \/ ReplyLost(c))
    PROVE  UNCHANGED providedVars
  <1>1. CASE InformerStep
    BY <1>1 DEF InformerStep, Deliver, Receive, Resync, BrokenWatch, Rewatch, Notify,
                kubeVars, boundVars, historyVars, providedVars
  <1>2. ASSUME NEW cr \in CRs, BeginPass(cr) \/ ReadFails(cr) PROVE UNCHANGED providedVars
    BY <1>2 DEF BeginPass, ReadFails, kubeVars, boundVars, historyVars, providedVars
  <1>3. ASSUME NEW c \in Controllers, PassStep(c) PROVE UNCHANGED providedVars
    BY <1>3 DEF PassStep, FindObject, MissObject, LookupFails, FailToBuild, Conflict, Rejected,
                kubeVars, boundVars, historyVars, providedVars
  <1>4. CASE Restart
    BY <1>4 DEF Restart, Relist, historyVars, providedVars
  <1> QED BY <1>1, <1>2, <1>3, <1>4 DEF WorkerStep

\* So every step of the controllers maps to a step, or to none.
LEMMA StepMaps ==
    ASSUME TypeOK, OrderInv, ProvenanceInv, [Next]_vars
    PROVE  [Promised!Next]_Promised!vars
  <1>1. CASE UserStep
    BY <1>1, UserMaps DEF Promised!Next
  <1>2. CASE ClusterStep
    BY <1>2, RemovalMaps, SameDeployments DEF ClusterStep, Promised!Next
  <1>3. ASSUME NEW c \in Controllers, CreateObject(c) \/ ReplyLost(c)
        PROVE  Promised!Next
    BY <1>3, CreationMaps DEF Promised!Next
  <1>4. CASE UNCHANGED vars
    BY <1>4 DEF vars, kubeVars, boundVars, historyVars, Promised!vars
  <1>5. ASSUME UNCHANGED providedVars PROVE UNCHANGED Promised!vars
    BY <1>5 DEF providedVars, Promised!vars
  <1> QED BY <1>1, <1>2, <1>3, <1>4, <1>5, OthersMap DEF Next

\* The controllers keep the promises of Provisioning: however stale a cache, late
\* an event, lost a reply, broken a watch or short-lived a process, each object is
\* created in its turn, from a spec of the CR that owns it, and none is changed.
THEOREM ControllersProvision == Spec => Provisions
  <1>1. TypeOK /\ OrderInv /\ ProvenanceInv /\ [Next]_vars => [Promised!Next]_Promised!vars
    BY StepMaps
  <1> QED BY InitMaps, TypesHold, OrderHolds, ProvenanceHolds, <1>1, PTL
          DEF Spec, Provisions, Promised!Spec

------------------------------------------------------------------------------
(***************************************************************************)
(* Beside another operator.  What else writes objects does what one may do *)
(* (Provisioning), and this operator hears of it as of its own writes.     *)
(***************************************************************************)
CreatedElsewhere ==
    /\ Promised!OperatorStep
    /\ \E k \in Dependents : Write(k, store'[k])

\* Or it does nothing to the objects, of which nobody is told.
IdleElsewhere ==
    /\ UNCHANGED providedVars
    /\ DOMAIN watch' = Keys
    /\ \A k \in Keys : watch'[k] = watch[k]

Elsewhere ==
    /\ CreatedElsewhere \/ IdleElsewhere
    /\ UNCHANGED <<cache, workVars, edits>>
    /\ faults' \in faults..MaxFaults

\* An object that may be created is, and nothing else happens to the objects.
Creation(k, o) ==
    LET cr == o.owner.cr IN
    /\ k \in Dependents /\ o \in Values[k]
    /\ \E i \in StepNumbers(cr.kind), spec \in Specs[cr.kind] :
           /\ <<cr, spec>> \in given[o.owner.uid]
           /\ StepKey(cr, i) = k
           /\ o.data = Build(cr, Steps[cr.kind][i], spec)
           /\ \A j \in 1..(i - 1) : Existed(StepKey(cr, j))
    /\ store[k] = None /\ Write(k, o)
    /\ lost' = lost \ {k}
    /\ UNCHANGED <<nextUid, given>>

\* That is what the other operator does.
LEMMA CreationElsewhere ==
    ASSUME TypeOK, CreatedElsewhere
    PROVE  \E k, o : Creation(k, o)
  <1>1. PICK cr \in CRs, uid \in Uids : \E i \in StepNumbers(cr.kind), spec \in Specs[cr.kind] :
            Promised!Provide(cr, i, uid, spec)
    BY SameDeployments DEF CreatedElsewhere, Promised!OperatorStep
  <1>2. PICK i \in StepNumbers(cr.kind), spec \in Specs[cr.kind] :
            Promised!Provide(cr, i, uid, spec)
    BY <1>1
  <1> DEFINE k == StepKey(cr, i)
             data == Build(cr, Steps[cr.kind][i], spec)
             o == [owner |-> [cr |-> cr, uid |-> uid], data |-> data]
  <1>3. /\ <<cr, spec>> \in given[uid]
        /\ \A j \in 1..(i - 1) : Existed(StepKey(cr, j))
        /\ store[k] = None /\ data # None
        /\ store' = [store EXCEPT ![k] = o]
        /\ lost' = lost \ {k}
        /\ UNCHANGED <<nextUid, given>>
    BY <1>2, SameDeployments DEF Promised!Provide
  <1>4. k \in Dependents /\ k \in Keys /\ cr.kind \in Controllers /\ cr \in CreatorsOf(k)
    BY KeyFacts DEF CreatorsOf
  <1>5. data \in Data
    BY <1>3, <1>4, StepsAssumption
  <1>6. o \in Values[k]
    BY <1>4, <1>5, DependentValue
  <1>7. o # None /\ DOMAIN store = Keys
    BY <1>4, <1>6, NoneAssumption DEF TypeOK, KubeTypeOK
  <1>8. PICK j \in Dependents : Write(j, store'[j])
    BY DEF CreatedElsewhere
  <1>9. j = k
    <2>1. store'[k] = o /\ store'[k] # store[k]
      BY <1>3, <1>4, <1>7
    <2> HIDE DEF k, o
    <2>2. store' = [store EXCEPT ![j] = store'[j]]
      BY <1>8 DEF Write
    <2>3. j # k => store'[k] = store[k]
      BY <1>4, <1>7, <2>2
    <2> QED BY <2>1, <2>3
  <1>10. Write(k, o)
    <2>1. store'[k] = o
      BY <1>3, <1>4, <1>7
    <2> QED BY <1>8, <1>9, <2>1
  <1>11. o.owner.cr = cr /\ o.owner.uid = uid /\ o.data = data
    OBVIOUS
  <1> HIDE DEF o
  <1>12. Creation(k, o)
    BY <1>3, <1>4, <1>6, <1>10, <1>11 DEF Creation
  <1> QED BY <1>12

\* An object that is created is there, and no other object changes.
LEMMA CreationFacts ==
    ASSUME TypeOK, NEW k, NEW o, Creation(k, o)
    PROVE  /\ k \in Dependents /\ k \in Keys /\ k \notin CRs
           /\ o \in Values[k] /\ o # None
           /\ store'[k] = o /\ lost' = lost \ {k}
           /\ \A j \in Keys : j # k => store'[j] = store[j]
           /\ \A j \in Keys : States(j)' \subseteq States(j) \cup (IF j = k THEN {o} ELSE {})
           /\ \A j \in Dependents : Existed(j) => Existed(j)'
           /\ Existed(k)'
  <1>1. /\ k \in Dependents /\ k \in Keys /\ k \notin CRs /\ o \in Values[k]
        /\ Write(k, o) /\ lost' = lost \ {k}
    BY KeyFacts DEF Creation
  <1>2. o # None
    BY <1>1, NoneAssumption
  <1>3. store'[k] = o /\ \A j \in Keys : j # k => store'[j] = store[j]
    BY <1>1 DEF Write, TypeOK, KubeTypeOK
  <1>4. \A j \in Keys : States(j)' \subseteq States(j) \cup (IF j = k THEN {o} ELSE {})
    BY <1>1, WriteStates DEF TypeOK
  <1>5. Existed(k)' /\ \A j \in Dependents : Existed(j) => Existed(j)'
    BY <1>1, <1>2, <1>3, KeyFacts DEF Existed
  <1> QED BY <1>1, <1>2, <1>3, <1>4, <1>5

\* As long as nothing is done nobody is told anything new.
LEMMA IdleStates ==
    ASSUME Elsewhere, IdleElsewhere, NEW d \in Keys
    PROVE  States(d)' = States(d)
  BY DEF Elsewhere, IdleElsewhere, providedVars, States, Told

\* Types, and what the cache lacks.
LEMMA ElsewhereTyped ==
    ASSUME TypeOK, CacheTracksStore, Elsewhere
    PROVE  TypeOK' /\ CacheTracksStore'
  <1>1. KubeTypeOK' /\ CacheTracksStore' /\ UNCHANGED <<nextUid, given>> /\ lost' \subseteq lost
    <2>1. CASE CreatedElsewhere
      <3>1. PICK k, o : Creation(k, o)
        BY <2>1, CreationElsewhere
      <3>2. k \in Keys /\ o \in Values[k] /\ Write(k, o)
        BY <3>1, CreationFacts DEF Creation
      <3> QED BY <3>1, <3>2, WriteTyped, WriteTracks DEF TypeOK, Creation
    <2>2. CASE IdleElsewhere
      BY <2>2 DEF Elsewhere, IdleElsewhere, providedVars, TypeOK, KubeTypeOK,
                  CacheTracksStore, Tracks, Outcome
    <2> QED BY <2>1, <2>2 DEF Elsewhere
  <1>2. UNCHANGED <<queue, notices, work, edits>>
    BY DEF Elsewhere, workVars
  <1>3. faults' \in 0..MaxFaults
    BY BoundsAssumption DEF Elsewhere, TypeOK
  <1> QED BY <1>1, <1>2, <1>3 DEF TypeOK

\* The order in which objects are created.
LEMMA ElsewhereOrdered ==
    ASSUME TypeOK, OrderInv, Elsewhere
    PROVE  OrderInv'
  <1>0. work' = work
    BY DEF Elsewhere, workVars
  <1>1. ASSUME NEW k, NEW o, Creation(k, o) PROVE OrderInv'
    <2>1. ToldExisted'
      <3> SUFFICES ASSUME NEW d \in Dependents, States(d)' # {} PROVE Existed(d)'
        BY DEF ToldExisted
      <3>1. d # k => States(d) # {}
        BY <1>1, CreationFacts, KeyFacts
      <3> QED BY <1>1, <3>1, CreationFacts DEF OrderInv, ToldExisted
    <2>2. PassedExisted'
      BY <1>0, <1>1, CreationFacts DEF OrderInv, PassedExisted
    <2>3. CreatedInOrder'
      <3> SUFFICES ASSUME NEW d \in Dependents, store'[d] # None
                   PROVE  \E i \in StepNumbers(store'[d].owner.cr.kind) :
                              /\ StepKey(store'[d].owner.cr, i) = d
                              /\ \A j \in 1..i : Existed(StepKey(store[d].owner.cr, j))'
        BY DEF CreatedInOrder
      <3>0. ASSUME NEW cr \in CRs, NEW i \in StepNumbers(cr.kind), NEW j \in 1..i
            PROVE  /\ StepKey(cr, j) \in Dependents
                   /\ Existed(StepKey(cr, j)) => Existed(StepKey(cr, j))'
        <4>1. StepKey(cr, j) \in Dependents
          BY KeyFacts, StepFacts DEF StepNumbers
        <4> QED BY <1>1, <4>1, CreationFacts
      <3>1. PICK cr \in CRs : cr = store'[d].owner.cr
        <4>1. store'[d] \in Values[d]
          BY <1>1, CreationFacts, KeyFacts DEF TypeOK, KubeTypeOK
        <4> QED BY <4>1, DependentValue, CreatorsAreCRs
      <3>2. PICK i \in StepNumbers(cr.kind) :
                /\ StepKey(cr, i) = d
                /\ \A j \in 1..i : Existed(StepKey(cr, j))'
        <4>1. CASE d # k
          <5>1. store'[d] = store[d]
            BY <1>1, <4>1, CreationFacts, KeyFacts
          <5>2. PICK i \in StepNumbers(cr.kind) :
                    StepKey(cr, i) = d /\ \A j \in 1..i : Existed(StepKey(cr, j))
            BY <3>1, <5>1 DEF OrderInv, CreatedInOrder
          <5> QED BY <3>0, <5>2
        <4>2. CASE d = k
          <5>1. cr = o.owner.cr
            BY <1>1, <3>1, <4>2, CreationFacts
          <5>2. PICK i \in StepNumbers(cr.kind) :
                    StepKey(cr, i) = d /\ \A j \in 1..(i - 1) : Existed(StepKey(cr, j))
            BY <1>1, <4>2, <5>1 DEF Creation
          <5>3. i \in Nat
            BY <3>1, KeyFacts, StepFacts
          <5>4. Existed(StepKey(cr, i))'
            BY <1>1, <4>2, <5>2, CreationFacts
          <5>5. ASSUME NEW j \in 1..i PROVE Existed(StepKey(cr, j))'
            <6>1. CASE j = i
              BY <5>4, <6>1
            <6>2. CASE j \in 1..(i - 1)
              BY <3>0, <5>2, <6>2
            <6> QED BY <5>3, <6>1, <6>2
          <5> QED BY <5>2, <5>5
        <4> QED BY <4>1, <4>2
      <3> QED BY <3>1, <3>2 DEF Existed
    <2> QED BY <2>1, <2>2, <2>3 DEF OrderInv
  <1>2. ASSUME IdleElsewhere PROVE OrderInv'
    <2>1. /\ \A d \in Dependents : States(d)' = States(d)
          /\ \A d : Existed(d)' <=> Existed(d)
      BY <1>2, IdleStates, KeyFacts DEF IdleElsewhere, providedVars, Existed
    <2> QED BY <1>0, <1>2, <2>1 DEF IdleElsewhere, providedVars, OrderInv, ToldExisted,
                                    PassedExisted, CreatedInOrder
  <1> QED BY <1>1, <1>2, CreationElsewhere DEF Elsewhere

\* What objects are built from.
LEMMA ElsewhereGiven ==
    ASSUME TypeOK, ProvenanceInv, Elsewhere
    PROVE  ProvenanceInv'
  <1>0. work' = work /\ UNCHANGED <<nextUid, given>>
    BY CreationElsewhere DEF Elsewhere, IdleElsewhere, workVars, providedVars, Creation
  <1>1. UidsFresh' /\ WorkedGiven'
    BY <1>0 DEF ProvenanceInv, UidsFresh, WorkedGiven
  <1>2. ASSUME NEW k, NEW o, Creation(k, o) PROVE ToldGiven' /\ BuiltFromOwnersSpec'
    <2>1. ToldGiven'
      BY <1>0, <1>2, CreationFacts, KeyFacts DEF ProvenanceInv, ToldGiven
    <2>2. BuiltFromOwnersSpec'
      <3> SUFFICES ASSUME NEW d \in Dependents, store'[d] # None
                   PROVE  LET owner == store'[d].owner IN
                          \E i \in StepNumbers(owner.cr.kind), spec \in Specs[owner.cr.kind] :
                              /\ <<owner.cr, spec>> \in given[owner.uid]
                              /\ StepKey(owner.cr, i) = d
                              /\ store'[d].data = Build(owner.cr, Steps[owner.cr.kind][i], spec)
        BY <1>0 DEF BuiltFromOwnersSpec
      <3>1. CASE d # k
        <4>1. store'[d] = store[d]
          BY <1>2, <3>1, CreationFacts, KeyFacts
        <4> QED BY <4>1 DEF ProvenanceInv, BuiltFromOwnersSpec
      <3>2. CASE d = k
        <4>1. store'[d] = o
          BY <1>2, <3>2, CreationFacts
        <4> QED BY <1>2, <3>2, <4>1 DEF Creation
      <3> QED BY <3>1, <3>2
    <2> QED BY <2>1, <2>2
  <1>3. ASSUME IdleElsewhere PROVE ToldGiven' /\ BuiltFromOwnersSpec'
    <2>1. store' = store /\ given' = given
      BY <1>3 DEF IdleElsewhere, providedVars
    <2>2. ToldGiven'
      <3>1. \A cr \in CRs : States(cr)' = States(cr)
        BY <1>3, IdleStates, KeyFacts
      <3> QED BY <2>1, <3>1 DEF ProvenanceInv, ToldGiven
    <2>3. BuiltFromOwnersSpec'
      BY <2>1 DEF ProvenanceInv, BuiltFromOwnersSpec
    <2> QED BY <2>2, <2>3
  <1> QED BY <1>1, <1>2, <1>3, CreationElsewhere DEF Elsewhere, ProvenanceInv

\* No wake-up of this operator is lost: what the other one creates is not missing
\* any more, and is an event to this one.
LEMMA ElsewhereNoticed ==
    ASSUME TypeOK, NoticeInv, Elsewhere
    PROVE  NoticeInv'
  <1>0. /\ UNCHANGED <<cache, queue, notices, work>> /\ faults' >= faults
        /\ faults \in Nat /\ faults' \in Nat /\ MaxFaults \in Nat
    BY BoundsAssumption DEF Elsewhere, workVars, TypeOK
  <1>1. /\ \A cr \in CRs : store'[cr] = store[cr]
        /\ \A j \in Keys : watch[j] # << >> => watch'[j] # << >>
    <2>1. ASSUME NEW k, NEW o, Creation(k, o)
          PROVE  /\ \A cr \in CRs : store'[cr] = store[cr]
                 /\ \A j \in Keys : watch[j] # << >> => watch'[j] # << >>
      <3>1. k \in Keys /\ o \in Values[k] /\ Write(k, o)
        BY <2>1, CreationFacts DEF Creation
      <3> QED BY <2>1, <3>1, CreationFacts, WriteTells, KeyFacts
    <2> QED BY <2>1, CreationElsewhere DEF Elsewhere, IdleElsewhere, providedVars
  <1>2. \A cr \in CRs : Called(cr) => Called(cr)'
    BY <1>0, <1>1, KeyFacts DEF Called, EventPending
  <1>3. \A cr \in CRs : \A i \in StepNumbers(cr.kind) : WorkingUpTo(cr, i) => WorkingUpTo(cr, i)'
    BY <1>0 DEF WorkingUpTo
  <1>4. ASSUME NEW k \in Dependents, store'[k] = None
        PROVE  store[k] = None /\ (k \in lost => k \in lost')
    <2>1. ASSUME NEW j, NEW o, Creation(j, o)
          PROVE  store[k] = None /\ (k \in lost => k \in lost')
      BY <1>4, <2>1, CreationFacts, KeyFacts
    <2> QED BY <1>4, <2>1, CreationElsewhere DEF Elsewhere, IdleElsewhere, providedVars
  <1>5. MissingIsNoticed'
    <2> SUFFICES ASSUME NEW cr \in CRs, NEW i \in StepNumbers(cr.kind),
                        store'[cr] # None, store'[StepKey(cr, i)] = None,
                        Repairable(cr, i)'
                 PROVE  Waking(cr, i)'
      BY DEF MissingIsNoticed, StepKey
    <2> DEFINE k == StepKey(cr, i)
    <2>1. k \in Dependents /\ k \in Keys /\ cr \in Keys
      BY KeyFacts
    <2>2. store[k] = None /\ (k \in lost => k \in lost') /\ store[cr] # None
      BY <1>1, <1>4, <2>1
    <2>3. Waking(cr, i)
      BY <2>2 DEF NoticeInv, MissingIsNoticed, Repairable, StepKey
    <2> QED BY <1>0, <1>1, <2>1, <2>3 DEF Waking, EventPending, StepKey
  <1>6. StaleIsCalled'
    <2>1. \A c \in Controllers : work[c] # None => work[c].cr \in CRs
      BY WorkTyped
    <2> QED BY <1>0, <1>1, <1>2, <2>1 DEF NoticeInv, StaleIsCalled
  <1>7. ASSUME CanBreak' PROVE UnseenIsNoticed'
    <2>1. CanBreak
      <3>1. "broken watch" \in Faults
        BY <1>7 DEF CanBreak
      <3>2. faults' < MaxFaults
        BY <1>7 DEF CanBreak
      <3>3. faults < MaxFaults
        BY <1>0, <3>2
      <3> QED BY <3>1, <3>3 DEF CanBreak
    <2> SUFFICES ASSUME NEW cr \in CRs, NEW i \in StepNumbers(cr.kind),
                        store'[cr] # None, StepKey(cr, i).kind = WatchedKind[cr.kind],
                        cache'[StepKey(cr, i)] = None,
                        store'[StepKey(cr, i)] # None =>
                            ~ Alive(store[StepKey(cr, i)].owner)'
                 PROVE  Called(cr)' \/ WorkingUpTo(cr, i)'
      BY DEF UnseenIsNoticed, StepKey
    <2> DEFINE k == StepKey(cr, i)
    <2>2. k \in Dependents /\ k \in Keys
      BY KeyFacts
    <2>3. store[k] # None => ~ Alive(store[k].owner)
      <3> SUFFICES ASSUME store[k] # None PROVE ~ Alive(store[k].owner)
        OBVIOUS
      <3>1. store'[k] = store[k]
        <4>1. ASSUME NEW j, NEW o, Creation(j, o) PROVE store'[k] = store[k]
          <5>1. j # k
            BY <4>1 DEF Creation
          <5> QED BY <2>2, <4>1, <5>1, CreationFacts
        <4> QED BY <4>1, CreationElsewhere DEF Elsewhere, IdleElsewhere, providedVars
      <3>2. store[k].owner.cr \in CRs
        BY <2>2, DependentValue, CreatorsAreCRs DEF TypeOK, KubeTypeOK
      <3> QED BY <1>1, <3>1, <3>2 DEF Alive
    <2>4. store[cr] # None /\ cache[k] = None
      BY <1>0, <1>1
    <2>5. Called(cr) \/ WorkingUpTo(cr, i)
      BY <2>1, <2>3, <2>4 DEF NoticeInv, UnseenIsNoticed
    <2> QED BY <1>2, <1>3, <2>5
  <1> QED BY <1>5, <1>6, <1>7 DEF NoticeInv

\* What is kept beside another operator, for the objects and for the wake-ups.
ObjectsKept == TypeOK /\ CacheTracksStore /\ OrderInv /\ ProvenanceInv

\* Both hold at the start.
LEMMA InitKept == Init => ObjectsKept /\ NoticeInv
  BY InitTyped, InitTracks, InitOrder, InitProvenance, InitNoticed DEF ObjectsKept

\* No step of one's own and none taken elsewhere breaks what is kept for the objects,
LEMMA NextKept ==
    ASSUME ObjectsKept, [Next]_vars \/ Elsewhere
    PROVE  ObjectsKept'
  <1>1. CASE [Next]_vars
    BY <1>1, NextTyped, NextTracks, NextToldExisted, NextPassedExisted, NextCreatedInOrder,
       GivenGrows, NextToldGiven, NextWorkedGiven, NextBuilt
       DEF ObjectsKept, OrderInv, ProvenanceInv
  <1>2. CASE Elsewhere
    BY <1>2, ElsewhereTyped, ElsewhereOrdered, ElsewhereGiven DEF ObjectsKept
  <1> QED BY <1>1, <1>2

\* nor what is kept for the wake-ups.
LEMMA NoticeKept ==
    ASSUME WatchedUnshared, LossesAreTold, ObjectsKept, NoticeInv, [Next]_vars \/ Elsewhere
    PROVE  NoticeInv'
  <1>1. CASE [Next]_vars
    BY <1>1, NextMissing, NextStale, NextUnseen DEF ObjectsKept, NoticeInv
  <1>2. CASE Elsewhere
    BY <1>2, ElsewhereNoticed DEF ObjectsKept
  <1> QED BY <1>1, <1>2

\* Seen from another operator, what this one does is done elsewhere: it creates an
\* object that may be created, or leaves the objects alone.
LEMMA StepElsewhere ==
    ASSUME ObjectsKept, InformerStep \/ WorkerStep \/ Restart
    PROVE  /\ \/ Promised!OperatorStep
              \/ UNCHANGED providedVars
           /\ edits' = edits /\ faults' \in faults..MaxFaults
  <1>0. [Next]_vars
    BY DEF Next
  <1>1. Promised!OperatorStep \/ UNCHANGED providedVars
    <2>1. ASSUME NEW c \in Controllers, CreateObject(c) \/ ReplyLost(c)
          PROVE  Promised!OperatorStep
      BY <2>1, CreationMaps DEF ObjectsKept
    <2>2. CASE \A c \in Controllers : ~ (CreateObject(c) \/ ReplyLost(c))
      BY <2>2, OthersMap
    <2> QED BY <2>1, <2>2
  <1>2. edits' = edits
    <2>1. ASSUME NEW c \in Controllers, PassStep(c) PROVE edits' = edits
      BY <2>1 DEF PassStep, FindObject, MissObject, LookupFails, CreateObject, FailToBuild,
                  Conflict, Rejected, ReplyLost, boundVars
    <2> QED BY <2>1 DEF InformerStep, Deliver, Resync, BrokenWatch, Notify, WorkerStep,
                        BeginPass, ReadFails, Restart, boundVars
  <1>3. faults' \in faults..MaxFaults
    <2>1. TypeOK'
      BY <1>0, NextTyped DEF ObjectsKept
    <2>2. faults \in Nat /\ faults' \in {faults, faults + 1} /\ MaxFaults \in Nat
      BY <1>0, FaultsCounted DEF ObjectsKept
    <2>3. faults' \in 0..MaxFaults
      BY <2>1 DEF TypeOK
    <2> QED BY <2>2, <2>3
  <1> QED BY <1>1, <1>2, <1>3

==============================================================================

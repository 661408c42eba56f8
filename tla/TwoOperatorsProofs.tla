------------------------- MODULE TwoOperatorsProofs --------------------------
(***************************************************************************)
(* Two operators on the same objects do no more than one may do, and       *)
(* neither misses a wake-up.                                               *)
(*                                                                         *)
(* What holds of one operator holds of the other: Theirs is all that the   *)
(* modules below prove, with the other one's variables.  What one of them  *)
(* does is to the other a creation made elsewhere (ProvisioningProofs), so *)
(* that each keeps its own invariants, whatever the other one does.        *)
(***************************************************************************)
EXTENDS TwoOperators, ProvisioningProofs

Theirs == INSTANCE ProvisioningProofs
    WITH cache <- otherCache, watch <- otherWatch,
         queue <- otherQueue, notices <- otherNotices, work <- otherWork

------------------------------------------------------------------------------
(* The other operator is one like this one.                                *)

\* It has the same CRs, steps, objects and events.
LEMMA SameConstants ==
    /\ Theirs!Uids = Uids
    /\ Theirs!Controllers = Controllers
    /\ \A c : Theirs!StepNumbers(c) = StepNumbers(c)
    /\ \A cr, i : Theirs!StepKey(cr, i) = StepKey(cr, i)
    /\ Theirs!Dependents = Dependents
    /\ Theirs!ObjectKeys = ObjectKeys
    /\ \A k : Theirs!CreatorsOf(k) = CreatorsOf(k)
    /\ \A c : Theirs!PassesOf(c) = PassesOf(c)
    /\ Theirs!Kinds = Kinds
    /\ Theirs!FaultKinds = FaultKinds
    /\ \A o, gone : Theirs!Event(o, gone) = Event(o, gone)
    /\ \A e : Theirs!Outcome(e) = Outcome(e)
    /\ \A k, o : Theirs!Concerned(k, o) = Concerned(k, o)
    /\ \A owner : Theirs!Alive(owner) <=> Alive(owner)
  <1>1. Theirs!Uids = Uids /\ Theirs!Controllers = Controllers /\ Theirs!Kinds = Kinds
    BY DEF Theirs!Uids, Uids, Theirs!Controllers, Controllers, Theirs!Kinds, Kinds
  <1>2. /\ \A c : Theirs!StepNumbers(c) = StepNumbers(c)
        /\ \A cr, i : Theirs!StepKey(cr, i) = StepKey(cr, i)
    BY DEF Theirs!StepNumbers, StepNumbers, Theirs!StepKey, StepKey
  <1>3. Theirs!Dependents = Dependents
    BY <1>2 DEF Theirs!Dependents, Dependents
  <1>4. Theirs!ObjectKeys = ObjectKeys
    BY <1>3 DEF Theirs!ObjectKeys, ObjectKeys
  <1>5. \A k : Theirs!CreatorsOf(k) = CreatorsOf(k)
    BY <1>2 DEF Theirs!CreatorsOf, CreatorsOf
  <1>6. \A c : Theirs!PassesOf(c) = PassesOf(c)
    BY <1>1, <1>2 DEF Theirs!PassesOf, PassesOf
  <1>7. /\ Theirs!FaultKinds = FaultKinds
        /\ \A o, gone : Theirs!Event(o, gone) = Event(o, gone)
        /\ \A e : Theirs!Outcome(e) = Outcome(e)
        /\ \A owner : Theirs!Alive(owner) <=> Alive(owner)
    BY DEF Theirs!FaultKinds, FaultKinds, Theirs!Event, Event, Theirs!Outcome, Outcome,
           Theirs!Alive, Alive
  <1>8. \A k, o : Theirs!Concerned(k, o) = Concerned(k, o)
    BY DEF Theirs!Concerned, Concerned
  <1> QED BY <1>1, <1>2, <1>3, <1>4, <1>5, <1>6, <1>7, <1>8

\* So what is assumed of this one holds of the other one.
LEMMA Assumptions ==
    /\ Theirs!BoundsAssumption /\ Theirs!KeysAssumption /\ Theirs!NoneAssumption
    /\ Theirs!StepsAssumption /\ Theirs!FaultsAssumption
  <1>1. Theirs!BoundsAssumption
    BY BoundsAssumption DEF Theirs!BoundsAssumption
  <1>2. Theirs!IsFiniteSet(Keys)
    BY KeysAssumption DEF IsFiniteSet, Theirs!IsFiniteSet
  <1>3. Theirs!ObjectValues = ObjectValues
    BY SameConstants DEF Theirs!ObjectValues, ObjectValues
  <1>4. Theirs!KeysAssumption
    BY <1>2, <1>3, SameConstants, KeysAssumption DEF Theirs!KeysAssumption
  <1>5. Theirs!NoneAssumption
    BY SameConstants, NoneAssumption DEF Theirs!NoneAssumption
  <1>6. Theirs!StepsAssumption
    BY SameConstants, StepsAssumption DEF Theirs!StepsAssumption
  <1>7. Theirs!FaultsAssumption
    BY SameConstants, FaultsAssumption DEF Theirs!FaultsAssumption
  <1> QED BY <1>1, <1>4, <1>5, <1>6, <1>7

\* And so does what MissingObjectsAreNoticed needs.
LEMMA SameConditions ==
    /\ WatchedUnshared => Theirs!WatchedUnshared
    /\ LossesAreTold => Theirs!LossesAreTold
  BY SameConstants DEF WatchedUnshared, Theirs!WatchedUnshared, LossesAreTold, Theirs!LossesAreTold

\* The module of its proofs speaks of the other one as TwoOperators does.
LEMMA SameInit ==
    ASSUME Other!Init
    PROVE  Theirs!Init
  BY DEF Other!Init, Theirs!Init, Other!KubeInit, Theirs!KubeInit, Other!Controllers,
         Theirs!Controllers, Other!Uids, Theirs!Uids

\* The same of its informers.
LEMMA SameInformers ==
    ASSUME Other!InformerStep
    PROVE  Theirs!InformerStep
  <1>1. ASSUME NEW k \in Keys, Other!Deliver(k) PROVE Theirs!Deliver(k)
    BY <1>1 DEF Other!Deliver, Theirs!Deliver, Other!Receive, Theirs!Receive, Other!Outcome,
                Theirs!Outcome, Other!Woken, Theirs!Woken, Other!Concerned, Theirs!Concerned,
                Other!kubeVars, Theirs!kubeVars, Other!workVars, Theirs!workVars,
                Other!boundVars, Theirs!boundVars, Other!historyVars, Theirs!historyVars
  <1>2. ASSUME NEW kind, Other!Resync(kind) PROVE Theirs!Resync(kind)
    BY <1>2 DEF Other!Resync, Theirs!Resync, Other!Concerned, Theirs!Concerned, Other!kubeVars,
                Theirs!kubeVars, Other!workVars, Theirs!workVars, Other!boundVars,
                Theirs!boundVars, Other!historyVars, Theirs!historyVars
  <1>3. ASSUME NEW kind, Other!BrokenWatch(kind) PROVE Theirs!BrokenWatch(kind)
    BY <1>3 DEF Other!BrokenWatch, Theirs!BrokenWatch, Other!Fault, Theirs!Fault, Other!Rewatch,
                Theirs!Rewatch, Other!Rewatched, Theirs!Rewatched, Other!Resent, Theirs!Resent,
                Other!Outcome, Theirs!Outcome, Other!Event, Theirs!Event, Other!kubeVars,
                Theirs!kubeVars, Other!workVars, Theirs!workVars, Other!boundVars,
                Theirs!boundVars, Other!historyVars, Theirs!historyVars
  <1>4. ASSUME NEW cr \in CRs, Other!Notify(cr) PROVE Theirs!Notify(cr)
    BY <1>4 DEF Other!Notify, Theirs!Notify, Other!kubeVars, Theirs!kubeVars, Other!workVars,
                Theirs!workVars, Other!boundVars, Theirs!boundVars, Other!historyVars,
                Theirs!historyVars
  <1> QED BY <1>1, <1>2, <1>3, <1>4 DEF Other!InformerStep, Theirs!InformerStep, Other!Kinds,
                                        Theirs!Kinds

\* The same of its workers.
LEMMA SameWorkers ==
    ASSUME Other!WorkerStep
    PROVE  Theirs!WorkerStep
  <1>1. ASSUME NEW cr \in CRs, Other!BeginPass(cr) PROVE Theirs!BeginPass(cr)
    BY <1>1 DEF Other!BeginPass, Theirs!BeginPass, Other!kubeVars, Theirs!kubeVars,
                Other!workVars, Theirs!workVars, Other!boundVars, Theirs!boundVars,
                Other!historyVars, Theirs!historyVars
  <1>2. ASSUME NEW c, Other!FindObject(c) PROVE Theirs!FindObject(c)
    BY <1>2 DEF Other!FindObject, Theirs!FindObject, Other!Target, Theirs!Target, Other!Built,
                Theirs!Built, Other!StepKey, Theirs!StepKey, Other!Advance, Theirs!Advance,
                Other!kubeVars, Theirs!kubeVars, Other!workVars, Theirs!workVars,
                Other!boundVars, Theirs!boundVars, Other!historyVars, Theirs!historyVars
  <1>3. ASSUME NEW c, Other!MissObject(c) PROVE Theirs!MissObject(c)
    BY <1>3 DEF Other!MissObject, Theirs!MissObject, Other!Target, Theirs!Target, Other!Built,
                Theirs!Built, Other!StepKey, Theirs!StepKey, Other!kubeVars, Theirs!kubeVars,
                Other!workVars, Theirs!workVars, Other!boundVars, Theirs!boundVars,
                Other!historyVars, Theirs!historyVars
  <1>4. ASSUME NEW c, Other!CreateObject(c) PROVE Theirs!CreateObject(c)
    BY <1>4 DEF Other!CreateObject, Theirs!CreateObject, Other!Target, Theirs!Target,
                Other!Built, Theirs!Built, Other!StepKey, Theirs!StepKey, Other!Creating,
                Theirs!Creating, Other!Owned, Theirs!Owned, Other!Write, Theirs!Write,
                Other!Event, Theirs!Event, Other!Advance, Theirs!Advance, Other!kubeVars,
                Theirs!kubeVars, Other!workVars, Theirs!workVars, Other!boundVars,
                Theirs!boundVars, Other!historyVars, Theirs!historyVars
  <1>5. ASSUME NEW c, Other!FailToBuild(c) PROVE Theirs!FailToBuild(c)
    BY <1>5 DEF Other!FailToBuild, Theirs!FailToBuild, Other!Target, Theirs!Target, Other!Built,
                Theirs!Built, Other!StepKey, Theirs!StepKey, Other!Creating, Theirs!Creating,
                Other!Fail, Theirs!Fail, Other!kubeVars, Theirs!kubeVars, Other!workVars,
                Theirs!workVars, Other!boundVars, Theirs!boundVars, Other!historyVars,
                Theirs!historyVars
  <1>6. ASSUME NEW c, Other!Conflict(c) PROVE Theirs!Conflict(c)
    BY <1>6 DEF Other!Conflict, Theirs!Conflict, Other!Target, Theirs!Target, Other!Built,
                Theirs!Built, Other!StepKey, Theirs!StepKey, Other!Creating, Theirs!Creating,
                Other!Fail, Theirs!Fail, Other!kubeVars, Theirs!kubeVars, Other!workVars,
                Theirs!workVars, Other!boundVars, Theirs!boundVars, Other!historyVars,
                Theirs!historyVars
  <1>7. ASSUME NEW c, Other!Rejected(c) PROVE Theirs!Rejected(c)
    BY <1>7 DEF Other!Rejected, Theirs!Rejected, Other!Target, Theirs!Target, Other!Built,
                Theirs!Built, Other!StepKey, Theirs!StepKey, Other!Creating, Theirs!Creating,
                Other!Fault, Theirs!Fault, Other!Fail, Theirs!Fail, Other!kubeVars,
                Theirs!kubeVars, Other!workVars, Theirs!workVars, Other!boundVars,
                Theirs!boundVars, Other!historyVars, Theirs!historyVars
  <1>8. ASSUME NEW c, Other!ReplyLost(c) PROVE Theirs!ReplyLost(c)
    BY <1>8 DEF Other!ReplyLost, Theirs!ReplyLost, Other!Target, Theirs!Target, Other!Built,
                Theirs!Built, Other!StepKey, Theirs!StepKey, Other!Creating, Theirs!Creating,
                Other!Owned, Theirs!Owned, Other!Write, Theirs!Write, Other!Event, Theirs!Event,
                Other!Fault, Theirs!Fault, Other!Fail, Theirs!Fail, Other!kubeVars,
                Theirs!kubeVars, Other!workVars, Theirs!workVars, Other!boundVars,
                Theirs!boundVars, Other!historyVars, Theirs!historyVars
  <1>9. ASSUME NEW cr \in CRs, Other!ReadFails(cr) PROVE Theirs!ReadFails(cr)
    BY <1>9 DEF Other!ReadFails, Theirs!ReadFails, Other!Fault, Theirs!Fault, Other!kubeVars,
                Theirs!kubeVars, Other!workVars, Theirs!workVars, Other!historyVars,
                Theirs!historyVars
  <1>10. ASSUME NEW c, Other!LookupFails(c) PROVE Theirs!LookupFails(c)
    BY <1>10 DEF Other!LookupFails, Theirs!LookupFails, Other!Fault, Theirs!Fault, Other!Fail,
                 Theirs!Fail, Other!kubeVars, Theirs!kubeVars, Other!historyVars,
                 Theirs!historyVars
  <1> QED BY <1>1, <1>2, <1>3, <1>4, <1>5, <1>6, <1>7, <1>8, <1>9, <1>10
          DEF Other!WorkerStep, Theirs!WorkerStep, Other!PassStep, Theirs!PassStep,
              Other!Controllers, Theirs!Controllers

\* The same of its restarts.
LEMMA SameRestart ==
    ASSUME Other!Restart
    PROVE  Theirs!Restart
  BY DEF Other!Restart, Theirs!Restart, Other!Fault, Theirs!Fault, Other!Relist, Theirs!Relist,
         Other!Concerned, Theirs!Concerned, Other!Controllers, Theirs!Controllers,
         Other!Cardinality, Theirs!Cardinality, Other!IsFiniteSet, Theirs!IsFiniteSet,
         Other!kubeVars, Theirs!kubeVars, Other!workVars, Theirs!workVars, Other!boundVars,
         Theirs!boundVars, Other!historyVars, Theirs!historyVars

\* The same of what it notices.
LEMMA SameNotice == Theirs!MissingIsNoticed => Other!MissingIsNoticed
  BY DEF Other!MissingIsNoticed, Theirs!MissingIsNoticed, Other!StepNumbers, Theirs!StepNumbers,
         Other!StepKey, Theirs!StepKey, Other!Repairable, Theirs!Repairable, Other!Waking,
         Theirs!Waking, Other!EventPending, Theirs!EventPending

------------------------------------------------------------------------------
(* What is heard of a step.                                                *)

\* Of a write its event is heard, if there is room for it.
LEMMA HeardWrite ==
    ASSUME DOMAIN store = Keys, NEW k \in Keys, NEW o \in Values[k],
           store[k] # o, store' = [store EXCEPT ![k] = o],
           NEW S, DOMAIN S = Keys, S[k] \in Seq(EventsOf(k)), Len(Heard(S)[k]) <= MaxLag
    PROVE  /\ Heard(S) = [S EXCEPT ![k] = Append(@, Event(o, FALSE))]
           /\ Len(S[k]) < MaxLag
  <1>1. store'[k] = o /\ o # None /\ \A j \in Keys : j # k => store'[j] = store[j]
    BY NoneAssumption
  <1>2. Heard(S) = [S EXCEPT ![k] = Append(@, Event(o, FALSE))]
    BY <1>1 DEF Heard
  <1>3. Heard(S)[k] = Append(S[k], Event(o, FALSE)) /\ Event(o, FALSE) \in EventsOf(k)
    BY <1>2, EventTyped
  <1>4. Len(Heard(S)[k]) = Len(S[k]) + 1 /\ Len(S[k]) \in Nat
    BY <1>3, AppendProperties, LenProperties
  <1> QED BY <1>2, <1>4, BoundsAssumption

\* So it is of a deletion.
LEMMA HeardRemoval ==
    ASSUME DOMAIN store = Keys, NEW k \in Keys, store[k] \in Values[k],
           store[k] # None, store' = [store EXCEPT ![k] = None],
           NEW S, DOMAIN S = Keys, S[k] \in Seq(EventsOf(k)), Len(Heard(S)[k]) <= MaxLag
    PROVE  /\ Heard(S) = [S EXCEPT ![k] = Append(@, Event(store[k], TRUE))]
           /\ Len(S[k]) < MaxLag
  <1>1. store'[k] = None /\ \A j \in Keys : j # k => store'[j] = store[j]
    OBVIOUS
  <1>2. Heard(S) = [S EXCEPT ![k] = Append(@, Event(store[k], TRUE))]
    BY <1>1 DEF Heard
  <1>3. Heard(S)[k] = Append(S[k], Event(store[k], TRUE)) /\ Event(store[k], TRUE) \in EventsOf(k)
    BY <1>2, EventTyped
  <1>4. Len(Heard(S)[k]) = Len(S[k]) + 1 /\ Len(S[k]) \in Nat
    BY <1>3, AppendProperties, LenProperties
  <1> QED BY <1>2, <1>4, BoundsAssumption

\* To the other operator a write by anyone is a write,
LEMMA OtherHearsWrite ==
    ASSUME Theirs!TypeOK, OtherHears, NEW k \in Keys, NEW o \in Values[k],
           store[k] # o, store' = [store EXCEPT ![k] = o]
    PROVE  Theirs!Write(k, o)
  <1>1. DOMAIN store = Keys /\ DOMAIN otherWatch = Keys /\ otherWatch[k] \in Seq(EventsOf(k))
    BY DEF Theirs!TypeOK, Theirs!KubeTypeOK, Theirs!EventsOf, EventsOf
  <1>2. /\ otherWatch' = [otherWatch EXCEPT ![k] = Append(@, Event(o, FALSE))]
        /\ Len(otherWatch[k]) < MaxLag
    BY <1>1, HeardWrite DEF OtherHears, Hear
  <1> QED BY <1>2, SameConstants DEF Theirs!Write, OtherHears

\* and a deletion a deletion.
LEMMA OtherHearsRemoval ==
    ASSUME Theirs!TypeOK, OtherHears, NEW k \in Keys,
           store[k] # None, store' = [store EXCEPT ![k] = None]
    PROVE  Theirs!Remove(k)
  <1>1. /\ DOMAIN store = Keys /\ store[k] \in Values[k]
        /\ DOMAIN otherWatch = Keys /\ otherWatch[k] \in Seq(EventsOf(k))
    BY DEF Theirs!TypeOK, Theirs!KubeTypeOK, Theirs!EventsOf, EventsOf
  <1>2. /\ otherWatch' = [otherWatch EXCEPT ![k] = Append(@, Event(store[k], TRUE))]
        /\ Len(otherWatch[k]) < MaxLag
    BY <1>1, HeardRemoval DEF OtherHears, Hear
  <1> QED BY <1>2, SameConstants DEF Theirs!Remove, OtherHears

\* To this one, too, a write is a write.
LEMMA OneHearsWrite ==
    ASSUME TypeOK, OneHears, NEW k \in Keys, NEW o \in Values[k],
           store[k] # o, store' = [store EXCEPT ![k] = o]
    PROVE  Write(k, o)
  <1>1. DOMAIN store = Keys /\ DOMAIN watch = Keys /\ watch[k] \in Seq(EventsOf(k))
    BY DEF TypeOK, KubeTypeOK
  <1>2. /\ watch' = [watch EXCEPT ![k] = Append(@, Event(o, FALSE))]
        /\ Len(watch[k]) < MaxLag
    BY <1>1, HeardWrite DEF OneHears, Hear
  <1> QED BY <1>2 DEF Write, OneHears

\* So what users and the garbage collector do is done to the other operator as well.
LEMMA ObjectStepHeard ==
    ASSUME Theirs!TypeOK, ObjectStep, OtherHears
    PROVE  Theirs!Next
  <1>0. /\ UNCHANGED <<otherCache, otherQueue, otherNotices, otherWork>>
        /\ Dependents \subseteq Keys /\ CRs \subseteq Keys
        /\ nextUid \in 1..(MaxUid + 1)
        /\ \A j \in Keys : store[j] \in Values[j] \cup {None}
    BY KeyFacts DEF OtherHears, Theirs!TypeOK, Theirs!KubeTypeOK
  <1>1. ASSUME NEW cr \in CRs, NEW spec \in Specs[cr.kind], CreateCR(cr, spec)
        PROVE  Theirs!CreateCR(cr, spec)
    <2>1. nextUid \in Uids
      BY <1>0, <1>1 DEF CreateCR, Uids
    <2>2. [uid |-> nextUid, spec |-> spec] \in Values[cr]
      BY <2>1, CRValue
    <2>3. Theirs!Write(cr, [uid |-> nextUid, spec |-> spec])
      BY <1>0, <1>1, <2>2, OtherHearsWrite, NoneAssumption DEF CreateCR, Write
    <2> QED BY <1>0, <1>1, <2>3 DEF CreateCR, Theirs!CreateCR, Theirs!workVars
  <1>2. ASSUME NEW cr \in CRs, NEW spec \in Specs[cr.kind], EditCR(cr, spec)
        PROVE  Theirs!EditCR(cr, spec)
    <2>1. store[cr].uid \in Uids
      BY <1>0, <1>2, CRValue DEF EditCR
    <2> DEFINE o == [uid |-> store[cr].uid, spec |-> spec]
    <2>2. o \in Values[cr] /\ o # store[cr]
      <3>1. o.spec # store[cr].spec
        BY <1>2 DEF EditCR
      <3> QED BY <2>1, <3>1, CRValue
    <2>3. Theirs!Write(cr, o)
      BY <1>0, <1>2, <2>2, OtherHearsWrite DEF EditCR, Write
    <2> QED BY <1>0, <1>2, <2>3 DEF EditCR, Theirs!EditCR, Theirs!workVars
  <1>3. ASSUME NEW cr \in CRs, DeleteCR(cr) PROVE Theirs!DeleteCR(cr)
    <2>1. Theirs!Remove(cr)
      BY <1>0, <1>3, OtherHearsRemoval DEF DeleteCR, Remove
    <2> QED BY <1>0, <1>3, <2>1 DEF DeleteCR, Theirs!DeleteCR, Theirs!workVars,
            boundVars, Theirs!boundVars, historyVars, Theirs!historyVars
  <1>4. ASSUME NEW k \in Dependents, GarbageCollect(k) PROVE Theirs!GarbageCollect(k)
    <2>1. Theirs!Remove(k)
      BY <1>0, <1>4, OtherHearsRemoval DEF GarbageCollect, Remove
    <2> QED BY <1>0, <1>4, <2>1, SameConstants DEF GarbageCollect, Theirs!GarbageCollect,
            Theirs!workVars, boundVars, Theirs!boundVars
  <1>5. ASSUME NEW k \in Dependents, OutsideDelete(k) PROVE Theirs!OutsideDelete(k)
    <2>1. Theirs!Remove(k)
      BY <1>0, <1>5, OtherHearsRemoval DEF OutsideDelete, Remove
    <2> QED BY <1>0, <1>5, <2>1 DEF OutsideDelete, Theirs!OutsideDelete,
            Fault, Theirs!Fault, Theirs!workVars
  <1> QED BY <1>1, <1>2, <1>3, <1>4, <1>5, SameConstants
          DEF ObjectStep, UserStep, ClusterStep, Theirs!Next, Theirs!UserStep,
              Theirs!ClusterStep

------------------------------------------------------------------------------
(* What one operator does is to the other one done elsewhere.              *)

\* Both of them promise the same,
LEMMA SamePromise ==
    /\ Theirs!Promised!OperatorStep <=> Promised!OperatorStep
    /\ Theirs!providedVars = providedVars
  BY DEF Theirs!Promised!OperatorStep, Promised!OperatorStep, Theirs!Promised!Provide,
         Promised!Provide, Theirs!Promised!Uids, Promised!Uids, Theirs!Promised!StepNumbers,
         Promised!StepNumbers, Theirs!Promised!StepKey, Promised!StepKey,
         Theirs!Promised!Existed, Promised!Existed, Theirs!providedVars, providedVars

\* which is to write an object that is not there.
LEMMA PromisedWrite ==
    ASSUME Promised!OperatorStep, DOMAIN store = Keys
    PROVE  \E k \in Dependents : \E o \in Values[k] :
               store[k] # o /\ store' = [store EXCEPT ![k] = o]
  <1>1. PICK cr \in CRs, uid \in Uids : \E i \in StepNumbers(cr.kind), spec \in Specs[cr.kind] :
            Promised!Provide(cr, i, uid, spec)
    BY SameDeployments DEF Promised!OperatorStep
  <1>2. PICK i \in StepNumbers(cr.kind), spec \in Specs[cr.kind] :
            Promised!Provide(cr, i, uid, spec)
    BY <1>1
  <1> DEFINE k == StepKey(cr, i)
             data == Build(cr, Steps[cr.kind][i], spec)
             o == [owner |-> [cr |-> cr, uid |-> uid], data |-> data]
  <1>3. store[k] = None /\ data # None /\ store' = [store EXCEPT ![k] = o]
    BY <1>2, SameDeployments DEF Promised!Provide
  <1>4. k \in Dependents /\ k \in Keys /\ cr.kind \in Controllers /\ cr \in CreatorsOf(k)
    BY KeyFacts DEF CreatorsOf
  <1>5. o \in Values[k]
    <2>1. data \in Data
      BY <1>3, <1>4, StepsAssumption
    <2> QED BY <1>4, <2>1, DependentValue
  <1> HIDE DEF k, o
  <1> QED BY <1>3, <1>4, <1>5, NoneAssumption

\* What the other operator does is heard by this one,
LEMMA OneHearsOther ==
    ASSUME TypeOK, Theirs!ObjectsKept, OtherStep, OneHears
    PROVE  Elsewhere
  <1>1. /\ Promised!OperatorStep \/ UNCHANGED providedVars
        /\ edits' = edits /\ faults' \in faults..MaxFaults
    <2>1. Theirs!InformerStep \/ Theirs!WorkerStep \/ Theirs!Restart
      BY SameInformers, SameWorkers, SameRestart DEF OtherStep
    <2>2. /\ Theirs!Promised!OperatorStep \/ UNCHANGED Theirs!providedVars
          /\ edits' = edits /\ faults' \in faults..MaxFaults
      BY <2>1, Assumptions, Theirs!StepElsewhere
    <2> QED BY <2>2, SamePromise DEF providedVars, Theirs!providedVars
  <1>2. DOMAIN store = Keys /\ DOMAIN watch = Keys /\ UNCHANGED <<cache, workVars>>
    BY DEF TypeOK, KubeTypeOK, OneHears
  <1>3. ASSUME Promised!OperatorStep PROVE CreatedElsewhere
    <2>1. PICK k \in Dependents : \E o \in Values[k] :
              store[k] # o /\ store' = [store EXCEPT ![k] = o]
      BY <1>2, <1>3, PromisedWrite
    <2>2. PICK o \in Values[k] : store[k] # o /\ store' = [store EXCEPT ![k] = o]
      BY <2>1
    <2>3. k \in Keys
      BY KeyFacts
    <2>4. store'[k] = o
      BY <1>2, <2>2, <2>3
    <2>5. Write(k, store'[k])
      BY <2>2, <2>3, <2>4, OneHearsWrite
    <2> QED BY <1>3, <2>5 DEF CreatedElsewhere
  <1>4. ASSUME UNCHANGED providedVars PROVE IdleElsewhere
    BY <1>2, <1>4 DEF providedVars, IdleElsewhere, OneHears, Hear, Heard
  <1> QED BY <1>1, <1>2, <1>3, <1>4 DEF Elsewhere

\* and the other way round.
LEMMA OtherHearsOne ==
    ASSUME Theirs!TypeOK, ObjectsKept, OneStep, OtherHears
    PROVE  Theirs!Elsewhere
  <1>1. /\ Promised!OperatorStep \/ UNCHANGED providedVars
        /\ edits' = edits /\ faults' \in faults..MaxFaults
    BY StepElsewhere DEF OneStep
  <1>2. /\ DOMAIN store = Keys /\ DOMAIN otherWatch = Keys
        /\ UNCHANGED <<otherCache, Theirs!workVars>>
    BY DEF Theirs!TypeOK, Theirs!KubeTypeOK, OtherHears, Theirs!workVars
  <1>3. ASSUME Promised!OperatorStep PROVE Theirs!CreatedElsewhere
    <2>1. PICK k \in Dependents : \E o \in Values[k] :
              store[k] # o /\ store' = [store EXCEPT ![k] = o]
      BY <1>2, <1>3, PromisedWrite
    <2>2. PICK o \in Values[k] : store[k] # o /\ store' = [store EXCEPT ![k] = o]
      BY <2>1
    <2>3. k \in Keys
      BY KeyFacts
    <2>4. store'[k] = o
      BY <1>2, <2>2, <2>3
    <2>5. Theirs!Write(k, store'[k])
      BY <2>2, <2>3, <2>4, OtherHearsWrite
    <2> QED BY <1>3, <2>5, SameConstants, SamePromise DEF Theirs!CreatedElsewhere
  <1>4. ASSUME UNCHANGED providedVars PROVE Theirs!IdleElsewhere
    BY <1>2, <1>4 DEF providedVars, Theirs!providedVars, Theirs!IdleElsewhere, OtherHears,
                      Hear, Heard
  <1> QED BY <1>1, <1>2, <1>3, <1>4 DEF Theirs!Elsewhere

\* So every step is for each of them one it takes or one taken elsewhere; and it is
\* one that Provisioning allows.
LEMMA BothSteps ==
    ASSUME ObjectsKept, Theirs!ObjectsKept, [BothNext]_bothVars
    PROVE  /\ [Next]_vars \/ Elsewhere
           /\ [Theirs!Next]_Theirs!vars \/ Theirs!Elsewhere
           /\ [Promised!Next]_Promised!vars
  <1>0. TypeOK /\ Theirs!TypeOK
    BY DEF ObjectsKept, Theirs!ObjectsKept
  <1>1. CASE ObjectStep /\ OtherHears
    <2>1. Next
      BY <1>1 DEF ObjectStep, Next
    <2> QED BY <1>0, <1>1, <2>1, ObjectStepHeard, StepMaps DEF ObjectsKept
  <1>2. CASE OneStep /\ OtherHears
    <2>1. Next
      BY <1>2 DEF OneStep, Next
    <2> QED BY <1>0, <1>2, <2>1, OtherHearsOne, StepMaps DEF ObjectsKept
  <1>3. CASE OtherStep /\ OneHears
    <2>1. Elsewhere
      BY <1>0, <1>3, OneHearsOther
    <2>2. Theirs!Next
      BY <1>3, SameInformers, SameWorkers, SameRestart DEF OtherStep, Theirs!Next
    <2>3. [Promised!Next]_Promised!vars
      BY <2>1 DEF Elsewhere, CreatedElsewhere, IdleElsewhere, providedVars, Promised!vars,
                  Promised!Next
    <2> QED BY <2>1, <2>2, <2>3
  <1>4. CASE UNCHANGED bothVars
    BY <1>4 DEF bothVars, otherVars, vars, kubeVars, workVars, boundVars, historyVars,
                Theirs!vars, Theirs!kubeVars, Theirs!workVars, Theirs!boundVars,
                Theirs!historyVars, Promised!vars
  <1> QED BY <1>1, <1>2, <1>3, <1>4 DEF BothNext

------------------------------------------------------------------------------
(* The theorems.                                                           *)

\* Each keeps its invariants.
LEMMA BothKept == BothSpec => [](ObjectsKept /\ Theirs!ObjectsKept)
  <1>1. BothInit => ObjectsKept /\ Theirs!ObjectsKept
    BY InitKept, SameInit, Assumptions, Theirs!InitKept DEF BothInit
  <1>2. /\ ObjectsKept /\ Theirs!ObjectsKept /\ [BothNext]_bothVars
        => (ObjectsKept /\ Theirs!ObjectsKept)'
    BY BothSteps, NextKept, Assumptions, Theirs!NextKept
  <1> QED BY <1>1, <1>2, PTL DEF BothSpec

\* Two operators at work on the same objects, neither knowing of the other, do to
\* these only what one may do: an object that is there is never replaced, and each is
\* created in its turn, from a spec of the CR that owns it.
THEOREM TwoOperatorsProvision == BothSpec => BothProvision
  <1>1. BothInit => Promised!Init
    BY InitMaps DEF BothInit
  <1>2. ObjectsKept /\ Theirs!ObjectsKept /\ [BothNext]_bothVars
        => [Promised!Next]_Promised!vars
    BY BothSteps
  <1> QED BY <1>1, <1>2, BothKept, PTL DEF BothSpec, BothProvision, Provisions, Promised!Spec

\* Neither misses a wake-up because the other one was faster.
THEOREM TwoOperatorsNotice ==
    ASSUME WatchedUnshared, LossesAreTold
    PROVE  BothSpec => []BothNotice
  <1>0. Theirs!WatchedUnshared /\ Theirs!LossesAreTold
    BY SameConditions
  <1>1. BothInit => NoticeInv /\ Theirs!NoticeInv
    BY InitKept, SameInit, Assumptions, Theirs!InitKept DEF BothInit
  <1>2. /\ ObjectsKept /\ Theirs!ObjectsKept /\ NoticeInv /\ Theirs!NoticeInv
        /\ [BothNext]_bothVars
        => (NoticeInv /\ Theirs!NoticeInv)'
    BY <1>0, BothSteps, NoticeKept, Assumptions, Theirs!NoticeKept
  <1>3. NoticeInv /\ Theirs!NoticeInv => BothNotice
    BY SameNotice DEF NoticeInv, Theirs!NoticeInv, BothNotice
  <1> QED BY <1>1, <1>2, <1>3, BothKept, PTL DEF BothSpec

==============================================================================
